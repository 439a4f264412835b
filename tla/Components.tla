----------------------------- MODULE Components -----------------------------
(***************************************************************************)
(* The components of the packages, and what every method of one does       *)
(* before anything else: it checks that the component has all its parts,   *)
(* then chains the component's runtime options and those of the call.      *)
(***************************************************************************)
EXTENDS Constructors, Integers

Jwt == INSTANCE JwtConfig
Client == INSTANCE ClientCredentialsConfig
Request == INSTANCE TokenRequestConfig
Response == INSTANCE TokenResponseConfig

(* The components a component is made of: which field holds which kind *)
PartKinds(kind) ==
    CASE kind = "jwt.Reader" -> [decoder |-> "jwt.Decoder"]
      [] kind = "jwt.Writer" -> [encoder |-> "jwt.Encoder"]
      [] kind = "jwt.Authenticator" ->
            [reader |-> "jwt.Reader", validator |-> "jwt.Validator", resolver |-> "jwt.Resolver"]
      [] kind = "clientcredentials.Reader" -> [tokenDecoder |-> "jwt.Decoder"]
      [] kind = "clientcredentials.Writer" -> [tokenEncoder |-> "jwt.Encoder"]
      [] kind = "clientcredentials.Validator" -> [tokenValidator |-> "jwt.Validator"]
      [] kind = "clientcredentials.Authenticator" ->
            [reader |-> "clientcredentials.Reader", validator |-> "clientcredentials.Validator",
             resolver |-> "clientcredentials.Resolver"]
      [] kind = "tokenrequest.Reader" ->
            [clientCredentialsReader |-> "clientcredentials.Reader",
             tokenDecoder |-> "jwt.Decoder", assertionTokenDecoder |-> "jwt.Decoder"]
      [] kind = "tokenrequest.Writer" ->
            [clientCredentialsWriter |-> "clientcredentials.Writer",
             tokenEncoder |-> "jwt.Encoder", assertionTokenEncoder |-> "jwt.Encoder"]
      [] kind = "tokenrequest.Validator" ->
            [clientCredentialsValidator |-> "clientcredentials.Validator",
             refreshTokenValidator |-> "jwt.Validator",
             assertionTokenValidator |-> "jwt.Validator"]
      [] kind = "tokenrequest.Resolver" -> [clientResolver |-> "clientcredentials.Resolver"]
      [] kind = "tokenrequest.Authenticator" ->
            [reader |-> "tokenrequest.Reader", validator |-> "tokenrequest.Validator",
             resolver |-> "tokenrequest.Resolver"]
      [] kind = "tokenresponse.Encoder" -> [tokenEncoder |-> "jwt.Encoder"]
      [] kind = "tokenresponse.Writer" -> [encoder |-> "tokenresponse.Encoder"]
      [] kind = "tokenresponse.Decoder" -> [tokenDecoder |-> "jwt.Decoder"]
      [] kind = "tokenresponse.Reader" -> [decoder |-> "tokenresponse.Decoder"]
      [] kind = "tokenresponse.Validator" ->
            [accessTokenValidator |-> "jwt.Validator", refreshTokenValidator |-> "jwt.Validator",
             idTokenValidator |-> "jwt.Validator"]
      [] OTHER -> [part \in {} |-> ""]

Parts(component) == DOMAIN PartKinds(component.is)
PartsOf(components) == UNION {{c[part] : part \in Parts(c) \cap DOMAIN c} : c \in components}

(* A component with its parts, and theirs, and so on: four deep at most *)
Reached(component) ==
    LET parts == PartsOf({component})
        partsOfParts == PartsOf(parts)
    IN  {component} \cup parts \cup partsOfParts \cup PartsOf(partsOfParts)

(* The limits and lists a component cannot do without *)
LimitsOf(kind) ==
    CASE kind = "jwt.Decoder" ->
            {"maxTokenBytes", "maxHeaderBytes", "maxClaimsBytes", "maxSignatureBytes"}
      [] kind \in {"clientcredentials.Reader", "tokenrequest.Reader", "tokenresponse.Reader"} ->
            {"maxBodyBytes"}
      [] kind = "tokenresponse.Decoder" -> {"maxPayloadBytes"}
      [] OTHER -> {}

ListsOf(kind) ==
    CASE kind = "clientcredentials.Validator" -> {"allowedMethods"}
      [] kind = "tokenrequest.Validator" -> {"allowedGrantTypes"}
      [] kind = "tokenresponse.Validator" -> {"allowedTokenTypes"}
      [] OTHER -> {}

(***************************************************************************)
(* The check at the head of a method; a field that is not there has its    *)
(* zero value.  Two of the parts are looked at only where they are needed. *)
(***************************************************************************)
Incomplete(c) ==
    \/ \E part \in Parts(c) : part \notin DOMAIN c \/ c[part] = Nil
    \/ \E limit \in LimitsOf(c.is) : limit \notin DOMAIN c \/ c[limit] <= 0
    \/ \E list \in ListsOf(c.is) : list \notin DOMAIN c

(* Nothing in the component is nil, and what is incomplete was left so on purpose *)
Sound(component, zeros) ==
    \A c \in Reached(component) : c # Nil /\ (c \in zeros \/ ~Incomplete(c))

(* What a config option never does to a component of its kind: harm *)
Usable(option, kind, zeros) ==
    option.does = "set" =>
        /\ "is" \notin DOMAIN option.sets
        /\ \A part \in DOMAIN PartKinds(kind) \cap DOMAIN option.sets :
              Sound(option.sets[part], zeros)
        /\ \A limit \in LimitsOf(kind) \cap DOMAIN option.sets : option.sets[limit] \in Nat \ {0}

(* A runtime option is there and returns a function, or one of these *)
Dropping == Named("dropping")
Broken(options) == \E i \in DOMAIN options : options[i] \in {Nil, Dropping}

RuntimeOptions(c) == IF "runtimeOptions" \in DOMAIN c THEN c.runtimeOptions ELSE <<>>

(***************************************************************************)
(* What a method fails with before it does anything.  Authenticate of a    *)
(* jwt.Authenticator checks nothing, so that its zero value panics.        *)
(***************************************************************************)
Call(c, options) ==
    IF c.is = "jwt.Authenticator" /\ Incomplete(c) THEN {"panic"}
    ELSE IF Incomplete(c) \/ Broken(RuntimeOptions(c)) \/ Broken(options) THEN {"Misconfigured"}
    ELSE NoError

(* An Authenticate takes no options *)
TakesOptions(c) == c.is \notin {"jwt.Authenticator", "clientcredentials.Authenticator",
                                "tokenrequest.Authenticator"}
=============================================================================
