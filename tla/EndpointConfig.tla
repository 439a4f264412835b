--------------------------- MODULE EndpointConfig ---------------------------
(***************************************************************************)
(* tokenendpoint.New, step by step: the options the caller gave are        *)
(* applied to the endpoint one after the other, then what they left out    *)
(* gets its default.  The endpoint New returns is the one TokenEndpoint    *)
(* serves with.                                                            *)
(***************************************************************************)
EXTENDS EndpointOptions

CONSTANTS
    Catalogue,      \* the config options a caller may give, by name
    MaxOptions,     \* how many of them it gives
    Authenticators, \* the options of those that are presets.Authenticator
    Signers,        \* those that are presets.Signer
    TokenPresets    \* the options of those that are presets.Tokens

Dependencies == {"requestAuthenticator", "issuer", "responseWriter", "issuerOptionsCallback"}

(* What an option sets is of use: a program hands over no components but whole ones *)
OfUse(option) ==
    option.does = "set" =>
        /\ \A d \in Dependencies \cap DOMAIN option.sets : Sound(option.sets[d], {})
        /\ "issuedTokens" \in DOMAIN option.sets =>
              option.sets["issuedTokens"] \in (SUBSET TokenKinds) \ {{}}

ASSUME CatalogueAssumption ==
    /\ MaxOptions \in Nat
    /\ \A name \in DOMAIN Catalogue \ (DOMAIN Authenticators \cup DOMAIN TokenPresets) :
          OfUse(Catalogue[name])
    /\ DOMAIN Authenticators \cup Signers \cup DOMAIN TokenPresets \subseteq DOMAIN Catalogue
    /\ \A name \in DOMAIN Authenticators :
          /\ AuthenticatorOptions(Authenticators[name])
          /\ Catalogue[name] = Authenticator(Authenticators[name])
    /\ \A name \in DOMAIN TokenPresets :
          TokenOptions(TokenPresets[name]) /\ Catalogue[name] = Tokens(TokenPresets[name])

VARIABLES
    given,     \* configOptions, by name
    next,      \* the index of the option to apply
    endpoint,  \* the TokenEndpoint under construction
    step       \* what New does next

vars == <<given, next, endpoint, step>>

Option(i) == Catalogue[given[i]]

NoEndpoint == [f \in Dependencies \cup {"issuedTokens"} |->
                  IF f = "issuedTokens" THEN {"access_token"} ELSE Nil]

Init ==
    /\ given \in SeqOf(DOMAIN Catalogue, MaxOptions)
    /\ next = 1
    /\ endpoint = NoEndpoint
    /\ step = "options"

(* An option that is nil or returns an error ends the construction *)
RefuseOption ==
    /\ step = "options" /\ next <= Len(given)
    /\ Option(next).does # "set"
    /\ step' = "failed"
    /\ UNCHANGED <<given, next, endpoint>>

(* A mistake: a dependency that is already there is kept *)
ReplaceNil(target, sets) ==
    [f \in DOMAIN target |->
        IF f \in DOMAIN sets /\ (f = "issuedTokens" \/ target[f] = Nil)
        THEN sets[f] ELSE target[f]]

(* What an option sets replaces what was there *)
Replace(target, sets) ==
    [f \in DOMAIN target |-> IF f \in DOMAIN sets THEN sets[f] ELSE target[f]]

ApplyOption ==
    /\ step = "options" /\ next <= Len(given)
    /\ Option(next).does = "set"
    /\ endpoint' = Replace(endpoint, Option(next).sets)
    /\ next' = next + 1
    /\ UNCHANGED <<given, step>>

OptionsApplied ==
    /\ step = "options" /\ next > Len(given)
    /\ step' = "issuerOptionsCallback"
    /\ UNCHANGED <<given, next, endpoint>>

(* A dependency that is still nil gets its default *)
DefaultOf(dependency) ==
    CASE dependency = "issuerOptionsCallback" -> Named("no options")
      [] dependency = "requestAuthenticator" -> Request!NewAuthenticator(<<>>).value
      [] dependency = "issuer" -> Jwt!NewIssuer(<<>>).value
      [] dependency = "responseWriter" -> Response!NewWriter(<<>>).value

(* A mistake: the writer is left without a default *)
AfterIssuer(dependency) ==
    CASE dependency = "issuerOptionsCallback" -> "requestAuthenticator"
      [] dependency = "requestAuthenticator" -> "issuer"
      [] OTHER -> "built"

After(dependency) ==
    CASE dependency = "issuerOptionsCallback" -> "requestAuthenticator"
      [] dependency = "requestAuthenticator" -> "issuer"
      [] dependency = "issuer" -> "responseWriter"
      [] dependency = "responseWriter" -> "built"

Default(dependency) ==
    /\ step = dependency
    /\ endpoint' = IF endpoint[dependency] = Nil
                   THEN [endpoint EXCEPT ![dependency] = DefaultOf(dependency)]
                   ELSE endpoint
    /\ step' = After(dependency)
    /\ UNCHANGED <<given, next>>

Stop == step \in {"built", "failed"} /\ UNCHANGED vars

Next ==
    \/ RefuseOption \/ ApplyOption \/ OptionsApplied
    \/ \E dependency \in Dependencies : Default(dependency)
    \/ Stop

Spec == Init /\ [][Next]_vars

-----------------------------------------------------------------------------
(***************************************************************************)
(* Properties.                                                             *)
(***************************************************************************)
Built == step = "built"

(* The given options that set a field, and the last of them *)
Giving(field) == Setting([i \in DOMAIN given |-> Option(i)], field)
LastGiving(field) == Max(Giving(field))

(***************************************************************************)
(* An endpoint that New returns passes the check at the head of ServeHTTP, *)
(* whatever options it was given: no dependency is nil and some token is   *)
(* issued.  Nor is any component nil in those its options built, down to   *)
(* the token validators and decoders: the checks that every method of a    *)
(* component begins with cannot fail.                                      *)
(***************************************************************************)
Servable ==
    Built =>
        /\ \A d \in Dependencies : Sound(endpoint[d], {})
        /\ endpoint.issuedTokens # {} /\ endpoint.issuedTokens \subseteq TokenKinds

(***************************************************************************)
(* When several options set the same part of the endpoint the last one has *)
(* it (presets/README.md:244), and New fails when any option does.         *)
(***************************************************************************)
LaterOptionWins ==
    /\ Built =>
        /\ ~Faulty([i \in DOMAIN given |-> Option(i)])
        /\ \A f \in DOMAIN endpoint : Giving(f) # {} =>
              endpoint[f] = Option(LastGiving(f)).sets[f]
    /\ step = "failed" => Faulty([i \in DOMAIN given |-> Option(i)])

(***************************************************************************)
(* The authenticator of the preset answers the methods of client           *)
(* authentication that its ClientAuthentication options name, and no       *)
(* others, each with the callback of the FIRST option that names it        *)
(* (presets/authenticator.go:76).  Its validator lets the same methods     *)
(* through, except that a preset without ClientAuthentication restricts    *)
(* nothing (:43): all three methods pass the validator, and none has a     *)
(* callback (clientcredentials/resolver.go:52).                            *)
(***************************************************************************)
Naming(options, method) ==
    {i \in Setting(options, "clientMethods") : options[i].sets["clientMethods"] = method}

EnabledMethodsAreAnswered ==
    Built /\ Giving("requestAuthenticator") # {} =>
        LET authenticator == endpoint.requestAuthenticator
            allowed == authenticator.validator.clientCredentialsValidator.allowedMethods
            resolver == authenticator.resolver.clientResolver
            name == given[LastGiving("requestAuthenticator")]
        IN  name \in DOMAIN Authenticators =>
              LET options == Authenticators[name]
                  enabled == {m \in ClientAuthMethods : Naming(options, m) # {}}
              IN  /\ allowed = IF enabled = {} THEN ClientAuthMethods ELSE enabled
                  /\ \A m \in ClientAuthMethods \ enabled : Client!Answering(resolver, m) = Nil
                  /\ \A m \in enabled :
                        LET first == options[Min(Naming(options, m))].sets IN
                        Client!Answering(resolver, m) = first["clientResolverOptions"].callback

(***************************************************************************)
(* Every token the endpoint issues has a callback that prepares it, as     *)
(* long as its tokens and its callback were set by the same                *)
(* presets.Tokens.                                                         *)
(***************************************************************************)
IssuedTokensArePrepared ==
    Built /\ Giving("issuedTokens") # {} /\ Giving("issuerOptionsCallback") # {} =>
        LET last == LastGiving("issuedTokens") IN
        last = LastGiving("issuerOptionsCallback") /\ given[last] \in DOMAIN TokenPresets =>
            endpoint.issuedTokens =
                {k \in TokenKinds : endpoint.issuerOptionsCallback[k] # Nil}

(***************************************************************************)
(* "Signer attaches a signer to the endpoint's JWT issuer": that issuer    *)
(* has the signer and is otherwise the one it was (presets/issuer.go:27).  *)
(***************************************************************************)
SignerAttaches ==
    [][ApplyOption /\ given[next] \in Signers /\ endpoint.issuer.is = "jwt.Issuer" =>
          endpoint'.issuer = [endpoint.issuer EXCEPT !.signer = endpoint'.issuer.signer]]_vars
=============================================================================
