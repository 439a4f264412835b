---------------------- MODULE ClientCredentialsConfig -----------------------
(***************************************************************************)
(* The constructors of package clientcredentials, and the chain of         *)
(* callbacks its resolver is given.                                        *)
(***************************************************************************)
EXTENDS Constructors

Jwt == INSTANCE JwtConfig

NewReader(options) ==
    New([is |-> "clientcredentials.Reader", maxBodyBytes |-> 1024 * 1024,
         tokenDecoder |-> Jwt!NewDecoder(<<>>).value, runtimeOptions |-> <<>>], options)

WithReaderMaxBodyBytes(bytes) == Limit("maxBodyBytes", bytes)
WithReaderTokenDecoder(decoder) == Dependency("tokenDecoder", decoder)
WithReaderTokenDecoderOptions(options) == Component("tokenDecoder", Jwt!NewDecoder(options))
WithReaderRuntimeOptions(options) == Runtime(options)

NewValidator(options) ==
    New([is |-> "clientcredentials.Validator", allowedMethods |-> ClientAuthMethods,
         tokenValidator |-> Jwt!NewValidator(<<>>).value], options)

WithValidatorTokenValidator(validator) == Dependency("tokenValidator", validator)
WithValidatorTokenValidatorOptions(options) ==
    Component("tokenValidator", Jwt!NewValidator(options))
WithValidatorAllowedMethods(methods) ==
    Restriction("allowedMethods", methods, ClientAuthMethods)

NewResolver(options) ==
    New([is |-> "clientcredentials.Resolver", runtimeOptions |-> <<>>], options)

WithResolverRuntimeOptions(options) == Runtime(options)

(* The runtime options of a resolver: a callback for one method each *)
WithResolverAuthenticationMethod(method, callback) ==
    [method |-> method, callback |-> callback]

(***************************************************************************)
(* Resolver.Resolve: the first option for a method answers for it and does *)
(* not call the next; past the last one there is no answer.                *)
(***************************************************************************)
Answering(resolver, method) ==
    LET registered == resolver.runtimeOptions
        matching == {i \in DOMAIN registered : registered[i].method = method}
    IN  IF matching = {} THEN Nil ELSE registered[Min(matching)].callback

NewWriter(options) ==
    New([is |-> "clientcredentials.Writer", tokenEncoder |-> Jwt!NewEncoder(<<>>).value,
         runtimeOptions |-> <<>>], options)

WithWriterTokenEncoder(encoder) == Dependency("tokenEncoder", encoder)
WithWriterTokenEncoderOptions(options) == Component("tokenEncoder", Jwt!NewEncoder(options))
WithWriterRuntimeOptions(options) == Runtime(options)

NewAuthenticator(options) ==
    New([is |-> "clientcredentials.Authenticator", reader |-> NewReader(<<>>).value,
         validator |-> NewValidator(<<>>).value, resolver |-> NewResolver(<<>>).value], options)

WithAuthenticatorReader(reader) == Dependency("reader", reader)
WithAuthenticatorReaderOptions(options) == Component("reader", NewReader(options))
WithAuthenticatorValidator(validator) == Dependency("validator", validator)
WithAuthenticatorValidatorOptions(options) == Component("validator", NewValidator(options))
WithAuthenticatorResolver(resolver) == Dependency("resolver", resolver)
WithAuthenticatorResolverOptions(options) == Component("resolver", NewResolver(options))
=============================================================================
