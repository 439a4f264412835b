------------------------- MODULE TokenRequestConfig -------------------------
(***************************************************************************)
(* The constructors of package tokenrequest: an authenticator is made of a *)
(* reader, a validator and a resolver, each of which may be handed over or *)
(* built in place.                                                         *)
(***************************************************************************)
EXTENDS Constructors

Jwt == INSTANCE JwtConfig
Client == INSTANCE ClientCredentialsConfig

NewReader(options) ==
    New([is |-> "tokenrequest.Reader", maxBodyBytes |-> 1024 * 1024,
         clientCredentialsReader |-> Client!NewReader(<<>>).value,
         tokenDecoder |-> Jwt!NewDecoder(<<>>).value,
         assertionTokenDecoder |-> Jwt!NewDecoder(<<>>).value,
         runtimeOptions |-> <<>>], options)

WithReaderMaxBodyBytes(bytes) == Limit("maxBodyBytes", bytes)
WithReaderTokenDecoder(decoder) == Dependency("tokenDecoder", decoder)
WithReaderTokenDecoderOptions(options) == Component("tokenDecoder", Jwt!NewDecoder(options))
WithReaderAssertionTokenDecoder(decoder) == Dependency("assertionTokenDecoder", decoder)
WithReaderAssertionTokenDecoderOptions(options) ==
    Component("assertionTokenDecoder", Jwt!NewDecoder(options))
WithReaderClientCredentialsReader(reader) == Dependency("clientCredentialsReader", reader)
WithReaderClientCredentialsReaderOptions(options) ==
    Component("clientCredentialsReader", Client!NewReader(options))
WithReaderRuntimeOptions(options) == Runtime(options)

(* The allowed scopes of a validator that restricts none *)
EveryScope == {"every scope"}

NewValidator(options) ==
    New([is |-> "tokenrequest.Validator", allowedGrantTypes |-> GrantTypes,
         allowedScopes |-> EveryScope,
         clientCredentialsValidator |-> Client!NewValidator(<<>>).value,
         refreshTokenValidator |-> Jwt!NewValidator(<<>>).value,
         assertionTokenValidator |-> Jwt!NewValidator(<<>>).value,
         runtimeOptions |-> <<>>], options)

WithValidatorRefreshTokenValidator(validator) ==
    Dependency("refreshTokenValidator", validator)
WithValidatorRefreshTokenValidatorOptions(options) ==
    Component("refreshTokenValidator", Jwt!NewValidator(options))
WithValidatorAssertionTokenValidator(validator) ==
    Dependency("assertionTokenValidator", validator)
WithValidatorAssertionTokenValidatorOptions(options) ==
    Component("assertionTokenValidator", Jwt!NewValidator(options))
WithValidatorAllowedGrantTypes(grants) ==
    Restriction("allowedGrantTypes", grants, GrantTypes)
WithValidatorAllowedScopes(scopes, wellFormed) ==
    Restriction("allowedScopes", scopes, wellFormed)
WithValidatorClientCredentialsValidator(validator) ==
    Dependency("clientCredentialsValidator", validator)
WithValidatorClientCredentialsValidatorOptions(options) ==
    Component("clientCredentialsValidator", Client!NewValidator(options))
WithValidatorRuntimeOptions(options) == Runtime(options)

NewResolver(options) ==
    New([is |-> "tokenrequest.Resolver", clientResolver |-> Client!NewResolver(<<>>).value,
         runtimeOptions |-> <<>>], options)

WithResolverRuntimeOptions(options) == Runtime(options)
WithResolverClientResolver(resolver) == Dependency("clientResolver", resolver)
WithResolverClientResolverOptions(options) ==
    Component("clientResolver", Client!NewResolver(options))

NewAuthenticator(options) ==
    New([is |-> "tokenrequest.Authenticator", reader |-> NewReader(<<>>).value,
         validator |-> NewValidator(<<>>).value, resolver |-> NewResolver(<<>>).value,
         runtimeOptions |-> <<>>], options)

WithAuthenticatorReader(reader) == Dependency("reader", reader)
WithAuthenticatorReaderOptions(options) == Component("reader", NewReader(options))
WithAuthenticatorValidator(validator) == Dependency("validator", validator)
WithAuthenticatorValidatorOptions(options) == Component("validator", NewValidator(options))
WithAuthenticatorResolver(resolver) == Dependency("resolver", resolver)
WithAuthenticatorResolverOptions(options) == Component("resolver", NewResolver(options))
WithAuthenticatorRuntimeOptions(options) == Runtime(options)

NewWriter(options) ==
    New([is |-> "tokenrequest.Writer",
         clientCredentialsWriter |-> Client!NewWriter(<<>>).value,
         tokenEncoder |-> Jwt!NewEncoder(<<>>).value,
         assertionTokenEncoder |-> Jwt!NewEncoder(<<>>).value,
         runtimeOptions |-> <<>>], options)

WithWriterTokenEncoder(encoder) == Dependency("tokenEncoder", encoder)
WithWriterTokenEncoderOptions(options) == Component("tokenEncoder", Jwt!NewEncoder(options))
WithWriterAssertionTokenEncoder(encoder) == Dependency("assertionTokenEncoder", encoder)
WithWriterAssertionTokenEncoderOptions(options) ==
    Component("assertionTokenEncoder", Jwt!NewEncoder(options))
WithWriterClientCredentialsWriter(writer) == Dependency("clientCredentialsWriter", writer)
WithWriterClientCredentialsWriterOptions(options) ==
    Component("clientCredentialsWriter", Client!NewWriter(options))
WithWriterRuntimeOptions(options) == Runtime(options)
=============================================================================
