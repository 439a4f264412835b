-------------------------- MODULE MCEndpointConfig --------------------------
(***************************************************************************)
(* The config options TLC assembles endpoints from: one of each, given     *)
(* something usable and something that is refused.                         *)
(***************************************************************************)
EXTENDS EndpointConfig

Basic == ClientAuthentication("client_secret_basic", Named("basic"))
Post == ClientAuthentication("client_secret_post", Named("post"))
OtherPost == ClientAuthentication("client_secret_post", Named("other post"))
Unknown == ClientAuthentication("tls_client_auth", Named("certificate"))

Restricted == Client!WithValidatorAllowedMethods(<<"private_key_jwt">>)
Verifying == Jwt!WithValidatorVerifier(Named("verifier"))
Small == Jwt!WithDecoderMaxTokenBytes(1)

(* An authenticator from the options of its own package, all of them sound *)
Detailed ==
    <<Request!WithAuthenticatorReaderOptions(
        <<Request!WithReaderMaxBodyBytes(1),
          Request!WithReaderTokenDecoderOptions(<<Small>>),
          Request!WithReaderAssertionTokenDecoder(Named("decoder")),
          Request!WithReaderAssertionTokenDecoderOptions(<<Jwt!WithDecoderMaxHeaderBytes(1)>>),
          Request!WithReaderClientCredentialsReader(Named("reader")),
          Request!WithReaderClientCredentialsReaderOptions(
            <<Client!WithReaderMaxBodyBytes(1), Client!WithReaderTokenDecoder(Named("decoder")),
              Client!WithReaderTokenDecoderOptions(<<Small>>)>>)>>),
      Request!WithAuthenticatorValidatorOptions(
        <<Request!WithValidatorAllowedScopes(<<"read">>, {"read"}),
          Request!WithValidatorRefreshTokenValidator(Named("validator")),
          Request!WithValidatorRefreshTokenValidatorOptions(<<Verifying>>),
          Request!WithValidatorAssertionTokenValidator(Named("validator")),
          Request!WithValidatorAssertionTokenValidatorOptions(<<Verifying>>),
          Request!WithValidatorClientCredentialsValidator(Named("validator")),
          Request!WithValidatorClientCredentialsValidatorOptions(
            <<Restricted, Client!WithValidatorTokenValidator(Named("validator")),
              Client!WithValidatorTokenValidatorOptions(<<Verifying>>)>>)>>),
      Request!WithAuthenticatorResolverOptions(
        <<Request!WithResolverClientResolver(Named("resolver")),
          Request!WithResolverClientResolverOptions(<<>>)>>)>>

MCAuthenticators == [name \in {
        "preset", "preset both", "preset twice", "preset without methods", "preset unknown",
        "preset nil callback"} |->
    CASE name = "preset" -> <<GrantTypesPreset(<<"client_credentials">>), Post>>
      [] name = "preset both" ->
            <<GrantTypesPreset(<<"password">>), Basic, Post, GrantTypesPreset(<<>>),
              ResolveSubject(Named("subject"))>>
      [] name = "preset twice" -> <<Post, OtherPost>>
      [] name = "preset without methods" -> <<>>
      [] name = "preset unknown" -> <<Unknown, Post>>
      [] name = "preset nil callback" -> <<ResolveSubject(Nil), Post>>]

MCTokenPresets == [name \in {"tokens", "tokens again", "no tokens"} |->
    CASE name = "tokens" -> <<AccessToken(Named("access")), IDToken(Named("id"))>>
      [] name = "tokens again" ->
            <<AccessToken(Named("access")), RefreshToken(Named("refresh")),
              AccessToken(Named("other access"))>>
      [] name = "no tokens" -> <<>>]

MCCatalogue == [name \in {
        "nil", "nil authenticator", "custom authenticator", "detailed", "small decoder",
        "preset", "preset both", "preset twice", "preset without methods", "preset unknown",
        "preset nil callback", "issuer", "issuer options", "issuer nil signer", "signer",
        "nil signer", "writer", "writer options", "issued", "nothing issued", "callback",
        "tokens", "tokens again", "no tokens"} |->
    CASE name = "nil" -> NilOption
      [] name = "nil authenticator" -> WithTokenRequestAuthenticator(Nil)
      [] name = "custom authenticator" -> WithTokenRequestAuthenticator(Named("custom"))
      [] name = "detailed" -> WithTokenRequestAuthenticatorOptions(Detailed)
      [] name = "small decoder" -> WithTokenRequestAuthenticatorOptions(
            <<Request!WithAuthenticatorReaderOptions(<<Request!WithReaderTokenDecoderOptions(
                <<Jwt!WithDecoderMaxClaimsBytes(1), Jwt!WithDecoderMaxSignatureBytes(0)>>)>>)>>)
      [] name \in DOMAIN MCAuthenticators -> Authenticator(MCAuthenticators[name])
      [] name = "issuer" -> WithIssuer(Named("custom"))
      [] name = "issuer options" ->
            WithIssuerOptions(<<Jwt!WithIssuerRuntimeOptions(<<"jwt.WithIssuer">>)>>)
      [] name = "issuer nil signer" -> WithIssuerOptions(<<Jwt!WithSigner(Nil)>>)
      [] name = "signer" -> Signer(Named("signer"))
      [] name = "nil signer" -> Signer(Nil)
      [] name = "writer" -> WithTokenResponseWriter(Named("custom"))
      [] name = "writer options" -> WithTokenResponseWriterOptions(
            <<Response!WithWriterEncoder(Named("encoder")),
              Response!WithWriterEncoderOptions(
                <<Response!WithEncoderTokenEncoder(Named("encoder")),
                  Response!WithEncoderTokenEncoderOptions(<<>>)>>)>>)
      [] name = "issued" -> WithIssuedTokens(<<"id_token", "access_token", "id_token">>)
      [] name = "nothing issued" -> WithIssuedTokens(<<>>)
      [] name = "callback" -> WithIssuerOptionsCallback(Named("custom"))
      [] name \in DOMAIN MCTokenPresets -> Tokens(MCTokenPresets[name])]
=============================================================================
