--------------------------- MODULE MCClientConfig ----------------------------
(***************************************************************************)
(* The config options TLC puts components together from: one of each that  *)
(* can be used, and some that are refused.                                 *)
(***************************************************************************)
EXTENDS ClientConfig

Passing == Named("passing")
Custom == Named("custom")

Decoding == <<Jwt!WithDecoderMaxTokenBytes(1)>>
Verifying == <<Jwt!WithValidatorVerifier(Named("verifier"))>>
Encoding == <<Jwt!WithEncoderRuntimeOptions(<<Passing>>)>>

JwtCatalogue(kind) ==
    CASE kind = "jwt.Decoder" ->
            [token |-> Jwt!WithDecoderMaxTokenBytes(1), noToken |-> Jwt!WithDecoderMaxTokenBytes(0),
             header |-> Jwt!WithDecoderMaxHeaderBytes(1),
             claims |-> Jwt!WithDecoderMaxClaimsBytes(1),
             signature |-> Jwt!WithDecoderMaxSignatureBytes(1),
             noSignature |-> Jwt!WithDecoderMaxSignatureBytes(-1),
             dropping |-> Jwt!WithDecoderRuntimeOptions(<<Passing, Dropping>>)]
      [] kind = "jwt.Encoder" ->
            [passing |-> Jwt!WithEncoderRuntimeOptions(<<Passing>>),
             absent |-> Jwt!WithEncoderRuntimeOptions(<<Nil>>)]
      [] kind = "jwt.Validator" ->
            [verifier |-> Verifying[1], noVerifier |-> Jwt!WithValidatorVerifier(Nil),
             dropping |-> Jwt!WithValidatorRuntimeOptions(<<Dropping>>)]
      [] kind = "jwt.Issuer" ->
            [signer |-> Jwt!WithSigner(Named("signer")), noSigner |-> Jwt!WithSigner(Nil),
             absent |-> Jwt!WithIssuerRuntimeOptions(<<Nil>>)]
      [] kind = "jwt.Reader" ->
            [custom |-> Jwt!WithReaderDecoder(Custom), none |-> Jwt!WithReaderDecoder(Nil),
             options |-> Jwt!WithReaderDecoderOptions(Decoding),
             passing |-> Jwt!WithReaderRuntimeOptions(<<Passing>>)]
      [] kind = "jwt.Writer" ->
            [custom |-> Jwt!WithWriterEncoder(Custom),
             options |-> Jwt!WithWriterEncoderOptions(Encoding),
             absent |-> Jwt!WithWriterRuntimeOptions(<<Nil>>)]
      [] kind = "jwt.Resolver" -> [passing |-> Jwt!WithResolverRuntimeOptions(<<Passing>>)]
      [] kind = "jwt.Authenticator" ->
            [customReader |-> Jwt!WithAuthenticatorReader(Custom),
             customValidator |-> Jwt!WithAuthenticatorValidator(Custom),
             options |-> Jwt!WithAuthenticatorValidatorOptions(Verifying),
             customResolver |-> Jwt!WithAuthenticatorResolver(Custom),
             nothing |-> Jwt!WithAuthenticatorResolverOptions(<<NilOption>>)]

ClientCatalogue(kind) ==
    CASE kind = "clientcredentials.Reader" ->
            [body |-> Client!WithReaderMaxBodyBytes(1), noBody |-> Client!WithReaderMaxBodyBytes(0),
             options |-> Client!WithReaderTokenDecoderOptions(Decoding),
             dropping |-> Client!WithReaderRuntimeOptions(<<Dropping>>)]
      [] kind = "clientcredentials.Writer" ->
            [custom |-> Client!WithWriterTokenEncoder(Custom),
             options |-> Client!WithWriterTokenEncoderOptions(Encoding),
             passing |-> Client!WithWriterRuntimeOptions(<<Passing>>)]
      [] kind = "clientcredentials.Validator" ->
            [options |-> Client!WithValidatorTokenValidatorOptions(Verifying),
             post |-> Client!WithValidatorAllowedMethods(<<"client_secret_post">>),
             nothing |-> Client!WithValidatorAllowedMethods(<<>>)]
      [] kind = "clientcredentials.Resolver" ->
            [post |-> Client!WithResolverRuntimeOptions(
                <<Client!WithResolverAuthenticationMethod("client_secret_post", Custom)>>)]
      [] kind = "clientcredentials.Authenticator" ->
            [customReader |-> Client!WithAuthenticatorReader(Custom),
             customValidator |-> Client!WithAuthenticatorValidator(Custom),
             options |-> Client!WithAuthenticatorValidatorOptions(<<>>),
             customResolver |-> Client!WithAuthenticatorResolver(Custom),
             resolverOptions |-> Client!WithAuthenticatorResolverOptions(<<>>)]

RequestCatalogue(kind) ==
    CASE kind = "tokenrequest.Reader" ->
            [body |-> Request!WithReaderMaxBodyBytes(1),
             options |-> Request!WithReaderTokenDecoderOptions(Decoding),
             assertion |-> Request!WithReaderAssertionTokenDecoder(Custom),
             client |-> Request!WithReaderClientCredentialsReaderOptions(
                <<Client!WithReaderMaxBodyBytes(0)>>),
             absent |-> Request!WithReaderRuntimeOptions(<<Passing, Nil>>)]
      [] kind = "tokenrequest.Writer" ->
            [custom |-> Request!WithWriterTokenEncoder(Custom),
             options |-> Request!WithWriterTokenEncoderOptions(Encoding),
             assertion |-> Request!WithWriterAssertionTokenEncoder(Custom),
             assertionOptions |-> Request!WithWriterAssertionTokenEncoderOptions(Encoding),
             customClient |-> Request!WithWriterClientCredentialsWriter(Custom),
             client |-> Request!WithWriterClientCredentialsWriterOptions(
                <<Client!WithWriterRuntimeOptions(<<Dropping>>)>>),
             passing |-> Request!WithWriterRuntimeOptions(<<Passing>>)]
      [] kind = "tokenrequest.Validator" ->
            [grant |-> Request!WithValidatorAllowedGrantTypes(<<"password">>),
             unknown |-> Request!WithValidatorAllowedGrantTypes(<<"implicit">>),
             refresh |-> Request!WithValidatorRefreshTokenValidatorOptions(Verifying),
             dropping |-> Request!WithValidatorRuntimeOptions(<<Dropping>>)]
      [] kind = "tokenrequest.Resolver" ->
            [options |-> Request!WithResolverClientResolverOptions(<<>>),
             passing |-> Request!WithResolverRuntimeOptions(<<Passing>>)]
      [] kind = "tokenrequest.Authenticator" ->
            [customReader |-> Request!WithAuthenticatorReader(Custom),
             options |-> Request!WithAuthenticatorReaderOptions(<<>>),
             customValidator |-> Request!WithAuthenticatorValidator(Custom),
             customResolver |-> Request!WithAuthenticatorResolver(Custom),
             absent |-> Request!WithAuthenticatorRuntimeOptions(<<Nil>>)]

MCTypesListed == [upper |-> <<"Bearer", "DPoP">>, lower |-> <<"dpop">>, empty |-> <<"Bearer", "">>]

ResponseCatalogue(kind) ==
    CASE kind = "tokenresponse.Encoder" ->
            [options |-> Response!WithEncoderTokenEncoderOptions(Encoding),
             passing |-> Response!WithEncoderRuntimeOptions(<<Passing>>)]
      [] kind = "tokenresponse.Writer" ->
            [options |-> Response!WithWriterEncoderOptions(<<>>),
             dropping |-> Response!WithWriterRuntimeOptions(<<Dropping>>)]
      [] kind = "tokenresponse.Decoder" ->
            [payload |-> Response!WithDecoderMaxPayloadBytes(1),
             noPayload |-> Response!WithDecoderMaxPayloadBytes(0),
             custom |-> Response!WithDecoderTokenDecoder(Custom),
             options |-> Response!WithDecoderTokenDecoderOptions(Decoding),
             absent |-> Response!WithDecoderRuntimeOptions(<<Nil>>)]
      [] kind = "tokenresponse.Reader" ->
            [body |-> Response!WithReaderMaxBodyBytes(1),
             custom |-> Response!WithReaderDecoder(Custom),
             options |-> Response!WithReaderDecoderOptions(
                <<Response!WithDecoderMaxPayloadBytes(1)>>),
             passing |-> Response!WithReaderRuntimeOptions(<<Passing>>)]
      [] kind = "tokenresponse.Validator" ->
            [upper |-> Response!WithValidatorAllowedTokenTypes(MCTypesListed.upper),
             lower |-> Response!WithValidatorAllowedTokenTypes(MCTypesListed.lower),
             empty |-> Response!WithValidatorAllowedTokenTypes(MCTypesListed.empty),
             issued |-> Response!WithValidatorAllowedIssuedTokenTypes(
                <<"urn:a", "urn:b">>, {"urn:a", "urn:b"}),
             relative |-> Response!WithValidatorAllowedIssuedTokenTypes(<<"token">>, {"urn:a"}),
             noAccess |-> Response!WithValidatorRequireAccessToken(FALSE),
             requireID |-> Response!WithValidatorRequireIDToken(TRUE),
             noID |-> Response!WithValidatorAllowIDToken(FALSE),
             requireIssued |-> Response!WithValidatorRequireIssuedTokenType(TRUE),
             access |-> Response!WithValidatorAccessTokenValidator(Custom),
             accessOptions |-> Response!WithValidatorAccessTokenValidatorOptions(Verifying),
             refresh |-> Response!WithValidatorRefreshTokenValidator(Custom),
             refreshOptions |-> Response!WithValidatorRefreshTokenValidatorOptions(Verifying),
             id |-> Response!WithValidatorIDTokenValidator(Custom),
             idOptions |-> Response!WithValidatorIDTokenValidatorOptions(Verifying),
             dropping |-> Response!WithValidatorRuntimeOptions(<<Dropping>>)]

MCCatalogue == [kind \in Kinds |->
    CASE kind \in {"jwt.Decoder", "jwt.Encoder", "jwt.Validator", "jwt.Issuer", "jwt.Reader",
                   "jwt.Writer", "jwt.Resolver", "jwt.Authenticator"} -> JwtCatalogue(kind)
      [] kind \in {"clientcredentials.Reader", "clientcredentials.Writer",
                   "clientcredentials.Validator", "clientcredentials.Resolver",
                   "clientcredentials.Authenticator"} -> ClientCatalogue(kind)
      [] kind \in {"tokenrequest.Reader", "tokenrequest.Writer", "tokenrequest.Validator",
                   "tokenrequest.Resolver", "tokenrequest.Authenticator"} ->
            RequestCatalogue(kind)
      [] OTHER -> ResponseCatalogue(kind)]

MCCallOptions == {<<>>, <<Passing>>, <<Passing, Nil>>, <<Dropping>>}
=============================================================================
