------------------------ MODULE TokenResponseConfig -------------------------
(***************************************************************************)
(* The constructors of package tokenresponse: the writer and encoder of a  *)
(* server, the reader, decoder and validator of a client.                  *)
(***************************************************************************)
EXTENDS Constructors

Jwt == INSTANCE JwtConfig

NewEncoder(options) ==
    New([is |-> "tokenresponse.Encoder", tokenEncoder |-> Jwt!NewEncoder(<<>>).value,
         runtimeOptions |-> <<>>], options)

WithEncoderTokenEncoder(encoder) == Dependency("tokenEncoder", encoder)
WithEncoderTokenEncoderOptions(options) == Component("tokenEncoder", Jwt!NewEncoder(options))
WithEncoderRuntimeOptions(options) == Runtime(options)

NewWriter(options) ==
    New([is |-> "tokenresponse.Writer", encoder |-> NewEncoder(<<>>).value,
         runtimeOptions |-> <<>>], options)

WithWriterEncoder(encoder) == Dependency("encoder", encoder)
WithWriterEncoderOptions(options) == Component("encoder", NewEncoder(options))
WithWriterRuntimeOptions(options) == Runtime(options)

NewDecoder(options) ==
    New([is |-> "tokenresponse.Decoder", maxPayloadBytes |-> 1024 * 1024,
         tokenDecoder |-> Jwt!NewDecoder(<<>>).value, runtimeOptions |-> <<>>], options)

WithDecoderMaxPayloadBytes(bytes) == Limit("maxPayloadBytes", bytes)
WithDecoderTokenDecoder(decoder) == Dependency("tokenDecoder", decoder)
WithDecoderTokenDecoderOptions(options) == Component("tokenDecoder", Jwt!NewDecoder(options))
WithDecoderRuntimeOptions(options) == Runtime(options)

NewReader(options) ==
    New([is |-> "tokenresponse.Reader", maxBodyBytes |-> 1024 * 1024,
         decoder |-> NewDecoder(<<>>).value, runtimeOptions |-> <<>>], options)

WithReaderMaxBodyBytes(bytes) == Limit("maxBodyBytes", bytes)
WithReaderDecoder(decoder) == Dependency("decoder", decoder)
WithReaderDecoderOptions(options) == Component("decoder", NewDecoder(options))
WithReaderRuntimeOptions(options) == Runtime(options)

-----------------------------------------------------------------------------
(***************************************************************************)
(* The client's validator, whose options may contradict each other.        *)
(***************************************************************************)
AnyIssuedType == {"any issued type"}

DefaultValidator ==
    [is |-> "tokenresponse.Validator", allowedTokenTypes |-> {"bearer"},
     allowedIssuedTypes |-> AnyIssuedType, requireAccessToken |-> TRUE,
     allowIDToken |-> TRUE, requireIDToken |-> FALSE, requireIssuedType |-> FALSE,
     accessTokenValidator |-> Jwt!NewValidator(<<>>).value,
     refreshTokenValidator |-> Jwt!NewValidator(<<>>).value,
     idTokenValidator |-> Jwt!NewValidator(<<>>).value, runtimeOptions |-> <<>>]

(* A mistake: each option looks at the one before, nothing looks at them all *)
NewValidatorAsGiven(options) == New(DefaultValidator, options)

NewValidator(options) ==
    LET built == New(DefaultValidator, options) IN
    IF built.err = NoError /\ built.value.requireIDToken /\ ~built.value.allowIDToken
    THEN Failure({"Misconfigured"}, Nil) ELSE built

WithValidatorAccessTokenValidator(v) == Dependency("accessTokenValidator", v)
WithValidatorAccessTokenValidatorOptions(options) ==
    Component("accessTokenValidator", Jwt!NewValidator(options))
WithValidatorRefreshTokenValidator(v) == Dependency("refreshTokenValidator", v)
WithValidatorRefreshTokenValidatorOptions(options) ==
    Component("refreshTokenValidator", Jwt!NewValidator(options))
WithValidatorIDTokenValidator(v) == Dependency("idTokenValidator", v)
WithValidatorIDTokenValidatorOptions(options) ==
    Component("idTokenValidator", Jwt!NewValidator(options))

(* strings.ToLower of a token type *)
LowerCase(type) == CASE type = "Bearer" -> "bearer" [] type = "DPoP" -> "dpop" [] OTHER -> type

(* A mistake: the token types are kept as the caller writes them *)
WithValidatorTokenTypes(types) ==
    IF types = <<>> \/ "" \in Range(types) THEN Fails
    ELSE SetField("allowedTokenTypes", Range(types))

WithValidatorAllowedTokenTypes(types) ==
    IF types = <<>> \/ "" \in Range(types) THEN Fails
    ELSE SetField("allowedTokenTypes", {LowerCase(t) : t \in Range(types)})
WithValidatorAllowedIssuedTokenTypes(types, absolute) ==
    Restriction("allowedIssuedTypes", types, absolute)

WithValidatorRequireAccessToken(required) == SetField("requireAccessToken", required)
WithValidatorAllowIDToken(allowed) == SetField("allowIDToken", allowed)
WithValidatorRequireIDToken(required) == SetField("requireIDToken", required)
WithValidatorRequireIssuedTokenType(required) == SetField("requireIssuedType", required)
WithValidatorRuntimeOptions(options) == Runtime(options)
=============================================================================
