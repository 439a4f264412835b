----------------------------- MODULE JwtConfig ------------------------------
(***************************************************************************)
(* The constructors of package jwt.                                        *)
(***************************************************************************)
EXTENDS Constructors

NewDecoder(options) ==
    New([is |-> "jwt.Decoder", maxTokenBytes |-> 1024 * 1024,
         maxHeaderBytes |-> 64 * 1024, maxClaimsBytes |-> 1024 * 1024,
         maxSignatureBytes |-> 256 * 1024, runtimeOptions |-> <<>>], options)

WithDecoderMaxTokenBytes(bytes) == Limit("maxTokenBytes", bytes)
WithDecoderMaxHeaderBytes(bytes) == Limit("maxHeaderBytes", bytes)
WithDecoderMaxClaimsBytes(bytes) == Limit("maxClaimsBytes", bytes)
WithDecoderMaxSignatureBytes(bytes) == Limit("maxSignatureBytes", bytes)
WithDecoderRuntimeOptions(options) == Runtime(options)

(* A validator without a verifier accepts every signature *)
NewValidator(options) ==
    New([is |-> "jwt.Validator", verifier |-> Nil, runtimeOptions |-> <<>>], options)

(* The only dependencies that may be set to nil are verifier and signer *)
WithValidatorVerifier(verifier) == SetField("verifier", verifier)
WithValidatorRuntimeOptions(options) == Runtime(options)

NewEncoder(options) == New([is |-> "jwt.Encoder", runtimeOptions |-> <<>>], options)

WithEncoderRuntimeOptions(options) == Runtime(options)

NewIssuer(options) ==
    New([is |-> "jwt.Issuer", signer |-> Nil, runtimeOptions |-> <<>>], options)

WithIssuerRuntimeOptions(options) == Runtime(options)
WithSigner(signer) == SetField("signer", signer)

(* A mistake: the decoder is left without a default *)
NewBareReader(options) ==
    New([is |-> "jwt.Reader", decoder |-> Nil, runtimeOptions |-> <<>>], options)

NewReader(options) ==
    New([is |-> "jwt.Reader", decoder |-> NewDecoder(<<>>).value, runtimeOptions |-> <<>>],
        options)

WithReaderDecoder(decoder) == Dependency("decoder", decoder)
WithReaderDecoderOptions(options) == Component("decoder", NewDecoder(options))
WithReaderRuntimeOptions(options) == Runtime(options)

NewWriter(options) ==
    New([is |-> "jwt.Writer", encoder |-> NewEncoder(<<>>).value, runtimeOptions |-> <<>>],
        options)

WithWriterEncoder(encoder) == Dependency("encoder", encoder)
WithWriterEncoderOptions(options) == Component("encoder", NewEncoder(options))
WithWriterRuntimeOptions(options) == Runtime(options)

NewResolver(options) == New([is |-> "jwt.Resolver", runtimeOptions |-> <<>>], options)

WithResolverRuntimeOptions(options) == Runtime(options)

(* This one takes no runtime options, and no options for its reader *)
NewAuthenticator(options) ==
    New([is |-> "jwt.Authenticator", reader |-> NewReader(<<>>).value,
         validator |-> NewValidator(<<>>).value, resolver |-> NewResolver(<<>>).value], options)

WithAuthenticatorReader(reader) == Dependency("reader", reader)
WithAuthenticatorValidator(validator) == Dependency("validator", validator)
WithAuthenticatorValidatorOptions(options) == Component("validator", NewValidator(options))
WithAuthenticatorResolver(resolver) == Dependency("resolver", resolver)
WithAuthenticatorResolverOptions(options) == Component("resolver", NewResolver(options))
=============================================================================
