\* Up to four requests over one carrier, every kind of artifact and answer, and
\* everything that may go wrong on the way.
SPECIFICATION Spec
CONSTANTS
    Text <- MCText
    AllowedMethods = {"client_secret_basic", "client_secret_post", "private_key_jwt"}
    DecodeFault <- MCDecodeFault
    ValidateFault <- MCValidateFault
    AllowedGrantTypes = {"authorization_code", "password", "refresh_token", "jwt_bearer"}
    AllowedScopes = {"read", "write"}
    IllFormedScopes = {""}
    ScopesOf <- MCScopesOf
    Encoded <- MCEncoded
    EncodeFault <- MCEncodeFault
    Int64Max = 31
    Second = 4
    MaxBodyBytes = 3
    MaxPayloadBytes = 3
    AllowedTokenTypes = {"bearer"}
    AllowedIssuedTypes = {"urn:token"}
    RequireAccessToken = TRUE
    AllowIDToken = TRUE
    RequireIDToken = FALSE
    RequireIssuedType = FALSE
    RelativeTypes = {"token"}
    TokenFault <- MCTokenFault
    Artifacts <- MCArtifacts
    ClientOf <- Secret
    Headers <- MCHeaders
    Responses <- MCResponses
    Foreign <- MCForeign
    PayloadSizes = {2, 3, 4}
    ErrorBytes = 2
    ClientCallbacks = {"client_secret_basic", "private_key_jwt"}
    ClientErrors = {{"Unavailable"}}
    MaxWrites = 4
INVARIANTS
    TypeOK
    ServerReadsTheLastArtifact
    PrincipalHasTheProof
    GrantIsWholeOrNothing
    LifetimeSurvives
    GrantsAreAccepted
