\* A signed refresh token is handed out, decoded by the client and presented again.
SPECIFICATION Spec
CONSTANTS
    Text <- MCText
    AllowedMethods = {"client_secret_post", "private_key_jwt"}
    DecodeFault <- MCDecodeFault
    ValidateFault <- MCValidateFault
    AllowedGrantTypes = {"password", "refresh_token"}
    AllowedScopes = {"read", "write"}
    IllFormedScopes = {""}
    ScopesOf <- MCScopesOf
    Encoded <- MCEncoded
    EncodeFault <- MCEncodeFault
    Int64Max = 31
    Second = 4
    MaxBodyBytes = 3
    MaxPayloadBytes = 3
    AllowedTokenTypes = {"bearer"}
    AllowedIssuedTypes = {}
    RequireAccessToken = TRUE
    AllowIDToken = TRUE
    RequireIDToken = FALSE
    RequireIssuedType = FALSE
    RelativeTypes = {"token"}
    TokenFault <- MCTokenFault
    Artifacts <- FewArtifacts
    ClientOf <- Secret
    Headers <- NoHeader
    Responses <- Signed
    Foreign <- NoForeign
    PayloadSizes = {3}
    ErrorBytes = 2
    ClientCallbacks = {"client_secret_post", "private_key_jwt"}
    ClientErrors = {{"Unavailable"}}
    MaxWrites = 3
INVARIANTS
    RefreshTokenIsTheIssuedOne
