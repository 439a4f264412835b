\* Two requests for the same code, as an implementation of TokenExchange.
SPECIFICATION Spec
CONSTANTS
    Requests = {r1, r2}
    Text <- MCText
    AllowedMethods = {"client_secret_basic", "client_secret_post", "private_key_jwt"}
    DecodeFault <- MCDecodeFault
    ValidateFault <- MCValidateFault
    AllowedGrantTypes = {"authorization_code", "refresh_token"}
    AllowedScopes = {"read"}
    IllFormedScopes = {""}
    ScopesOf <- MCScopesOf
    ClaimNames <- MCClaimNames
    ClaimValues <- MCClaimValues
    Carriers <- ExchangeCarriers
    IssuedTokens = {"access_token"}
    HasSigner = TRUE
    IssuerRuntimeOptions <- NoRuntimeOptions
    ClientCallbacks = {"client_secret_basic", "client_secret_post", "private_key_jwt"}
    HasSubjectResolver = TRUE
    Codes = {"code"}
    Owner <- MCOwner
    Holder <- MCHolder
    Users = {"alice", "bob"}
    CallbackErrors <- OneError
    OptionLists <- NoOptions
PROPERTIES
    Answered
    ImplementsExchange
