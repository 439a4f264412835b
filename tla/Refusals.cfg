\* One request of every kind, right or wrong.
SPECIFICATION Spec
CONSTANTS
    Requests = {r1}
    Text <- MCText
    AllowedMethods = {"client_secret_basic", "client_secret_post", "private_key_jwt"}
    DecodeFault <- MCDecodeFault
    ValidateFault <- MCValidateFault
    AllowedGrantTypes = {"authorization_code", "refresh_token"}
    AllowedScopes = {"read"}
    IllFormedScopes = {""}
    ScopesOf <- MCScopesOf
    ClaimNames <- MCClaimNames
    ClaimValues <- MCClaimValues
    Carriers <- AllCarriers
    IssuedTokens = {"access_token", "refresh_token"}
    HasSigner = TRUE
    IssuerRuntimeOptions <- NoRuntimeOptions
    ClientCallbacks = {"client_secret_basic", "client_secret_post", "private_key_jwt"}
    HasSubjectResolver = TRUE
    Codes = {"code"}
    Owner <- MCOwner
    Holder <- MCHolder
    Users = {"alice", "bob"}
    CallbackErrors <- MCErrors
    OptionLists <- NoOptions
INVARIANTS
    AskedAboutWholeRequests
