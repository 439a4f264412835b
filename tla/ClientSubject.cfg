\* Two clients at an endpoint of client credentials without a subject callback.
SPECIFICATION Spec
CONSTANTS
    Requests = {r1, r2}
    Text <- MCText
    AllowedMethods = {"client_secret_basic", "client_secret_post", "private_key_jwt"}
    DecodeFault <- MCDecodeFault
    ValidateFault <- MCValidateFault
    AllowedGrantTypes = {"client_credentials"}
    AllowedScopes = {"read"}
    IllFormedScopes = {""}
    ScopesOf <- MCScopesOf
    ClaimNames <- MCClaimNames
    ClaimValues <- MCClaimValues
    Carriers <- ClientCarriers
    IssuedTokens = {"access_token"}
    HasSigner = FALSE
    IssuerRuntimeOptions <- NoRuntimeOptions
    ClientCallbacks = {"client_secret_basic", "client_secret_post", "private_key_jwt"}
    HasSubjectResolver = FALSE
    Codes = {"code"}
    Owner <- MCOwner
    Holder <- MCHolder
    Users = {"alice", "bob"}
    CallbackErrors <- OneError
    OptionLists <- NoOptions
INVARIANTS
    SubjectIsClient
