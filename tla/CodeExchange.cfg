\* Two requests at once: the same code from its holder and from another client,
\* a forged code, a refresh.
SPECIFICATION Spec
CONSTANTS
    Requests = {r1, r2}
    Text <- MCText
    AllowedMethods = {"client_secret_basic", "client_secret_post", "private_key_jwt"}
    DecodeFault <- MCDecodeFault
    ValidateFault <- MCValidateFault
    AllowedGrantTypes = {"authorization_code", "refresh_token"}
    AllowedScopes = {"read"}
    IllFormedScopes = {""}
    ScopesOf <- MCScopesOf
    ClaimNames <- MCClaimNames
    ClaimValues <- MCClaimValues
    Carriers <- ExchangeCarriers
    IssuedTokens = {"access_token", "refresh_token"}
    HasSigner = TRUE
    IssuerRuntimeOptions <- NoRuntimeOptions
    ClientCallbacks = {"client_secret_basic", "client_secret_post", "private_key_jwt"}
    HasSubjectResolver = TRUE
    Codes = {"code"}
    Owner <- MCOwner
    Holder <- MCHolder
    Users = {"alice", "bob"}
    CallbackErrors <- OneError
    OptionLists <- FailingOptions
INVARIANTS
    TypeOK
    SingleUse
    SpentByAuthenticatedClient
    WholeGrant
    ErrorAfterCommit
    Custody
    Delivery
PROPERTIES
    SpentBeforeIssued
