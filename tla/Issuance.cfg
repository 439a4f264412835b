\* One exchange with everything a token callback and the issuer can be given.
SPECIFICATION Spec
CONSTANTS
    Requests = {r1}
    Text <- MCText
    AllowedMethods = {"client_secret_basic", "client_secret_post", "private_key_jwt"}
    DecodeFault <- MCDecodeFault
    ValidateFault <- MCValidateFault
    AllowedGrantTypes = {"authorization_code", "refresh_token"}
    AllowedScopes = {"read"}
    IllFormedScopes = {""}
    ScopesOf <- MCScopesOf
    ClaimNames <- MCClaimNames
    ClaimValues <- MCClaimValues
    Carriers <- IssuanceCarriers
    IssuedTokens = {"access_token", "refresh_token", "id_token"}
    HasSigner = TRUE
    IssuerRuntimeOptions <- RuntimeOptions
    ClientCallbacks = {"client_secret_basic", "client_secret_post", "private_key_jwt"}
    HasSubjectResolver = TRUE
    Codes = {"code"}
    Owner <- MCOwner
    Holder <- MCHolder
    Users = {"alice", "bob"}
    CallbackErrors <- OneError
    OptionLists <- ManyOptions
INVARIANTS
    TokensNameTheSubject
    TokensAreStamped
