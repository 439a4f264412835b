\* Claims of every form, parts of every length around the limits, requests of every
\* kind, and a token that is decoded, encoded and passed on.
SPECIFICATION Spec
CONSTANTS
    MaxTokenBytes <- MaxToken
    MaxHeaderBytes <- MaxHeader
    MaxClaimsBytes <- MaxClaims
    MaxSignatureBytes <- MaxSignature
    Second = 3
    Lifetimes = {6}
    Templates <- AllTemplates
    Signatures = {0, 6, 8, 9}
    Policy <- FullPolicy
    VerifierFaults <- Faults
    StandardClaims = TRUE
    OtherRequests <- MCOtherRequests
    Skews <- NoSkew
    Horizon = 3
    MaxWrites = 2
INVARIANTS
    TypeOK
    PrincipalIsVerified
    NotApplicableMeansNoBearer
    LimitsAreExact
    TokensTravel
