\* One token, its window and two clocks that differ.
SPECIFICATION Spec
CONSTANTS
    MaxTokenBytes <- MaxToken
    MaxHeaderBytes <- MaxHeader
    MaxClaimsBytes <- MaxClaims
    MaxSignatureBytes <- MaxSignature
    Second = 3
    Lifetimes = {0, 4, 6}
    Templates <- TimedTemplates
    Signatures = {0}
    Policy <- TimedPolicy
    VerifierFaults = {{}}
    StandardClaims = TRUE
    OtherRequests <- NoOtherRequests
    Skews <- MCSkews
    Horizon = 14
    MaxWrites = 2
INVARIANTS
    AdmittedInWindow
    LeewayCoversSkew
