\* What presets.Signer does to the issuer it finds.
SPECIFICATION Spec
CONSTANTS
    Catalogue <- MCCatalogue
    MaxOptions = 2
    Authenticators <- MCAuthenticators
    Signers = {"signer", "nil signer"}
    TokenPresets <- MCTokenPresets
PROPERTIES
    SignerAttaches
