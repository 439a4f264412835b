\* Every endpoint that up to three of the config options make.
SPECIFICATION Spec
CONSTANTS
    Catalogue <- MCCatalogue
    MaxOptions = 3
    Authenticators <- MCAuthenticators
    Signers = {"signer", "nil signer"}
    TokenPresets <- MCTokenPresets
INVARIANTS
    Servable
    LaterOptionWins
    EnabledMethodsAreAnswered
    IssuedTokensArePrepared
