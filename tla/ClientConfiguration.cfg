\* Every component that two config options make, what two more make of it, and so on
\* up to an authenticator with a decoder in its reader.
SPECIFICATION Spec
CONSTANTS
    Catalogue <- MCCatalogue
    MaxOptions = 2
    MaxBuilt = 3
    CallOptions <- MCCallOptions
    TypesListed <- MCTypesListed
INVARIANTS
    BuiltComponentsWork
    SomeResponseIsAccepted
    TypesAreAcceptedAsGiven
