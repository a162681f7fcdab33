CONSTANTS
    Qualified <- Names
    Creates <- TableA
    Inserts <- InsertsA
    Deletes <- DeleteA
    Selects <- LookupsA
    Numbers <- Tokens
    Texts <- Quotes
    Alphabet <- Order
    Garbage = Garbage
    MaxRows = 2
SPECIFICATION Spec
INVARIANTS
    LookupsAreRows
