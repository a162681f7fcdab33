CONSTANTS
    Qualified <- Names
    Creates <- BothTables
    Inserts <- AllInserts
    Deletes <- BothDeletes
    Selects <- AllSelects
    Numbers <- Tokens
    Texts <- Quotes
    Alphabet <- Order
    Garbage = Garbage
    MaxRows = 2
SPECIFICATION Spec
INVARIANTS
    TypeOK
    SelectIsRelational
    ParserReadsBack
PROPERTIES
    ImplementsTables
