SPECIFICATION FairStart
CONSTANTS
    Thread = {t1, t2, t3}
    None = None
    Import = Import
    MaxRows = 2
    Program = {cleaner}
    Families = 2
    MaxDeaths = 1
INVARIANT OnlyAnOrphanLoses
INVARIANT ReadyIsServed
PROPERTY ImplementsConnection
PROPERTY SchemaIsMade
PROPERTY OnlyARaceFails
