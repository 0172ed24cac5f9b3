\* One object and three edits of the program; every question of a small set.
SPECIFICATION Spec
CONSTANTS
    Params = {p}
    Locals = {x}
    Globals = {g}
    Names = {n1, n2, n3}
    Size = 2
    None = None
    MaxEdits = 3
    Listings <- SomeListings
    NoAddr = None
    Entry = 0
    Requests <- SomeRequests
    KnownTypes = {"int", "Foo"}
    TypeTexts <- SomeTexts
    NotInt = None
    Star = Star
    Iterables <- SomeItems
    Offsets <- SomeOffsets
    Limits <- SomeLimits
    NoLimit = None
INVARIANTS
    FunctionTypeOK
    OwnVariable
    NothingMissed
    LabelsTruthful
    
    SizeAsWritten
    PagesTile
SYMMETRY Symmetry
\* Everything is loaded and no edit is left.
CHECK_DEADLOCK FALSE
