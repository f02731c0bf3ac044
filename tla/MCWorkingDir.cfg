SPECIFICATION Spec
CONSTANTS
    home = home
    dir = dir
    deep = deep
    link = link
    NoPath = NoPath
    Names <- MCNames
    Places <- MCPlaces
    Long <- MCLong
    Target <- MCTarget
    Start = dir
    HOME = home
INVARIANTS
    WdTypeOK
PROPERTIES
    CdSwaps
CHECK_DEADLOCK FALSE
