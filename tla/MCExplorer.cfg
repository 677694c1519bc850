SPECIFICATION ExplorerSpec
CONSTANTS
    d1 = d1
    d2 = d2
    d3 = d3
    Doc <- MCDoc
    Favorite <- MCFavorite
    FirstDocs <- MCFirstDocs
    MaxOps = 4
    Private = Private
    Own = Own
    Foreign = Foreign
    Favorites = Favorites
    None = None
INVARIANTS
    ExplorerTypeOK
    NothingDisappears
    ActiveIsVisible
    RememberedIsShown
CHECK_DEADLOCK FALSE
