SPECIFICATION SiteSpec
CONSTANTS
    c1 = c1
    c2 = c2
    p1 = p1
    p2 = p2
    None = None
    n1 = n1
    n2 = n2
    Unset = Unset
    PageCall <- MCPageCall
    MaxOps = 3
    Name <- MCName
    MaxUsers = 3
    FirstUsers <- MCFirstUsers
    PageSize = 1
    Person <- MCPerson
    Matching <- MCMatching
    MaxProjects = 3
    FirstProjects <- MCFirstProjects
    MaxPicks = 1
SYMMETRY Symmetry
INVARIANTS
    SiteTypeOK
    PagesShowTables
    ChoicesKept
CHECK_DEADLOCK FALSE
