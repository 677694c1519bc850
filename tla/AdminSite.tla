------------------------------ MODULE AdminSite -------------------------------
(***************************************************************************)
(* The site of the administrator: the page of the users or the page of the *)
(* projects, whichever has been opened.  A page keeps its state while it   *)
(* is shown and the pages share none; their tables are two.                *)
(***************************************************************************)
EXTENDS Integers, FiniteSets, Sequences

CONSTANTS
    PageCall, MaxOps,
    Name, Unset, MaxUsers, FirstUsers, PageSize,
    Person, Matching, MaxProjects, FirstProjects, MaxPicks, None

ASSUME NameAssumption == Unset \notin Name
ASSUME PageSizeAssumption == PageSize \in Nat \ {0}
ASSUME NoneAssumption == None \notin Person
ASSUME BoundAssumption == {MaxUsers, MaxProjects, MaxOps, MaxPicks} \subseteq Nat

VARIABLES
    pathname,   \* the page that is open
    uRows, uBorn, uCalls, users, totalCount, page, sort, uLoading, uEditing, uCreating,
    uOps, uWanted, uRaced, uStrayed,
    pRows, pBorn, pCalls, projects, pLoading, searching, pEditing, pCreating,
    pOps, picks, pWanted, pRaced, pStrayed

Users == INSTANCE UsersPage
    WITH Call <- PageCall, rows <- uRows, born <- uBorn, calls <- uCalls, isLoading <- uLoading,
         editing <- uEditing, creating <- uCreating, ops <- uOps,
         wanted <- uWanted, raced <- uRaced, strayed <- uStrayed

Projects == INSTANCE ProjectsPage
    WITH User <- Person, Call <- PageCall, rows <- pRows, born <- pBorn, calls <- pCalls,
         isLoading <- pLoading, editing <- pEditing, creating <- pCreating, ops <- pOps,
         wanted <- pWanted, raced <- pRaced, strayed <- pStrayed

(* The tables at the start hold rows, by id.                               *)
ASSUME FirstUsersAssumption ==
    FirstUsers \in Seq(Users!Row) /\ Len(FirstUsers) <= MaxUsers
ASSUME FirstProjectsAssumption ==
    FirstProjects \in Seq(Projects!Row) /\ Len(FirstProjects) <= MaxProjects

usersPage == <<uRows, uBorn, uCalls, users, totalCount, page, sort, uLoading, uEditing,
               uCreating, uOps, uWanted, uRaced, uStrayed>>
projectsPage == <<pRows, pBorn, pCalls, projects, pLoading, searching, pEditing, pCreating,
                  pOps, picks, pWanted, pRaced, pStrayed>>
siteVars == <<pathname, usersPage, projectsPage>>

-----------------------------------------------------------------------------
SiteInit ==
    \/ (pathname = "users" /\ Users!Init /\ Projects!Unopened)
    \/ (pathname = "projects" /\ Projects!Init /\ Users!Unopened)

UsersStep ==
    /\ pathname = "users"
    /\ Users!Next
    /\ UNCHANGED <<pathname, projectsPage>>

ProjectsStep ==
    /\ pathname = "projects"
    /\ Projects!Next
    /\ UNCHANGED <<pathname, usersPage>>

SiteNext == UsersStep \/ ProjectsStep

SiteSpec == SiteInit /\ [][SiteNext]_siteVars

-----------------------------------------------------------------------------
(* No row is shown twice, and a dialog whose buttons are blocked waits for *)
(* a call.                                                                 *)
SiteTypeOK ==
    /\ pathname = "users" => Users!TypeOK
    /\ pathname = "projects" => Projects!TypeOK

(* When nothing is under way the page shows what the table holds, unless   *)
(* the list it shows was read before a change or asked for by another      *)
(* search, two new orders or levels were under way at once, a level was    *)
(* saved over what its project had become, or a call was lost or, like a   *)
(* new order or that for sorted users, refused.                            *)
PagesShowTables ==
    /\ pathname = "users" => Users!PageShowsSlice
    /\ pathname = "projects" => Projects!PageShowsTable

(* A row ends with what was last chosen for it, though a dialog sends what *)
(* was not touched too: but for a position that was taken back and members *)
(* who were all taken away, which the service ignores, and unless a choice *)
(* was made on a row that was not the table's, beside another one or in    *)
(* the panel of another project, or was lost.                              *)
ChoicesKept == Users!LastChoiceKept /\ Projects!LastChoiceKept

=============================================================================
