\* The browser's pages, each with a user busy with it.
SPECIFICATION Spec
CONSTANTS
    t1 = t1
    t2 = t2
    p1 = p1
    p2 = p2
    f1 = f1
    f2 = f2
    f3 = f3
    q1 = q1
    q2 = q2
    me = me
    her = her
    None = None
    Teams = {t1, t2}
    Files = {f1, f2, f3}
    Projects = {p1, p2}
    Queries = {q1, q2}
    MaxEvents <- MCMaxEvents
    Opened <- MCOpened
    Trees <- MCTrees
    Words <- MCWords
    Named <- MCNamed
    FirstSettings <- MCFirstSettings
    ProjectOf <- MCProjectOf
    Checkable = {f1, f2}
    Authors = {me, her}
    Me = me
    FirstCommits <- MCFirstCommits
    PageSize = 1
    DaysIn <- MCDaysIn
    Today <- MCToday
    Dates <- MCDates
    ReadOnly = {t2}
    Fields = {"name", "image"}
    FirstReviews <- MCFirstReviews
    Dirs = {"/", "/lib/"}
    Top = "/"
    Names = {"a.py", "new"}
    Dotted = {"a.py"}
    PlaceOf <- MCPlaceOf
INVARIANTS
    TypeOK
    FrontShown
    SearchShows
    ErrorsShown
    LogShown
    CalendarShown
    SettingsStored
    ReviewsOwn
    FilesChanged
    PaneShowsFront
CHECK_DEADLOCK FALSE
