----------------------------- MODULE SearchPage -----------------------------
(***************************************************************************)
(* The search page: three providers look for a query, in the names of the  *)
(* projects at once, in the names of the files and in their contents by    *)
(* one request per project each, tried twice. A search may be cancelled,   *)
(* repeated, or its page closed while answers are on their way; the text   *)
(* of an open file is searched as it is in its tab.                        *)
(***************************************************************************)
EXTENDS Window, Bags

CONSTANTS
    Projects,      \* names of projects
    Queries,       \* what the user searches for
    Trees,         \* Trees[t][p]: the files of a team's project
    Words,         \* Words[f]: the queries that match the saved text of f
    Named          \* Named[x]: those that match the name of a file or project

(* The path of a file starts with its project. *)
ASSUME SearchAssumption ==
    /\ Trees \in [Teams -> [Projects -> SUBSET Files]]
    /\ \A t \in Teams : \A p, q \in Projects : p # q => Trees[t][p] \cap Trees[t][q] = {}
    /\ Words \in [Files -> SUBSET Queries]
    /\ Named \in [Files \cup Projects -> SUBSET Queries]

NoSearch == [query |-> None, nth |-> 0, local |-> {}, cancelled |-> FALSE,
             async |-> FALSE,       \* whether there is a search to cancel
             results |-> EmptyBag,
             lost |-> {},           \* history: what failed twice
             cleared |-> TRUE]      \* history: cleared since the last search

(* list_projects() *)
Listed(w) == IF w.team = None THEN {} ELSE {p \in Projects : Trees[w.team][p] # {}}

Result(section, x, q) == [section |-> section, item |-> x, query |-> q]
AddResults(w, section, xs, q) ==
    [w EXCEPT !.search.results = @ (+) SetToBag({Result(section, x, q) : x \in xs})]

ClearResults(w) == [w EXCEPT !.search.results = EmptyBag, !.search.cleared = TRUE]

(* cancel_searches(): the providers forget what they look for. *)
CancelSearches(w) ==
    IF ~w.search.async THEN w
    ELSE [w EXCEPT !.search = [@ EXCEPT !.cancelled = TRUE, !.async = FALSE,
                                        !.query = None, !.local = {}]]

SearchAsk(w, kind, p, again) ==
    [kind |-> kind, team |-> w.team, project |-> p, query |-> w.search.query,
     nth |-> w.search.nth, again |-> again]

(* search(): the contents, then the names of projects, then of files. What *)
(* is in a tab that is open counts as it is there, for every open file.    *)
Matches(w, f, q) == w.edit[f].loaded /\ ~w.edit[f].dirty /\ q \in Words[f]

SearchFor(w, q) ==
    LET clear == ClearResults(CancelSearches(w))
        new == [clear EXCEPT !.search =
                   [@ EXCEPT !.query = q, !.nth = w.search.nth + 1, !.lost = {},
                             !.cancelled = FALSE, !.cleared = FALSE,
                             !.async = Listed(w) # {}, !.local = OpenFiles(w)]]
        asked == [new EXCEPT !.net = @ \cup {SearchAsk(new, a[1], a[2], FALSE) :
                                   a \in {"contents", "names"} \X Listed(w)}]
        local == AddResults(asked, "contents", {f \in OpenFiles(w) : Matches(w, f, q)}, q)
    IN AddResults(local, "projects", {p \in Listed(w) : q \in Named[p]}, q)

(* init(): nothing happens when the page is open, in front or not.         *)
OpenSearch(w) ==
    IF IsOpen(w, "search") THEN w
    ELSE IF w.team = None THEN Say(w)
    ELSE SwitchTo(ClearResults(AddTab(w, "search")), "search")

CloseSearch(w) == RemoveTab(CancelSearches(ClearResults(Blur(w, "search"))), "search")

----------------------------------------------------------------------------
SearchKinds == {"contents", "names"}

Searches(q) == /\ Busy("search", SearchKinds) /\ win.cur = "search"
               /\ win' = SearchFor(win, q)
ClearsSearch == /\ Busy("search", SearchKinds) /\ win.cur = "search"
                /\ win' = ClearResults(win)
ShowsSearch == Busy("search", {}) /\ win' = OpenSearch(win)

(* A double click on a match in a file opens the file. *)
FollowsResult(f) ==
    /\ Busy("search", {"file", "revisions"}) /\ win.cur = "search"
    /\ \E r \in DOMAIN win.search.results : r.section = "contents" /\ r.item = f
    /\ win' = EditFile(win, f, None)

(* Mutant of TakesMatches: also those of files that are open.              *)
TakesAllMatches(w, m) ==
    AddResults(w, "contents", {f \in Trees[m.team][m.project] : m.query \in Words[f]}, m.query)

(* _handle_results(): the matches are those of the query that was sent.    *)
TakesMatches(w, m) ==
    AddResults(w, "contents", {f \in Trees[m.team][m.project] \ w.search.local :
                                   m.query \in Words[f]}, m.query)

(* _got_files(): the tree is looked through for the query of now. *)
TakesNames(w, m) ==
    AddResults(w, "names", {f \in Trees[m.team][m.project] : w.search.query \in Named[f]},
               w.search.query)

GotResults(m) ==
    /\ Arrives
    /\ win' = IF win.search.cancelled THEN Answered(m)
              ELSE IF m.kind = "contents" THEN TakesMatches(Answered(m), m)
              ELSE TakesNames(Answered(m), m)

(* A failed request is sent once more, for the team and the query of now.  *)
FailResults(m) ==
    /\ Fails(m)
    /\ win' = IF win.search.cancelled \/ m.again
              THEN [Answered(m) EXCEPT !.search.lost = @ \cup {<<m.kind, m.project>>}]
              ELSE Ask(Answered(m), [SearchAsk(win, m.kind, m.project, TRUE)
                                        EXCEPT !.nth = m.nth])

SearchSteps ==
    \/ \E q \in Queries : Searches(q)
    \/ ClearsSearch \/ ShowsSearch
    \/ \E f \in Files : FollowsResult(f)
    \/ \E m \in Waiting(SearchKinds) : GotResults(m) \/ FailResults(m)

----------------------------------------------------------------------------
(* A search among no projects waits for nothing: it is not cancelled when  *)
(* the page is closed, and lets the late answers of searches before it in. *)
Teamless == \E t \in Teams : \A p \in Projects : Trees[t][p] = {}

(* A page that is closed holds no results, for the late answers of its     *)
(* searches are not taken; where some team is without projects only while  *)
(* the user has not been hasty. Unless he was, once all answers are there, *)
(* the page shows matches of its last query only, none twice, and every    *)
(* match there is in the names of the projects and files and in the saved  *)
(* files that were not open, save those of projects whose requests failed  *)
(* twice (search.js:71-118, 270-279, 281-408).                            *)
SearchShows ==
    LET s == win.search
        found(section, xs) == \A x \in xs : Result(section, x, s.query) \in DOMAIN s.results
        all(section) == {p \in Listed(win) : <<section, p>> \notin s.lost}
    IN /\ (Teamless => raced = {}) /\ ~IsOpen(win, "search") => s.results = EmptyBag
       /\ (IsOpen(win, "search") /\ raced = {} /\ Waiting(SearchKinds) = {}
             /\ ~s.cleared)
          => /\ \A r \in DOMAIN s.results : r.query = s.query /\ s.results[r] = 1
             /\ found("projects", {p \in Listed(win) : s.query \in Named[p]})
             /\ found("names", UNION {{f \in Trees[win.team][p] : s.query \in Named[f]} :
                                          p \in all("names")})
             /\ found("contents", UNION {{f \in Trees[win.team][p] \ s.local :
                                             s.query \in Words[f]} : p \in all("contents")})

=============================================================================
