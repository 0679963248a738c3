---------------------------- MODULE ProjectPage ----------------------------
(***************************************************************************)
(* The projects page of the browser: the list of a team's projects, the   *)
(* selector, the file list, the project shown by the calendar, the poll   *)
(* for changes, and the export, kept in step by signals and filled by     *)
(* requests that are answered in any order or fail.                        *)
(*                                                                         *)
(* Every part keeps its own idea of which team and project the page is    *)
(* about, and every answer is taken without looking at what it was asked  *)
(* for: the properties say when the parts agree all the same.              *)
(***************************************************************************)
EXTENDS Integers, Sequences, FiniteSets, FiniteSetsExt

CONSTANTS
    Teams,        \* the user's teams
    Projects,     \* names of projects, used by any team
    Files,        \* names of files
    Robot,        \* the file robot.py
    None,         \* no team, no project (null, "" or undefined)
    FirstRepo,    \* what the server has when the page is loaded
    MaxEvents,    \* bound: how often the user does something, a request fails,
                  \* or a commit comes from elsewhere; haste counts double
    MaxTimers     \* bound: timers of the file list that wait at once

Habits == {"none", "files", "projects", "exports"}

HEAD == 0         \* the revision that means the newest; others count from 1

ASSUME NamesAssumption ==
    /\ Robot \in Files
    /\ None \notin Teams \cup Projects
    /\ FirstRepo \in [Teams -> [Projects -> Seq(SUBSET Files)]]

ASSUME BoundsAssumption == MaxEvents \in Nat /\ MaxTimers \in Nat

VARIABLES
    repo,    \* the server: the file set of every revision of every project
    ui,      \* the page: its parts, what they asked for, what they offer
    habit,   \* bound: what the user does beside choosing teams and projects
    spent,   \* bound: how much of MaxEvents is used up
    raced    \* history: somebody acted before what was asked for had come

vars == <<repo, ui, habit, spent, raced>>

(***************************************************************************)
(* The fields of ui:                                                       *)
(*   team    the global team, set by the team selector                     *)
(*   list    the ProjList: projects, the team it asked for, its prompt     *)
(*   sel     the ProjSelect: project, team, the project to go to next      *)
(*   page    the ProjPage: whether it is initialised, project, known       *)
(*           revision, whether the right-hand pane is shown                *)
(*   flist   the ProjFileList: project, team, revision, whether robot.py   *)
(*           was listed, how often each path is in the selection, its      *)
(*           timers; and of the document: the listing that is displayed,   *)
(*           the entries that are highlighted, whether it is visible       *)
(*   cal     the project and team of the Calendar                          *)
(*   last    the user's setting project.last                               *)
(*   polls   the polls whose timer runs or whose request is under way      *)
(*   net     the other requests under way                                  *)
(*   offer   the buttons in the status bar                                 *)
(* An operator below takes the page as it is and gives it as it becomes,   *)
(* as the handlers call one another.                                       *)
(***************************************************************************)

Paths == Projects \X Files      \* a path starts with the name of the project

----------------------------------------------------------------------------
(* The server, as far as the page sees it. *)

Exist(t) == {p \in Projects : repo[t][p] # <<>>}
Newest(t, p) == IF t \in Teams /\ p \in Projects THEN Len(repo[t][p]) ELSE 0

(* A request about a project that does not exist can only fail.            *)
Answerable(m) == Newest(m.team, m.project) > 0

(* The status bar shows one message; a new one replaces its buttons.       *)
Offer(buttons, about, name) == [buttons |-> buttons, about |-> about, name |-> name]
NoOffer == Offer({}, <<None, None, HEAD>>, None)

Loading == [team |-> None, project |-> None, rev |-> HEAD, n |-> 0]

(* The paths of the entries in a displayed listing. *)
Listed(d) == IF d.n = 0 THEN {}
             ELSE {d.project} \X repo[d.team][d.project][d.n]

NothingChosen == [x \in Paths |-> 0]
Chosen(fl) == {x \in Paths : fl.chosen[x] > 0}

----------------------------------------------------------------------------
(* Requests. They form a set: two equal requests get equal answers, and    *)
(* the second answer changes nothing that the first has not. An answer     *)
(* tells what the server has when the answer comes.                        *)

Ask(s, m) == [s EXCEPT !.net = @ \cup {m}]
Answered(m) == [ui EXCEPT !.net = @ \ {m}]

ListAsk(t) == [kind |-> "list", team |-> t]
InfoAsk(t, p) == [kind |-> "info", team |-> t, project |-> p]
TreeAsk(fl, auto) == [kind |-> "tree", team |-> fl.team, project |-> fl.project,
                      rev |-> fl.rev, auto |-> auto]
CreateAsk(t, name, from) == [kind |-> "create", team |-> t, name |-> name, from |-> from]
CheckAsk(triple) == [kind |-> "check", about |-> triple]
ZipAsk(triple, checked) == [kind |-> "zip", about |-> triple, checked |-> checked]

(* What an export or a check started now is about. *)
Triple(s) == <<s.team, s.page.project, s.flist.rev>>

----------------------------------------------------------------------------
(* Polling. The page keeps the poll it started last. cancel() cancels a    *)
(* timer; a request under way goes on, and its answer sets up a timer.     *)

NoAnswer == [projects |-> {}, rev |-> 0]

NewPoll(t, p) == [team |-> t, project |-> p, current |-> TRUE, asked |-> FALSE,
                  prev |-> NoAnswer]

SetupPolling(s) ==
    LET left == {q \in s.polls : ~q.current \/ q.asked}
    IN [s EXCEPT !.polls = IF s.page.project = None THEN left
                           ELSE {[q EXCEPT !.current = FALSE] : q \in left}
                                \cup {NewPoll(s.team, s.page.project)}]

----------------------------------------------------------------------------
(* The file list. *)

(* refresh(): asks for the listing, and forgets the timer it may have set. *)
Refresh(s, auto) ==
    IF s.flist.project = None THEN s
    ELSE Ask([s EXCEPT !.flist.held = FALSE, !.flist.prompt = FALSE],
             TreeAsk(s.flist, auto))

(* mark_dirty() and the timer: only the newest revision is refreshed.      *)
AutoRefresh(s) == IF s.flist.rev = HEAD THEN Refresh(s, TRUE) ELSE s

SelectNone(s) == [s EXCEPT !.flist.chosen = NothingChosen, !.flist.lit = {}]

(* update(pname, team, rev): the listing is replaced by a notice unless    *)
(* the very revision it shows is asked for by name. The code compares the  *)
(* argument, which a change of project leaves out, with the revision.      *)
UpdateTo(s, p, t, rev, named) ==
    LET other == p # s.flist.project \/ t # s.flist.team
        base  == IF other THEN SelectNone(s).flist ELSE s.flist
        new   == [base EXCEPT !.project = p, !.team = t, !.rev = rev]
    IN Refresh([s EXCEPT !.flist = IF other \/ ~named \/ rev # s.flist.rev
                                   THEN [new EXCEPT !.dom = Loading, !.lit = {},
                                                    !.visible = TRUE]
                                   ELSE new], FALSE)

UpdateList(s, p, t) == IF p = None THEN [s EXCEPT !.flist.visible = FALSE]
                       ELSE UpdateTo(s, p, t, HEAD, FALSE)

(* Mutant of Received: what was selected stays selected.                   *)
ReceivedKeeping(s, m, n) ==
    LET files == repo[m.team][m.project][n]
    IN [s EXCEPT !.flist = [@ EXCEPT
            !.dom = [team |-> m.team, project |-> m.project, rev |-> m.rev, n |-> n],
            !.robot = Robot \in files,
            !.lit = ({m.project} \X files) \cap Chosen(s.flist),
            !.visible = TRUE]]

(* _received(): the listing is built anew; what was selected stays so if   *)
(* it is listed.                                                           *)
Received(s, m, n) ==
    LET files == repo[m.team][m.project][n]
        kept  == ({m.project} \X files) \cap Chosen(s.flist)
    IN [s EXCEPT !.flist = [@ EXCEPT
            !.dom = [team |-> m.team, project |-> m.project, rev |-> m.rev, n |-> n],
            !.robot = Robot \in files,
            !.chosen = [x \in Paths |-> IF x \in kept THEN 1 ELSE 0],
            !.lit = kept,
            !.visible = TRUE]]

(* _select_path(), once per path: a path is added although it may be       *)
(* selected already.                                                       *)
Pick(s, xs) == [s EXCEPT !.flist.chosen = [x \in Paths |-> @[x] + IF x \in xs THEN 1 ELSE 0],
                         !.flist.lit = @ \cup xs]
Unpick(s, x) == [s EXCEPT !.flist.chosen[x] = @ - 1, !.flist.lit = @ \ {x}]

(* select(path), for the search page: while the list is loading the path   *)
(* is only noted.                                                          *)
PickByPath(s, x) ==
    IF s.flist.dom = Loading THEN [s EXCEPT !.flist.chosen[x] = @ + 1]
    ELSE Pick(s, {x} \cap Listed(s.flist.dom))

----------------------------------------------------------------------------
(* The signal "onchange" of the selector: the page, the file list and the  *)
(* calendar are told, in this order.                                       *)

OnProjChange(s, p, t) ==
    LET new == SetupPolling([s EXCEPT !.page.project = p, !.page.rev = 0,
                                      !.page.pane = p # None])
    IN IF p = None THEN new ELSE Ask(new, InfoAsk(t, p))

ChangeProj(s, p, t) == [s EXCEPT !.cal = [project |-> p, team |-> t]]

SignalProject(s) ==
    LET p == s.sel.project
        t == s.sel.team
    IN ChangeProj(UpdateList(OnProjChange(s, p, t), p, t), p, t)

(* _get_default(): the only project, or the one the user's settings name.  *)
DefaultOf(s) ==
    IF Cardinality(s.list.projects) = 1
    THEN CHOOSE p \in s.list.projects : TRUE
    ELSE IF s.last \in s.list.projects THEN s.last ELSE None

(* Mutant of ListChanged: it signals only when the name changes.           *)
ListChangedByName(s, t) ==
    LET again == s.sel.project = None \/ t # s.sel.team
                     \/ s.sel.project \notin s.list.projects
        p     == IF again THEN DefaultOf(s) ELSE s.sel.project
        new   == [s EXCEPT !.sel = [@ EXCEPT !.project = p, !.team = t]]
    IN IF p # s.sel.project THEN SignalProject(new) ELSE new

(* _plist_onchange(t): the selector follows a new list of projects, and    *)
(* signals when its project or team is another than before.                *)
ListChanged(s, t) ==
    LET goes  == s.sel.trans \in s.list.projects
        again == s.sel.project = None \/ t # s.sel.team
                     \/ s.sel.project \notin s.list.projects
        p     == IF goes THEN s.sel.trans
                 ELSE IF again THEN DefaultOf(s) ELSE s.sel.project
        new   == [s EXCEPT !.sel = [project |-> p, team |-> t,
                                    trans |-> IF goes THEN None ELSE @.trans],
                           !.offer = IF p = None THEN NoOffer ELSE @]
    IN IF p # s.sel.project \/ t # s.sel.team THEN SignalProject(new) ELSE new

(* Mutant of GrabList: the team it was first asked for stays noted.        *)
GrabListOfFirst(s, t) ==
    Ask([s EXCEPT !.list.team = IF @ = None THEN t ELSE @, !.list.loaded = FALSE,
                  !.list.prompt = FALSE], ListAsk(t))

(* _grab_list(t) *)
GrabList(s, t) ==
    Ask([s EXCEPT !.list.team = t, !.list.loaded = FALSE, !.list.prompt = FALSE],
        ListAsk(t))

(* select(p): for a project of the list that is not selected already.      *)
Select(s, p) ==
    IF p \in s.list.projects /\ p # s.sel.project
    THEN [SignalProject([s EXCEPT !.sel.project = p]) EXCEPT !.last = p]
    ELSE s

(* Mutant of PollChanged: a change of the list is all it looks at.         *)
PollChangedOnce(s, q, got) ==
    IF Cardinality(got.projects) # Cardinality(s.list.projects)
    THEN ListChanged([s EXCEPT !.list.projects = got.projects], s.team)
    ELSE IF s.page.project = None \/ got.rev = s.page.rev THEN s
    ELSE AutoRefresh([s EXCEPT !.page.rev = got.rev])

(* _pollChanged(): the list is replaced when it has another length; then   *)
(* the revision of the selected project is compared with the known one.    *)
PollChanged(s, q, got) ==
    LET a   == IF Cardinality(got.projects) = Cardinality(s.list.projects) THEN s
               ELSE ListChanged([s EXCEPT !.list.projects = got.projects], s.team)
        rev == IF a.page.project = q.project THEN got.rev ELSE 0
    IN IF a.page.project = None \/ rev = a.page.rev THEN a
       ELSE AutoRefresh([a EXCEPT !.page.rev = rev])

----------------------------------------------------------------------------
(* Steps. *)

Busy == ui.net # {} \/ \E q \in ui.polls : q.asked

(* The user does something. Whoever is patient waits for the answers, for  *)
(* the list of the selected team before all, and presses no stale button:  *)
(* one that was offered for another team, project or revision.             *)
Clicks(stale) ==
    LET hasty == Busy \/ stale \/ ~ui.list.loaded
    IN /\ spent' = spent + IF hasty THEN 2 ELSE 1
       /\ spent' <= MaxEvents
       /\ raced' = (raced \/ hasty)

(* A step of the network or a timer, which only time has to pass for. It   *)
(* too may take the page elsewhere while a listing or a poll is under way. *)
Unasked ==
    /\ LET overtaken == \/ \E m \in ui.net : m.kind = "tree"
                        \/ \E q \in ui.polls : q.asked
       IN raced' = (raced \/ (ui'.sel # ui.sel /\ overtaken))
    /\ UNCHANGED habit

(* A request fails: those about what does not exist always do.             *)
Fails(hopeless) ==
    /\ spent' = spent + IF hopeless THEN 0 ELSE 1
    /\ spent' <= MaxEvents

Waiting(kind) == {m \in ui.net : m.kind = kind}

(* ProjPage.set_team(): the polling is set up for the new team while the   *)
(* project is still the old one.                                           *)
SetTeam(s, t) ==
    GrabList(SetupPolling([s EXCEPT !.team = t, !.page.pane = FALSE,
                                    !.page.initted = TRUE]), t)

(* TeamSelector._selected(): once all tabs are closed.                     *)
SelectTeam(t) ==
    /\ t # ui.team
    /\ Clicks(FALSE)
    /\ ui' = SetTeam(ui, t)
    /\ UNCHANGED repo

(* _got_list(): taken for the list of the team asked for last.             *)
GotList(m) ==
    /\ m.team \in Teams
    /\ ui' = ListChanged([Answered(m) EXCEPT !.list.projects = Exist(m.team),
                                             !.list.loaded = TRUE], ui.list.team)
    /\ UNCHANGED <<repo, spent>> /\ Unasked

FailList(m) ==
    /\ Fails(m.team = None)
    /\ ui' = [Answered(m) EXCEPT !.list.prompt = TRUE,
                                 !.offer = Offer({"list"}, Triple(ui), None)]
    /\ UNCHANGED repo /\ Unasked

(* The select box: the status bar is cleared first.                        *)
SelectProject(p) ==
    /\ p \in ui.list.projects /\ p # ui.sel.project
    /\ Clicks(FALSE)
    /\ ui' = Select([ui EXCEPT !.offer = NoOffer], p)
    /\ UNCHANGED repo

(* A result of the search page is followed: it names a file of a project   *)
(* that was listed when the search was made.                               *)
FollowResult(x) ==
    /\ Newest(ui.team, x[1]) > 0
    /\ ui.flist.chosen[x] < 2
    /\ Clicks(FALSE)
    /\ ui' = PickByPath(SelectNone(Select(ui, x[1])), x)
    /\ UNCHANGED repo

(* Ctrl and a click on an entry.                                           *)
ClickFile(x) ==
    /\ ui.flist.visible /\ x \in Listed(ui.flist.dom)
    /\ Clicks(FALSE)
    /\ ui' = IF ui.flist.chosen[x] = 0 THEN Pick(ui, {x}) ELSE Unpick(ui, x)
    /\ UNCHANGED repo

ClickSelectAll ==
    /\ Listed(ui.flist.dom) # {}
    /\ \A x \in Listed(ui.flist.dom) : ui.flist.chosen[x] < 2
    /\ Clicks(FALSE)
    /\ ui' = Pick(ui, Listed(ui.flist.dom))
    /\ UNCHANGED repo

ClickSelectNone ==
    /\ Clicks(FALSE)
    /\ ui' = SelectNone(ui)
    /\ UNCHANGED repo

(* A day of the calendar is clicked: the file list is hidden until a       *)
(* revision of that day is chosen.                                         *)
PickDay ==
    /\ ui.cal.project # None
    /\ Clicks(FALSE)
    /\ ui' = [ui EXCEPT !.flist.visible = FALSE]
    /\ UNCHANGED repo

ChangeRev(rev) ==
    /\ ui.cal.project # None /\ rev \in HEAD .. Newest(ui.cal.team, ui.cal.project)
    /\ Clicks(FALSE)
    /\ ui' = UpdateTo(ui, ui.flist.project, ui.flist.team, rev, TRUE)
    /\ UNCHANGED repo

GotTree(m) ==
    /\ Answerable(m)
    /\ ui' = Received(Answered(m), m, IF m.rev = HEAD THEN Newest(m.team, m.project)
                                                     ELSE m.rev)
    /\ UNCHANGED <<repo, spent>> /\ Unasked

(* Mutant of FailTree: a refresh nobody asked for is not tried again.      *)
FailTreeSilently(m) ==
    /\ Fails(~Answerable(m))
    /\ ui' = IF m.auto THEN Answered(m)
             ELSE [Answered(m) EXCEPT !.flist.prompt = TRUE,
                                      !.offer = Offer({"tree"}, Triple(ui), None)]
    /\ UNCHANGED repo /\ Unasked

(* A refresh nobody asked for is tried again in three seconds; otherwise   *)
(* the user is offered to. Setting the timer cancels the one it knows of.  *)
FailTree(m) ==
    /\ Fails(~Answerable(m))
    /\ LET s == Answered(m)
       IN ui' = IF ~m.auto
                THEN [s EXCEPT !.flist.prompt = TRUE,
                               !.offer = Offer({"tree"}, Triple(s), None)]
                ELSE IF s.flist.rev # HEAD
                     THEN [s EXCEPT !.flist.timers = @ - (IF s.flist.held THEN 1 ELSE 0),
                                    !.flist.held = FALSE]
                     ELSE [s EXCEPT !.flist.timers = @ + (IF s.flist.held THEN 0 ELSE 1),
                                    !.flist.held = TRUE]
    /\ ui'.flist.timers <= MaxTimers
    /\ UNCHANGED repo /\ Unasked

(* Mutant of TimerEnds: the timer is known although it is over.            *)
TimerEndsUnnoticed(held) ==
    /\ ui.flist.timers > 0
    /\ ui' = [ui EXCEPT !.flist.timers = @ - 1]
    /\ UNCHANGED <<repo, spent>> /\ Unasked

(* A timer of the file list runs out: held tells whether it is the one     *)
(* the list knows of.                                                      *)
TimerEnds(held) ==
    /\ ui.flist.timers > (IF held \/ ~ui.flist.held THEN 0 ELSE 1)
    /\ held => ui.flist.held
    /\ ui' = AutoRefresh([ui EXCEPT !.flist.timers = @ - 1,
                                    !.flist.held = @ /\ ~held])
    /\ UNCHANGED <<repo, spent>> /\ Unasked

(* _got_proj_info(): whatever project is selected by now. A failure is     *)
(* ignored.                                                                *)
GotInfo(m) ==
    /\ Answerable(m)
    /\ ui' = [Answered(m) EXCEPT !.page.rev = Newest(m.team, m.project)]
    /\ UNCHANGED <<repo, spent>> /\ Unasked

FailInfo(m) ==
    /\ Fails(~Answerable(m))
    /\ ui' = Answered(m)
    /\ UNCHANGED repo /\ Unasked

(* Bound: one poll at a time is under way.                                 *)
PollAsks(q) ==
    /\ \A r \in ui.polls : ~r.asked
    /\ ui' = [ui EXCEPT !.polls = (@ \ {q}) \cup {[q EXCEPT !.asked = TRUE]}]
    /\ UNCHANGED <<repo, spent>> /\ Unasked

(* _pollResponse(): signals when the answer is another than the last one,  *)
(* then sets up the timer, even of a poll that was replaced meanwhile.     *)
PollAnswers(q) ==
    /\ q.asked
    /\ LET got == [projects |-> Exist(q.team), rev |-> Newest(q.team, q.project)]
           s   == IF got = q.prev THEN ui ELSE PollChanged(ui, q, got)
           now == IF q \in s.polls THEN q ELSE [q EXCEPT !.current = FALSE]
       IN ui' = [s EXCEPT !.polls = (@ \ {now})
                            \cup {[now EXCEPT !.asked = FALSE, !.prev = got]}]
    /\ UNCHANGED <<repo, spent>> /\ Unasked

(* _pollResponseError(): with a count of one no attempt is repeated.       *)
PollFails(q) ==
    /\ q.asked
    /\ ui' = [ui EXCEPT !.polls = (@ \ {q}) \cup {[q EXCEPT !.asked = FALSE]}]
    /\ UNCHANGED <<repo, spent>> /\ Unasked

----------------------------------------------------------------------------
(* New and copied projects. The dialog refuses a name that is listed.      *)

Create(s, name, copies) ==
    Ask(s, CreateAsk(s.team, name, IF copies THEN s.page.project ELSE None))

ClickCreate(name, copies) ==
    /\ ui.page.initted /\ name \notin ui.list.projects
    /\ copies => ui.page.project # None
    /\ Clicks(FALSE)
    /\ ui' = Create(ui, name, copies)
    /\ UNCHANGED repo

(* What the server does: a new project that exists is left as it is, a     *)
(* copy needs a project to copy and a free name.                           *)
Creatable(m) == m.from = None \/ (Newest(m.team, m.from) > 0 /\ Newest(m.team, m.name) = 0)
Created(m) ==
    [repo EXCEPT ![m.team][m.name] = IF @ # <<>> THEN @
                                     ELSE IF m.from = None THEN <<{}>>
                                     ELSE repo[m.team][m.from]]

(* _createProjectSuccess() and _CopyProjectSuccess(): the selector is to   *)
(* go to the new project when the list has come; after a copy only if the  *)
(* projects tab has the focus.                                             *)
GotCreate(m, focus) ==
    /\ Creatable(m)
    /\ m.from = None => focus
    /\ repo' = Created(m)
    /\ ui' = IF ~focus THEN Answered(m)
             ELSE GrabList([Answered(m) EXCEPT !.sel.trans = m.name], ui.team)
    /\ UNCHANGED spent /\ Unasked

(* The request failed, or its answer was lost.                             *)
FailCreate(m, done) ==
    /\ done => Creatable(m)
    /\ Fails(~Creatable(m))
    /\ repo' = IF done THEN Created(m) ELSE repo
    /\ ui' = [Answered(m) EXCEPT !.offer =
                 Offer({IF m.from = None THEN "create" ELSE "copy"},
                       IF m.from = None THEN <<m.team>> ELSE <<m.team, m.from>>, m.name)]
    /\ Unasked

----------------------------------------------------------------------------
(* Export: the code is checked, and what is displayed when the answer      *)
(* comes is exported.                                                      *)

(* Mutant of ExportZip: the newest revision, whichever is displayed.       *)
ExportZipNewest(s, checked) ==
    Ask(s, ZipAsk(<<s.team, s.page.project, HEAD>>, checked))

ExportZip(s, checked) == Ask(s, ZipAsk(Triple(s), checked))

HandleExport(s, unsaved) ==
    IF unsaved
    THEN [s EXCEPT !.offer = Offer({"export unsaved"}, Triple(s), None)]
    ELSE Ask(s, CheckAsk(Triple(s)))

(* unsaved: whether an open tab of the project has changes.                *)
ClickExport(unsaved) ==
    /\ ui.flist.robot
    /\ Clicks(FALSE)
    /\ ui' = HandleExport(ui, unsaved)
    /\ UNCHANGED repo

CheckPasses(m) ==
    /\ Newest(m.about[1], m.about[2]) > 0
    /\ ui' = ExportZip(Answered(m), m.about)
    /\ UNCHANGED <<repo, spent>> /\ Unasked

CheckFindsErrors(m) ==
    /\ Newest(m.about[1], m.about[2]) > 0
    /\ ui' = [Answered(m) EXCEPT !.offer = Offer({"export anyway"}, m.about, None)]
    /\ UNCHANGED <<repo, spent>> /\ Unasked

CheckFails(m) ==
    /\ Fails(Newest(m.about[1], m.about[2]) = 0)
    /\ ui' = [Answered(m) EXCEPT !.offer =
                 Offer({"retry check", "export anyway"}, m.about, None)]
    /\ UNCHANGED repo /\ Unasked

(* Checkout: the browser is sent to the zip.                               *)
GotZip(m) ==
    /\ Newest(m.about[1], m.about[2]) > 0
    /\ ui' = [Answered(m) EXCEPT !.offer = NoOffer]
    /\ UNCHANGED <<repo, spent>> /\ Unasked

FailZip(m) ==
    /\ Fails(Newest(m.about[1], m.about[2]) = 0)
    /\ ui' = [Answered(m) EXCEPT !.offer = Offer({"retry export"}, m.checked, None)]
    /\ UNCHANGED repo /\ Unasked

----------------------------------------------------------------------------
(* The buttons in the status bar. A button of a message that was closed is *)
(* gone; the others stay until another message comes or the user selects a *)
(* project in the select box. Each acts on the page as it is when pressed. *)

(* The button that retries to get the list is not told the team.           *)
PressListRetry ==
    /\ "list" \in ui.offer.buttons /\ ui.list.prompt
    /\ Clicks(FALSE)
    /\ ui' = GrabList([ui EXCEPT !.offer = NoOffer], None)
    /\ UNCHANGED repo

PressTreeRetry ==
    /\ "tree" \in ui.offer.buttons /\ ui.flist.prompt
    /\ Clicks(FALSE)
    /\ ui' = Refresh([ui EXCEPT !.offer = NoOffer], FALSE)
    /\ UNCHANGED repo

PressCreate ==
    /\ "create" \in ui.offer.buttons
    /\ Clicks(ui.offer.about # <<ui.team>>)
    /\ ui' = Create([ui EXCEPT !.offer = NoOffer], ui.offer.name, FALSE)
    /\ UNCHANGED repo

PressCopy ==
    /\ "copy" \in ui.offer.buttons
    /\ Clicks(ui.offer.about # <<ui.team, ui.page.project>>)
    /\ ui.page.project # None
    /\ ui' = Create([ui EXCEPT !.offer = NoOffer], ui.offer.name, TRUE)
    /\ UNCHANGED repo

PressExport(b) ==
    /\ b \in ui.offer.buttons
    /\ Clicks(ui.offer.about # Triple(ui))
    /\ LET s == [ui EXCEPT !.offer = NoOffer]
       IN \/ /\ b \in {"export anyway", "retry export"}
             /\ ui' = ExportZip(s, ui.offer.about)
          \/ /\ b \in {"export unsaved", "retry check"}
             /\ ui.flist.robot
             /\ \E unsaved \in BOOLEAN :
                  /\ unsaved => b = "retry check"
                  /\ ui' = HandleExport(s, unsaved)
    /\ UNCHANGED repo

----------------------------------------------------------------------------
(* What comes from outside the page. *)

Others ==
    /\ spent < MaxEvents
    /\ spent' = spent + 1
    /\ raced' = (raced \/ Busy)
    /\ UNCHANGED habit

(* A commit to a project, of this user or another, adds or removes a file. *)
Commit(t, p, f) ==
    /\ repo[t][p] # <<>>
    /\ Others
    /\ LET files == repo[t][p][Newest(t, p)]
       IN repo' = [repo EXCEPT ![t][p] =
                     Append(@, IF f \in files THEN files \ {f} ELSE files \cup {f})]
    /\ UNCHANGED ui

(* A tab or a file operation of this page has had its commit answered, and *)
(* calls flist.refresh().                                                  *)
CommitAnswered ==
    /\ ui.flist.project # None
    /\ Clicks(FALSE)
    /\ ui' = Refresh(ui, FALSE)
    /\ UNCHANGED repo

OtherCreates(t, p) ==
    /\ repo[t][p] = <<>>
    /\ Others
    /\ repo' = [repo EXCEPT ![t][p] = <<{}>>]
    /\ UNCHANGED ui

----------------------------------------------------------------------------

Blank ==
    [team  |-> None,
     list  |-> [projects |-> {}, team |-> None, loaded |-> FALSE, prompt |-> FALSE],
     sel   |-> [project |-> None, team |-> None, trans |-> None],
     page  |-> [initted |-> FALSE, project |-> None, rev |-> 0, pane |-> TRUE],
     flist |-> [project |-> None, team |-> None, rev |-> HEAD, robot |-> FALSE,
                chosen |-> NothingChosen, timers |-> 0, held |-> FALSE,
                prompt |-> FALSE, dom |-> Loading, lit |-> {}, visible |-> FALSE],
     cal   |-> [project |-> None, team |-> None],
     last  |-> None,
     polls |-> {},
     net   |-> {},
     offer |-> NoOffer]

(* The team selector starts with the team the user's settings name.        *)
Init ==
    /\ repo = FirstRepo
    /\ ui \in {SetTeam(Blank, t) : t \in Teams}
    /\ spent = 0
    /\ habit = "none"
    /\ raced = FALSE

ManagesFiles ==
    \/ \E x \in Paths : FollowResult(x) \/ ClickFile(x)
    \/ ClickSelectAll \/ ClickSelectNone
    \/ CommitAnswered
ReadsHistory == PickDay \/ \E rev \in HEAD .. MaxEvents : ChangeRev(rev)
CreatesProjects ==
    \/ \E p \in Projects, copies \in BOOLEAN : ClickCreate(p, copies)
    \/ PressCreate \/ PressCopy
Exports ==
    \/ \E unsaved \in BOOLEAN : ClickExport(unsaved)
    \/ \E b \in {"export anyway", "retry export", "export unsaved", "retry check"} :
          PressExport(b)

(* In one behaviour the user does only one of these.                       *)
Habit(h) == habit \in {"none", h} /\ habit' = h

User ==
    \/ /\ \/ \E t \in Teams : SelectTeam(t)
          \/ \E p \in Projects : SelectProject(p)
          \/ PressListRetry \/ PressTreeRetry
       /\ UNCHANGED habit
    \/ Habit("files") /\ ManagesFiles
    \/ Habit("projects") /\ CreatesProjects
    \/ Habit("exports") /\ (ReadsHistory \/ Exports)

World ==
    \E t \in Teams, p \in Projects : \/ \E f \in Files : Commit(t, p, f)
                                    \/ OtherCreates(t, p)

GetLists == \E m \in Waiting("list") : GotList(m) \/ FailList(m)
GetTrees == \E m \in Waiting("tree") : GotTree(m) \/ FailTree(m)
GetInfos == \E m \in Waiting("info") : GotInfo(m) \/ FailInfo(m)
GetCreated == \E m \in Waiting("create") :
                 \E b \in BOOLEAN : GotCreate(m, b) \/ FailCreate(m, b)
GetChecks == \E m \in Waiting("check") : CheckPasses(m) \/ CheckFindsErrors(m) \/ CheckFails(m)
GetZips == \E m \in Waiting("zip") : GotZip(m) \/ FailZip(m)
Timers == \E held \in BOOLEAN : TimerEnds(held)
Polling(q) == PollAsks(q) \/ PollAnswers(q) \/ PollFails(q)

Next == \/ User \/ World
        \/ GetLists \/ GetTrees \/ GetInfos \/ GetCreated \/ GetChecks \/ GetZips
        \/ Timers
        \/ \E q \in ui.polls : Polling(q)

Spec == Init /\ [][Next]_vars

----------------------------------------------------------------------------
(* Properties. *)

TeamsOrNone == Teams \cup {None}
ProjectsOrNone == Projects \cup {None}

Triples == TeamsOrNone \X ProjectsOrNone \X Nat

Request ==
    [kind : {"list"}, team : TeamsOrNone]
    \cup [kind : {"info"}, team : TeamsOrNone, project : Projects]
    \cup [kind : {"tree"}, team : TeamsOrNone, project : Projects, rev : Nat, auto : BOOLEAN]
    \cup [kind : {"create"}, team : Teams, name : Projects, from : ProjectsOrNone]
    \cup [kind : {"check"}, about : Triples]
    \cup [kind : {"zip"}, about : Triples, checked : Triples]

Poll == [team : Teams, project : Projects, current : BOOLEAN, asked : BOOLEAN,
         prev : [projects : SUBSET Projects, rev : Nat]]

(* Only the buttons that create and copy name a project.                   *)
StatusBar ==
    [buttons : SUBSET {"list", "tree", "export unsaved", "export anyway", "retry check",
                       "retry export"},
     about : Triples, name : {None}]
    \cup [buttons : {{"create"}, {"copy"}},
          about : Seq(TeamsOrNone \cup ProjectsOrNone), name : Projects]

FileList ==
    [project : ProjectsOrNone, team : TeamsOrNone, rev : Nat, robot : BOOLEAN,
     chosen : [Paths -> Nat], timers : 0 .. MaxTimers, held : BOOLEAN, prompt : BOOLEAN,
     dom : [team : TeamsOrNone, project : ProjectsOrNone, rev : Nat, n : Nat],
     lit : SUBSET Paths, visible : BOOLEAN]

Page ==
    [team  : Teams,
     list  : [projects : SUBSET Projects, team : TeamsOrNone, loaded : BOOLEAN,
              prompt : BOOLEAN],
     sel   : [project : ProjectsOrNone, team : TeamsOrNone, trans : ProjectsOrNone],
     page  : [initted : BOOLEAN, project : ProjectsOrNone, rev : Nat, pane : BOOLEAN],
     flist : FileList,
     cal   : [project : ProjectsOrNone, team : TeamsOrNone],
     last  : ProjectsOrNone,
     polls : SUBSET Poll,
     net   : SUBSET Request,
     offer : StatusBar]

TypeOK ==
    /\ repo \in [Teams -> [Projects -> Seq(SUBSET Files)]]
    /\ raced \in BOOLEAN /\ habit \in Habits
    /\ spent \in 0 .. MaxEvents
    /\ ui \in Page
    /\ ui.flist.held => ui.flist.timers > 0

(* Whatever order answers come in, and whatever fails, the page, the       *)
(* selector, the file list, the calendar and the poll are about the same   *)
(* project: none of them misses a change (projpage.js:68-101).             *)
Agreement ==
    LET p == ui.sel.project
    IN /\ ui.page.project = p
       /\ ui.cal = [project |-> p, team |-> ui.sel.team]
       /\ p # None => /\ ui.flist.project = p /\ ui.flist.team = ui.sel.team
                      /\ \E q \in ui.polls : q.current /\ q.project = p /\ q.team = ui.team
       /\ Cardinality({q \in ui.polls : q.current}) <= 1

(* The operations on files act on the selection of the file list. Whatever *)
(* happens, every selected path is an entry of the listing the user sees,  *)
(* unless it is being loaded, and what is highlighted is selected          *)
(* (projfilelist.js:159-174).                                              *)
SelectionListed ==
    /\ ui.flist.lit \subseteq Chosen(ui.flist)
    /\ ui.flist.dom # Loading => Chosen(ui.flist) \subseteq Listed(ui.flist.dom)

(* Unless somebody acted while a request was under way, the listing that   *)
(* is displayed once nothing of it is asked for any more is that of the    *)
(* project, team and revision the page is on, and it is not older than the *)
(* revision the page knows of (projfilelist.js:53-82, projpage.js:166).    *)
ListingShown ==
    LET fl == ui.flist
    IN (~raced /\ ui.sel.team = ui.team /\ ui.page.project # None /\ ~fl.prompt /\ fl.timers = 0
            /\ Waiting("tree") = {})
       => /\ <<fl.dom.team, fl.dom.project, fl.dom.rev>>
                 = <<ui.sel.team, ui.sel.project, fl.rev>>
          /\ fl.rev = HEAD => fl.dom.n >= ui.page.rev

(* Unless somebody acted while a request was under way, a list of projects *)
(* that is loaded is that of the selected team, for the list and the       *)
(* selector alike (projlist.js:52-57, projselect.js:134-199).              *)
ListCurrent ==
    ~raced /\ ui.list.loaded
        => /\ ui.sel.team = ui.team /\ ui.list.team = ui.team
           /\ ui.list.projects \subseteq Exist(ui.team)

(* Unless somebody acted while a request was under way, or pressed a       *)
(* button that was offered for something else, what is exported is what    *)
(* was checked: the same team, project and revision (projpage.js:354-411). *)
ExportsWhatWasChecked ==
    ~raced => \A m \in Waiting("zip") : m.about = m.checked

(* No commit is missed: unless somebody acted while a request was under    *)
(* way, once the poll knows what the server has and no listing is on its   *)
(* way, the newest revision is displayed, if that is what the page is on   *)
(* (projpage.js:151-173, projfilelist.js:84-107).                          *)
NoCommitMissed ==
    LET fl == ui.flist
    IN (~raced /\ ui.sel.team = ui.team /\ ui.page.project # None /\ fl.rev = HEAD
            /\ ~fl.prompt /\ fl.timers = 0 /\ Waiting("tree") = {}
            /\ \E q \in ui.polls : q.current /\ q.prev.rev = Newest(ui.team, ui.page.project))
       => fl.dom.n = Newest(ui.team, ui.page.project)

=============================================================================
