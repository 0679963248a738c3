-------------------------------- MODULE Pages --------------------------------
(***************************************************************************)
(* The browser side put together: the shell, its pages and their dialog,   *)
(* from the moment the user's settings are there. The user is busy with    *)
(* one kind of page, and opens and closes tabs, turns to others and        *)
(* changes the team at any time; what was asked for is answered in any     *)
(* order, or fails.                                                        *)
(***************************************************************************)
EXTENDS EditPane

(* What the close button of a tab does. *)
ClosePage(w, t) ==
    CASE t = "search" -> CloseSearch(w)
      [] t = "errors" -> CloseErrors(w)
      [] t = "settings" -> CloseSettings(w)
      [] t = "review" -> CloseStatus(w)
      [] t = "admin" -> CloseAdmin(w)
      [] t = "diff" -> CloseDiff(w)
      [] t \in LogTabs -> RemoveTab(w, t)
      [] t \in Files -> CloseFile(w, t, FALSE)

(* close_all_tabs(): the bar shrinks under the loop, which passes over the *)
(* tab after one that was closed; the edit page closes all of its own.     *)
CloseAllTabs(w) ==
    LET i == 1 .. Len(w.tabs)
        visit(u, k) == IF k <= Len(u.tabs) /\ CanClose(u.tabs[k]) THEN ClosePage(u, u.tabs[k])
                       ELSE u
    IN CloseFiles(FoldLeft(visit, w, [k \in i |-> k]), FALSE)

(* The team has changed: the project page, whose tab opens with the first  *)
(* team, then the errors page, then the setting of the last team.          *)
TeamChanged(w, t, first) ==
    LET team == [w EXCEPT !.team = t, !.ops = [@ EXCEPT !.proj = None, !.sel = <<>>],
                          !.cal.proj = None]
        page == IF IsOpen(team, "projects") THEN team
                ELSE SwitchTo(AddTab(team, "projects"), "projects")
        model == IF first THEN page ELSE NewModel(page)
    IN SetSettings(model, [model.settings.mine EXCEPT !.teamlast = t], {"teamlast"}, FALSE)

(* load_gui(): the menu's tab, then the team to start with, if any. *)
LoadGui(w) ==
    LET t == TeamToLoad(w.settings.mine)
        bar == AddTab([w EXCEPT !.loaded = TRUE], "shortcuts")
    IN IF t \in Teams THEN TeamChanged(bar, t, TRUE) ELSE Say(bar)

----------------------------------------------------------------------------
GotUser(m) == Arrives /\ win' = LoadGui(Answered(m))
FailUser(m) == Fails(m) /\ win' = Offer(Answered(m), "user", None)
PressUser == /\ Pressed("user") /\ Spend(0) /\ UNCHANGED <<habit, raced>>
             /\ win' = Ask(Unbuttoned, [kind |-> "user"])

(* Requests that a page waits for. *)
KindsOf(t) ==
    CASE t = "search" -> SearchKinds
      [] t = "errors" -> {"lint"}
      [] t = "settings" -> {"put"}
      [] t = "review" -> StatusKinds
      [] t = "admin" -> AdminKinds \cup {"verdict"}
      [] t = "diff" -> {"diff"}
      [] t \in LogTabs -> LogKinds
      [] t \in Files -> Drawing

ClosesTab(t) ==
    /\ IsOpen(win, t) /\ CanClose(t) /\ ~win.dlg.open
    /\ Moves(Waiting(KindsOf(t) \cup Drawing) # {})
    /\ win' = ClosePage(win, t)

(* Several files are shown one after another as they are closed. *)
Several == Cardinality(OpenFiles(win)) > 1

(* _selected(): files that are modified keep the team; the other tabs are  *)
(* closed, though not all.                                                 *)
SelectsTeam(t) ==
    /\ t # win.team /\ ~win.dlg.open /\ win.loaded
    /\ Spend(IF win.net # {} THEN 2 ELSE 1) /\ UNCHANGED habit
    /\ LET asked == Unprompt(win, "none")
           closed == CloseAllTabs(asked)
           goes == Modified(closed) = {}
           left == goes /\ \E u \in PageTabs : IsOpen(closed, u)
       IN /\ win' = IF goes THEN TeamChanged(closed, t, FALSE) ELSE closed
          /\ raced' = raced \cup (IF win.net # {} \/ win.offer # NoOffer THEN {"hasty"} ELSE {})
                            \cup (IF Several THEN {"several"} ELSE {})
                            \cup (IF left THEN {"left"} ELSE {})

(* beforeunload(), when the user is asked to stay, and stays. *)
StaysOnPage ==
    /\ Modified(win) # {} /\ ~win.dlg.open /\ Spend(IF win.net # {} THEN 2 ELSE 1)
    /\ raced' = raced \cup (IF win.net # {} THEN {"hasty"} ELSE {})
                      \cup (IF Several THEN {"several"} ELSE {})
    /\ UNCHANGED habit
    /\ win' = CloseAllTabs(win)

ShellSteps ==
    \/ \E m \in Waiting({"user"}) : GotUser(m) \/ FailUser(m)
    \/ PressUser
    \/ \E t \in Tabs : ClosesTab(t) \/ (~win.dlg.open /\ ClickTab(t))
    \/ ~win.dlg.open /\ PressKey
    \/ \E t \in Teams : SelectsTeam(t)
    \/ StaysOnPage

FileSteps ==
    \/ ~win.dlg.open /\ \E f \in Files : OpensFile(f) \/ Type(f)
    \/ \E m \in Waiting({"file"}) : GotFile(m) \/ FailFile(m)
    \/ PressLoad \/ PressClose \/ PressCloseAll \/ PressRevision

MenuSteps ==
    \/ ToggleMenu \/ EnterMenu \/ LeaveMenu \/ MenuTimer \/ ShowAbout \/ HideAbout
    \/ \E m \in Waiting({"about"}) : GotAbout(m) \/ FailAbout(m)

Next ==
    \/ ShellSteps \/ FileSteps \/ MenuSteps
    \/ SearchSteps \/ SettingsSteps \/ SettingsAnswers \/ ErrorsSteps
    \/ LogSteps \/ DiffSteps \/ CalendarSteps \/ AdminSteps \/ StatusSteps
    \/ FilesSteps \/ EditSteps

Init ==
    /\ LET pages == [search |-> NoSearch, settings |-> NoSettings, errors |-> NoErrors,
                     commits |-> FirstCommits, diff |-> NoDiff, cal |-> NoCalendar,
                     admin |-> NoAdmin, status |-> NoStatus, reviews |-> FirstReviews,
                     texts |-> [t \in Teams |-> <<t, 0>>],
                     ops |-> NoOps, dlg |-> NoDialog, disk |-> FirstDisk]
       IN win = [p \in DOMAIN Shell \cup DOMAIN pages |->
                    IF p \in DOMAIN Shell THEN Shell[p] ELSE pages[p]]
    /\ habit \in DOMAIN MaxEvents
    /\ spent = 0
    /\ raced = {}

Spec == Init /\ [][Next]_vars

----------------------------------------------------------------------------
(* The window holds what its parts may hold: tabs of the bar once each,    *)
(* a team of the user's, tabs of files that have been opened, and logs,    *)
(* results and rows of what there is.                                      *)
TypeOK ==
    /\ habit \in DOMAIN MaxEvents /\ spent \in 0 .. MaxEvents[habit]
    /\ raced \subseteq {"hasty", "left", "old", "elsewhere", "several"}
    /\ ToSet(win.tabs) \subseteq Tabs /\ IsInjective(win.tabs)
    /\ win.cur \in Tabs \cup {None, "gone"} /\ win.team \in Teams \cup {None}
    /\ \A f \in OpenFiles(win) : win.edit[f].nth > 0
    /\ win.settings.mine \in Settings /\ win.settings.server \in Settings
    /\ \A p \in DOMAIN win.search.results : p.item \in Files \cup Projects
    /\ \A t \in LogTabs : win.log[t].file \in Files \cup {None}
    /\ win.admin.rows \subseteq [team : Teams, field : Fields, nth : Nat]
    /\ \A t \in Teams, p \in Projects : win.disk[t][p] \subseteq Dirs \X Names

(* As long as a tab that takes the focus is open, one of these is in       *)
(* front, and its page is the one displayed; without any, no page is. A    *)
(* menu that is displayed has the mouse in it or a timer that will hide it *)
(* (tabs.js:131-152, 212-251; gui.js:257-282; editpage.js:279-288).        *)
FrontShown ==
    LET front == {t \in ToSet(win.tabs) : CanFocus(t)}
    IN /\ front # {} => win.cur \in front
       /\ win.shown = {Root(t) : t \in front \cap {win.cur}}
       /\ win.menu.visible => win.menu.inside \/ win.menu.held \/ win.menu.loose > 0

=============================================================================
