----------------------------- MODULE PagesProofs -----------------------------
(***************************************************************************)
(* Proofs about Pages for any number of teams, files, projects, tabs and   *)
(* requests: the invariant of the window and of its pages, what the steps  *)
(* of each page make of the page's own parts, and the theorems drawn from  *)
(* it. What a step leaves alone, and what the operators of the files page  *)
(* and of the search do, is proved in PagesFrames.                         *)
(***************************************************************************)
EXTENDS PagesFrames

-----------------------------------------------------------------------------
(* The invariant. *)

(* The window is in order, and what would be sent again has its fields;    *)
(* what is selected, and what the server keeps, are files of directories.  *)
Orderly ==
    /\ Whole(win) /\ Tidy(win.dlg) /\ Stored(win)
    /\ \A m \in win.net : Formed(m)
    /\ Again(win.offer)

(* Before the user's settings are there, there is nothing but the request  *)
(* for them, or the button to send it again; neither comes back.           *)
Starts ==
    /\ ~win.loaded =>
          /\ win.tabs = <<>> /\ ~win.dlg.open /\ ~win.menu.visible
          /\ win.team = None /\ win.cal.proj = None
          /\ \/ win.net = {[kind |-> "user"]} /\ win.offer.kind = "none"
             \/ win.net = {} /\ win.offer.kind = "user"
    /\ win.loaded => Waiting({"user"}) = {} /\ win.offer.kind # "user"

(* A team's projects have their tab, which stays; so checks and diffs have *)
(* it beside them.                                                         *)
TeamShown ==
    /\ win.team \in Teams \cup {None}
    /\ win.team # None => IsOpen(win, "projects")
    /\ Waiting({"lint", "diff"}) # {} \/ win.offer.kind = "lint" => IsOpen(win, "projects")

MenuFields == {"visible", "inside", "held", "loose"}
MenuKept ==
    /\ IsRecord(win.menu, MenuFields)
    /\ win.menu.visible => win.menu.inside \/ win.menu.held \/ win.menu.loose > 0

(* What is put is what the user has set; the server has it when no put is  *)
(* on its way, and none has failed.                                        *)
SettingsFields == {"mine", "server", "form", "enabled", "failed"}
SettingsKept ==
    LET s == win.settings
    IN /\ IsRecord(s, SettingsFields)
       /\ s.mine \in Settings /\ s.server \in Settings /\ s.form \in Settings
       /\ \A m \in Waiting({"put"}) : m.settings \in Settings
       /\ IsOpen(win, "settings") => s.enabled = Enabled(s.form)
       /\ raced = {} => /\ \A m \in Waiting({"put"}) : m.settings = s.mine
                        /\ Waiting({"put"}) = {} /\ ~s.failed => s.server = s.mine

(* What is asked for is the log of the calendar's project, once; until it  *)
(* is there the calendar is empty.                                         *)
CalendarFields == {"proj", "month", "day", "logs", "marked", "offered", "live", "rev", "failed"}
CalendarKept ==
    LET c == win.cal
    IN /\ IsRecord(c, CalendarFields)
       /\ raced = {} =>
             /\ \A m \in Waiting({"dates"}) : m = [kind |-> "dates", project |-> c.proj]
             /\ (c.proj # None /\ ~c.failed) =>
                   IF Waiting({"dates"}) # {}
                   THEN c.logs = {} /\ c.marked = {} /\ c.offered = {}
                   ELSE /\ c.marked = {Day(r) : r \in {s \in Log(c.proj) : Month(s) = c.month}}
                        /\ c.logs = Log(c.proj) /\ c.offered \subseteq Log(c.proj)

(* The page of reviews waits for one thing at a time; the rows it has, and *)
(* those it waits for, are of the team it is about, and of what there is.  *)
AdminFields == {"team", "teams", "rows", "nth"}
RowsOfTeams == [team : Teams, field : Fields, nth : Nat]
ForReview(m) == m.kind = "items" => m.team \in Teams /\ m.nth \in Nat
AdminKept ==
    LET a == win.admin
    IN /\ IsRecord(a, AdminFields) /\ a.rows \subseteq RowsOfTeams /\ a.nth \in Nat
       /\ win.reviews \in [Teams -> SUBSET Fields] /\ \A m \in win.net : ForReview(m)
       /\ raced = {} =>
             /\ \A m \in Waiting(AdminKinds) : Waiting(AdminKinds) = {m}
             /\ \A m \in Waiting({"items"}) : m.team = a.team
             /\ \A m \in Waiting({"verdict"}) : m.team = m.row.team
             /\ \A r \in a.rows : r.team = a.team

(* The text that is shown or typed is of the team, and so is what the page *)
(* of the team asks for and sends; what is shown is what the server has.   *)
StatusFields == {"form", "image", "error", "nth", "ro", "failed"}
StatusKept ==
    LET s == win.status
    IN /\ IsRecord(s, StatusFields) /\ win.texts = [t \in Teams |-> win.texts[t]]
       /\ Waiting(StatusKinds) # {} \/ IsOpen(win, "review") => win.team # None
       /\ raced = {} =>
             /\ \A t \in Teams : win.texts[t][1] = t
             /\ \A m \in Waiting({"status"}) : m.team = win.team
             /\ \A m \in Waiting({"text"}) : m.text = None \/ m.text[1] = m.team
             /\ IsOpen(win, "review") /\ s.form # None =>
                   /\ s.form[1] = win.team
                   /\ Waiting({"status"}) = {} /\ ~s.failed /\ s.form[2] = 0
                      => s.form = win.texts[win.team]

PagesInv == /\ Orderly /\ Starts /\ TeamShown /\ MenuKept /\ SettingsKept /\ CalendarKept
            /\ AdminKept /\ StatusKept

-----------------------------------------------------------------------------
(* The steps, by the page they are of. *)

StepOn(x) ==
    \/ x = "menu" /\ MenuSteps
    \/ x = "file" /\ FileSteps
    \/ x = "search" /\ SearchSteps
    \/ x = "settings" /\ (SettingsSteps \/ SettingsAnswers)
    \/ x = "errors" /\ ErrorsSteps
    \/ x = "logs" /\ LogSteps
    \/ x = "diff" /\ DiffSteps
    \/ x = "calendar" /\ CalendarSteps
    \/ x = "admin" /\ AdminSteps
    \/ x = "status" /\ StatusSteps
    \/ x = "files" /\ FilesSteps
    \/ x = "edit" /\ EditSteps
    \/ x = "bar" /\ BarSteps
    \/ x = "start" /\ StartSteps

PageNames == {"menu", "file", "search", "settings", "errors", "logs", "diff", "calendar",
              "admin", "status", "files", "edit", "bar", "start"}

LEMMA NextSplits ==
  ASSUME Next
  PROVE  \/ \E x \in PageNames : StepOn(x)
         \/ \E t \in Teams : SelectsTeam(t)
         \/ \E m \in Waiting({"user"}) : GotUser(m)
<1>1. /\ ShellSteps => BarSteps \/ StartSteps \/ (\E t \in Teams : SelectsTeam(t))
                       \/ (\E m \in Waiting({"user"}) : GotUser(m))
  BY ShellSplits
<1>2. \/ BarSteps \/ StartSteps \/ (\E t \in Teams : SelectsTeam(t))
      \/ (\E m \in Waiting({"user"}) : GotUser(m))
      \/ FileSteps \/ MenuSteps
      \/ SearchSteps \/ SettingsSteps \/ SettingsAnswers \/ ErrorsSteps
      \/ LogSteps \/ DiffSteps \/ CalendarSteps \/ AdminSteps \/ StatusSteps
      \/ FilesSteps \/ EditSteps
  BY <1>1 DEF Next
<1>3. /\ (MenuSteps => StepOn("menu"))
      /\ (FileSteps => StepOn("file"))
      /\ (SearchSteps => StepOn("search"))
      /\ (ErrorsSteps => StepOn("errors"))
      /\ (SettingsSteps => StepOn("settings"))
      /\ (SettingsAnswers => StepOn("settings"))
      /\ (LogSteps => StepOn("logs"))
      /\ (DiffSteps => StepOn("diff"))
      /\ (CalendarSteps => StepOn("calendar"))
      /\ (AdminSteps => StepOn("admin"))
      /\ (StatusSteps => StepOn("status"))
      /\ (FilesSteps => StepOn("files"))
      /\ (EditSteps => StepOn("edit"))
      /\ (BarSteps => StepOn("bar"))
      /\ (StartSteps => StepOn("start"))
  BY DEF StepOn
<1>4. PageNames = {"menu", "file", "search", "settings", "errors", "logs", "diff", "calendar",
                   "admin", "status", "files", "edit", "bar", "start"}
  BY DEF PageNames
<1> QED
  BY <1>2, <1>3, <1>4

(* The parts of the files page are no other page's. *)
LEMMA FilesOnly ==
  ASSUME NEW x \in PageNames, x # "files"
  PROVE  {"dlg", "ops", "disk"} \cap (ShellParts \cup PartsOf(x)) = {}
<1>1. x \in PageNames /\ x # "files"
  OBVIOUS
<1>2. x \notin {"team", "files"}
  BY <1>1 DEF PageNames
<1> QED
  BY <1>2 DEF PartsOf, ShellParts

LEMMA PartsLeft ==
  ASSUME NEW x, NEW r, NEW w, Page(x, r, w)
  PROVE  \A p \in Parts \ BarParts : p \notin ShellParts \cup PartsOf(x) => r[p] = w[p]
BY DEF Page, Touches, Frames, BarParts

LEMMA StepTouches ==
  ASSUME Orderly, TeamShown, NEW x, StepOn(x)
  PROVE  Page(x, win', win) /\ Tidy(win'.dlg) /\ Stored(win')
<1>1. /\ Whole(win) /\ Tidy(win.dlg) /\ Stored(win) /\ \A m \in win.net : Formed(m)
      /\ Again(win.offer)
  BY DEF Orderly
<1>2. /\ win.team # None => IsOpen(win, "projects")
      /\ Waiting({"lint"}) # {} => IsOpen(win, "projects")
      /\ Waiting({"diff"}) # {} => IsOpen(win, "projects")
  BY DEF TeamShown, Waiting
<1>3. Page(x, win', win) /\ (x = "files" => Tidy(win'.dlg) /\ Stored(win'))
  <2>1. CASE x = "menu" /\ MenuSteps
    BY <1>1, <2>1, MenuTouches
  <2>2. CASE x = "file" /\ FileSteps
    BY <1>1, <2>2, FilesTouch
  <2>3. CASE x = "search" /\ SearchSteps
    BY <1>1, <1>2, <2>3, SearchTouches
  <2>4. CASE x = "settings" /\ (SettingsSteps \/ SettingsAnswers)
    BY <1>1, <2>4, SettingsTouch
  <2>5. CASE x = "errors" /\ ErrorsSteps
    BY <1>1, <1>2, <2>5, ErrorsTouch
  <2>6. CASE x = "logs" /\ LogSteps
    BY <1>1, <2>6, LogsTouch
  <2>7. CASE x = "diff" /\ DiffSteps
    BY <1>1, <1>2, <2>7, DiffTouches
  <2>8. CASE x = "calendar" /\ CalendarSteps
    BY <1>1, <2>8, CalendarTouches
  <2>9. CASE x = "admin" /\ AdminSteps
    BY <1>1, <2>9, AdminTouches
  <2>10. CASE x = "status" /\ StatusSteps
    BY <1>1, <1>2, <2>10, StatusTouches
  <2>11. CASE x = "files" /\ FilesSteps
    BY <1>1, <2>11, ProjectFilesTouch DEF Kept
  <2>12. CASE x = "edit" /\ EditSteps
    BY <1>1, <2>12, EditTouch
  <2>13. CASE x = "bar" /\ BarSteps
    BY <1>1, <2>13, BarTouches
  <2>14. CASE x = "start" /\ StartSteps
    BY <1>1, <2>14, StartTouches
  <2> QED
    BY <2>1, <2>2, <2>3, <2>4, <2>5, <2>6, <2>7, <2>8, <2>9, <2>10, <2>11, <2>12, <2>13,
       <2>14
       DEF StepOn
<1>4. x # "files" => {"dlg", "ops", "disk"} \cap (ShellParts \cup PartsOf(x)) = {}
  BY FilesOnly DEF StepOn, PageNames
<1>5. x # "files" => win'.dlg = win.dlg /\ win'.ops = win.ops /\ win'.disk = win.disk
  <2>1. {"dlg", "ops", "disk"} \subseteq Parts \ BarParts
    BY DEF Parts, BarParts
  <2> QED
    BY <1>3, <1>4, <2>1, PartsLeft
<1> QED
  BY <1>1, <1>3, <1>5 DEF Stored

(* What a step costs, and what it leaves to be remembered: haste is not    *)
(* forgotten.                                                              *)
Races == {"hasty", "left", "old", "elsewhere", "several"}
Costs == \E n \in 0 .. 2 : Spend(n)
Counted == /\ habit' = habit /\ (spent' = spent \/ Costs)
           /\ raced \subseteq raced' /\ raced' \subseteq raced \cup Races

LEMMA StepCounts == ASSUME Next PROVE Counted
<1>0. Spend(0) \/ Spend(1) \/ Spend(2) => Costs
  BY DEF Costs
<1>1. /\ \A hasty : Acts(hasty) => Counted
      /\ \A hasty : Moves(hasty) => Counted
      /\ \A h, kinds : Busy(h, kinds) => Counted
      /\ Arrives => Counted
      /\ \A m : Fails(m) => Counted
      /\ PressUser => Counted
  <2>1. \A hasty : (IF hasty THEN 2 ELSE 1) \in {1, 2} /\ (IF hasty THEN 1 ELSE 0) \in {0, 1}
    OBVIOUS
  <2>2. \A hasty : Acts(hasty) => Counted
    BY <1>0, <2>1 DEF Acts, Counted, Races
  <2>3. \A hasty : Moves(hasty) => Counted
    BY <1>0, <2>1 DEF Moves, Counted, Races
  <2>4. \A h, kinds : Busy(h, kinds) => Counted
    BY <2>2 DEF Busy
  <2>5. Arrives => Counted
    BY DEF Arrives, Counted
  <2>6. \A m : Fails(m) => Counted
    BY <1>0 DEF Fails, Counted
  <2>7. PressUser => Counted
    BY <1>0 DEF PressUser, Counted
  <2> QED
    BY <2>2, <2>3, <2>4, <2>5, <2>6, <2>7
<1>16. ASSUME NEW t, SelectsTeam(t) PROVE Counted
  <2> DEFINE n == IF win.net # {} THEN 2 ELSE 1
  <2>1. n \in {1, 2} /\ Spend(n) /\ habit' = habit
    BY <1>16 DEF SelectsTeam
  <2> HIDE DEF n
  <2>2. PICK a \in SUBSET {"hasty"}, b \in SUBSET {"several"}, c \in SUBSET {"left"} :
           raced' = raced \cup a \cup b \cup c
    <3>1. \A p, x : (IF p THEN {x} ELSE {}) \in SUBSET {x}
      OBVIOUS
    <3> QED
      BY <1>16, <3>1 DEF SelectsTeam
  <2> QED
    BY <1>0, <2>1, <2>2 DEF Counted, Races
<1>17. ASSUME StaysOnPage PROVE Counted
  BY <1>0, <1>17 DEF StaysOnPage, Counted, Races
<1>18. ASSUME NEW d, ChoosesDir(d) PROVE Counted
  BY <1>0, <1>18 DEF ChoosesDir, Counted, Races
<1>19. ASSUME NEW n, NEW told, Saves(n, told) PROVE Counted
  BY <1>0, <1>19 DEF Saves, Counted, Races
<1>2. ASSUME ShellSteps PROVE Counted
  BY <1>1, <1>2, <1>16, <1>17 DEF ShellSteps, GotUser, FailUser, ClosesTab, ClickTab, PressKey
<1>3. ASSUME FileSteps PROVE Counted
  BY <1>1, <1>3 DEF FileSteps, OpensFile, Type, GotFile, FailFile, PressLoad, PressClose,
     PressCloseAll, PressRevision
<1>4. ASSUME MenuSteps PROVE Counted
  BY <1>1, <1>4 DEF MenuSteps, ToggleMenu, EnterMenu, LeaveMenu, MenuTimer, ShowAbout,
     HideAbout,
     GotAbout, FailAbout
<1>5. ASSUME SearchSteps PROVE Counted
  BY <1>1, <1>5, Zenon DEF SearchSteps, Searches, ClearsSearch, ShowsSearch, FollowsResult,
     GotResults,
     FailResults
<1>6. ASSUME SettingsSteps \/ SettingsAnswers PROVE Counted
  BY <1>1, <1>6, Zenon DEF SettingsSteps, SettingsAnswers, ShowsSettings, SavesSettings, PressPut,
     FillsForm, GotPut, FailPut
<1>7. ASSUME ErrorsSteps PROVE Counted
  BY <1>1, <1>7, ZenonT(30) DEF ErrorsSteps, ChecksSelection, FoldsAll, ChecksTab, ChecksAgain,
     ViewsErrors,
     Folds, PressLint, PressView, FailLint, GotLint
<1>8. ASSUME LogSteps PROVE Counted
  BY <1>1, <1>8, Zenon DEF LogSteps, ViewsLog, Turns, Filters, Picks, Reverts, OpensRevision,
     PressYes,
     PressHistory, PressRevert, GotLog, FailLog, GotCheckout, FailRevert, GotRevert, InFront
<1>9. ASSUME DiffSteps PROVE Counted
  BY <1>1, <1>9 DEF DiffSteps, DiffsRevision, DiffsTab, PressDiff, GotDiff, FailDiff
<1>10. ASSUME CalendarSteps PROVE Counted
  BY <1>1, <1>10 DEF CalendarSteps, ChoosesProject, ChangesMonth, ChangesDay, LoadsRevision,
     LoadsHead, GotDates, FailDates, OnCalendar
<1>11. ASSUME AdminSteps PROVE Counted
  BY <1>1, <1>11, ZenonT(30) DEF AdminSteps, ShowsAdmin, ChoosesTeam, Judges, GotTeams, FailAdmin,
     GotItems,
     GotVerdict
<1>12. ASSUME StatusSteps PROVE Counted
  BY <1>1, <1>12, ZenonT(30) DEF StatusSteps, ShowsStatus, ChoosesImage, SavesStatus, TypesStatus,
     GotStatus,
     FailStatus, GotText, FailSave, GotImage
<1>13. ASSUME FilesSteps PROVE Counted
  BY <1>1, <1>13, <1>18, <1>19, Zenon DEF FilesSteps, ShowsProject, ChoosesIn, SavesProject, Selects,
     ClicksNewFolder,
     ClicksNewProject, ClicksMove, ClicksCopy, ClicksDelete, ClicksUndelete, PressDelete,
     PressAgain, Cancels, PressProjects, GotProjects, FailProjects,
     GotTree,
     FailTree, GotFiles, FailOp, GotCommit, GotProject, Chooses
<1>14. ASSUME EditSteps PROVE Counted
  BY <1>1, <1>14 DEF EditSteps, ChangesRevision, GotRevisions, FailRevisions
<1> QED
  BY <1>2, <1>3, <1>4, <1>5, <1>6, <1>7, <1>8, <1>9, <1>10, <1>11, <1>12, <1>13, <1>14
     DEF Next

LEMMA RacedGrows == ASSUME Next PROVE raced \subseteq raced'
BY StepCounts DEF Counted

(* The bounds: the user's habit stays, and he spends no more than it has. *)
CountsKept == habit \in DOMAIN MaxEvents /\ spent \in 0 .. MaxEvents[habit] /\ raced \subseteq Races

LEMMA CountsStep == ASSUME CountsKept, [Next]_vars PROVE CountsKept'
<1>1. habit' = habit /\ raced' \subseteq raced \cup Races /\ (spent' = spent \/ Costs)
  <2>1. CASE Next
    BY <2>1, StepCounts DEF Counted
  <2>2. CASE UNCHANGED vars
    BY <2>2 DEF vars
  <2> QED
    BY <2>1, <2>2
<1>2. MaxEvents[habit] \in Nat
  BY HabitsAssumption DEF CountsKept
<1>3. spent' \in 0 .. MaxEvents[habit]
  BY <1>1, <1>2 DEF CountsKept, Costs, Spend
<1> QED
  BY <1>1, <1>3 DEF CountsKept

(* The pages that have a part, make a request, or open a tab of their own. *)
LEMMA Owners ==
  ASSUME NEW x \in PageNames
  PROVE  /\ "loaded" \notin ShellParts \cup PartsOf(x) /\ "team" \notin ShellParts \cup PartsOf(x)
         /\ x # "menu" => "menu" \notin ShellParts \cup PartsOf(x)
         /\ x # "settings" => /\ "settings" \notin ShellParts \cup PartsOf(x)
                              /\ "put" \notin ShellKinds \cup AsksOf(x)
                              /\ "settings" \notin TabsOf(x)
         /\ x # "calendar" => /\ "cal" \notin ShellParts \cup PartsOf(x)
                              /\ "dates" \notin ShellKinds \cup AsksOf(x)
         /\ x # "admin" => /\ "admin" \notin ShellParts \cup PartsOf(x)
                           /\ "reviews" \notin ShellParts \cup PartsOf(x)
                           /\ (AdminKinds \cup {"verdict"}) \cap (ShellKinds \cup AsksOf(x)) = {}
         /\ x # "status" => /\ "status" \notin ShellParts \cup PartsOf(x)
                            /\ "texts" \notin ShellParts \cup PartsOf(x)
                            /\ StatusKinds \cap (ShellKinds \cup AsksOf(x)) = {}
                            /\ "review" \notin TabsOf(x)
         /\ x # "start" => /\ "user" \notin ShellKinds \cup AsksOf(x)
                           /\ "user" \notin ShellOffers \cup OffersOf(x)
         /\ x # "errors" => /\ "lint" \notin ShellKinds \cup AsksOf(x)
                            /\ "lint" \notin ShellOffers \cup OffersOf(x)
         /\ x # "diff" => "diff" \notin ShellKinds \cup AsksOf(x)
<1> USE DEF PartsOf, AsksOf, TabsOf, OffersOf, ShellParts, ShellKinds, ShellOffers, AdminKinds,
        StatusKinds, SearchKinds, LogKinds, OpKinds, DialogKinds, LogTabs
<1>1. CASE x = "menu" BY <1>1
<1>2. CASE x = "file" BY <1>2
<1>3. CASE x = "search" BY <1>3
<1>4. CASE x = "settings" BY <1>4
<1>5. CASE x = "errors" BY <1>5
<1>6. CASE x = "logs" BY <1>6
<1>7. CASE x = "diff" BY <1>7
<1>8. CASE x = "calendar" BY <1>8
<1>9. CASE x = "admin" BY <1>9
<1>10. CASE x = "status" BY <1>10
<1>11. CASE x = "files" BY <1>11
<1>12. CASE x = "edit" BY <1>12
<1>13. CASE x = "bar" BY <1>13
<1>14. CASE x = "start" BY <1>14
<1> QED
  BY <1>1, <1>2, <1>3, <1>4, <1>5, <1>6, <1>7, <1>8, <1>9, <1>10, <1>11, <1>12, <1>13, <1>14
     DEF PageNames

(* What a page does not own it leaves. *)
LEMMA Leaves ==
  ASSUME NEW x, NEW r, NEW w, Page(x, r, w)
  PROVE  /\ \A p \in Parts \ BarParts : p \notin ShellParts \cup PartsOf(x) => r[p] = w[p]
         /\ \A k : k \notin ShellKinds \cup AsksOf(x) =>
               \A m : m.kind = k => (m \in r.net <=> m \in w.net)
         /\ \A k : k \notin ShellOffers \cup OffersOf(x) /\ r.offer.kind = k => r.offer = w.offer
         /\ \A t \in Tabs \ Files : t \notin TabsOf(x) /\ IsOpen(r, t) => IsOpen(w, t)
BY DEF Page, Touches, Frames, BarParts

(* What the team's change and the bar leave to the other pages. *)
LEMMA TeamAlone ==
  /\ {"menu", "admin", "reviews", "status", "texts", "dlg", "disk"} \subseteq Parts \ BarParts
  /\ {"menu", "admin", "reviews", "status", "texts", "dlg", "disk"}
        \cap (ShellParts \cup PartsOf("team") \cup PartsOf("bar")) = {}
<1>1. {"menu", "admin", "reviews", "status", "texts", "dlg", "disk"} \subseteq Parts \ BarParts
  BY DEF Parts, BarParts
<1>2. /\ PartsOf("bar") = {"search", "errors", "diff", "tabs", "shut", "shut all"}
      /\ PartsOf("team") = {"search", "errors", "diff", "team", "ops", "cal", "settings", "loaded",
                            "tabs", "shut", "shut all"}
  BY DEF PartsOf
<1> QED
  BY <1>1, <1>2 DEF ShellParts

(* What a step leaves in order. *)
LEMMA StepOrderly ==
  ASSUME Orderly, NEW x, Page(x, win', win), Tidy(win'.dlg), Stored(win') PROVE Orderly'
<1>1. \A m \in win'.net : Formed(m)
  BY DEF Orderly, Page, Touches, Frames
<1>2. Again(win'.offer)
  BY DEF Orderly, Page, Touches, Frames
<1>3. Whole(win')
  BY PageWhole
<1>4. Whole(win)' /\ Tidy(win.dlg)' /\ Stored(win)' /\ (\A m \in win.net : Formed(m))'
      /\ Again(win.offer)'
  BY <1>1, <1>2, <1>3
<1> QED
  BY <1>4 DEF Orderly

-----------------------------------------------------------------------------
(* Checks and diffs are of a team. *)

LEMMA ErrorsOpen ==
  ASSUME Whole(win), TeamShown, ErrorsSteps PROVE IsOpen(win, "projects")
<1>1. \A f \in Files : win.cur = f => IsOpen(win, "projects")
  BY TeamsTab, Facts
<1>2. win.cur \in {"projects", "errors"} => IsOpen(win, "projects")
  BY TeamsTab, Facts DEF FarTabs
<1>3. Waiting({"lint"}) # {} \/ win.offer.kind = "lint" => IsOpen(win, "projects")
  BY DEF TeamShown, Waiting
<1>4. win.offer.kind = "view errors" => IsOpen(win, "projects")
  BY Facts DEF Whole, View, Base, FarTabs
<1>5. CASE \E fs \in SUBSET Files : ChecksSelection(fs) \/ \E fold \in BOOLEAN : FoldsAll(fs, fold)
  BY <1>2, <1>5 DEF ChecksSelection, FoldsAll
<1>6. CASE \E f \in Files : \/ \E quiet \in BOOLEAN : ChecksTab(f, quiet)
                            \/ ChecksAgain({f}) \/ ViewsErrors(f) \/ Folds(f)
  BY <1>1, <1>2, <1>6 DEF ChecksTab, ChecksAgain, ViewsErrors, Folds
<1>7. CASE ChecksAgain(Entries(win))
  BY <1>2, <1>7 DEF ChecksAgain
<1>8. CASE PressLint \/ PressView
  BY <1>3, <1>4, <1>8 DEF PressLint, PressView, Pressed
<1>9. CASE \E m \in Waiting({"lint"}) : FailLint(m) \/ \E bad \in SUBSET Files : GotLint(m, bad)
  BY <1>3, <1>9
<1> QED
  BY <1>5, <1>6, <1>7, <1>8, <1>9 DEF ErrorsSteps

LEMMA DiffOpen ==
  ASSUME Whole(win), TeamShown, DiffSteps PROVE IsOpen(win, "projects") \/ PressDiff
<1>1. \A f \in Files : win.cur = f => IsOpen(win, "projects")
  BY TeamsTab, Facts
<1>2. \A t \in LogTabs : win.cur = t => IsOpen(win, "projects")
  BY TeamsTab, Facts
<1>3. Waiting({"diff"}) # {} => IsOpen(win, "projects")
  BY DEF TeamShown, Waiting
<1> QED
  BY <1>1, <1>2, <1>3 DEF DiffSteps, DiffsRevision, DiffsTab

LEMMA StepShown ==
  ASSUME Orderly, TeamShown, NEW x \in PageNames, StepOn(x), Page(x, win', win)
  PROVE  TeamShown'
<1>1. win'.team = win.team
  BY Owners, Leaves DEF Parts, BarParts
<1>2. IsOpen(win, "projects") => IsOpen(win', "projects")
  BY PageOpen
<1>3. Whole(win)
  BY DEF Orderly
<1>4. x = "errors" => IsOpen(win, "projects")
  BY <1>3, ErrorsOpen DEF StepOn
<1>5. x = "diff" => IsOpen(win, "projects") \/ win' = Unbuttoned
  BY <1>3, DiffOpen DEF StepOn, PressDiff
<1>6. win' = Unbuttoned => win'.net = win.net /\ win'.offer = NoOffer
  BY <1>3 DEF Unbuttoned, Say, Whole, Base, IsRecord, Parts
<1>7. ASSUME win'.offer.kind = "lint" PROVE IsOpen(win', "projects")
  <2>1. x # "errors" => win'.offer = win.offer
    BY <1>7, Owners, Leaves
  <2> QED
    BY <1>2, <1>4, <1>7, <2>1 DEF TeamShown
<1>8. ASSUME NEW m \in win'.net, m.kind \in {"lint", "diff"} PROVE IsOpen(win', "projects")
  <2>1. CASE x \notin {"errors", "diff"}
    <3>1. m \in win.net
      BY <1>8, <2>1, Owners, Leaves
    <3> QED
      BY <1>2, <1>8, <3>1 DEF TeamShown, Waiting
  <2>2. CASE x = "errors"
    BY <1>2, <1>4, <2>2
  <2>3. CASE x = "diff"
    BY <1>2, <1>5, <1>6, <1>8, <2>3 DEF TeamShown, Waiting
  <2> QED
    BY <2>1, <2>2, <2>3
<1>9. IsOpen(win, "projects")' = IsOpen(win', "projects")
  BY DEF IsOpen
<1>10. Waiting({"lint", "diff"})' = {m \in win'.net : m.kind \in {"lint", "diff"}}
  BY DEF Waiting
<1>11. win'.team \in Teams \cup {None} /\ (win'.team # None => IsOpen(win', "projects"))
  BY <1>1, <1>2 DEF TeamShown
<1> QED
  BY <1>7, <1>8, <1>9, <1>10, <1>11 DEF TeamShown

-----------------------------------------------------------------------------
(* Before there are settings.                                              *)

LEMMA Early ==
  ASSUME Starts, ~win.loaded, NEW x \in PageNames, StepOn(x)
  PROVE  x = "start" \/ (x = "menu" /\ (LeaveMenu \/ MenuTimer))
<1>1. /\ win.tabs = <<>> /\ ~win.dlg.open /\ ~win.menu.visible
      /\ \A m \in win.net : m.kind = "user"
      /\ win.offer.kind \in {"none", "user"}
  BY DEF Starts
<1>2. /\ Waiting(SearchKinds) = {}
      /\ Waiting({"about"}) = {} /\ Waiting({"file"}) = {} /\ Waiting({"put"}) = {}
      /\ Waiting({"lint"}) = {} /\ Waiting({"log"}) = {} /\ Waiting({"checkout"}) = {}
      /\ Waiting({"revert"}) = {} /\ Waiting({"diff"}) = {} /\ Waiting({"dates"}) = {}
      /\ Waiting({"teams"}) = {} /\ Waiting({"items"}) = {}
      /\ Waiting({"verdict"}) = {} /\ Waiting({"status"}) = {}
      /\ Waiting({"text"}) = {} /\ Waiting({"image"}) = {} /\ Waiting({"plist"}) = {}
      /\ Waiting({"tree"}) = {} /\ Waiting({"files"}) = {} /\ Waiting({"commit"}) = {}
      /\ Waiting({"project"}) = {} /\ Waiting({"revisions"}) = {}
  BY <1>1 DEF Waiting, SearchKinds
<1>4. Modified(win) = {}
  BY <1>1 DEF Modified, OpenFiles, IsOpen, Contains
<1>5. CASE x = "menu" /\ MenuSteps
  BY <1>1, <1>2, <1>5 DEF Acts, Moves, Busy, MenuSteps, ToggleMenu, EnterMenu, ShowAbout,
     HideAbout
<1>6. ASSUME x = "file" /\ FileSteps PROVE FALSE
  BY <1>2, <1>6 DEF Acts, Moves, Busy, FileSteps, OpensFile, Type, PressLoad, PressClose,
     PressCloseAll,
     PressRevision
<1>7. ASSUME x = "search" /\ SearchSteps PROVE FALSE
  BY <1>2, <1>7 DEF Acts, Moves, Busy, SearchSteps, Searches, ClearsSearch, ShowsSearch,
     FollowsResult,
     SearchKinds
<1>8. ASSUME x = "settings" /\ (SettingsSteps \/ SettingsAnswers) PROVE FALSE
  BY <1>2, <1>8, Zenon DEF Acts, Moves, Busy, SettingsSteps, SettingsAnswers, ShowsSettings,
     SavesSettings, PressPut,
     FillsForm
<1>9. ASSUME x = "errors" /\ ErrorsSteps PROVE FALSE
  BY <1>2, <1>9, ZenonT(30) DEF Acts, Moves, Busy, ErrorsSteps, ChecksSelection, FoldsAll, ChecksTab,
     ChecksAgain,
     ViewsErrors, Folds, PressLint, PressView
<1>10. ASSUME x = "logs" /\ LogSteps PROVE FALSE
  BY <1>2, <1>10, Zenon DEF Acts, Moves, Busy, LogSteps, ViewsLog, Turns, Filters, Picks,
     Reverts, OpensRevision,
     PressYes, PressHistory, PressRevert, InFront
<1>11. ASSUME x = "diff" /\ DiffSteps PROVE FALSE
  BY <1>2, <1>11 DEF Acts, Moves, Busy, DiffSteps, DiffsRevision, DiffsTab, PressDiff
<1>12. ASSUME x = "calendar" /\ CalendarSteps PROVE FALSE
  BY <1>2, <1>12 DEF Acts, Moves, Busy, CalendarSteps, ChoosesProject, ChangesMonth,
     ChangesDay, LoadsRevision,
     LoadsHead, OnCalendar
<1>13. ASSUME x = "admin" /\ AdminSteps PROVE FALSE
  BY <1>2, <1>13 DEF Acts, Moves, Busy, AdminSteps, ShowsAdmin, ChoosesTeam, Judges
<1>14. ASSUME x = "status" /\ StatusSteps PROVE FALSE
  BY <1>2, <1>14 DEF Acts, Moves, Busy, StatusSteps, ShowsStatus, ChoosesImage,
     SavesStatus, TypesStatus
<1>15. ASSUME x = "files" /\ FilesSteps PROVE FALSE
  BY <1>1, <1>2, <1>15, Zenon DEF Acts, Moves, Busy, FilesSteps, ShowsProject, ChoosesIn,
     SavesProject, Selects,
     ClicksNewFolder, ClicksNewProject, ClicksMove, ClicksCopy, ClicksDelete,
     ClicksUndelete,
     PressDelete, PressAgain, ChoosesDir, Saves, Cancels, PressProjects, Chooses, InDialog
<1>16. ASSUME x = "edit" /\ EditSteps PROVE FALSE
  BY <1>2, <1>16 DEF Acts, Moves, Busy, EditSteps, ChangesRevision
<1>17. ASSUME x = "bar" /\ BarSteps PROVE FALSE
  BY <1>4, <1>17 DEF Acts, Moves, Busy, BarSteps, ClosesTab, ClickTab, PressKey, StaysOnPage
<1> QED
  BY <1>5, <1>6, <1>7, <1>8, <1>9, <1>10, <1>11, <1>12, <1>13, <1>14, <1>15, <1>16, <1>17
     DEF StepOn

(* The menu is hidden, and the rest is as it was. *)
LEMMA HideBoxIs ==
  ASSUME NEW u, IsRecord(u, Parts), IsRecord(u.menu, MenuFields)
  PROVE  /\ IsRecord(HideBox(u), Parts)
         /\ \A p \in Parts \ {"menu"} : HideBox(u)[p] = u[p]
         /\ IsRecord(HideBox(u).menu, MenuFields) /\ ~HideBox(u).menu.visible
<1> DEFINE d == u.menu
           a == [d EXCEPT !.visible = FALSE]
           b == [a EXCEPT !.inside = FALSE]
           v == [u EXCEPT !.menu = a]
           r == [v EXCEPT !.menu = b]
<1>1. v.menu = a /\ IsRecord(v, Parts) /\ \A p \in Parts \ {"menu"} : v[p] = u[p]
  BY DEF IsRecord, Parts
<1>2. HideBox(u) = [v EXCEPT !.menu = [v.menu EXCEPT !.inside = FALSE]]
  BY DEF HideBox
<1>3. HideBox(u) = r
  BY <1>1, <1>2
<1>4. IsRecord(a, MenuFields) /\ a.visible = FALSE
  BY DEF IsRecord, MenuFields
<1> HIDE DEF a, v
<1>5. IsRecord(b, MenuFields) /\ b.visible = FALSE
  BY <1>4 DEF IsRecord, MenuFields
<1> HIDE DEF b
<1>6. IsRecord(r, Parts) /\ r.menu = b /\ \A p \in Parts \ {"menu"} : r[p] = u[p]
  BY <1>1 DEF IsRecord, Parts
<1> QED
  BY <1>3, <1>5, <1>6

(* The menu's own steps. *)
LEMMA MenuKeeps ==
  ASSUME Whole(win), MenuKept, MenuSteps
  PROVE  /\ MenuKept'
         /\ LeaveMenu \/ MenuTimer => /\ \A p \in Parts \ {"menu"} : win'[p] = win[p]
                                      /\ ~win'.menu.visible
<1> DEFINE P(v) == IsRecord(v, MenuFields) /\ (v.visible => v.inside \/ v.held \/ v.loose > 0)
<1>1. IsRecord(win, Parts) /\ IsRecord(win.menu, MenuFields) /\ P(win.menu)
  BY DEF MenuKept, Whole, Base
<1>2. P(win'.menu) => MenuKept'
  BY DEF MenuKept
<1>3. ASSUME ToggleMenu PROVE MenuKept'
  <2>1. CASE win.menu.visible
    <3>1. win' = HideBox(win)
      BY <1>3, <2>1 DEF ToggleMenu
    <3>2. P(HideBox(win).menu)
      BY <1>1, HideBoxIs
    <3> QED
      BY <1>1, <1>2, <3>1, <3>2, HideBoxIs
  <2>2. CASE ~win.menu.visible
    <3> DEFINE d == win.menu
               a == [d EXCEPT !.visible = TRUE]
               b == [a EXCEPT !.held = TRUE]
               c == [b EXCEPT !.loose = @ + IF d.held THEN 1 ELSE 0]
    <3>1. win' = [[[win EXCEPT !.menu = a] EXCEPT !.menu = b] EXCEPT !.menu = c]
      <4>1. win' = ShowBox(win)
        BY <1>3, <2>2 DEF ToggleMenu
      <4>2. [win EXCEPT !.menu = a].menu = a /\ [[win EXCEPT !.menu = a] EXCEPT !.menu = b].menu = b
        BY <1>1 DEF IsRecord, Parts
      <4> QED
        BY <4>1, <4>2 DEF ShowBox
    <3>2. IsRecord(a, MenuFields)
      BY <1>1 DEF IsRecord, MenuFields
    <3> HIDE DEF a
    <3>3. IsRecord(b, MenuFields) /\ b.held = TRUE
      BY <3>2 DEF IsRecord, MenuFields
    <3> HIDE DEF b
    <3>4. IsRecord(c, MenuFields) /\ c.held = TRUE
      BY <3>3 DEF IsRecord, MenuFields
    <3> HIDE DEF c
    <3>5. win'.menu = c
      BY <1>1, <3>1 DEF IsRecord, Parts
    <3> QED
      BY <1>2, <3>4, <3>5
  <2> QED
    BY <2>1, <2>2
<1>4. ASSUME EnterMenu PROVE MenuKept'
  <2> DEFINE d == win.menu
             a == [d EXCEPT !.inside = TRUE]
             b == [a EXCEPT !.held = FALSE]
  <2>1. win' = [[win EXCEPT !.menu = a] EXCEPT !.menu = b]
    <3>1. [win EXCEPT !.menu = a].menu = a
      BY <1>1 DEF IsRecord, Parts
    <3> QED
      BY <1>4, <3>1 DEF EnterMenu
  <2>2. IsRecord(a, MenuFields) /\ a.inside = TRUE
    BY <1>1 DEF IsRecord, MenuFields
  <2> HIDE DEF a
  <2>3. IsRecord(b, MenuFields) /\ b.inside = TRUE
    BY <2>2 DEF IsRecord, MenuFields
  <2> HIDE DEF b
  <2>4. win'.menu = b
    BY <1>1, <2>1 DEF IsRecord, Parts
  <2> QED
    BY <1>2, <2>3, <2>4
<1>5. ASSUME NEW u, IsRecord(u, Parts), IsRecord(u.menu, MenuFields),
             \A p \in Parts \ {"menu"} : u[p] = win[p], win' = HideBox(u)
      PROVE  /\ MenuKept'
             /\ \A p \in Parts \ {"menu"} : win'[p] = win[p]
             /\ ~win'.menu.visible
  <2>1. P(HideBox(u).menu) /\ ~HideBox(u).menu.visible
    BY <1>5, HideBoxIs
  <2> QED
    BY <1>2, <1>5, <2>1, HideBoxIs
<1>6. ASSUME LeaveMenu
      PROVE  MenuKept' /\ (\A p \in Parts \ {"menu"} : win'[p] = win[p]) /\ ~win'.menu.visible
  BY <1>1, <1>5, <1>6 DEF LeaveMenu
<1>7. ASSUME MenuTimer
      PROVE  MenuKept' /\ (\A p \in Parts \ {"menu"} : win'[p] = win[p]) /\ ~win'.menu.visible
  <2>1. PICK v : /\ win' = HideBox([win EXCEPT !.menu = v])
                 /\ v = [win.menu EXCEPT !.held = FALSE] \/ v = [win.menu EXCEPT !.loose = @ - 1]
    BY <1>7 DEF MenuTimer
  <2>2. IsRecord(v, MenuFields)
    BY <1>1, <2>1 DEF IsRecord, MenuFields
  <2> DEFINE u == [win EXCEPT !.menu = v]
  <2>3. IsRecord(u, Parts) /\ u.menu = v /\ \A p \in Parts \ {"menu"} : u[p] = win[p]
    BY <1>1 DEF IsRecord, Parts
  <2>4. win' = HideBox(u)
    BY <2>1
  <2> HIDE DEF u
  <2> QED
    BY <1>5, <2>2, <2>3, <2>4
<1>8. ASSUME ShowAbout PROVE MenuKept'
  <2> DEFINE h == HideBox(win)
             s == [h EXCEPT !.about.visible = TRUE]
  <2>1. IsRecord(h, Parts) /\ P(h.menu)
    BY <1>1, HideBoxIs
  <2>2. win' = s \/ win' = Ask(s, [kind |-> "about"])
    BY <1>8 DEF ShowAbout
  <2> HIDE DEF h
  <2>3. IsRecord(s, Parts) /\ s.menu = h.menu
    BY <2>1 DEF IsRecord, Parts
  <2> HIDE DEF s
  <2>4. win'.menu = h.menu
    BY <2>2, <2>3 DEF Ask, IsRecord, Parts
  <2> QED
    BY <1>2, <2>1, <2>4
<1>9. ASSUME HideAbout \/ \E m \in Waiting({"about"}) : GotAbout(m) \/ FailAbout(m)
      PROVE  MenuKept'
  <2>1. win'.menu = win.menu
    BY <1>1, <1>9 DEF HideAbout, GotAbout, FailAbout, Answered, IsRecord, Parts
  <2> QED
    BY <1>1, <1>2, <2>1
<1> QED
  <2>1. MenuKept'
    BY <1>3, <1>4, <1>5, <1>6, <1>7, <1>8, <1>9 DEF MenuSteps
  <2>2. ASSUME LeaveMenu \/ MenuTimer
        PROVE (\A p \in Parts \ {"menu"} : win'[p] = win[p]) /\ ~win'.menu.visible
    BY <1>6, <1>7, <2>2
  <2> QED
    BY <2>1, <2>2

LEMMA StepStarts ==
  ASSUME Orderly, Starts, MenuKept, NEW x \in PageNames, StepOn(x), Page(x, win', win)
  PROVE  Starts'
<1>1. Whole(win) /\ win'.loaded = win.loaded
  BY Owners, Leaves DEF Orderly, Parts, BarParts
<1>2. Waiting({"user"})' = {m \in win'.net : m.kind = "user"}
  BY DEF Waiting
<1>3. CASE ~win.loaded
  <2> USE <1>3
  <2>1. x = "start" \/ (x = "menu" /\ (LeaveMenu \/ MenuTimer))
    BY Early
  <2>2. /\ win.tabs = <<>> /\ ~win.dlg.open /\ ~win.menu.visible
        /\ win.team = None /\ win.cal.proj = None
        /\ \/ win.net = {[kind |-> "user"]} /\ win.offer.kind = "none"
           \/ win.net = {} /\ win.offer.kind = "user"
    BY DEF Starts
  <2>3. CASE x = "start"
    <3>1. /\ win'.tabs = win.tabs /\ win'.dlg = win.dlg /\ win'.menu = win.menu
          /\ win'.team = win.team /\ win'.cal = win.cal
          /\ \/ win'.net = {[kind |-> "user"]} /\ win'.offer.kind = "none"
             \/ win'.net = {} /\ win'.offer.kind = "user"
      <4>1. CASE PressUser
        <5>1. win.net = {}
          BY <2>2, <4>1 DEF PressUser, Pressed
        <5>2. win' = Ask(Say(win), [kind |-> "user"])
          BY <4>1 DEF PressUser, Unbuttoned
        <5> QED
          BY <1>1, <5>1, <5>2 DEF Ask, Say, NoOffer, Whole, Base, IsRecord, Parts
      <4>2. ASSUME NEW m \in Waiting({"user"}), FailUser(m)
            PROVE  /\ win'.tabs = win.tabs /\ win'.dlg = win.dlg /\ win'.menu = win.menu
                   /\ win'.team = win.team /\ win'.cal = win.cal
                   /\ win'.net = {} /\ win'.offer.kind = "user"
        <5>1. win.net \ {m} = {}
          BY <2>2 DEF Waiting
        <5>2. win' = Offer(Answered(m), "user", None)
          BY <4>2 DEF FailUser
        <5> QED
          BY <1>1, <5>1, <5>2 DEF Offer, Answered, Whole, Base, IsRecord, Parts
      <4>3. StartSteps
        BY <2>3 DEF StepOn
      <4> QED
        BY <4>1, <4>2, <4>3 DEF StartSteps
    <3> QED
      BY <1>1, <2>2, <3>1 DEF Starts
  <2>4. CASE LeaveMenu \/ MenuTimer
    <3>1. /\ win'.tabs = win.tabs /\ win'.dlg = win.dlg /\ ~win'.menu.visible
          /\ win'.team = win.team /\ win'.cal = win.cal
          /\ win'.net = win.net /\ win'.offer = win.offer
      BY <1>1, <2>4, MenuKeeps DEF MenuSteps, Parts
    <3> QED
      BY <1>1, <2>2, <3>1 DEF Starts
  <2> QED
    BY <2>1, <2>3, <2>4
<1>4. CASE win.loaded
  <2>1. Waiting({"user"}) = {} /\ win.offer.kind # "user"
    BY <1>4 DEF Starts
  <2>2. x # "start"
    BY <2>1 DEF StepOn, StartSteps, PressUser, Pressed
  <2>3. win'.offer.kind # "user" /\ \A m \in win'.net : m.kind # "user"
    BY <2>1, <2>2, Owners, Leaves DEF Waiting
  <2> QED
    BY <1>1, <1>2, <1>4, <2>3 DEF Starts
<1> QED
  BY <1>3, <1>4

-----------------------------------------------------------------------------
(* The parts a page has of its own, as its own steps change them.          *)

(* A tab is turned to, opened if need be: of what is not the shell's       *)
(* nothing changes.                                                        *)
Fetched(r, w, t) ==
    /\ \A p \in Parts \ (ShellParts \cup BarParts) : r[p] = w[p]
    /\ \A m : m.kind \notin ShellKinds => (m \in r.net <=> m \in w.net)
    /\ \A u \in Tabs \ Files : IsOpen(r, u) => IsOpen(w, u) \/ u = t

LEMMA ShellFetches == ASSUME NEW w, NEW r, Shell0(r, w), NEW t PROVE Fetched(r, w, t)
BY DEF Fetched, Shell0, Touches, Frames, BarParts

LEMMA TurnFetches ==
  ASSUME NEW w, Whole(w), NEW t \in Tabs, IsOpen(w, t) PROVE Fetched(SwitchTo(w, t), w, t)
BY ShellSwitch, ShellFetches

LEMMA OpenFetches ==
  ASSUME NEW w, Whole(w), NEW t, Addable(w, t), CanFocus(t)
  PROVE  Fetched(SwitchTo(AddTab(w, t), t), w, t)
<1> DEFINE r == SwitchTo(AddTab(w, t), t)
<1>1. FocusParts \subseteq ShellParts /\ t \in Files \cup {t} /\ "revisions" \in ShellKinds
  BY DEF FocusParts, ShellParts, ShellKinds
<1>2. Touches(r, w, ShellParts, Files \cup {t}, ShellKinds, ShellOffers)
  BY <1>1, OpenTabTouches
<1> HIDE DEF r
<1>3. Fetched(r, w, t)
  BY <1>2 DEF Fetched, Touches, Frames, BarParts
<1> QED
  BY <1>3 DEF r

(* What is said of the settings, of any window.                            *)
SettingsIn(r, rc) ==
    LET s == r.settings
    IN /\ IsRecord(s, SettingsFields)
       /\ s.mine \in Settings /\ s.server \in Settings /\ s.form \in Settings
       /\ \A m \in r.net : m.kind = "put" => m.settings \in Settings
       /\ IsOpen(r, "settings") => s.enabled = Enabled(s.form)
       /\ rc = {} => /\ \A m \in r.net : m.kind = "put" => m.settings = s.mine
                     /\ (\A m \in r.net : m.kind # "put") /\ ~s.failed => s.server = s.mine

LEMMA SettingsAre ==
  /\ SettingsKept <=> SettingsIn(win, raced)
  /\ SettingsKept' <=> SettingsIn(win', raced')
<1>1. SettingsKept <=> SettingsIn(win, raced)
  BY DEF SettingsKept, SettingsIn, Waiting
<1>2. SettingsKept' <=> SettingsIn(win', raced')
  BY DEF SettingsKept, SettingsIn, Waiting, IsOpen
<1> QED
  BY <1>1, <1>2

(* The settings are set, nothing being under way.                          *)
LEMMA SettingsSet ==
  ASSUME NEW u, NEW r, NEW rc, NEW loud, NEW new \in Settings, SettingsIn(u, rc),
         SetTo(r, u, new, loud),
         rc = {} => \A m \in u.net : m.kind # "put",
         IsOpen(r, "settings") => IsOpen(u, "settings")
  PROVE  SettingsIn(r, rc)
<1>1. CASE r.settings = u.settings /\ r.net = u.net
  BY <1>1 DEF SettingsIn
<1>2. ASSUME NEW mine \in Settings, r.settings = [u.settings EXCEPT !.mine = mine],
             r.net = u.net \cup {[kind |-> "put", loud |-> loud, settings |-> r.settings.mine]}
      PROVE  SettingsIn(r, rc)
  <2>1. /\ IsRecord(r.settings, SettingsFields) /\ r.settings.enabled = u.settings.enabled
        /\ r.settings.form = u.settings.form /\ r.settings.server = u.settings.server
        /\ r.settings.mine = mine
    BY <1>2 DEF SettingsIn, IsRecord, SettingsFields
  <2> DEFINE p == [kind |-> "put", loud |-> loud, settings |-> r.settings.mine]
  <2>2. p.kind = "put" /\ p.settings = r.settings.mine
    OBVIOUS
  <2>3. r.net = u.net \cup {p}
    BY <1>2
  <2> HIDE DEF p
  <2> QED
    BY <2>1, <2>2, <2>3 DEF SettingsIn
<1>3. u.settings.mine \in Settings
  BY DEF SettingsIn
<1> QED
  BY <1>1, <1>2, <1>3 DEF SetTo

LEMMA SettingsKeep ==
  ASSUME Whole(win), SettingsKept, raced \subseteq raced', SettingsSteps \/ SettingsAnswers
  PROVE  SettingsKept'
<1>1. /\ IsRecord(win, Parts) /\ SettingsIn(win, raced) /\ SettingsIn(win, raced')
      /\ IsRecord(win.settings, SettingsFields) /\ "settings" \in Tabs \ Files
      /\ CanFocus("settings") /\ "settings" \in PageTabs
  <2>1. SettingsIn(win, raced)
    BY SettingsAre
  <2>2. raced' = {} => raced = {}
    OBVIOUS
  <2>3. SettingsIn(win, raced')
    BY <2>1, <2>2 DEF SettingsIn
  <2>4. "settings" \in PageTabs
    BY DEF PageTabs
  <2> QED
    BY <2>1, <2>3, <2>4, Facts DEF SettingsIn, Whole, Base
<1> SUFFICES SettingsIn(win', raced')
  BY SettingsAre
<1>2. ASSUME NEW u, SettingsIn(u, raced'), NEW r, Fetched(r, u, "settings"),
             u.settings.enabled = Enabled(u.settings.form)
      PROVE  SettingsIn(r, raced')
  <2>1. r.settings = u.settings /\ \A m : m.kind = "put" => (m \in r.net <=> m \in u.net)
    BY <1>2 DEF Fetched, Parts, ShellParts, BarParts, ShellKinds
  <2> QED
    BY <1>2, <2>1 DEF SettingsIn
<1>3. ASSUME NEW v, IsRecord(v, SettingsFields), v.mine = win.settings.mine,
             v.server = win.settings.server, v.failed = win.settings.failed,
             v.enabled = Enabled(v.form), v.form \in Settings, NEW u, u = [win EXCEPT !.settings = v]
      PROVE  /\ SettingsIn(u, raced') /\ u.settings = v
             /\ \A t : IsOpen(u, t) <=> IsOpen(win, t)
             /\ Whole(u)
  <2>1. /\ IsRecord(u, Parts) /\ u.settings = v /\ u.net = win.net /\ u.tabs = win.tabs
        /\ u.cur = win.cur /\ u.shown = win.shown /\ u.offer = win.offer /\ u.log = win.log
        /\ u.drawn = win.drawn /\ u.edit = win.edit /\ u.errors = win.errors
    BY <1>1, <1>3 DEF IsRecord, Parts
  <2>2. Whole(u) /\ \A t : IsOpen(u, t) <=> IsOpen(win, t)
    BY <2>1, BarStays DEF Whole
  <2> QED
    BY <1>1, <1>3, <2>1, <2>2 DEF SettingsIn
<1>4. CASE ShowsSettings
  <2> DEFINE mine == win.settings.mine
             form == [mine EXCEPT !.teamload = Shown(mine.teamload, Teams),
                                  !.projload = Shown(mine.projload, Listed(win))]
             v1 == [win.settings EXCEPT !.form = form]
             v2 == [v1 EXCEPT !.enabled = Enabled(form)]
             w1 == [win EXCEPT !.settings = v1]
             w2 == [w1 EXCEPT !.settings = v2]
             u == [win EXCEPT !.settings = v2]
  <2>1. CASE IsOpen(win, "settings")
    <3>1. win' = SwitchTo(win, "settings")
      BY <1>4, <2>1 DEF ShowsSettings, OpenSettings
    <3> QED
      BY <1>1, <1>2, <2>1, <3>1, TurnFetches DEF SettingsIn
  <2>2. CASE ~IsOpen(win, "settings")
    <3>0. form \in Settings
      <4>1. mine \in Settings /\ Listed(win) \subseteq Projects
        BY <1>1 DEF SettingsIn, Listed
      <4>2. \A value, options : Shown(value, options) \in options \cup {None}
        <5> TAKE value, options
        <5>1. options # {} => (CHOOSE x \in options : TRUE) \in options
          OBVIOUS
        <5> QED
          BY <5>1 DEF Shown
      <4>3. /\ Shown(mine.teamload, Teams) \in Teams \cup {None}
            /\ Shown(mine.projload, Listed(win)) \in Projects \cup {None}
        BY <4>1, <4>2
      <4> HIDE DEF mine
      <4> QED
        BY <4>1, <4>3 DEF Settings
    <3>1. w1.settings = v1 /\ w2 = u
      BY <1>1 DEF IsRecord, Parts
    <3>2. win' = SwitchTo(AddTab([w1 EXCEPT !.settings = [w1.settings EXCEPT !.enabled = Enabled(form)]],
                                 "settings"), "settings")
      BY <1>4, <2>2 DEF ShowsSettings, OpenSettings
    <3>3. win' = SwitchTo(AddTab(u, "settings"), "settings")
      BY <3>1, <3>2
    <3> HIDE DEF form, w1, w2
    <3>4. /\ IsRecord(v2, SettingsFields) /\ v2.mine = win.settings.mine
          /\ v2.server = win.settings.server /\ v2.failed = win.settings.failed
          /\ v2.enabled = Enabled(v2.form) /\ v2.form = form
      BY <1>1 DEF IsRecord, SettingsFields
    <3> HIDE DEF v1, v2
    <3>5. SettingsIn(u, raced') /\ u.settings = v2 /\ ~IsOpen(u, "settings") /\ Whole(u)
      BY <1>3, <2>2, <3>0, <3>4
    <3> HIDE DEF u
    <3>6. Addable(u, "settings")
      BY <1>1, <3>5 DEF Addable, FarTabs, LogTabs
    <3>7. Fetched(win', u, "settings")
      BY <1>1, <3>3, <3>5, <3>6, OpenFetches
    <3> QED
      BY <1>2, <3>4, <3>5, <3>7
  <2> QED
    BY <2>1, <2>2
<1>5. ASSUME NEW n, NEW value, FillsForm(n, value),
             [win.settings.form EXCEPT ![n] = value] \in Settings
      PROVE  SettingsIn(win', raced')
  <2> DEFINE form == [win.settings.form EXCEPT ![n] = value]
             v1 == [win.settings EXCEPT !.form = form]
             v2 == [v1 EXCEPT !.enabled = Enabled(form)]
             w1 == [win EXCEPT !.settings = v1]
             u == [win EXCEPT !.settings = v2]
  <2>1. w1.settings = v1 /\ [w1 EXCEPT !.settings = v2] = u
    BY <1>1 DEF IsRecord, Parts
  <2>2. win' = [w1 EXCEPT !.settings = [w1.settings EXCEPT !.enabled = Enabled(form)]]
    BY <1>5 DEF FillsForm
  <2>3. win' = u
    BY <2>1, <2>2
  <2> HIDE DEF form, w1
  <2>4. /\ IsRecord(v2, SettingsFields) /\ v2.mine = win.settings.mine
        /\ v2.server = win.settings.server /\ v2.failed = win.settings.failed
        /\ v2.enabled = Enabled(v2.form) /\ v2.form = form
    BY <1>1 DEF IsRecord, SettingsFields
  <2>5. form \in Settings
    BY <1>5 DEF form
  <2> HIDE DEF v1, v2
  <2> QED
    BY <1>3, <2>3, <2>4, <2>5
<1>6. CASE SavesSettings
  <2>1. SetTo(win', win, win.settings.form, TRUE)
    BY <1>6, SetSettingsIs DEF SavesSettings
  <2>2. raced' = {} => \A m \in win.net : m.kind # "put"
    BY <1>6 DEF SavesSettings, Busy, Acts, Waiting
  <2>3. win'.tabs = win.tabs
    BY <2>1 DEF SetTo, Parts
  <2>4. win.settings.form \in Settings
    BY <1>1 DEF SettingsIn
  <2> QED
    BY <1>1, <2>1, <2>2, <2>3, <2>4, SettingsSet DEF IsOpen
<1>7. CASE PressPut
  <2> DEFINE s == Say(win)
             p == [kind |-> "put", settings |-> s.settings.mine, loud |-> TRUE]
  <2>1. win' = Ask(s, p)
    BY <1>7 DEF PressPut, Put, Unbuttoned
  <2>2. /\ s.settings = win.settings /\ s.net = win.net /\ s.tabs = win.tabs
        /\ IsRecord(s, Parts)
    BY <1>1 DEF Say, IsRecord, Parts
  <2>3. p.kind = "put" /\ p.settings = s.settings.mine
    OBVIOUS
  <2> HIDE DEF s, p
  <2>4. win'.settings = win.settings /\ win'.net = win.net \cup {p} /\ win'.tabs = win.tabs
    BY <2>1, <2>2 DEF Ask, IsRecord, Parts
  <2> QED
    BY <1>1, <2>2, <2>3, <2>4 DEF SettingsIn, IsOpen
<1>8. ASSUME NEW m \in win.net, m.kind = "put", NEW v, NEW r, IsRecord(v, SettingsFields),
             r.settings = v, r.net = win.net \ {m}, r.tabs = win.tabs,
             v.mine = win.settings.mine, v.form = win.settings.form,
             v.enabled = win.settings.enabled, v.failed \/ v.server = m.settings,
             v.server \in {m.settings, win.settings.server}
      PROVE  SettingsIn(r, raced')
  BY <1>1, <1>8 DEF SettingsIn, IsOpen
<1>9. ASSUME NEW m \in Waiting({"put"}), GotPut(m) PROVE SettingsIn(win', raced')
  <2> DEFINE w == Answered(m)
             v1 == [win.settings EXCEPT !.server = m.settings]
             v2 == [v1 EXCEPT !.failed = FALSE]
             w1 == [w EXCEPT !.settings = v1]
             u == [w1 EXCEPT !.settings = v2]
  <2>1. /\ IsRecord(w, Parts) /\ w.settings = win.settings /\ w.net = win.net \ {m}
        /\ w.tabs = win.tabs
    BY <1>1 DEF Answered, IsRecord, Parts
  <2>2. win' = LET stored == [[w EXCEPT !.settings = [w.settings EXCEPT !.server = m.settings]]
                               EXCEPT !.settings = [@ EXCEPT !.failed = FALSE]]
               IN IF m.loud THEN Say(stored) ELSE stored
    BY <1>9 DEF GotPut
  <2> HIDE DEF w
  <2>3. w1.settings = v1 /\ IsRecord(w1, Parts) /\ w1.net = w.net /\ w1.tabs = w.tabs
    BY <2>1 DEF IsRecord, Parts
  <2>4. win' = IF m.loud THEN Say(u) ELSE u
    BY <2>1, <2>2, <2>3
  <2> HIDE DEF w1
  <2>5. /\ IsRecord(v2, SettingsFields) /\ v2.server = m.settings /\ v2.mine = win.settings.mine
        /\ v2.form = win.settings.form /\ v2.enabled = win.settings.enabled
    BY <1>1 DEF IsRecord, SettingsFields
  <2> HIDE DEF v1, v2
  <2>6. u.settings = v2 /\ u.net = w.net /\ u.tabs = w.tabs /\ IsRecord(u, Parts)
    BY <2>3 DEF IsRecord, Parts
  <2> HIDE DEF u
  <2>7. win'.settings = v2 /\ win'.net = w.net /\ win'.tabs = w.tabs
    BY <2>4, <2>6 DEF Say, IsRecord, Parts
  <2>8. m \in win.net /\ m.kind = "put"
    BY DEF Waiting
  <2> QED
    BY <1>8, <2>1, <2>5, <2>7, <2>8
<1>10. ASSUME NEW m \in Waiting({"put"}), NEW b \in BOOLEAN, FailPut(m, b)
       PROVE  SettingsIn(win', raced')
  <2> DEFINE w == Answered(m)
             v1 == [win.settings EXCEPT !.failed = TRUE]
             v2 == [v1 EXCEPT !.server = IF b THEN m.settings ELSE w.settings.server]
             w1 == [w EXCEPT !.settings = v1]
             u == [w1 EXCEPT !.settings = v2]
  <2>1. /\ IsRecord(w, Parts) /\ w.settings = win.settings /\ w.net = win.net \ {m}
        /\ w.tabs = win.tabs
    BY <1>1 DEF Answered, IsRecord, Parts
  <2>2. win' = LET lost == [[w EXCEPT !.settings = [w.settings EXCEPT !.failed = TRUE]]
                            EXCEPT !.settings = [@ EXCEPT !.server =
                                         IF b THEN m.settings ELSE w.settings.server]]
               IN IF m.loud THEN Offer(lost, "put", None) ELSE lost
    BY <1>10 DEF FailPut
  <2> HIDE DEF w
  <2>3. w1.settings = v1 /\ IsRecord(w1, Parts) /\ w1.net = w.net /\ w1.tabs = w.tabs
    BY <2>1 DEF IsRecord, Parts
  <2>4. win' = IF m.loud THEN Offer(u, "put", None) ELSE u
    BY <2>1, <2>2, <2>3
  <2> HIDE DEF w1
  <2>5. /\ IsRecord(v2, SettingsFields) /\ v2.failed = TRUE /\ v2.mine = win.settings.mine
        /\ v2.form = win.settings.form /\ v2.enabled = win.settings.enabled
        /\ v2.server = IF b THEN m.settings ELSE w.settings.server
    BY <1>1 DEF IsRecord, SettingsFields
  <2> HIDE DEF v1, v2
  <2>6. u.settings = v2 /\ u.net = w.net /\ u.tabs = w.tabs /\ IsRecord(u, Parts)
    BY <2>3 DEF IsRecord, Parts
  <2> HIDE DEF u
  <2>7. win'.settings = v2 /\ win'.net = w.net /\ win'.tabs = w.tabs
    BY <2>4, <2>6 DEF Offer, IsRecord, Parts
  <2>8. m \in win.net /\ m.kind = "put"
    BY DEF Waiting
  <2> QED
    BY <1>8, <2>1, <2>5, <2>7, <2>8
<1>11. /\ \A way \in Ways, n \in {"teamauto", "projauto"} :
             [win.settings.form EXCEPT ![n] = way] \in Settings
       /\ \A t \in Teams : [win.settings.form EXCEPT !["teamload"] = t] \in Settings
       /\ \A p \in Listed(win) : [win.settings.form EXCEPT !["projload"] = p] \in Settings
  <2>1. win.settings.form \in Settings /\ Listed(win) \subseteq Projects
    BY <1>1 DEF SettingsIn, Listed
  <2> QED
    BY <2>1 DEF Settings
<1> QED
  BY <1>4, <1>5, <1>6, <1>7, <1>9, <1>10, <1>11 DEF SettingsSteps, SettingsAnswers

(* What is said of the calendar, of any window.                            *)
CalendarIn(r, rc) ==
    LET c == r.cal
    IN /\ IsRecord(c, CalendarFields)
       /\ rc = {} =>
             /\ \A m \in r.net : m.kind = "dates" => m = [kind |-> "dates", project |-> c.proj]
             /\ c.proj # None /\ ~c.failed =>
                   \/ /\ \E m \in r.net : m.kind = "dates"
                      /\ c.logs = {} /\ c.marked = {} /\ c.offered = {}
                   \/ /\ \A m \in r.net : m.kind # "dates"
                      /\ c.marked = {Day(s) : s \in {q \in Log(c.proj) : Month(q) = c.month}}
                      /\ c.logs = Log(c.proj) /\ c.offered \subseteq Log(c.proj)

LEMMA CalendarIs ==
  /\ CalendarKept <=> CalendarIn(win, raced)
  /\ CalendarKept' <=> CalendarIn(win', raced')
<1>1. CalendarKept <=> CalendarIn(win, raced)
  BY DEF CalendarKept, CalendarIn, Waiting
<1>2. CalendarKept' <=> CalendarIn(win', raced')
  BY DEF CalendarKept, CalendarIn, Waiting
<1> QED
  BY <1>1, <1>2

LEMMA CalendarKeeps ==
  ASSUME Whole(win), CalendarKept, raced \subseteq raced', CalendarSteps
  PROVE  CalendarKept'
<1> DEFINE k == win.cal
           dates(p) == [kind |-> "dates", project |-> p]
<1>1. IsRecord(win, Parts) /\ IsRecord(k, CalendarFields) /\ CalendarIn(win, raced')
  <2>1. CalendarIn(win, raced)
    BY CalendarIs
  <2>2. raced' = {} => raced = {}
    OBVIOUS
  <2> QED
    BY <2>1, <2>2 DEF CalendarIn, Whole, Base
<1> SUFFICES CalendarIn(win', raced')
  BY CalendarIs
<1>2. ASSUME NEW u, IsRecord(u, Parts), u.net = win.net, IsRecord(u.cal, CalendarFields),
             raced' = {} => \A m \in win.net : m.kind # "dates"
      PROVE  CalendarIn(DrawCal(u), raced')
  <2> DEFINE c1 == [u.cal EXCEPT !.logs = {}]
             c2 == [c1 EXCEPT !.day = 1]
             c3 == [c2 EXCEPT !.marked = {}]
             c4 == [c3 EXCEPT !.offered = {}]
             c == [c4 EXCEPT !.failed = FALSE]
             a == [u EXCEPT !.cal = c]
             r == DrawCal(u)
  <2>1. r = IF c.proj = None THEN a ELSE Ask(a, dates(c.proj))
    BY DEF DrawCal
  <2>2. IsRecord(c1, CalendarFields) /\ c1.logs = {}
    BY <1>2 DEF IsRecord, CalendarFields
  <2> HIDE DEF c1
  <2>3. IsRecord(c2, CalendarFields) /\ c2.logs = {}
    BY <2>2 DEF IsRecord, CalendarFields
  <2> HIDE DEF c2
  <2>4. IsRecord(c3, CalendarFields) /\ c3.logs = {} /\ c3.marked = {}
    BY <2>3 DEF IsRecord, CalendarFields
  <2> HIDE DEF c3
  <2>5. IsRecord(c4, CalendarFields) /\ c4.logs = {} /\ c4.marked = {} /\ c4.offered = {}
    BY <2>4 DEF IsRecord, CalendarFields
  <2> HIDE DEF c4
  <2>6. IsRecord(c, CalendarFields) /\ c.logs = {} /\ c.marked = {} /\ c.offered = {}
    BY <2>5 DEF IsRecord, CalendarFields
  <2> HIDE DEF c
  <2>7. IsRecord(a, Parts) /\ a.cal = c /\ a.net = win.net
    BY <1>2 DEF IsRecord, Parts
  <2> HIDE DEF a
  <2>8. r.cal = c /\ r.net = IF c.proj = None THEN win.net ELSE win.net \cup {dates(c.proj)}
    BY <2>1, <2>7 DEF Ask, IsRecord, Parts
  <2>9. dates(c.proj).kind = "dates"
    OBVIOUS
  <2> HIDE DEF r
  <2>10. CalendarIn(r, raced')
    BY <1>2, <2>6, <2>8, <2>9 DEF CalendarIn
  <2> QED
    BY <2>10 DEF r
<1>3. ASSUME NEW v, IsRecord(v, CalendarFields)
      PROVE  /\ IsRecord([win EXCEPT !.cal = v], Parts) /\ [win EXCEPT !.cal = v].net = win.net
             /\ [win EXCEPT !.cal = v].cal = v
             /\ IsRecord(Say([win EXCEPT !.cal = v]), Parts)
             /\ Say([win EXCEPT !.cal = v]).net = win.net /\ Say([win EXCEPT !.cal = v]).cal = v
  BY <1>1 DEF Say, IsRecord, Parts
<1>4. OnCalendar => (raced' = {} => \A m \in win.net : m.kind # "dates")
  BY DEF OnCalendar, Busy, Acts, Waiting
<1>5. ASSUME NEW p, ChoosesProject(p) PROVE CalendarIn(win', raced')
  <2> DEFINE v1 == [k EXCEPT !.proj = p]
             v2 == [v1 EXCEPT !.month = Today[1]]
             v == [v2 EXCEPT !.day = Today[2]]
  <2>1. win' = DrawCal([win EXCEPT !.cal = v])
    BY <1>5 DEF ChoosesProject, ChangeCalendar
  <2>2. IsRecord(v, CalendarFields)
    BY <1>1 DEF IsRecord, CalendarFields
  <2>3. OnCalendar
    BY <1>5 DEF ChoosesProject
  <2> HIDE DEF v
  <2> QED
    BY <1>2, <1>3, <1>4, <2>1, <2>2, <2>3
<1>6. ASSUME NEW dir, ChangesMonth(dir) PROVE CalendarIn(win', raced')
  <2>1. PICK v : win' = DrawCal([win EXCEPT !.cal = v]) /\ v = SetMonth(k, k.month + dir)
    BY <1>6 DEF ChangesMonth
  <2>2. IsRecord(v, CalendarFields)
    BY <1>1, <2>1 DEF IsRecord, CalendarFields, SetMonth
  <2>3. OnCalendar
    BY <1>6 DEF ChangesMonth
  <2> QED
    BY <1>2, <1>3, <1>4, <2>1, <2>2, <2>3
<1>7. ASSUME LoadsHead PROVE CalendarIn(win', raced')
  <2> DEFINE v1 == [k EXCEPT !.rev = HEAD]
             v2 == [v1 EXCEPT !.month = Today[1]]
             v == [v2 EXCEPT !.day = Today[2]]
  <2>1. win' = DrawCal(Say([win EXCEPT !.cal = v]))
    BY <1>7 DEF LoadsHead
  <2>2. IsRecord(v, CalendarFields)
    BY <1>1 DEF IsRecord, CalendarFields
  <2>3. OnCalendar
    BY <1>7 DEF LoadsHead
  <2> HIDE DEF v
  <2> QED
    BY <1>2, <1>3, <1>4, <2>1, <2>2, <2>3
<1>8. ASSUME NEW d, ChangesDay(d) PROVE CalendarIn(win', raced')
  <2> DEFINE o == {r \in k.logs : Day(r) = d}
             v1 == [k EXCEPT !.day = d]
             v2 == [v1 EXCEPT !.live = TRUE]
             v == [v2 EXCEPT !.offered = o]
  <2>1. win' = Say([win EXCEPT !.cal = v])
    BY <1>8 DEF ChangesDay
  <2>2. o \subseteq k.logs
    OBVIOUS
  <2> HIDE DEF o
  <2>3. /\ IsRecord(v, CalendarFields) /\ v.logs = k.logs /\ v.marked = k.marked
        /\ v.offered = o /\ v.month = k.month /\ v.proj = k.proj /\ v.failed = k.failed
    BY <1>1 DEF IsRecord, CalendarFields
  <2>4. raced' = {} => \A m \in win.net : m.kind # "dates"
    BY <1>8 DEF ChangesDay, Moves, Waiting
  <2> HIDE DEF v
  <2>5. win'.cal = v /\ win'.net = win.net
    BY <1>3, <2>1, <2>3
  <2> QED
    BY <1>1, <2>2, <2>3, <2>4, <2>5 DEF CalendarIn
<1>9. ASSUME NEW r, LoadsRevision(r) PROVE CalendarIn(win', raced')
  <2> DEFINE v == [k EXCEPT !.rev = r]
  <2>1. win' = Say([win EXCEPT !.cal = v])
    BY <1>9 DEF LoadsRevision
  <2>2. /\ IsRecord(v, CalendarFields) /\ v.logs = k.logs /\ v.marked = k.marked
        /\ v.offered = k.offered /\ v.month = k.month /\ v.proj = k.proj /\ v.failed = k.failed
    BY <1>1 DEF IsRecord, CalendarFields
  <2> HIDE DEF v
  <2>3. win'.cal = v /\ win'.net = win.net
    BY <1>3, <2>1, <2>2
  <2> QED
    BY <1>1, <2>2, <2>3 DEF CalendarIn
<1>10. ASSUME NEW m \in Waiting({"dates"}), GotDates(m) PROVE CalendarIn(win', raced')
  <2> DEFINE w == Answered(m)
             l == Log(m.project)
             days == {Day(r) : r \in {s \in l : Month(s) = k.month}}
             a == [w EXCEPT !.cal = [k EXCEPT !.logs = {}]]
             v1 == [k EXCEPT !.logs = l]
             v2 == [v1 EXCEPT !.marked = k.marked \cup days]
             b == [w EXCEPT !.cal = v1]
             c == [b EXCEPT !.cal = v2]
  <2>1. IsRecord(w, Parts) /\ w.cal = k /\ w.net = win.net \ {m}
    BY <1>1 DEF Answered, IsRecord, Parts
  <2>2. win' = IF l = {} THEN [w EXCEPT !.cal = [w.cal EXCEPT !.logs = {}]]
               ELSE LET e == [w EXCEPT !.cal = [w.cal EXCEPT !.logs = l]]
                    IN [e EXCEPT !.cal = [e.cal EXCEPT !.marked = w.cal.marked \cup
                           {Day(r) : r \in {s \in l : Month(s) = w.cal.month}}]]
    BY <1>10 DEF GotDates, ReceiveDates
  <2> HIDE DEF w
  <2>3. b.cal = v1 /\ IsRecord(b, Parts) /\ b.net = w.net
    BY <2>1 DEF IsRecord, Parts
  <2>4. win' = IF l = {} THEN a ELSE c
    BY <2>1, <2>2, <2>3
  <2> HIDE DEF b
  <2>5. m \in win.net /\ m.kind = "dates"
    BY DEF Waiting
  <2>6. raced' = {} => /\ \A n \in win.net : n.kind = "dates" => n = m
                       /\ m.project = k.proj
    <3>1. raced' = {} => \A n \in win.net : n.kind = "dates" => n = dates(k.proj)
      BY <1>1 DEF CalendarIn
    <3> QED
      BY <2>5, <3>1
  <2>7. raced' = {} => \A n \in w.net : n.kind # "dates"
    BY <2>1, <2>6
  <2>8. raced' = {} /\ k.proj # None /\ ~k.failed => k.logs = {} /\ k.marked = {} /\ k.offered = {}
    BY <1>1, <2>5 DEF CalendarIn
  <2>9. CASE l = {}
    <3> DEFINE v == [k EXCEPT !.logs = {}]
    <3>1. /\ IsRecord(v, CalendarFields) /\ v.logs = {} /\ v.marked = k.marked
          /\ v.offered = k.offered /\ v.month = k.month /\ v.proj = k.proj /\ v.failed = k.failed
      BY <1>1 DEF IsRecord, CalendarFields
    <3> HIDE DEF v
    <3>2. win'.cal = v /\ win'.net = w.net
      BY <2>1, <2>4, <2>9 DEF IsRecord, Parts, v
    <3>3. {Day(s) : s \in {q \in {} : Month(q) = k.month}} = {}
      OBVIOUS
    <3>4. m.project = k.proj =>
             {Day(s) : s \in {q \in Log(k.proj) : Month(q) = k.month}} = {} /\ Log(k.proj) = {}
      BY <2>9, <3>3
    <3> HIDE DEF k
    <3> QED
      BY <2>6, <2>7, <2>8, <3>1, <3>2, <3>4 DEF CalendarIn
  <2>10. CASE l # {}
    <3>1. /\ IsRecord(v2, CalendarFields) /\ v2.logs = l /\ v2.marked = k.marked \cup days
          /\ v2.offered = k.offered /\ v2.month = k.month /\ v2.proj = k.proj
          /\ v2.failed = k.failed
      <4> HIDE DEF l, days
      <4> QED
        BY <1>1 DEF IsRecord, CalendarFields
    <3>2. m.project = k.proj =>
             days = {Day(s) : s \in {q \in Log(k.proj) : Month(q) = k.month}} /\ l = Log(k.proj)
      OBVIOUS
    <3> HIDE DEF v1, v2, l, days
    <3>3. win'.cal = v2 /\ win'.net = w.net
      BY <2>1, <2>3, <2>4, <2>10 DEF IsRecord, Parts
    <3> HIDE DEF k
    <3> QED
      BY <2>6, <2>7, <2>8, <3>1, <3>2, <3>3 DEF CalendarIn
  <2> QED
    BY <2>9, <2>10
<1>11. ASSUME NEW m \in Waiting({"dates"}), FailDates(m) PROVE CalendarIn(win', raced')
  <2> DEFINE w == Answered(m)
             v == [k EXCEPT !.failed = TRUE]
  <2>1. IsRecord(w, Parts) /\ w.cal = k /\ w.net = win.net \ {m}
    BY <1>1 DEF Answered, IsRecord, Parts
  <2>2. win' = [w EXCEPT !.cal = v]
    BY <1>11, <2>1 DEF FailDates
  <2>3. IsRecord(v, CalendarFields) /\ v.failed = TRUE /\ v.proj = k.proj
    BY <1>1 DEF IsRecord, CalendarFields
  <2> HIDE DEF v, w
  <2>4. win'.cal = v /\ win'.net = w.net
    BY <2>1, <2>2 DEF IsRecord, Parts
  <2> QED
    BY <1>1, <2>1, <2>3, <2>4 DEF CalendarIn
<1> QED
  BY <1>5, <1>6, <1>7, <1>8, <1>9, <1>10, <1>11 DEF CalendarSteps

(* What is said of the administrator's page, of any window.                *)
AdminIn(r, rc) ==
    LET a == r.admin
    IN /\ IsRecord(a, AdminFields) /\ a.rows \subseteq RowsOfTeams /\ a.nth \in Nat
       /\ r.reviews \in [Teams -> SUBSET Fields] /\ \A m \in r.net : ForReview(m)
       /\ rc = {} =>
             /\ \A m, n \in r.net : m.kind \in AdminKinds /\ n.kind \in AdminKinds => m = n
             /\ \A m \in r.net : m.kind = "items" => m.team = a.team
             /\ \A m \in r.net : m.kind = "verdict" => m.team = m.row.team
             /\ \A row \in a.rows : row.team = a.team

LEMMA AdminIs ==
  /\ AdminKept <=> AdminIn(win, raced)
  /\ AdminKept' <=> AdminIn(win', raced')
<1>1. AdminKept <=> AdminIn(win, raced)
  BY DEF AdminKept, AdminIn, Waiting
<1>2. AdminKept' <=> AdminIn(win', raced')
  BY DEF AdminKept, AdminIn, Waiting
<1> QED
  BY <1>1, <1>2

LEMMA AdminKeeps ==
  ASSUME Whole(win), AdminKept, raced \subseteq raced', AdminSteps
  PROVE  AdminKept'
<1> DEFINE k == win.admin
           NoneWaits == \A m \in win.net : m.kind \notin AdminKinds
<1>1. IsRecord(win, Parts) /\ IsRecord(k, AdminFields) /\ AdminIn(win, raced')
  <2>1. AdminIn(win, raced)
    BY AdminIs
  <2>2. raced' = {} => raced = {}
    OBVIOUS
  <2> QED
    BY <2>1, <2>2 DEF AdminIn, Whole, Base
<1> SUFFICES AdminIn(win', raced')
  BY AdminIs
<1>2. Busy("admin", AdminKinds) => (raced' = {} => NoneWaits)
  BY DEF Busy, Acts, Waiting
<1>3. "admin" \in Tabs \ Files /\ CanFocus("admin") /\ "admin" \in FarTabs \ LogTabs
  <2>1. "admin" \in PageTabs
    BY DEF PageTabs
  <2> QED
    BY <2>1, Facts DEF FarTabs, LogTabs
<1>4. CASE ShowsAdmin
  <2> DEFINE m == [kind |-> "teams"]
             a == AddTab(win, "admin")
             u == Ask(a, m)
  <2>1. raced' = {} => NoneWaits
    BY <1>2, <1>4 DEF ShowsAdmin
  <2>2. ASSUME NEW v, v.admin = k, v.reviews = win.reviews, NEW r, Fetched(r, v, "admin"),
               \A n \in v.net : n \in win.net \/ n = m
        PROVE  AdminIn(r, raced')
    <3>1. r.admin = k /\ r.reviews = win.reviews
      BY <2>2 DEF Fetched, Parts, ShellParts, BarParts
    <3>2. \A n \in r.net : n.kind \in AdminKinds \cup {"verdict"} => n \in win.net \/ n = m
      BY <2>2 DEF Fetched, ShellKinds, AdminKinds
    <3>4. \A n \in r.net : n.kind = "items" => n \in win.net
      BY <3>2 DEF AdminKinds
    <3>3. m.kind = "teams"
      OBVIOUS
    <3> HIDE DEF m
    <3> QED
      BY <1>1, <2>1, <3>1, <3>2, <3>3, <3>4 DEF AdminIn, AdminKinds, ForReview
  <2>3. CASE IsOpen(win, "admin")
    BY <1>3, <1>4, <2>2, <2>3, TurnFetches DEF ShowsAdmin, OpenAdmin
  <2>4. CASE ~IsOpen(win, "admin")
    <3>1. win' = SwitchTo(u, "admin")
      BY <1>4, <2>4 DEF ShowsAdmin, OpenAdmin
    <3> DEFINE b == Ask(win, m)
    <3>2. u = AddTab(b, "admin")
      <4> DEFINE f == [x \in Parts |-> IF x = "tabs" THEN Append(win.tabs, "admin")
                                       ELSE IF x = "net" THEN win.net \cup {m} ELSE win[x]]
      <4>1. u = f
        BY <1>1 DEF Ask, AddTab, IsRecord, Parts
      <4>2. AddTab(b, "admin") = f
        BY <1>1 DEF Ask, AddTab, IsRecord, Parts
      <4> QED
        BY <4>1, <4>2
    <3>3. /\ b.net = win.net \cup {m} /\ b.admin = k /\ b.tabs = win.tabs
          /\ b.reviews = win.reviews
      BY <1>1 DEF Ask, IsRecord, Parts
    <3>4. Formed(m) /\ m.kind \in AdminKinds
      BY DEF Formed, OpKinds, AdminKinds
    <3>5. Whole(b)
      BY <3>4, AskTouches DEF Touches
    <3> HIDE DEF b, u, m
    <3>6. Addable(b, "admin")
      BY <1>3, <2>4, <3>3 DEF Addable, IsOpen
    <3>7. Fetched(win', b, "admin")
      BY <1>3, <3>1, <3>2, <3>5, <3>6, OpenFetches
    <3> QED
      BY <2>2, <3>3, <3>7
  <2> QED
    BY <2>3, <2>4
<1>5. ASSUME NEW u, IsRecord(u, Parts), IsRecord(u.admin, AdminFields), NEW t \in Teams,
             u.admin.nth \in Nat, u.reviews = win.reviews, \A m \in u.net : m \in win.net,
             raced' = {} => \A m \in u.net : m.kind \notin AdminKinds
      PROVE  AdminIn(GetItemsToReview(u, t), raced')
  <2> DEFINE k1 == [u.admin EXCEPT !.team = t]
             k2 == [k1 EXCEPT !.rows = {}]
             k3 == [k2 EXCEPT !.nth = u.admin.nth + 1]
             a == [u EXCEPT !.admin = k3]
             m == [kind |-> "items", team |-> t, nth |-> u.admin.nth + 1]
             r == Ask(a, m)
  <2>1. GetItemsToReview(u, t) = r
    BY DEF GetItemsToReview
  <2>2. IsRecord(k1, AdminFields) /\ k1.team = t
    BY <1>5 DEF IsRecord, AdminFields
  <2> HIDE DEF k1
  <2>3. IsRecord(k2, AdminFields) /\ k2.team = t /\ k2.rows = {}
    BY <2>2 DEF IsRecord, AdminFields
  <2> HIDE DEF k2
  <2>4. IsRecord(k3, AdminFields) /\ k3.team = t /\ k3.rows = {} /\ k3.nth \in Nat
    BY <1>5, <2>3 DEF IsRecord, AdminFields
  <2>5. m.kind = "items" /\ m.team = t /\ ForReview(m)
    BY <1>5 DEF ForReview
  <2> HIDE DEF k3, m
  <2>6. r.admin = k3 /\ r.net = u.net \cup {m} /\ r.reviews = win.reviews
    BY <1>5 DEF Ask, IsRecord, Parts
  <2> HIDE DEF a, r
  <2>7. AdminIn(r, raced')
    BY <1>1, <1>5, <2>4, <2>5, <2>6 DEF AdminIn, AdminKinds
  <2> QED
    BY <2>1, <2>7
<1>6. ASSUME NEW t \in Teams, ChoosesTeam(t) PROVE AdminIn(win', raced')
  <2>1. raced' = {} => \A m \in win.net : m.kind \notin AdminKinds
    BY <1>2, <1>6 DEF ChoosesTeam
  <2>2. win' = GetItemsToReview(win, t)
    BY <1>6 DEF ChoosesTeam
  <2>3. AdminIn(GetItemsToReview(win, t), raced')
    BY <1>1, <1>5, <2>1 DEF AdminIn
  <2> QED
    BY <2>2, <2>3
<1>7. ASSUME NEW row, Judges(row) PROVE AdminIn(win', raced')
  <2> DEFINE m == [kind |-> "verdict", team |-> k.team, row |-> row]
  <2>1. win' = Ask(win, m) /\ row \in k.rows
    BY <1>7 DEF Judges
  <2>2. m.kind = "verdict" /\ m.team = k.team /\ m.row = row /\ ForReview(m)
    BY DEF ForReview
  <2> HIDE DEF m
  <2>3. win'.admin = k /\ win'.net = win.net \cup {m} /\ win'.reviews = win.reviews
    BY <1>1, <2>1 DEF Ask, IsRecord, Parts
  <2> QED
    BY <1>1, <2>1, <2>2, <2>3 DEF AdminIn, AdminKinds
<1>8. ASSUME NEW m, IsRecord(win, Parts)
      PROVE  /\ IsRecord(Answered(m), Parts) /\ Answered(m).admin = k
             /\ Answered(m).net = win.net \ {m} /\ Answered(m).reviews = win.reviews
  BY <1>8 DEF Answered, IsRecord, Parts
<1>9. ASSUME NEW m \in win.net, m.kind \in AdminKinds
      PROVE  raced' = {} => \A n \in win.net \ {m} : n.kind \notin AdminKinds
  BY <1>1, <1>9 DEF AdminIn
<1>10. ASSUME NEW m, FailAdmin(m) PROVE AdminIn(win', raced')
  <2> DEFINE w == Answered(m)
  <2>1. win' = Say(w)
    BY <1>10 DEF FailAdmin
  <2>2. /\ IsRecord(w, Parts) /\ w.admin = k /\ w.net = win.net \ {m}
        /\ w.reviews = win.reviews
    BY <1>1, <1>8
  <2> HIDE DEF w
  <2>3. win'.admin = k /\ win'.net = win.net \ {m} /\ win'.reviews = win.reviews
    BY <2>1, <2>2 DEF Say, IsRecord, Parts
  <2> QED
    BY <1>1, <2>3 DEF AdminIn
<1>11. ASSUME NEW m \in Waiting({"teams"}), GotTeams(m) PROVE AdminIn(win', raced')
  <2> DEFINE w == Answered(m)
             k1 == [k EXCEPT !.team = None]
             k2 == [k1 EXCEPT !.rows = {}]
             k3 == [k2 EXCEPT !.teams = {}]
             c == [w EXCEPT !.admin = k3]
             d == [c EXCEPT !.admin = [c.admin EXCEPT !.teams = ToReview(w)]]
             k4 == [k3 EXCEPT !.teams = ToReview(w)]
  <2>1. /\ IsRecord(w, Parts) /\ w.admin = k /\ w.net = win.net \ {m}
        /\ w.reviews = win.reviews
    BY <1>1, <1>8
  <2>2. \/ \E t \in Teams : win' = GetItemsToReview(c, t)
        \/ win' = Say(d)
    <3>1. win' = ReceiveTeams(w)
      BY <1>11 DEF GotTeams
    <3>2. [w EXCEPT !.admin = [[[@ EXCEPT !.team = None] EXCEPT !.rows = {}]
                               EXCEPT !.teams = {}]] = c
      BY <2>1
    <3>3. Cardinality(ToReview(w)) = 1 => (CHOOSE t \in ToReview(w) : TRUE) \in Teams
      <4>1. Cardinality(ToReview(w)) = 1 => ToReview(w) # {}
        BY FS_EmptySet
      <4>2. ToReview(w) \subseteq Teams
        BY DEF ToReview
      <4> QED
        BY <4>1, <4>2
    <3> QED
      BY <3>1, <3>2, <3>3 DEF ReceiveTeams
  <2>3. IsRecord(k3, AdminFields) /\ k3.rows = {} /\ k3.nth = k.nth
    BY <1>1 DEF IsRecord, AdminFields
  <2>4. IsRecord(k4, AdminFields) /\ k4.rows = {} /\ k4.nth = k.nth
    BY <2>3 DEF IsRecord, AdminFields
  <2> HIDE DEF w, k3
  <2>n. k.nth \in Nat
    BY <1>1 DEF AdminIn
  <2>5. /\ IsRecord(c, Parts) /\ c.admin = k3 /\ c.net = win.net \ {m}
        /\ c.reviews = win.reviews
    BY <2>1 DEF IsRecord, Parts
  <2> HIDE DEF c
  <2>6. raced' = {} => \A n \in win.net \ {m} : n.kind \notin AdminKinds
    BY <1>9 DEF Waiting, AdminKinds
  <2>7. \A t \in Teams : AdminIn(GetItemsToReview(c, t), raced')
    BY <1>5, <2>3, <2>5, <2>6, <2>n
  <2>8. d = [c EXCEPT !.admin = k4]
    BY <2>5
  <2> HIDE DEF k4
  <2>9. /\ d.admin = k4 /\ d.net = win.net \ {m} /\ IsRecord(d, Parts)
        /\ d.reviews = win.reviews
    BY <2>5, <2>8 DEF IsRecord, Parts
  <2> HIDE DEF d
  <2>10. ASSUME win' = Say(d) PROVE AdminIn(win', raced')
    <3>1. win'.admin = k4 /\ win'.net = win.net \ {m} /\ win'.reviews = win.reviews
      BY <2>9, <2>10 DEF Say, IsRecord, Parts
    <3> QED
      BY <1>1, <2>4, <2>6, <3>1 DEF AdminIn, AdminKinds
  <2> QED
    BY <2>2, <2>7, <2>10
<1>12. ASSUME NEW m \in Waiting({"items"}), GotItems(m) PROVE AdminIn(win', raced')
  <2> DEFINE w == Answered(m)
             more == Rows(m.team, w.reviews[m.team], m.nth)
             v == [k EXCEPT !.rows = @ \cup more]
  <2>1. /\ IsRecord(w, Parts) /\ w.admin = k /\ w.net = win.net \ {m}
        /\ w.reviews = win.reviews
    BY <1>1, <1>8
  <2>2. /\ \A row \in more : row.team = m.team
        /\ more \subseteq RowsOfTeams
    <3>1. m.team \in Teams /\ m.nth \in Nat
      BY <1>1 DEF AdminIn, ForReview, Waiting
    <3>2. w.reviews[m.team] \subseteq Fields
      BY <1>1, <2>1, <3>1 DEF AdminIn
    <3> HIDE DEF w
    <3> QED
      BY <3>1, <3>2 DEF Rows, RowsOfTeams
  <2>3. win' = [w EXCEPT !.admin = [w.admin EXCEPT !.rows = w.admin.rows \cup more]]
    BY <1>12 DEF GotItems, ReceiveItems
  <2> HIDE DEF more, w
  <2>4. /\ IsRecord(v, AdminFields) /\ v.rows = k.rows \cup more /\ v.team = k.team
        /\ v.nth = k.nth
    BY <1>1 DEF IsRecord, AdminFields
  <2>5. win' = [w EXCEPT !.admin = v]
    BY <2>1, <2>3
  <2> HIDE DEF v
  <2>6. win'.admin = v /\ win'.net = win.net \ {m} /\ win'.reviews = win.reviews
    BY <2>1, <2>5 DEF IsRecord, Parts
  <2>7. m \in win.net /\ m.kind = "items"
    BY DEF Waiting
  <2> QED
    BY <1>1, <2>2, <2>4, <2>6, <2>7 DEF AdminIn
<1>13. ASSUME NEW m \in Waiting({"verdict"}), GotVerdict(m) PROVE AdminIn(win', raced')
  <2> DEFINE w == Answered(m)
             v == [k EXCEPT !.rows = @ \ {m.row}]
             a == [w EXCEPT !.admin = v]
  <2>1. /\ IsRecord(w, Parts) /\ w.admin = k /\ w.net = win.net \ {m}
        /\ w.reviews = win.reviews
    BY <1>1, <1>8
  <2>2. PICK x \in [Teams -> SUBSET Fields] : win' = [a EXCEPT !.reviews = x]
    <3> DEFINE y == [a.reviews EXCEPT ![m.team] = @ \ {m.row.field}]
    <3>1. a.reviews \in [Teams -> SUBSET Fields]
      BY <1>1, <2>1 DEF AdminIn, IsRecord, Parts
    <3>2. y \in [Teams -> SUBSET Fields]
      BY <3>1
    <3>3. win' = [a EXCEPT !.reviews = y]
      BY <1>13, <2>1 DEF GotVerdict
    <3> QED
      BY <3>2, <3>3
  <2>3. /\ IsRecord(v, AdminFields) /\ v.rows = k.rows \ {m.row} /\ v.team = k.team
        /\ v.nth = k.nth
    BY <1>1 DEF IsRecord, AdminFields
  <2> HIDE DEF v, w
  <2>4. a.admin = v /\ a.net = win.net \ {m} /\ IsRecord(a, Parts)
    BY <2>1 DEF IsRecord, Parts
  <2> HIDE DEF a
  <2>5. win'.admin = v /\ win'.net = win.net \ {m} /\ win'.reviews \in [Teams -> SUBSET Fields]
    BY <2>2, <2>4 DEF IsRecord, Parts
  <2> QED
    BY <1>1, <2>3, <2>5 DEF AdminIn
<1> QED
  BY <1>4, <1>6, <1>7, <1>10, <1>11, <1>12, <1>13 DEF AdminSteps

(* What is said of the team's page, of any window.                         *)
StatusIn(r, rc) ==
    LET s == r.status
    IN /\ IsRecord(s, StatusFields) /\ r.texts = [t \in Teams |-> r.texts[t]]
       /\ (\E m \in r.net : m.kind \in StatusKinds) \/ IsOpen(r, "review") => r.team # None
       /\ rc = {} =>
             /\ \A t \in Teams : r.texts[t][1] = t
             /\ \A m \in r.net : m.kind = "status" => m.team = r.team
             /\ \A m \in r.net : m.kind = "text" => m.text = None \/ m.text[1] = m.team
             /\ IsOpen(r, "review") /\ s.form # None =>
                   /\ s.form[1] = r.team
                   /\ (\A m \in r.net : m.kind # "status") /\ ~s.failed /\ s.form[2] = 0
                      => s.form = r.texts[r.team]

LEMMA StatusIs ==
  /\ StatusKept <=> StatusIn(win, raced)
  /\ StatusKept' <=> StatusIn(win', raced')
<1>1. StatusKept <=> StatusIn(win, raced)
  BY DEF StatusKept, StatusIn, Waiting
<1>2. StatusKept' <=> StatusIn(win', raced')
  BY DEF StatusKept, StatusIn, Waiting, IsOpen
<1> QED
  BY <1>1, <1>2

LEMMA StatusKeeps ==
  ASSUME Whole(win), TeamShown, StatusKept, raced \subseteq raced', StatusSteps
  PROVE  StatusKept'
<1> DEFINE k == win.status
<1>1. IsRecord(win, Parts) /\ IsRecord(k, StatusFields) /\ StatusIn(win, raced')
  <2>1. StatusIn(win, raced)
    BY StatusIs
  <2>2. raced' = {} => raced = {}
    OBVIOUS
  <2> QED
    BY <2>1, <2>2 DEF StatusIn, Whole, Base
<1> SUFFICES StatusIn(win', raced')
  BY StatusIs
<1>2. "review" \in Tabs \ Files /\ CanFocus("review") /\ "review" \notin FarTabs \cup LogTabs
  <2>1. "review" \in PageTabs
    BY DEF PageTabs
  <2> QED
    BY <2>1, Facts DEF FarTabs, LogTabs
<1>3. /\ win.team \in Teams \cup {None}
      /\ win.team # None => IsOpen(win, "projects")
      /\ win.cur = "review" => IsOpen(win, "review")
  BY <1>2 DEF TeamShown, Whole, Fronted
<1>4. ASSUME NEW r, NEW v, IsRecord(v, StatusFields), r.status = v, r.team = win.team,
             r.texts = win.texts, \A m \in r.net : m \in win.net, r.tabs = win.tabs,
             \/ v.form = None
             \/ v.form = k.form /\ v.failed = k.failed
                /\ \A m \in win.net : m.kind = "status" => m \in r.net
             \/ v.failed /\ v.form = k.form
      PROVE  StatusIn(r, raced')
  BY <1>1, <1>4 DEF StatusIn, IsOpen
<1>5. CASE ShowsStatus
  <2> DEFINE v1 == [k EXCEPT !.form = None]
             v2 == [v1 EXCEPT !.image = FALSE]
             v == [v2 EXCEPT !.ro = win.team \in ReadOnly]
             m == [kind |-> "status", team |-> win.team]
             c == [win EXCEPT !.status = v]
             b == Ask(c, m)
  <2>1. raced' = {} => \A n \in win.net : n.kind \notin StatusKinds
    BY <1>5 DEF ShowsStatus, Busy, Acts, Waiting
  <2>2. CASE IsOpen(win, "review")
    <3>1. win' = SwitchTo(win, "review")
      BY <1>5, <2>2 DEF ShowsStatus, OpenStatus
    <3>2. Fetched(win', win, "review")
      BY <1>2, <2>2, <3>1, TurnFetches
    <3>3. /\ win'.status = k /\ win'.team = win.team /\ win'.texts = win.texts
          /\ \A n : n.kind \in StatusKinds => (n \in win'.net <=> n \in win.net)
      BY <3>2 DEF Fetched, Parts, ShellParts, BarParts, ShellKinds, StatusKinds
    <3> QED
      BY <1>1, <2>2, <3>3 DEF StatusIn, StatusKinds
  <2>3. CASE ~IsOpen(win, "review") /\ win.team = None
    <3>1. win' = Say(win)
      BY <1>5, <2>3 DEF ShowsStatus, OpenStatus
    <3>2. /\ win'.status = k /\ win'.team = win.team /\ win'.texts = win.texts
          /\ win'.net = win.net /\ win'.tabs = win.tabs
      BY <1>1, <3>1 DEF Say, IsRecord, Parts
    <3> QED
      BY <1>1, <1>4, <3>2
  <2>4. CASE ~IsOpen(win, "review") /\ win.team # None
    <3>1. win' = SwitchTo(GetStatus(AddTab(c, "review")), "review")
      BY <1>5, <2>4 DEF ShowsStatus, OpenStatus
    <3>2. IsRecord(v, StatusFields) /\ v.form = None
      <4>1. IsRecord(v1, StatusFields) /\ v1.form = None
        BY <1>1 DEF IsRecord, StatusFields
      <4> HIDE DEF v1
      <4>2. IsRecord(v2, StatusFields) /\ v2.form = None
        BY <4>1 DEF IsRecord, StatusFields
      <4> HIDE DEF v2
      <4> QED
        BY <4>2 DEF IsRecord, StatusFields
    <3> HIDE DEF v
    <3>3. /\ IsRecord(c, Parts) /\ c.status = v /\ c.team = win.team /\ c.texts = win.texts
          /\ c.net = win.net /\ c.tabs = win.tabs /\ c.cur = win.cur /\ c.shown = win.shown
          /\ c.offer = win.offer /\ c.log = win.log /\ c.drawn = win.drawn
          /\ c.edit = win.edit /\ c.errors = win.errors
      BY <1>1 DEF IsRecord, Parts
    <3>4. Whole(c)
      BY <3>3, BarStays DEF Whole
    <3> HIDE DEF c
    <3>5. GetStatus(AddTab(c, "review")) = AddTab(b, "review")
      <4> DEFINE f == [x \in Parts |-> IF x = "tabs" THEN Append(c.tabs, "review")
                                       ELSE IF x = "net" THEN c.net \cup {m} ELSE c[x]]
      <4>1. AddTab(c, "review").team = win.team
        BY <3>3 DEF AddTab, IsRecord, Parts
      <4>2. GetStatus(AddTab(c, "review")) = Ask(AddTab(c, "review"), m)
        BY <4>1 DEF GetStatus
      <4>3. Ask(AddTab(c, "review"), m) = f
        BY <3>3 DEF Ask, AddTab, IsRecord, Parts
      <4>4. AddTab(b, "review") = f
        BY <3>3 DEF Ask, AddTab, IsRecord, Parts
      <4> QED
        BY <4>2, <4>3, <4>4
    <3>6. /\ b.status = v /\ b.team = win.team /\ b.texts = win.texts
          /\ b.net = win.net \cup {m} /\ b.tabs = win.tabs
      BY <3>3 DEF Ask, IsRecord, Parts
    <3>7. Formed(m) /\ m.kind = "status" /\ m.team = win.team
      BY DEF Formed, OpKinds
    <3>8. Whole(b)
      BY <3>4, <3>7, AskTouches DEF Touches
    <3> HIDE DEF b, m
    <3>9. Addable(b, "review")
      BY <1>2, <1>3, <2>4, <3>6 DEF Addable, IsOpen
    <3>10. Fetched(win', b, "review")
      BY <1>2, <3>1, <3>5, <3>8, <3>9, OpenFetches
    <3>11. /\ win'.status = v /\ win'.team = win.team /\ win'.texts = win.texts
           /\ \A n : n.kind \in StatusKinds => (n \in win'.net <=> n \in win.net \/ n = m)
      BY <3>6, <3>10 DEF Fetched, Parts, ShellParts, BarParts, ShellKinds, StatusKinds
    <3>12. raced' = {} =>
              /\ \A n \in win'.net : n.kind \in StatusKinds => n = m
              /\ \A n \in win'.net : n.kind = "status" => n.team = win'.team
              /\ \A n \in win'.net : n.kind # "text"
      BY <2>1, <3>7, <3>11 DEF StatusKinds
    <3> QED
      BY <1>1, <2>4, <3>2, <3>11, <3>12 DEF StatusIn
  <2> QED
    BY <2>2, <2>3, <2>4
<1>6. ASSUME NEW n \in 1 .. 2, TypesStatus(n) PROVE StatusIn(win', raced')
  <2> DEFINE form == <<IF k.form = None THEN win.team ELSE k.form[1], n>>
             v == [k EXCEPT !.form = form]
  <2>1. win' = [win EXCEPT !.status = v] /\ win.cur = "review"
    BY <1>6 DEF TypesStatus, OnStatus
  <2>2. raced' = {} => form[1] = win.team
    BY <1>1, <1>3, <2>1 DEF StatusIn
  <2>3. form[2] # 0
    OBVIOUS
  <2> HIDE DEF form
  <2>4. IsRecord(v, StatusFields) /\ v.form = form
    BY <1>1 DEF IsRecord, StatusFields
  <2> HIDE DEF v
  <2>5. /\ win'.status = v /\ win'.team = win.team /\ win'.texts = win.texts
        /\ win'.net = win.net /\ win'.tabs = win.tabs
    BY <1>1, <2>1 DEF IsRecord, Parts
  <2> QED
    BY <1>1, <2>2, <2>3, <2>4, <2>5 DEF StatusIn, IsOpen
<1>7. CASE ChoosesImage
  <2> DEFINE v == [k EXCEPT !.image = TRUE]
  <2>1. win' = [win EXCEPT !.status = v]
    BY <1>7 DEF ChoosesImage
  <2>2. IsRecord(v, StatusFields) /\ v.form = k.form /\ v.failed = k.failed
    BY <1>1 DEF IsRecord, StatusFields
  <2> HIDE DEF v
  <2>3. /\ win'.status = v /\ win'.team = win.team /\ win'.texts = win.texts
        /\ win'.net = win.net /\ win'.tabs = win.tabs
    BY <1>1, <2>1 DEF IsRecord, Parts
  <2> QED
    BY <1>4, <2>2, <2>3
<1>8. CASE SavesStatus
  <2> DEFINE v1 == [k EXCEPT !.error = FALSE]
             v == [v1 EXCEPT !.nth = k.nth + 1]
             c1 == [win EXCEPT !.status = v1]
             c == [win EXCEPT !.status = v]
             m == [kind |-> "text", team |-> win.team, text |-> k.form, nth |-> v.nth]
             i == [kind |-> "image", team |-> win.team, nth |-> v.nth]
             put == IF k.form # None /\ k.form[2] = 1 THEN Say(c) ELSE Ask(c, m)
  <2>1. [c1 EXCEPT !.status = [c1.status EXCEPT !.nth = win.status.nth + 1]] = c
    <3>1. c1.status = v1
      BY <1>1 DEF IsRecord, Parts
    <3> HIDE DEF v1
    <3> QED
      BY <1>1, <3>1 DEF IsRecord, Parts
  <2>2. c.status = v
    BY <1>1 DEF IsRecord, Parts
  <2>3. win' = IF k.image THEN Ask(put, i) ELSE put
    <3> DEFINE fresh == [win EXCEPT !.status.error = FALSE, !.status.nth = @ + 1]
               Puts(r) == IF k.form # None /\ k.form[2] = 1 THEN Say(r)
                          ELSE Ask(r, [kind |-> "text", team |-> win.team, text |-> k.form,
                                       nth |-> r.status.nth])
               Sends(r) == IF k.image THEN Ask(Puts(r), [kind |-> "image", team |-> win.team,
                                                         nth |-> r.status.nth])
                           ELSE Puts(r)
    <3>1. win' = Sends(fresh)
      BY <1>8 DEF SavesStatus, SaveStatus
    <3>2. fresh = c
      BY <2>1
    <3>3. c.status.nth = v.nth
      BY <2>2
    <3> HIDE DEF fresh, c, v
    <3>4. win' = Sends(c)
      BY <3>1, <3>2
    <3> QED
      BY <3>3, <3>4
  <2>4. IsRecord(v, StatusFields) /\ v.form = k.form /\ v.failed = k.failed
    <3>1. IsRecord(v1, StatusFields) /\ v1.form = k.form /\ v1.failed = k.failed
      BY <1>1 DEF IsRecord, StatusFields
    <3> HIDE DEF v1
    <3> QED
      BY <3>1 DEF IsRecord, StatusFields
  <2>5. m.kind = "text" /\ m.team = win.team /\ m.text = k.form /\ i.kind = "image"
    OBVIOUS
  <2> HIDE DEF v, m, i
  <2>6. /\ c.status = v /\ c.team = win.team /\ c.texts = win.texts
        /\ c.net = win.net /\ c.tabs = win.tabs /\ IsRecord(c, Parts)
    BY <1>1 DEF IsRecord, Parts
  <2> HIDE DEF c
  <2>7. /\ put.status = v /\ put.team = win.team /\ put.texts = win.texts /\ put.tabs = win.tabs
        /\ IsRecord(put, Parts) /\ (put.net = win.net \/ put.net = win.net \cup {m})
    BY <2>6 DEF Ask, Say, IsRecord, Parts
  <2> HIDE DEF put
  <2>8. /\ win'.status = v /\ win'.team = win.team /\ win'.texts = win.texts
        /\ win'.tabs = win.tabs
        /\ win'.net = put.net \/ win'.net = put.net \cup {i}
    BY <2>3, <2>7 DEF Ask, IsRecord, Parts
  <2>9. win.cur = "review"
    BY <1>8 DEF SavesStatus, OnStatus
  <2>10. IsOpen(win, "review") /\ win.team # None
    BY <1>1, <1>3, <2>9 DEF StatusIn
  <2>11. \A n \in win'.net : n \in win.net \/ n = m \/ n = i
    BY <2>7, <2>8
  <2>12. \A n \in win.net : n \in win'.net
    BY <2>7, <2>8
  <2>13. raced' = {} /\ k.form # None => k.form[1] = win.team
    BY <1>1, <2>10 DEF StatusIn
  <2> HIDE DEF k
  <2> QED
    BY <1>1, <2>4, <2>5, <2>8, <2>10, <2>11, <2>12, <2>13 DEF StatusIn, k
<1>9. ASSUME NEW m
      PROVE  /\ IsRecord(Answered(m), Parts) /\ Answered(m).status = k
             /\ Answered(m).net = win.net \ {m} /\ Answered(m).tabs = win.tabs
             /\ Answered(m).team = win.team /\ Answered(m).texts = win.texts
  BY <1>1 DEF Answered, IsRecord, Parts
<1>10. ASSUME NEW m \in Waiting({"status"}), GotStatus(m) PROVE StatusIn(win', raced')
  <2> DEFINE w == Answered(m)
             form == win.texts[m.team]
             v1 == [k EXCEPT !.form = form]
             v == [v1 EXCEPT !.image = FALSE]
             c1 == [w EXCEPT !.status = v1]
             c == [c1 EXCEPT !.status = v]
  <2>1. /\ IsRecord(w, Parts) /\ w.status = k /\ w.net = win.net \ {m} /\ w.tabs = win.tabs
        /\ w.team = win.team /\ w.texts = win.texts
    BY <1>9
  <2>2. win' = [[w EXCEPT !.status = [w.status EXCEPT !.form = form]]
                EXCEPT !.status = [@ EXCEPT !.image = FALSE]]
    BY <1>10 DEF GotStatus
  <2> HIDE DEF w, form
  <2>3. c1.status = v1 /\ IsRecord(c1, Parts) /\ c1.net = w.net /\ c1.tabs = w.tabs
        /\ c1.team = w.team /\ c1.texts = w.texts
    BY <2>1 DEF IsRecord, Parts
  <2>4. win' = c
    BY <2>1, <2>2, <2>3
  <2> HIDE DEF c1
  <2>5. IsRecord(v, StatusFields) /\ v.form = form
    BY <1>1 DEF IsRecord, StatusFields
  <2> HIDE DEF v
  <2>6. /\ win'.status = v /\ win'.team = win.team /\ win'.texts = win.texts
        /\ win'.net = win.net \ {m} /\ win'.tabs = win.tabs
    BY <2>1, <2>3, <2>4 DEF IsRecord, Parts
  <2>7. m \in win.net /\ m.kind = "status"
    BY DEF Waiting
  <2>8. win.team \in Teams
    BY <1>1, <1>3, <2>7 DEF StatusIn, StatusKinds
  <2>9. raced' = {} => m.team = win.team /\ form[1] = win.team /\ form = win.texts[win.team]
    BY <1>1, <2>7, <2>8 DEF StatusIn, form
  <2> QED
    BY <1>1, <2>5, <2>6, <2>9 DEF StatusIn, IsOpen
<1>11. ASSUME NEW m \in Waiting({"status"}), FailStatus(m) PROVE StatusIn(win', raced')
  <2> DEFINE w == Answered(m)
             v1 == [k EXCEPT !.form = None]
             v2 == [v1 EXCEPT !.image = FALSE]
             v == [v2 EXCEPT !.failed = TRUE]
             c1 == [w EXCEPT !.status = v1]
             c2 == [c1 EXCEPT !.status = v2]
             c == [c2 EXCEPT !.status = v]
  <2>1. /\ IsRecord(w, Parts) /\ w.status = k /\ w.net = win.net \ {m} /\ w.tabs = win.tabs
        /\ w.team = win.team /\ w.texts = win.texts
    BY <1>9
  <2>2. win' = Say([[[w EXCEPT !.status = [w.status EXCEPT !.form = None]]
                     EXCEPT !.status = [@ EXCEPT !.image = FALSE]]
                     EXCEPT !.status = [@ EXCEPT !.failed = TRUE]])
    BY <1>11 DEF FailStatus
  <2> HIDE DEF w
  <2>3. c1.status = v1 /\ IsRecord(c1, Parts) /\ c1.net = w.net /\ c1.tabs = w.tabs
        /\ c1.team = w.team /\ c1.texts = w.texts
    BY <2>1 DEF IsRecord, Parts
  <2>4. c2.status = v2
    <3> HIDE DEF c1, v2
    <3> QED
      BY <2>3 DEF IsRecord, Parts
  <2>5. win' = Say(c)
    BY <2>1, <2>2, <2>3, <2>4
  <2>6. IsRecord(v1, StatusFields) /\ v1.form = None
    BY <1>1 DEF IsRecord, StatusFields
  <2> HIDE DEF v1
  <2>7. IsRecord(v2, StatusFields) /\ v2.form = None
    BY <2>6 DEF IsRecord, StatusFields
  <2> HIDE DEF v2
  <2>8. IsRecord(v, StatusFields) /\ v.form = None
    BY <2>7 DEF IsRecord, StatusFields
  <2> HIDE DEF v, c1
  <2>9. IsRecord(c2, Parts) /\ c2.net = w.net /\ c2.tabs = w.tabs
        /\ c2.team = w.team /\ c2.texts = w.texts
    BY <2>3 DEF IsRecord, Parts
  <2> HIDE DEF c2
  <2>10. /\ IsRecord(c, Parts) /\ c.net = w.net /\ c.tabs = w.tabs /\ c.status = v
         /\ c.team = w.team /\ c.texts = w.texts
    BY <2>9 DEF IsRecord, Parts
  <2> HIDE DEF c
  <2>11. /\ win'.status = v /\ win'.team = win.team /\ win'.texts = win.texts
         /\ win'.net = win.net \ {m} /\ win'.tabs = win.tabs
    BY <2>1, <2>5, <2>10 DEF Say, IsRecord, Parts
  <2> QED
    BY <1>4, <2>8, <2>11
<1>12. ASSUME NEW m \in Waiting({"text"}), GotText(m) PROVE StatusIn(win', raced')
  <2> DEFINE w == Answered(m)
             x == IF m.text = None THEN win.texts[m.team] ELSE m.text
             y == [win.texts EXCEPT ![m.team] = x]
             a == [w EXCEPT !.texts = y]
             stored == Say(a)
             v == [k EXCEPT !.failed = TRUE]
             q == [kind |-> "status", team |-> win.team]
  <2>1. /\ IsRecord(w, Parts) /\ w.status = k /\ w.net = win.net \ {m} /\ w.tabs = win.tabs
        /\ w.team = win.team /\ w.texts = win.texts
    BY <1>9
  <2>2. win' = LET st == Say([w EXCEPT !.texts = [w.texts EXCEPT ![m.team] =
                                                IF m.text = None THEN w.texts[m.team] ELSE m.text]])
               IN IF k.error THEN [st EXCEPT !.status = [st.status EXCEPT !.failed = TRUE]]
                  ELSE GetStatus(st)
    BY <1>12 DEF GotText
  <2> HIDE DEF w
  <2>3. /\ y = [t \in Teams |-> y[t]]
        /\ \A t \in Teams : y[t] = IF t = m.team THEN x ELSE win.texts[t]
    <3>1. win.texts = [t \in Teams |-> win.texts[t]]
      BY <1>1 DEF StatusIn
    <3> HIDE DEF x
    <3> QED
      BY <3>1
  <2>4. m \in win.net /\ m.kind = "text"
    BY DEF Waiting
  <2>5. raced' = {} => \A t \in Teams : y[t][1] = t
    <3>1. raced' = {} => /\ \A t \in Teams : win.texts[t][1] = t
                         /\ m.text = None \/ m.text[1] = m.team
      BY <1>1, <2>4 DEF StatusIn
    <3>2. raced' = {} /\ m.team \in Teams => x[1] = m.team
      BY <3>1
    <3> HIDE DEF x, y
    <3> QED
      BY <2>3, <3>1, <3>2
  <2>6. stored = Say([w EXCEPT !.texts = [w.texts EXCEPT ![m.team] =
                                                IF m.text = None THEN w.texts[m.team] ELSE m.text]])
    BY <2>1
  <2> HIDE DEF y
  <2>7. /\ IsRecord(stored, Parts) /\ stored.status = k /\ stored.net = win.net \ {m}
        /\ stored.tabs = win.tabs /\ stored.team = win.team /\ stored.texts = y
    BY <2>1 DEF Say, IsRecord, Parts
  <2> HIDE DEF stored
  <2>8. win' = IF k.error THEN [stored EXCEPT !.status = [stored.status EXCEPT !.failed = TRUE]]
               ELSE GetStatus(stored)
    BY <2>2, <2>6
  <2>9. win.team # None
    BY <1>1, <2>4 DEF StatusIn, StatusKinds
  <2>10. CASE k.error
    <3>1. IsRecord(v, StatusFields) /\ v.failed = TRUE /\ v.form = k.form
      BY <1>1 DEF IsRecord, StatusFields
    <3>2. win' = [stored EXCEPT !.status = v]
      BY <2>7, <2>8, <2>10
    <3> HIDE DEF v
    <3>3. /\ win'.status = v /\ win'.net = win.net \ {m} /\ win'.tabs = win.tabs
          /\ win'.team = win.team /\ win'.texts = y
      BY <2>7, <3>2 DEF IsRecord, Parts
    <3> QED
      BY <1>1, <2>3, <2>5, <2>9, <3>1, <3>3 DEF StatusIn, IsOpen
  <2>11. CASE ~k.error
    <3>1. win' = Ask(stored, q)
      BY <2>7, <2>8, <2>11 DEF GetStatus
    <3>2. q.kind = "status" /\ q.team = win.team
      OBVIOUS
    <3> HIDE DEF q
    <3>3. /\ win'.status = k /\ win'.net = (win.net \ {m}) \cup {q} /\ win'.tabs = win.tabs
          /\ win'.team = win.team /\ win'.texts = y
      BY <2>7, <3>1 DEF Ask, IsRecord, Parts
    <3> QED
      BY <1>1, <2>3, <2>5, <2>9, <3>2, <3>3 DEF StatusIn, IsOpen
  <2> QED
    BY <2>10, <2>11
<1>13. ASSUME NEW m \in Waiting({"image"}), GotImage(m) PROVE StatusIn(win', raced')
  <2> DEFINE w == Answered(m)
             v == [k EXCEPT !.image = FALSE]
             c == [w EXCEPT !.status = v]
  <2>1. /\ IsRecord(w, Parts) /\ w.status = k /\ w.net = win.net \ {m} /\ w.tabs = win.tabs
        /\ w.team = win.team /\ w.texts = win.texts
    BY <1>9
  <2>2. win' = w \/ win' = Say([w EXCEPT !.status = [w.status EXCEPT !.image = FALSE]])
    BY <1>13 DEF GotImage
  <2> HIDE DEF w
  <2>3. win' = w \/ win' = Say(c)
    BY <2>1, <2>2
  <2>4. IsRecord(v, StatusFields) /\ v.form = k.form /\ v.failed = k.failed
    BY <1>1 DEF IsRecord, StatusFields
  <2> HIDE DEF v
  <2>5. /\ win'.status \in {k, v} /\ win'.net = win.net \ {m} /\ win'.tabs = win.tabs
        /\ win'.team = win.team /\ win'.texts = win.texts
    BY <2>1, <2>3 DEF Say, IsRecord, Parts
  <2>6. \A n \in win.net : n.kind = "status" => n \in win'.net
    BY <2>5 DEF Waiting
  <2> QED
    BY <1>1, <1>4, <2>4, <2>5, <2>6
<1>14. ASSUME NEW m \in Waiting({"text"}) \cup Waiting({"image"}), FailSave(m)
       PROVE  StatusIn(win', raced')
  <2> DEFINE w == Answered(m)
             v1 == [k EXCEPT !.error = TRUE]
             v == [v1 EXCEPT !.failed = TRUE]
             c1 == [w EXCEPT !.status = v1]
             c == [c1 EXCEPT !.status = v]
  <2>1. /\ IsRecord(w, Parts) /\ w.status = k /\ w.net = win.net \ {m} /\ w.tabs = win.tabs
        /\ w.team = win.team /\ w.texts = win.texts
    BY <1>9
  <2>2. win' = Say([[w EXCEPT !.status = [w.status EXCEPT !.error = TRUE]]
                     EXCEPT !.status = [@ EXCEPT !.failed = TRUE]])
    BY <1>14 DEF FailSave
  <2> HIDE DEF w
  <2>3. c1.status = v1 /\ IsRecord(c1, Parts) /\ c1.net = w.net /\ c1.tabs = w.tabs
        /\ c1.team = w.team /\ c1.texts = w.texts
    BY <2>1 DEF IsRecord, Parts
  <2>4. win' = Say(c)
    BY <2>1, <2>2, <2>3
  <2>5. IsRecord(v1, StatusFields) /\ v1.form = k.form
    BY <1>1 DEF IsRecord, StatusFields
  <2> HIDE DEF v1
  <2>6. IsRecord(v, StatusFields) /\ v.form = k.form /\ v.failed = TRUE
    BY <2>5 DEF IsRecord, StatusFields
  <2> HIDE DEF v, c1
  <2>7. /\ IsRecord(c, Parts) /\ c.net = w.net /\ c.tabs = w.tabs /\ c.status = v
        /\ c.team = w.team /\ c.texts = w.texts
    BY <2>3 DEF IsRecord, Parts
  <2> HIDE DEF c
  <2>8. /\ win'.status = v /\ win'.team = win.team /\ win'.texts = win.texts
        /\ win'.net = win.net \ {m} /\ win'.tabs = win.tabs
    BY <2>1, <2>4, <2>7 DEF Say, IsRecord, Parts
  <2> QED
    BY <1>4, <2>6, <2>8
<1> QED
  BY <1>5, <1>6, <1>7, <1>8, <1>10, <1>11, <1>12, <1>13, <1>14 DEF StatusSteps

-----------------------------------------------------------------------------
(* The parts a page has of its own, as other steps leave them.             *)

LEMMA SameIn ==
  ASSUME NEW r, NEW u, NEW rc
  PROVE  /\ /\ r.settings = u.settings /\ SettingsIn(u, rc)
            /\ \A m : m.kind = "put" => (m \in r.net <=> m \in u.net)
            /\ IsOpen(r, "settings") => IsOpen(u, "settings")
            => SettingsIn(r, rc)
         /\ /\ r.cal = u.cal /\ CalendarIn(u, rc)
            /\ \A m : m.kind = "dates" => (m \in r.net <=> m \in u.net)
            => CalendarIn(r, rc)
         /\ /\ r.admin = u.admin /\ r.reviews = u.reviews /\ AdminIn(u, rc)
            /\ \A m : m.kind \in AdminKinds \cup {"verdict"} => (m \in r.net <=> m \in u.net)
            => AdminIn(r, rc)
         /\ /\ r.status = u.status /\ r.texts = u.texts /\ r.team = u.team /\ StatusIn(u, rc)
            /\ \A m : m.kind \in StatusKinds => (m \in r.net <=> m \in u.net)
            /\ IsOpen(r, "review") => IsOpen(u, "review")
            => StatusIn(r, rc)
<1>1. ASSUME r.settings = u.settings, SettingsIn(u, rc),
             \A m : m.kind = "put" => (m \in r.net <=> m \in u.net),
             IsOpen(r, "settings") => IsOpen(u, "settings")
      PROVE  SettingsIn(r, rc)
  BY <1>1 DEF SettingsIn
<1>2. ASSUME r.cal = u.cal, CalendarIn(u, rc),
             \A m : m.kind = "dates" => (m \in r.net <=> m \in u.net)
      PROVE  CalendarIn(r, rc)
  BY <1>2 DEF CalendarIn
<1>3. ASSUME r.admin = u.admin, r.reviews = u.reviews, AdminIn(u, rc),
             \A m : m.kind \in AdminKinds \cup {"verdict"} => (m \in r.net <=> m \in u.net)
      PROVE  AdminIn(r, rc)
  BY <1>3 DEF AdminIn, AdminKinds, ForReview
<1>4. ASSUME r.status = u.status, r.texts = u.texts, r.team = u.team, StatusIn(u, rc),
             \A m : m.kind \in StatusKinds => (m \in r.net <=> m \in u.net),
             IsOpen(r, "review") => IsOpen(u, "review")
      PROVE  StatusIn(r, rc)
  BY <1>4 DEF StatusIn, StatusKinds
<1> QED
  BY <1>1, <1>2, <1>3, <1>4

LEMMA OthersKeep ==
  ASSUME NEW x \in PageNames, NEW r, NEW u, Page(x, r, u), NEW rc
  PROVE  /\ x # "menu" => r.menu = u.menu
         /\ x # "settings" /\ SettingsIn(u, rc) => SettingsIn(r, rc)
         /\ x # "calendar" /\ CalendarIn(u, rc) => CalendarIn(r, rc)
         /\ x # "admin" /\ AdminIn(u, rc) => AdminIn(r, rc)
         /\ x # "status" /\ StatusIn(u, rc) => StatusIn(r, rc)
<1>1. "settings" \in Tabs \ Files /\ "review" \in Tabs \ Files
  BY FilesAssumption DEF Tabs, PageTabs
<1>2. x # "menu" => r.menu = u.menu
  BY Owners, Leaves DEF Parts, BarParts
<1>3. x # "settings" => /\ r.settings = u.settings
                        /\ \A m : m.kind = "put" => (m \in r.net <=> m \in u.net)
                        /\ IsOpen(r, "settings") => IsOpen(u, "settings")
  BY <1>1, Owners, Leaves DEF Parts, BarParts
<1>4. x # "calendar" => /\ r.cal = u.cal
                        /\ \A m : m.kind = "dates" => (m \in r.net <=> m \in u.net)
  BY Owners, Leaves DEF Parts, BarParts
<1>5. x # "admin" =>
         /\ r.admin = u.admin /\ r.reviews = u.reviews
         /\ \A m : m.kind \in AdminKinds \cup {"verdict"} => (m \in r.net <=> m \in u.net)
  <2>1. x # "admin" => \A k \in AdminKinds \cup {"verdict"} : k \notin ShellKinds \cup AsksOf(x)
    BY Owners
  <2>2. x # "admin" => r.admin = u.admin /\ r.reviews = u.reviews
    BY Owners, Leaves DEF Parts, BarParts
  <2> QED
    BY <2>1, <2>2, Leaves
<1>6. x # "status" => /\ r.status = u.status /\ r.texts = u.texts /\ r.team = u.team
                      /\ \A m : m.kind \in StatusKinds => (m \in r.net <=> m \in u.net)
                      /\ IsOpen(r, "review") => IsOpen(u, "review")
  <2>1. x # "status" => \A k \in StatusKinds : k \notin ShellKinds \cup AsksOf(x)
    BY Owners
  <2>2. x # "status" => /\ r.status = u.status /\ r.texts = u.texts /\ r.team = u.team
                        /\ IsOpen(r, "review") => IsOpen(u, "review")
    BY <1>1, Owners, Leaves DEF Parts, BarParts
  <2> QED
    BY <2>1, <2>2, Leaves
<1> QED
  BY <1>2, <1>3, <1>4, <1>5, <1>6, SameIn

(* A step of a page keeps the invariant. *)
LEMMA PageKeeps ==
  ASSUME PagesInv, Next, NEW x \in PageNames, StepOn(x) PROVE PagesInv'
<1>1. /\ Orderly /\ Starts /\ TeamShown /\ MenuKept /\ Whole(win)
      /\ SettingsKept /\ CalendarKept /\ AdminKept /\ StatusKept
  BY DEF PagesInv, Orderly
<1>2. Page(x, win', win) /\ Tidy(win'.dlg) /\ Stored(win')
  BY <1>1, StepTouches
<1>3. Orderly' /\ Starts' /\ TeamShown'
  BY <1>1, <1>2, StepOrderly, StepStarts, StepShown
<1>4. raced \subseteq raced'
  BY RacedGrows
<1>5. /\ SettingsIn(win, raced') /\ CalendarIn(win, raced')
      /\ AdminIn(win, raced') /\ StatusIn(win, raced')
  <2>1. /\ SettingsIn(win, raced) /\ CalendarIn(win, raced)
        /\ AdminIn(win, raced) /\ StatusIn(win, raced)
    BY <1>1, SettingsAre, CalendarIs, AdminIs, StatusIs
  <2>2. raced' = {} => raced = {}
    BY <1>4
  <2> QED
    BY <2>1, <2>2 DEF SettingsIn, CalendarIn, AdminIn, StatusIn
<1>6. MenuKept'
  <2>1. CASE x = "menu"
    BY <1>1, <2>1, MenuKeeps DEF StepOn
  <2>2. CASE x # "menu"
    <3>1. win'.menu = win.menu
      BY <1>2, <2>2, OthersKeep
    <3> QED
      BY <1>1, <3>1 DEF MenuKept
  <2> QED
    BY <2>1, <2>2
<1>7. SettingsKept'
  <2>1. CASE x = "settings"
    BY <1>1, <1>4, <2>1, SettingsKeep DEF StepOn
  <2>2. CASE x # "settings"
    BY <1>2, <1>5, <2>2, OthersKeep, SettingsAre
  <2> QED
    BY <2>1, <2>2
<1>8. CalendarKept'
  <2>1. CASE x = "calendar"
    BY <1>1, <1>4, <2>1, CalendarKeeps DEF StepOn
  <2>2. CASE x # "calendar"
    BY <1>2, <1>5, <2>2, OthersKeep, CalendarIs
  <2> QED
    BY <2>1, <2>2
<1>9. AdminKept'
  <2>1. CASE x = "admin"
    BY <1>1, <1>4, <2>1, AdminKeeps DEF StepOn
  <2>2. CASE x # "admin"
    BY <1>2, <1>5, <2>2, OthersKeep, AdminIs
  <2> QED
    BY <2>1, <2>2
<1>10. StatusKept'
  <2>1. CASE x = "status"
    BY <1>1, <1>4, <2>1, StatusKeeps DEF StepOn
  <2>2. CASE x # "status"
    BY <1>2, <1>5, <2>2, OthersKeep, StatusIs
  <2> QED
    BY <2>1, <2>2
<1> QED
  BY <1>3, <1>6, <1>7, <1>8, <1>9, <1>10 DEF PagesInv

-----------------------------------------------------------------------------
(* Another team. *)

LEMMA TeamKeeps ==
  ASSUME NEW u, NEW t \in Teams, NEW rc, NEW r, Goes(r, u, t),
         SettingsIn(u, rc), IsRecord(u.cal, CalendarFields), AdminIn(u, rc), StatusIn(u, rc),
         rc = {} => (\A m \in u.net : m.kind \in ShellKinds) /\ ~IsOpen(u, "review")
  PROVE  /\ SettingsIn(r, rc) /\ CalendarIn(r, rc) /\ AdminIn(r, rc) /\ StatusIn(r, rc)
         /\ r.menu = u.menu
<1>1. /\ Page("team", r, u) /\ r.team = t /\ r.cal = [u.cal EXCEPT !.proj = None]
      /\ \A m \in r.net : m \in u.net \/ m.kind \in ShellKinds
                          \/ m = [kind |-> "put", loud |-> FALSE, settings |-> r.settings.mine]
      /\ \/ r.settings = u.settings
         \/ \E mine : /\ r.settings = [u.settings EXCEPT !.mine = mine]
                      /\ u.settings.mine \in Settings => mine \in Settings
                      /\ [kind |-> "put", loud |-> FALSE, settings |-> r.settings.mine] \in r.net
  BY DEF Goes
<1>2. /\ r.admin = u.admin /\ r.status = u.status /\ r.texts = u.texts /\ r.menu = u.menu
      /\ r.reviews = u.reviews
  BY <1>1, Leaves, TeamAlone
<1>3. "settings" \in Tabs \ Files /\ "review" \in Tabs \ Files
  BY FilesAssumption DEF Tabs, PageTabs
<1>4. /\ IsOpen(r, "settings") => IsOpen(u, "settings")
      /\ IsOpen(r, "review") => IsOpen(u, "review")
  BY <1>1, <1>3, Leaves DEF TabsOf
<1>5. \A m : m.kind \in AdminKinds \cup {"verdict", "dates"} \cup StatusKinds =>
         (m \in r.net <=> m \in u.net)
  <2>1. \A k \in AdminKinds \cup {"verdict", "dates"} \cup StatusKinds :
           k \notin ShellKinds \cup AsksOf("team")
    BY DEF AsksOf, ShellKinds, AdminKinds, StatusKinds
  <2> QED
    BY <1>1, <2>1, Leaves
<1>6. AdminIn(r, rc)
  BY <1>2, <1>5, SameIn
<1>7. IsRecord(r.cal, CalendarFields) /\ r.cal.proj = None
  BY <1>1 DEF IsRecord, CalendarFields
<1>8. CalendarIn(r, rc)
  <2>1. rc = {} => \A m \in r.net : m.kind # "dates"
    BY <1>5 DEF ShellKinds
  <2> QED
    BY <1>7, <2>1 DEF CalendarIn
<1>9. StatusIn(r, rc)
  <2>1. rc = {} => (\A m \in r.net : m.kind \notin StatusKinds) /\ ~IsOpen(r, "review")
    BY <1>4, <1>5 DEF ShellKinds, StatusKinds
  <2>2. t # None
    BY TeamsAssumption
  <2> QED
    BY <1>1, <1>2, <2>1, <2>2 DEF StatusIn, StatusKinds
<1>10. SettingsIn(r, rc)
  <2> DEFINE p == [kind |-> "put", loud |-> FALSE, settings |-> r.settings.mine]
  <2>1. p.kind = "put" /\ p.settings = r.settings.mine
    OBVIOUS
  <2>2. /\ \A m \in r.net : m.kind = "put" => m = p \/ m \in u.net
        /\ rc = {} => /\ \A m \in r.net : m.kind = "put" => m = p
                      /\ \A m \in u.net : m.kind # "put"
    BY <1>1 DEF ShellKinds
  <2>3. \/ r.settings = u.settings
        \/ \E mine \in Settings : r.settings = [u.settings EXCEPT !.mine = mine] /\ p \in r.net
    BY <1>1 DEF SettingsIn
  <2> HIDE DEF p
  <2>4. CASE r.settings = u.settings
    BY <1>4, <2>1, <2>2, <2>4 DEF SettingsIn
  <2>5. ASSUME NEW mine \in Settings, r.settings = [u.settings EXCEPT !.mine = mine], p \in r.net
        PROVE  SettingsIn(r, rc)
    <3>1. /\ IsRecord(r.settings, SettingsFields) /\ r.settings.enabled = u.settings.enabled
          /\ r.settings.form = u.settings.form /\ r.settings.server = u.settings.server
          /\ r.settings.mine = mine
      BY <2>5 DEF SettingsIn, IsRecord, SettingsFields
    <3> QED
      BY <1>4, <2>1, <2>2, <2>5, <3>1 DEF SettingsIn
  <2> QED
    BY <2>3, <2>4, <2>5
<1> QED
  BY <1>2, <1>6, <1>8, <1>9, <1>10

(* The bar closes what it can. *)
LEMMA ClosingKeeps ==
  ASSUME Orderly, NEW c, c = CloseAllTabs(Unprompt(win, "none"))
  PROVE  Page("bar", c, win)
<1> DEFINE a == Unprompt(win, "none")
<1>1. Page("bar", a, win) /\ Closers("bar") /\ ErrorsCloser("bar")
  BY PageNothing, ThenUnprompt, BarCloses DEF Orderly
<1> HIDE DEF a
<1>2. Page("bar", CloseAllTabs(a), win)
  BY <1>1, CloseAllTouches
<1> QED
  BY <1>2 DEF a

(* Nothing of a page's own goes but with its tab. *)
LEMMA ClosedIn ==
  ASSUME PagesInv, Next, NEW c, Page("bar", c, win)
  PROVE  /\ SettingsIn(c, raced') /\ CalendarIn(c, raced') /\ AdminIn(c, raced')
         /\ StatusIn(c, raced') /\ c.menu = win.menu
         /\ c.loaded = win.loaded /\ c.team = win.team /\ c.dlg = win.dlg
         /\ c.ops = win.ops /\ c.disk = win.disk
         /\ \A m \in c.net : m \in win.net \/ m.kind \in ShellKinds
         /\ c.offer.kind = "user" => c.offer = win.offer
<1>1. "bar" \in PageNames
  BY DEF PageNames
<1>2. /\ SettingsIn(win, raced') /\ CalendarIn(win, raced') /\ AdminIn(win, raced')
      /\ StatusIn(win, raced')
  <2>1. raced' = {} => raced = {}
    BY RacedGrows
  <2>2. /\ SettingsIn(win, raced) /\ CalendarIn(win, raced) /\ AdminIn(win, raced)
        /\ StatusIn(win, raced)
    BY SettingsAre, CalendarIs, AdminIs, StatusIs DEF PagesInv
  <2>3. SettingsIn(win, raced')
    BY <2>1, <2>2 DEF SettingsIn
  <2>4. CalendarIn(win, raced')
    BY <2>1, <2>2 DEF CalendarIn
  <2>5. AdminIn(win, raced')
    BY <2>1, <2>2 DEF AdminIn
  <2>6. StatusIn(win, raced')
    BY <2>1, <2>2 DEF StatusIn
  <2> QED
    BY <2>3, <2>4, <2>5, <2>6
<1>3. /\ SettingsIn(c, raced') /\ CalendarIn(c, raced') /\ AdminIn(c, raced')
      /\ StatusIn(c, raced') /\ c.menu = win.menu
  BY <1>1, <1>2, OthersKeep
<1>4. /\ c.loaded = win.loaded /\ c.team = win.team
      /\ c.offer.kind = "user" => c.offer = win.offer
  BY <1>1, Owners, Leaves DEF Parts, BarParts
<1>5. c.dlg = win.dlg /\ c.ops = win.ops /\ c.disk = win.disk
  <2>1. {"dlg", "ops", "disk"} \cap (ShellParts \cup PartsOf("bar")) = {}
    BY <1>1, FilesOnly
  <2>2. {"dlg", "ops", "disk"} \subseteq Parts \ BarParts
    BY DEF Parts, BarParts
  <2> QED
    BY <2>1, <2>2, PartsLeft
<1>6. \A m \in c.net : m \in win.net \/ m.kind \in ShellKinds
  BY DEF Page, Touches, Frames, AsksOf
<1> QED
  BY <1>3, <1>4, <1>5, <1>6

(* What may be said of the window after the step, part by part. *)
LEMMA PartsKeep ==
  ASSUME SettingsIn(win', raced'), CalendarIn(win', raced'), AdminIn(win', raced'),
         StatusIn(win', raced'), MenuKept, win'.menu = win.menu
  PROVE  /\ SettingsKept' /\ CalendarKept' /\ AdminKept' /\ StatusKept' /\ MenuKept'
<1>1. SettingsKept' /\ CalendarKept' /\ AdminKept' /\ StatusKept'
  BY SettingsAre, CalendarIs, AdminIs, StatusIs
<1>2. MenuKept'
  BY DEF MenuKept
<1> QED
  BY <1>1, <1>2

(* A window with settings, in which nothing of the first request is left.  *)
LEMMA StartedNow ==
  ASSUME win'.loaded, \A m \in win'.net : m.kind # "user", win'.offer.kind # "user"
  PROVE  Starts'
<1>1. (Waiting({"user"}) = {})'
  BY DEF Waiting
<1>2. win.loaded' /\ (win.offer.kind # "user")'
  OBVIOUS
<1> QED
  BY <1>1, <1>2 DEF Starts

(* The next team starts with nothing selected.                             *)
LEMMA GoesStored ==
  ASSUME NEW r, NEW u, NEW t, Goes(r, u, t), Stored(u)
  PROVE  r.dlg = u.dlg /\ Stored(r)
<1>1. Page("team", r, u) /\ r.ops = [u.ops EXCEPT !.proj = None, !.sel = <<>>]
  BY DEF Goes
<1>2. r.dlg = u.dlg /\ r.disk = u.disk
  BY <1>1, PartsLeft, TeamAlone
<1>3. IsRecord(r.ops, OpFields) /\ r.ops.sel = <<>>
  BY <1>1 DEF Stored, IsRecord, OpFields
<1> QED
  BY <1>2, <1>3 DEF Stored

LEMMA TeamStep ==
  ASSUME PagesInv, Next, NEW t \in Teams, SelectsTeam(t) PROVE PagesInv'
<1> DEFINE c == CloseAllTabs(Unprompt(win, "none"))
<1>1. /\ Orderly /\ Starts /\ TeamShown /\ MenuKept /\ Whole(win) /\ Tidy(win.dlg)
      /\ Stored(win)
  BY DEF PagesInv, Orderly
<1>2. Page("bar", c, win)
  BY <1>1, ClosingKeeps
<1>3. win.loaded
  BY DEF SelectsTeam
<1>4. /\ win' = IF Modified(c) = {} THEN TeamChanged(c, t, FALSE) ELSE c
      /\ raced' = {} => win.net = {}
      /\ raced' = {} /\ Modified(c) = {} => \A u \in PageTabs : ~IsOpen(c, u)
  BY DEF SelectsTeam
<1> HIDE DEF c
<1>5. /\ SettingsIn(c, raced') /\ CalendarIn(c, raced') /\ AdminIn(c, raced')
      /\ StatusIn(c, raced') /\ c.menu = win.menu
      /\ c.loaded = win.loaded /\ c.team = win.team /\ c.dlg = win.dlg
      /\ c.ops = win.ops /\ c.disk = win.disk
      /\ \A m \in c.net : m \in win.net \/ m.kind \in ShellKinds
      /\ c.offer.kind = "user" => c.offer = win.offer
  BY <1>2, ClosedIn
<1>6. /\ \A m \in win.net : m.kind # "user"
      /\ win.offer.kind # "user"
  BY <1>1, <1>3 DEF Starts, Waiting
<1>7. c.offer.kind # "user" /\ \A m \in c.net : m.kind # "user"
  BY <1>5, <1>6 DEF ShellKinds
<1>8. CASE Modified(c) # {}
  <2>1. win' = c
    BY <1>4, <1>8
  <2>2. Orderly'
    BY <1>1, <1>2, <1>5, <2>1, StepOrderly DEF Stored
  <2>3. Starts'
    BY <1>3, <1>5, <1>7, <2>1, StartedNow
  <2>4. TeamShown'
    <3>1. IsOpen(win, "projects") => IsOpen(c, "projects")
      BY <1>2, PageOpen
    <3>2. \A m \in c.net : m.kind \in {"lint", "diff"} => m \in win.net
      BY <1>5 DEF ShellKinds
    <3>3. c.offer.kind = "lint" => c.offer = win.offer
      <4>1. "lint" \notin ShellOffers \cup OffersOf("bar")
        BY DEF ShellOffers, OffersOf
      <4> QED
        BY <1>2, <4>1, Leaves
    <3>4. /\ c.team \in Teams \cup {None}
          /\ c.team # None => IsOpen(c, "projects")
          /\ (\E m \in c.net : m.kind \in {"lint", "diff"}) \/ c.offer.kind = "lint"
             => IsOpen(c, "projects")
      BY <1>1, <1>5, <3>1, <3>2, <3>3 DEF TeamShown, Waiting
    <3>5. /\ IsOpen(win, "projects")' = IsOpen(win', "projects")
          /\ Waiting({"lint", "diff"})' = {m \in win'.net : m.kind \in {"lint", "diff"}}
      BY DEF IsOpen, Waiting
    <3> QED
      BY <2>1, <3>4, <3>5 DEF TeamShown
  <2>5. SettingsKept' /\ CalendarKept' /\ AdminKept' /\ StatusKept' /\ MenuKept'
    BY <1>1, <1>5, <2>1, PartsKeep
  <2> QED
    BY <2>2, <2>3, <2>4, <2>5 DEF PagesInv
<1>9. CASE Modified(c) = {}
  <2> DEFINE r == TeamChanged(c, t, FALSE)
  <2>1. win' = r
    BY <1>4, <1>9
  <2>2. Whole(c)
    BY <1>2, PageWhole
  <2>3. Goes(r, c, t)
    BY <2>2, TeamGoes
  <2> HIDE DEF r
  <2>4. raced' = {} => (\A m \in c.net : m.kind \in ShellKinds) /\ ~IsOpen(c, "review")
    BY <1>4, <1>5, <1>9 DEF PageTabs
  <2>5. SettingsIn(r, raced') /\ CalendarIn(r, raced') /\ AdminIn(r, raced') /\ StatusIn(r, raced')
        /\ r.menu = c.menu
    <3>1. IsRecord(c.cal, CalendarFields)
      BY <1>5 DEF CalendarIn
    <3> QED
      BY <1>5, <2>3, <2>4, <3>1, TeamKeeps
  <2>6. r.dlg = c.dlg /\ Stored(r)
    BY <1>1, <1>5, <2>3, GoesStored DEF Stored
  <2>7. Page("team", win', win)
    BY <1>1, SelectsTeamTouches
  <2>8. Orderly'
    BY <1>1, <1>5, <2>1, <2>6, <2>7, StepOrderly
  <2>9. Starts'
    <3>1. r.loaded
      BY <1>3, <1>5, <2>3 DEF Goes
    <3>2. \A m \in r.net : m.kind # "user"
      BY <1>7, <2>3 DEF Goes, ShellKinds
    <3>3. "user" \notin ShellOffers \cup OffersOf("team")
      BY DEF ShellOffers, OffersOf
    <3>4. r.offer.kind # "user"
      BY <1>7, <2>3, <3>3, Leaves DEF Goes
    <3> QED
      BY <2>1, <3>1, <3>2, <3>4, StartedNow
  <2>10. TeamShown'
    <3>1. IsOpen(win, "projects")' = IsOpen(win', "projects")
      BY DEF IsOpen
    <3> QED
      BY <2>1, <2>3, <3>1 DEF TeamShown, Goes
  <2>11. SettingsKept' /\ CalendarKept' /\ AdminKept' /\ StatusKept' /\ MenuKept'
    BY <1>1, <1>5, <2>1, <2>5, PartsKeep
  <2> QED
    BY <2>8, <2>9, <2>10, <2>11 DEF PagesInv
<1> QED
  BY <1>8, <1>9

-----------------------------------------------------------------------------
(* The user's settings have come. *)

(* The bar that the team, if there is one, is chosen on.                   *)
LEMMA BarIs ==
  ASSUME NEW w, Whole(w), w.tabs = <<>>, NEW bar,
         bar = AddTab([w EXCEPT !.loaded = TRUE], "shortcuts")
  PROVE  /\ Whole(bar) /\ bar.loaded /\ \A x \in Parts \ {"loaded", "tabs"} : bar[x] = w[x]
         /\ \A t : IsOpen(bar, t) => t = "shortcuts"
<1> DEFINE a == [w EXCEPT !.loaded = TRUE]
<1>1. Page("team", a, w)
  BY PageNothing, ThenPart DEF PartsOf, Parts, BarParts, FreeParts
<1>2. /\ IsRecord(a, Parts) /\ a.loaded /\ a.tabs = <<>>
      /\ \A x \in Parts \ {"loaded"} : a[x] = w[x]
  BY DEF Whole, Base, IsRecord, Parts
<1> HIDE DEF a
<1>3. Addable(a, "shortcuts") /\ ~CanFocus("shortcuts")
  <2>1. \A x : ~IsOpen(a, x)
    BY <1>2 DEF IsOpen, Contains
  <2>2. "shortcuts" \in Tabs /\ "shortcuts" \in FarTabs /\ "shortcuts" \notin LogTabs
        /\ "shortcuts" \notin Files
    BY Facts DEF FarTabs, LogTabs
  <2> QED
    BY <2>1, <2>2 DEF Addable, CanFocus
<1>4. Page("team", AddTab(a, "shortcuts"), w)
  BY <1>1, <1>3, ThenAddTab DEF TabsOf
<1> DEFINE v == Append(a.tabs, "shortcuts")
<1>5. bar = [a EXCEPT !.tabs = v]
  BY DEF AddTab, a
<1>8. v = <<"shortcuts">>
  BY <1>2
<1> HIDE DEF v
<1>6. bar.tabs = v /\ \A x \in Parts \ {"tabs"} : bar[x] = a[x]
  BY <1>2, <1>5 DEF IsRecord, Parts
<1>7. bar.loaded /\ \A x \in Parts \ {"loaded", "tabs"} : bar[x] = w[x]
  BY <1>2, <1>6 DEF Parts
<1>9. Whole(bar)
  <2>1. bar = AddTab(a, "shortcuts")
    BY DEF a
  <2> QED
    BY <1>4, <2>1, PageWhole
<1>10. ASSUME NEW t, IsOpen(bar, t) PROVE t = "shortcuts"
  <2>1. PICK i \in 1 .. Len(v) : v[i] = t
    BY <1>6, <1>10 DEF IsOpen, Contains
  <2>2. Len(v) = 1 /\ v[1] = "shortcuts"
    BY <1>8
  <2> QED
    BY <2>1, <2>2
<1> QED
  BY <1>7, <1>9, <1>10

LEMMA GuiStep ==
  ASSUME PagesInv, Next, NEW m \in Waiting({"user"}), GotUser(m) PROVE PagesInv'
<1> DEFINE w == Answered(m)
           bar == AddTab([w EXCEPT !.loaded = TRUE], "shortcuts")
           t == TeamToLoad(w.settings.mine)
<1>1. /\ Orderly /\ Starts /\ TeamShown /\ MenuKept /\ Whole(win) /\ Tidy(win.dlg)
      /\ Stored(win)
      /\ m \in win.net /\ m.kind = "user"
  BY DEF PagesInv, Orderly, Waiting
<1>2. /\ ~win.loaded /\ win.tabs = <<>> /\ win.net = {[kind |-> "user"]}
      /\ win.offer.kind = "none" /\ win.team = None
  BY <1>1 DEF Starts, Waiting
<1>3. /\ win' = IF t \in Teams THEN TeamChanged(bar, t, TRUE) ELSE Say(bar)
      /\ win' = LoadGui(w) /\ raced' = raced
  BY DEF GotUser, LoadGui, Arrives
<1>4. /\ Page("start", w, win) /\ w.net = {} /\ w.tabs = <<>>
      /\ \A x \in Parts \ {"net"} : w[x] = win[x]
  <2>1. Page("start", w, win)
    BY <1>1, PageAnswered DEF AsksOf
  <2>2. w.net = win.net \ {m} /\ \A x \in Parts \ {"net"} : w[x] = win[x]
    BY <1>1 DEF Answered, Whole, Base, IsRecord, Parts
  <2>3. w.tabs = win.tabs
    BY <2>2 DEF Parts
  <2> QED
    BY <1>1, <1>2, <2>1, <2>2, <2>3
<1> HIDE DEF w
<1>5. Whole(w)
  BY <1>4, PageWhole
<1>6. /\ Whole(bar) /\ bar.loaded /\ \A x \in Parts \ {"loaded", "tabs"} : bar[x] = w[x]
      /\ \A u : IsOpen(bar, u) => u = "shortcuts"
  BY <1>4, <1>5, BarIs
<1>7. Page("team", win', w)
  BY <1>3, <1>4, <1>5, LoadGuiTouches
<1> HIDE DEF bar, t
<1>8. /\ bar.net = {} /\ bar.menu = win.menu /\ bar.settings = win.settings /\ bar.cal = win.cal
      /\ bar.admin = win.admin /\ bar.status = win.status /\ bar.texts = win.texts
      /\ bar.team = None /\ bar.offer = win.offer /\ bar.reviews = win.reviews
  BY <1>2, <1>4, <1>6 DEF Parts
<1>9. /\ SettingsIn(win, raced) /\ CalendarIn(win, raced) /\ AdminIn(win, raced)
      /\ StatusIn(win, raced)
  BY SettingsAre, CalendarIs, AdminIs, StatusIs DEF PagesInv
<1>10. /\ SettingsIn(bar, raced) /\ CalendarIn(bar, raced) /\ AdminIn(bar, raced)
       /\ StatusIn(bar, raced)
  <2>1. ~IsOpen(bar, "settings") /\ ~IsOpen(bar, "review")
    BY <1>6
  <2>2. \A n \in win.net : n.kind = "user"
    BY <1>2
  <2>3. \A n : n.kind # "user" => (n \in bar.net <=> n \in win.net)
    BY <1>8, <2>2
  <2>4. SettingsIn(bar, raced)
    BY <1>8, <1>9, <2>1, <2>3, SameIn
  <2>5. CalendarIn(bar, raced)
    BY <1>8, <1>9, <2>3, SameIn
  <2>6. AdminIn(bar, raced)
    <3>1. \A n : n.kind \in AdminKinds \cup {"verdict"} => n.kind # "user"
      BY DEF AdminKinds
    <3> QED
      BY <1>8, <1>9, <2>3, <3>1, SameIn
  <2>7. StatusIn(bar, raced)
    <3>1. \A n : n.kind \in StatusKinds => n.kind # "user"
      BY DEF StatusKinds
    <3> QED
      BY <1>2, <1>8, <1>9, <2>1, <2>3, <3>1, SameIn
  <2> QED
    BY <2>4, <2>5, <2>6, <2>7
<1>11. Orderly'
  <2>1. w.dlg = win.dlg /\ w.offer = win.offer
    BY <1>4 DEF Parts
  <2>2. win'.dlg = w.dlg
    BY <1>7, Leaves, TeamAlone
  <2>3. Tidy(win'.dlg) /\ Stored(win')
    <3>1. Stored(bar)
      <4>1. bar.ops = win.ops /\ bar.disk = win.disk
        BY <1>4, <1>6 DEF Parts
      <4> QED
        BY <1>1, <4>1 DEF Stored
    <3>2. CASE t \in Teams
      BY <1>1, <1>3, <1>6, <2>1, <2>2, <3>1, <3>2, TeamGoes, GoesStored
    <3>3. CASE t \notin Teams
      <4>1. win' = [bar EXCEPT !.offer = NoOffer]
        BY <1>3, <3>3 DEF Say
      <4>2. win'.ops = bar.ops /\ win'.disk = bar.disk
        BY <1>6, <4>1 DEF Whole, Base, IsRecord, Parts
      <4> QED
        BY <1>1, <2>1, <2>2, <3>1, <4>2 DEF Stored
    <3> QED
      BY <3>2, <3>3
  <2>4. \A n \in win'.net : Formed(n)
    BY <1>4, <1>7 DEF Page, Touches, Frames
  <2>5. Again(win'.offer)
    BY <1>1, <1>7, <2>1 DEF Orderly, Page, Touches, Frames
  <2>6. Whole(win')
    BY <1>7, PageWhole
  <2>7. /\ Whole(win)' /\ Tidy(win.dlg)' /\ Stored(win)' /\ (\A n \in win.net : Formed(n))'
        /\ Again(win.offer)'
    BY <2>3, <2>4, <2>5, <2>6
  <2> QED
    BY <2>7 DEF Orderly
<1>12. win'.offer.kind \notin {"user", "lint"}
  <2>1. {"user", "lint", "none"} \cap OffersOf("team") = {}
        /\ {"user", "lint"} \cap ShellOffers = {}
    BY DEF OffersOf, ShellOffers
  <2>2. w.offer.kind = "none"
    BY <1>2, <1>4 DEF Parts
  <2> QED
    BY <1>7, <2>1, <2>2, Leaves
<1>13. /\ IsOpen(win, "projects")' = IsOpen(win', "projects")
       /\ Waiting({"lint", "diff"})' = {n \in win'.net : n.kind \in {"lint", "diff"}}
  BY DEF IsOpen, Waiting
<1>14. CASE t \in Teams
  <2>1. Goes(win', bar, t)
    BY <1>3, <1>6, <1>14, TeamGoes
  <2>2. /\ SettingsIn(win', raced) /\ CalendarIn(win', raced) /\ AdminIn(win', raced)
        /\ StatusIn(win', raced) /\ win'.menu = bar.menu
    <3>1. IsRecord(bar.cal, CalendarFields) /\ ~IsOpen(bar, "review")
          /\ \A n \in bar.net : n.kind \in ShellKinds
      BY <1>6, <1>8, <1>10 DEF CalendarIn
    <3> QED
      BY <1>10, <1>14, <2>1, <3>1, TeamKeeps
  <2>3. SettingsKept' /\ CalendarKept' /\ AdminKept' /\ StatusKept' /\ MenuKept'
    BY <1>1, <1>3, <1>8, <2>2, PartsKeep
  <2>4. Starts'
    <3>1. win'.loaded
      BY <1>6, <2>1 DEF Goes
    <3>2. \A n \in win'.net : n.kind # "user"
      BY <1>8, <2>1 DEF Goes, ShellKinds
    <3> QED
      BY <1>12, <3>1, <3>2, StartedNow
  <2>5. TeamShown'
    BY <1>13, <1>14, <2>1 DEF TeamShown, Goes
  <2> QED
    BY <1>11, <2>3, <2>4, <2>5 DEF PagesInv
<1>15. CASE t \notin Teams
  <2>1. win' = [bar EXCEPT !.offer = NoOffer]
    BY <1>3, <1>15 DEF Say
  <2>2. /\ win'.tabs = bar.tabs /\ win'.net = {} /\ win'.menu = bar.menu /\ win'.loaded
        /\ win'.settings = bar.settings /\ win'.cal = bar.cal /\ win'.admin = bar.admin
        /\ win'.status = bar.status /\ win'.texts = bar.texts /\ win'.team = None
        /\ win'.reviews = bar.reviews
    BY <1>6, <1>8, <2>1 DEF Whole, Base, IsRecord, Parts
  <2>3. \A u : IsOpen(win', u) <=> IsOpen(bar, u)
    BY <2>2 DEF IsOpen
  <2>4. SettingsIn(win', raced)
    BY <1>8, <1>10, <2>2, <2>3, SameIn
  <2>5. CalendarIn(win', raced)
    BY <1>8, <1>10, <2>2, SameIn
  <2>6. AdminIn(win', raced)
    BY <1>8, <1>10, <2>2, SameIn
  <2>7. StatusIn(win', raced)
    BY <1>8, <1>10, <2>2, <2>3, SameIn
  <2>8. SettingsKept' /\ CalendarKept' /\ AdminKept' /\ StatusKept' /\ MenuKept'
    BY <1>1, <1>3, <1>8, <2>2, <2>4, <2>5, <2>6, <2>7, PartsKeep
  <2>9. Starts'
    BY <1>12, <2>2, StartedNow
  <2>10. TeamShown'
    BY <1>12, <1>13, <2>2 DEF TeamShown
  <2> QED
    BY <1>11, <2>8, <2>9, <2>10 DEF PagesInv
<1> QED
  BY <1>14, <1>15

-----------------------------------------------------------------------------
(* The invariant, and what it says. *)

LEMMA InitWindow ==
  ASSUME Init
  PROVE  /\ IsRecord(win, Parts) /\ ~win.loaded /\ win.tabs = <<>> /\ win.cur = None
         /\ win.shown = {} /\ win.team = None /\ win.net = {[kind |-> "user"]}
         /\ win.offer = NoOffer /\ win.log = [t \in LogTabs |-> NoLog] /\ win.drawn = NothingDrawn
         /\ win.menu = [visible |-> FALSE, inside |-> FALSE, held |-> FALSE, loose |-> 0]
         /\ win.settings = NoSettings /\ win.cal = NoCalendar /\ win.admin = NoAdmin
         /\ win.status = NoStatus /\ win.texts = [t \in Teams |-> <<t, 0>>]
         /\ win.dlg = NoDialog /\ win.ops = NoOps /\ win.disk = FirstDisk
         /\ win.search = NoSearch /\ win.errors = NoErrors /\ win.edit = [f \in Files |-> NoFile]
         /\ win.commits = FirstCommits /\ win.reviews = FirstReviews
         /\ win.pane = [session |-> None, name |-> None, history |-> None]
<1> DEFINE rest == [search |-> NoSearch, settings |-> NoSettings, errors |-> NoErrors,
                    commits |-> FirstCommits, diff |-> NoDiff, cal |-> NoCalendar,
                    admin |-> NoAdmin, status |-> NoStatus, reviews |-> FirstReviews,
                    texts |-> [t \in Teams |-> <<t, 0>>],
                    ops |-> NoOps, dlg |-> NoDialog, disk |-> FirstDisk]
           early == {"loaded", "tabs", "cur", "shown", "team", "net", "offer", "edit", "pane",
                     "log", "drawn", "menu", "about"}
           late == {"search", "settings", "errors", "commits", "diff", "cal", "admin", "status",
                    "reviews", "texts", "ops", "dlg", "disk"}
<1>1. DOMAIN Shell = early /\ DOMAIN rest = late
  BY DEF Shell
<1>2. win = [x \in DOMAIN Shell \cup DOMAIN rest |->
                IF x \in DOMAIN Shell THEN Shell[x] ELSE rest[x]]
  BY DEF Init
<1> HIDE DEF rest
<1>3. Parts = early \cup late /\ early \cap late = {}
  BY DEF Parts
<1> HIDE DEF early, late
<1>4. win = [x \in Parts |-> IF x \in early THEN Shell[x] ELSE rest[x]]
  BY <1>1, <1>2, <1>3
<1>5. IsRecord(win, Parts) /\ \A x \in early : win[x] = Shell[x]
  BY <1>3, <1>4 DEF IsRecord
<1>6. \A x \in late : win[x] = rest[x]
  BY <1>3, <1>4
<1>7. /\ ~win.loaded /\ win.tabs = <<>> /\ win.cur = None
      /\ win.shown = {} /\ win.team = None /\ win.net = {[kind |-> "user"]}
      /\ win.offer = NoOffer /\ win.log = [t \in LogTabs |-> NoLog] /\ win.drawn = NothingDrawn
      /\ win.menu = [visible |-> FALSE, inside |-> FALSE, held |-> FALSE, loose |-> 0]
      /\ win.edit = [f \in Files |-> NoFile]
      /\ win.pane = [session |-> None, name |-> None, history |-> None]
  BY <1>5 DEF Shell, early
<1>8. /\ win.settings = NoSettings /\ win.cal = NoCalendar /\ win.admin = NoAdmin
      /\ win.status = NoStatus /\ win.texts = [t \in Teams |-> <<t, 0>>]
      /\ win.dlg = NoDialog /\ win.ops = NoOps /\ win.disk = FirstDisk
      /\ win.search = NoSearch /\ win.errors = NoErrors /\ win.commits = FirstCommits
      /\ win.reviews = FirstReviews
  BY <1>6 DEF rest, late
<1> QED
  BY <1>5, <1>7, <1>8

LEMMA InitInv == ASSUME Init PROVE PagesInv
<1>1. /\ IsRecord(win, Parts) /\ ~win.loaded /\ win.tabs = <<>> /\ win.cur = None
      /\ win.shown = {} /\ win.team = None /\ win.net = {[kind |-> "user"]}
      /\ win.offer.kind = "none" /\ win.log = [t \in LogTabs |-> NoLog]
      /\ win.drawn.owner = None
      /\ win.menu = [visible |-> FALSE, inside |-> FALSE, held |-> FALSE, loose |-> 0]
  BY InitWindow DEF NoOffer, NothingDrawn
<1>2. /\ win.settings = NoSettings /\ win.cal = NoCalendar /\ win.admin = NoAdmin
      /\ win.status = NoStatus /\ win.texts = [t \in Teams |-> <<t, 0>>]
      /\ win.dlg = NoDialog
  BY InitWindow
<1>3. \A t : ~IsOpen(win, t)
  BY <1>1 DEF IsOpen, Contains
<1>4. \A m \in win.net : m.kind = "user"
  BY <1>1
<1>5. Orderly
  <2>1. Base(win)
    <3>1. win.tabs \in Seq(Tabs) /\ IsInjective(win.tabs)
      BY <1>1 DEF IsInjective
    <3>2. Logged(win.log)
      BY <1>1 DEF Logged, IsRecord, NoLog, LogFields
    <3>3. win.drawn.owner \notin LogTabs
      BY <1>1, Facts
    <3>4. Marked(win)
      <4>1. win.errors = NoErrors /\ win.edit = [f \in Files |-> NoFile]
        BY InitWindow
      <4>2. Checked(win.errors)
        BY <4>1 DEF Checked, NoErrors, IsRecord, ErrorFields
      <4>3. IsRecord(NoFile, FileFields) /\ NoFile.nth \in Nat
        BY DEF NoFile, IsRecord, FileFields
      <4> QED
        BY <1>3, <4>1, <4>2, <4>3 DEF Marked, Tab, IsRecord
    <3> QED
      BY <1>1, <1>3, <3>1, <3>2, <3>3, <3>4 DEF Base
  <2>2. Fronted(win) /\ View(win)
    <3>1. win.cur \notin Tabs
      BY <1>1, Facts
    <3> QED
      BY <1>1, <1>3, <3>1 DEF Fronted, View
  <2>3. Tidy(win.dlg)
    <3>1. IsRecord(NoDialog, DialogFields) /\ NoDialog.open = FALSE /\ NoDialog.olds = {}
          /\ NoDialog.dir \in Dirs
      BY DialogAssumption DEF NoDialog, IsRecord, DialogFields
    <3> QED
      BY <1>2, <3>1, FS_EmptySet DEF Tidy
  <2>4. \A m \in win.net : Formed(m)
    BY <1>4 DEF Formed, OpKinds
  <2>5. Again(win.offer)
    BY <1>1 DEF Again
  <2>6. Stored(win)
    <3>1. win.ops = NoOps /\ win.disk = FirstDisk
      BY InitWindow
    <3>2. IsRecord(NoOps, OpFields) /\ NoOps.sel = <<>>
      BY DEF NoOps, IsRecord, OpFields
    <3>3. FirstDisk \in [Teams -> [Projects -> SUBSET Paths]]
      BY SearchAssumption, DialogAssumption DEF FirstDisk, Paths
    <3> QED
      BY <3>1, <3>2, <3>3 DEF Stored
  <2> QED
    BY <2>1, <2>2, <2>3, <2>4, <2>5, <2>6 DEF Orderly, Whole
<1>6. Starts
  BY <1>1, <1>2 DEF Starts, NoDialog, NoCalendar
<1>7. TeamShown
  BY <1>1, <1>4 DEF TeamShown, Waiting
<1>8. MenuKept
  BY <1>1 DEF MenuKept, IsRecord, MenuFields
<1>9. SettingsKept
  <2>1. /\ IsRecord(NoSettings, SettingsFields) /\ NoSettings.server = NoSettings.mine
        /\ NoSettings.form = NoSettings.mine /\ NoSettings.mine \in Settings
    BY SettingsAssumption DEF NoSettings, IsRecord, SettingsFields
  <2> QED
    BY <1>2, <1>3, <1>4, <2>1 DEF SettingsKept, Waiting
<1>10. CalendarKept
  <2>1. IsRecord(NoCalendar, CalendarFields) /\ NoCalendar.proj = None
    BY DEF NoCalendar, IsRecord, CalendarFields
  <2> QED
    BY <1>2, <1>4, <2>1 DEF CalendarKept, Waiting
<1>11. AdminKept
  <2>1. IsRecord(NoAdmin, AdminFields) /\ NoAdmin.rows = {} /\ NoAdmin.nth = 0
    BY DEF NoAdmin, IsRecord, AdminFields
  <2>2. win.reviews \in [Teams -> SUBSET Fields]
    BY InitWindow, ReviewsAssumption
  <2> QED
    BY <1>2, <1>4, <2>1, <2>2 DEF AdminKept, Waiting, AdminKinds, ForReview
<1>12. StatusKept
  <2>1. IsRecord(NoStatus, StatusFields)
    BY DEF NoStatus, IsRecord, StatusFields
  <2>2. /\ win.texts = [t \in Teams |-> win.texts[t]]
        /\ \A t \in Teams : win.texts[t][1] = t
    BY <1>2
  <2>3. Waiting(StatusKinds) = {} /\ Waiting({"status"}) = {} /\ Waiting({"text"}) = {}
    BY <1>4 DEF Waiting, StatusKinds
  <2> QED
    BY <1>2, <1>3, <2>1, <2>2, <2>3 DEF StatusKept
<1> QED
  BY <1>5, <1>6, <1>7, <1>8, <1>9, <1>10, <1>11, <1>12 DEF PagesInv

LEMMA InvStep == ASSUME PagesInv, [Next]_vars PROVE PagesInv'
<1>1. CASE Next
  BY <1>1, NextSplits, PageKeeps, TeamStep, GuiStep
<1>2. CASE UNCHANGED vars
  <2>1. win' = win /\ raced' = raced
    BY <1>2 DEF vars
  <2> QED
    BY <2>1 DEF PagesInv, Orderly, Starts, TeamShown, MenuKept, SettingsKept, CalendarKept,
       AdminKept, StatusKept, Waiting, IsOpen
<1> QED
  BY <1>1, <1>2

(* The window is in order, and each page's part of it agrees with what is  *)
(* under way, throughout: the invariant the theorems below are drawn from. *)
THEOREM AlwaysPagesInv == Spec => []PagesInv
BY InitInv, InvStep, PTL DEF Spec

(* One of the tabs that can have the focus is in front, if there is one,   *)
(* its page is the one displayed, and the menu hides some time after it is *)
(* shown (tabs.js:131-152, 212-251; gui.js:257-282; editpage.js:279-288).  *)
THEOREM FrontIsShown == Spec => []FrontShown
<1>1. PagesInv => FrontShown
  <2> SUFFICES ASSUME PagesInv PROVE FrontShown
    OBVIOUS
  <2>1. Base(win) /\ Fronted(win) /\ MenuKept
    BY DEF PagesInv, Orderly, Whole
  <2> DEFINE front == {t \in ToSet(win.tabs) : CanFocus(t)}
  <2>2. front = {t \in Tabs : IsOpen(win, t) /\ CanFocus(t)}
    <3>1. \A t : t \in ToSet(win.tabs) <=> IsOpen(win, t)
      BY <2>1 DEF Base, IsOpen, Contains, ToSet
    <3>2. ToSet(win.tabs) \subseteq Tabs
      BY <2>1 DEF Base, ToSet
    <3> QED
      BY <3>1, <3>2
  <2>3. Tabs \cap {win.cur} = front \cap {win.cur}
    BY <2>1, <2>2 DEF Fronted
  <2>4. front # {} => win.cur \in front
    BY <2>1, <2>2 DEF Fronted
  <2>5. win.shown = {Root(t) : t \in front \cap {win.cur}}
    BY <2>1, <2>3 DEF Fronted
  <2>6. win.menu.visible => win.menu.inside \/ win.menu.held \/ win.menu.loose > 0
    BY <2>1 DEF MenuKept
  <2> HIDE DEF front
  <2>7. /\ front # {} => win.cur \in front
        /\ win.shown = {Root(t) : t \in front \cap {win.cur}}
        /\ win.menu.visible => win.menu.inside \/ win.menu.held \/ win.menu.loose > 0
    BY <2>4, <2>5, <2>6
  <2> QED
    BY <2>7 DEF FrontShown, front
<1> QED
  BY <1>1, AlwaysPagesInv, PTL

(* As long as the user has done nothing the pages do not expect (in        *)
(* particular, has chosen no other month or project before the log came),  *)
(* with a project chosen and no answer missing, the calendar marks and     *)
(* lists the project's own log (calendar.js:111-185, 187-217).             *)
THEOREM CalendarIsShown == Spec => []CalendarShown
<1>1. PagesInv => CalendarShown
  BY DEF PagesInv, CalendarKept, CalendarShown
<1> QED
  BY <1>1, AlwaysPagesInv, PTL

(* As long as the user has done nothing the pages do not expect (in        *)
(* particular, has changed nothing while a put was under way), the server  *)
(* has the settings the user has, once what was put has come               *)
(* (gui.js:407-435). Always, a setting is enabled on the form when the one *)
(* beside it asks for it (settings.js:333-362).                            *)
THEOREM SettingsAreStored == Spec => []SettingsStored
<1>1. PagesInv => SettingsStored
  <2> SUFFICES ASSUME PagesInv PROVE SettingsStored
    OBVIOUS
  <2>1. SettingsKept
    BY DEF PagesInv
  <2>2. (raced = {} /\ Waiting({"put"}) = {} /\ ~win.settings.failed)
        => win.settings.server = win.settings.mine
    BY <2>1 DEF SettingsKept
  <2>3. IsOpen(win, "settings") => win.settings.enabled = Enabled(win.settings.form)
    BY <2>1 DEF SettingsKept
  <2> QED
    BY <2>2, <2>3 DEF SettingsStored, Enabled
<1> QED
  BY <1>1, AlwaysPagesInv, PTL

(* As long as the user has done nothing the pages do not expect (chosen    *)
(* another team before the items came, or left a form open as the team     *)
(* changed), a verdict, a text and the form of the status are of the team  *)
(* they are sent, or shown, for (admin.js:133-228, team-status.js:35-70,   *)
(* 199-218, 255-293).                                                      *)
THEOREM ReviewsAreOwn == Spec => []ReviewsOwn
<1>1. PagesInv => ReviewsOwn
  <2> SUFFICES ASSUME PagesInv, raced = {}
      PROVE  /\ \A m \in Waiting({"verdict"}) : m.team = m.row.team
             /\ \A m \in Waiting({"text"}) : m.text = None \/ m.text[1] = m.team
             /\ (IsOpen(win, "review") /\ Waiting(StatusKinds) = {} /\ ~win.status.failed
                   /\ win.status.form # None /\ win.status.form[2] = 0)
                => win.status.form = win.texts[win.team]
    BY DEF ReviewsOwn
  <2>1. AdminKept /\ StatusKept
    BY DEF PagesInv
  <2>2. \A m \in Waiting({"verdict"}) : m.team = m.row.team
    BY <2>1 DEF AdminKept
  <2>3. \A m \in Waiting({"text"}) : m.text = None \/ m.text[1] = m.team
    BY <2>1 DEF StatusKept
  <2>4. Waiting(StatusKinds) = {} => Waiting({"status"}) = {}
    BY DEF Waiting, StatusKinds
  <2>5. (IsOpen(win, "review") /\ Waiting(StatusKinds) = {} /\ ~win.status.failed
           /\ win.status.form # None /\ win.status.form[2] = 0)
        => win.status.form = win.texts[win.team]
    BY <2>1, <2>4 DEF StatusKept
  <2> QED
    BY <2>2, <2>3, <2>5
<1> QED
  BY <1>1, AlwaysPagesInv, PTL

-----------------------------------------------------------------------------
(* The operations on files: the files page keeps its parts as they should  *)
(* be, until the user is hasty.                                            *)

(* The steps of the files page, while nothing hasty was done.              *)
LEMMA ChoiceFits ==
  ASSUME Whole(win), Tidy(win.dlg), Fits(win), raced' = {},
         \/ \E p \in Projects : ShowsProject(p) \/ ChoosesIn(p) \/ SavesProject(p)
         \/ \E x \in Dirs \X Names : Selects(x)
         \/ ClicksNewFolder \/ ClicksNewProject \/ ClicksMove \/ ClicksCopy \/ ClicksDelete
         \/ \E d \in Dirs : ChoosesDir(d)
         \/ Cancels \/ PressProjects
  PROVE  Fits(win')
<1>1. /\ IsRecord(win, Parts) /\ Numbered(win) /\ Ordered(win) /\ Offered(win) /\ Laid(win)
      /\ Treed(win)
  BY DEF Whole, Base, Fits
<1>2. ASSUME AtFiles, ~Unfinished PROVE Idle(win)
  BY <1>2 DEF AtFiles, Unfinished, Waiting, Idle, Quiet
<1>3. /\ Acts(Unfinished) => ~Unfinished
      /\ Moves(Unfinished) => ~Unfinished
  BY DEF Acts, Moves
<1>4. Fits(Say(win)) /\ IsRecord(Say(win), Parts) /\ Same(Say(win), win) /\ Offered(Say(win))
  BY <1>1, SayFits
<1>5. Chooses => win.team \notin ReadOnly /\ Idle(win)
  BY <1>2, <1>3 DEF Chooses
<1>6. ASSUME NEW p \in Projects, ShowsProject(p) PROVE Fits(win')
  <2> DEFINE v == [proj |-> p, sel |-> <<>>, last |-> p]
             s == [win EXCEPT !.ops = v]
  <2>1. win' = Say(s) /\ Idle(win)
    BY <1>2, <1>3, <1>6 DEF ShowsProject
  <2>2. IsRecord(v, OpFields) /\ v.sel \in Seq(Dirs \X Names)
    BY DEF IsRecord, OpFields
  <2> HIDE DEF v
  <2>3. IsRecord(s, Parts) /\ s.ops = v /\ \A x \in Parts \ {"ops"} : s[x] = win[x]
    BY <1>1 DEF IsRecord, Parts
  <2> HIDE DEF s
  <2>4. s.dlg = win.dlg /\ s.net = win.net /\ s.offer = win.offer
    BY <2>3 DEF Parts
  <2>5. Numbered(s) /\ Idle(s)
    BY <1>1, <2>1, <2>2, <2>3, <2>4 DEF Numbered, Idle, Quiet
  <2>6. Fits(s)
    BY <2>5, FitsIdle
  <2> QED
    BY <2>1, <2>3, <2>6, SayFits
<1>7. ASSUME NEW p \in Projects, ChoosesIn(p) PROVE Fits(win')
  <2> DEFINE u == Say(win)
  <2>1. win' = SelectProject(u, p) /\ win.dlg.open
    BY <1>7 DEF ChoosesIn, InDialog
  <2>2. Waiting(DialogKinds) = {}
    BY <1>7 DEF ChoosesIn, Acts
  <2>3. IsRecord(u, Parts) /\ Fits(u) /\ Same(u, win)
    BY <1>4
  <2> HIDE DEF u
  <2>4. Asked(u) = {}
    BY <2>2, <2>3 DEF Asked, Same, Waiting
  <2>5. Tidy(u.dlg) /\ u.dlg.open
    BY <2>1, <2>3 DEF Same
  <2> QED
    BY <2>1, <2>3, <2>4, <2>5, SelectProjectFits
<1>8. ASSUME NEW p \in Projects, SavesProject(p) PROVE Fits(win')
  <2> DEFINE m == [kind |-> "project", team |-> win.team, project |-> p]
             r == Ask(win, m)
  <2>1. win' = Hide(r) /\ win.dlg.open
    BY <1>8 DEF SavesProject, Perform, InDialog
  <2>2. m.kind = "project" /\ m.kind \in OpKinds
    BY DEF OpKinds
  <2> HIDE DEF m
  <2>3. Quiet(win) /\ win.offer.kind \notin {"delete", "again"}
    BY <1>1, <2>1 DEF Laid, Offered
  <2>4. IsRecord(r, Parts) /\ Numbered(r) /\ Ordered(r) /\ Offered(r)
    BY <1>1, <2>2, <2>3, OpFits
  <2> HIDE DEF r
  <2> QED
    BY <2>1, <2>4, HideFits
<1>9. ASSUME NEW x \in Dirs \X Names, Selects(x) PROVE Fits(win')
  <2> DEFINE sel == win.ops.sel
             less == Only(sel, ToSet(sel) \ {x})
             v == [win.ops EXCEPT !.sel = IF Contains(sel, x) THEN less ELSE Append(sel, x)]
             s == [win EXCEPT !.ops = v]
  <2>1. win' = s /\ Idle(win)
    BY <1>2, <1>3, <1>9 DEF Selects
  <2>2. sel \in Seq(Dirs \X Names)
    BY <1>1 DEF Numbered
  <2>3. less \in Seq(Dirs \X Names) /\ Append(sel, x) \in Seq(Dirs \X Names)
    BY <2>2, OnlyIs
  <2> HIDE DEF less
  <2>4. IsRecord(v, OpFields) /\ v.sel \in Seq(Dirs \X Names)
    BY <1>1, <2>3 DEF Numbered, IsRecord, OpFields
  <2> HIDE DEF v, sel
  <2>5. IsRecord(s, Parts) /\ s.ops = v /\ \A y \in Parts \ {"ops"} : s[y] = win[y]
    BY <1>1 DEF IsRecord, Parts
  <2> HIDE DEF s
  <2>6. s.dlg = win.dlg /\ s.net = win.net /\ s.offer = win.offer
    BY <2>5 DEF Parts
  <2>7. Numbered(s) /\ Idle(s)
    BY <1>1, <2>1, <2>4, <2>5, <2>6 DEF Numbered, Idle, Quiet
  <2> QED
    BY <2>1, <2>7, FitsIdle
<1>10. ASSUME ClicksNewFolder PROVE Fits(win')
  <2>1. Chooses /\ (win' = Say(win) \/ win' = OpenDialog(win, "isDir", "mkdir"))
    BY <1>10 DEF ClicksNewFolder
  <2>2. Fits(OpenDialog(win, "isDir", "mkdir"))
    BY <1>1, <1>5, <2>1, OpenDialogFits
  <2> QED
    BY <1>4, <2>1, <2>2
<1>11. ASSUME ClicksNewProject PROVE Fits(win')
  <2>1. Idle(win) /\ win' = OpenDialog(win, "isProj", "new")
    BY <1>2, <1>3, <1>11 DEF ClicksNewProject
  <2> QED
    BY <1>1, <2>1, OpenDialogFits DEF TreeTypes
<1>12. ASSUME ClicksMove PROVE Fits(win')
  <2> DEFINE opened == {f \in OpenFiles(win) : /\ Len(win.ops.sel) = 1
                                               /\ PlaceOf[f] = win.ops.sel[1]
                                               /\ ProjectOf[f] = win.ops.proj}
             closed == FoldSet(LAMBDA f, w : CloseFile(w, f, FALSE), win, opened)
  <2>1. Chooses /\ \/ win' = Say(win) \/ win' = closed
                   \/ Len(win.ops.sel) = 1 /\ win' = OpenDialog(closed, "isFile", "mv")
    <3>1. Chooses
      BY <1>12 DEF ClicksMove
    <3>2. win' = IF Len(win.ops.sel) # 1 THEN Say(win)
                 ELSE IF opened \cap Modified(win) # {} THEN closed
                 ELSE OpenDialog(closed, "isFile", "mv")
      BY <1>12, Zenon DEF ClicksMove
    <3> HIDE DEF closed, opened
    <3> QED
      BY <3>1, <3>2
  <2>2. Closed0(closed, win)
    BY ClosedForMove
  <2> HIDE DEF closed
  <2>3. IsRecord(closed, Parts)
    BY <2>2 DEF Closed0, Touches, Whole, Base
  <2>4. Same(closed, win) /\ (closed.offer = win.offer \/ closed.offer.kind \in ShellOffers)
    <3>1. (OpKinds \cup DialogKinds) \cap ShellKinds = {}
          /\ {"delete", "again"} \cap ShellOffers = {}
      BY DEF OpKinds, DialogKinds, ShellKinds, ShellOffers
    <3>2. /\ closed.ops = win.ops /\ closed.dlg = win.dlg /\ closed.team = win.team
          /\ closed.disk = win.disk
      BY <2>2 DEF Closed0, Touches, Frames, ShellParts, Parts
    <3>3. /\ \A m \in closed.net : m \in win.net \/ m.kind \in ShellKinds
          /\ closed.offer = win.offer \/ closed.offer.kind \in ShellOffers
      BY <2>2 DEF Closed0, Touches, Frames
    <3> QED
      BY <3>1, <3>2, <3>3 DEF Same
  <2>5. Fits(closed)
    BY <2>4, FitsSame
  <2>6. Idle(closed) /\ closed.team \notin ReadOnly /\ closed.ops = win.ops
    BY <1>5, <2>1, <2>4 DEF Idle, Quiet, Same, ShellOffers
  <2>7. Len(win.ops.sel) = 1 => Fits(OpenDialog(closed, "isFile", "mv"))
    BY <2>3, <2>5, <2>6, OpenDialogFits DEF Fits
  <2> QED
    BY <1>4, <2>1, <2>5, <2>7
<1>13. ASSUME ClicksCopy PROVE Fits(win')
  <2>1. Chooses /\ \/ win' = Say(win)
                   \/ Len(win.ops.sel) = 1 /\ win' = OpenDialog(win, "isFile", "cp")
    BY <1>13 DEF ClicksCopy
  <2>2. Len(win.ops.sel) = 1 => Fits(OpenDialog(win, "isFile", "cp"))
    BY <1>1, <1>5, <2>1, OpenDialogFits
  <2> QED
    BY <1>4, <2>1, <2>2
<1>14. ASSUME ClicksDelete PROVE Fits(win')
  <2> DEFINE o == [kind |-> "delete", about |-> win.ops.sel]
             r == Offer(win, "delete", win.ops.sel)
  <2>1. Chooses /\ (win' = Say(win) \/ win' = r)
    BY <1>14 DEF ClicksDelete
  <2>2. IsRecord(r, Parts) /\ r.offer = o /\ \A x \in Parts \ {"offer"} : r[x] = win[x]
    BY <1>1, OfferIs DEF Sets
  <2>3. o.kind = "delete" /\ o.about = win.ops.sel
    OBVIOUS
  <2> HIDE DEF r, o
  <2>4. /\ r.ops = win.ops /\ r.dlg = win.dlg /\ r.team = win.team /\ r.disk = win.disk
        /\ r.net = win.net
    BY <2>2 DEF Parts
  <2>5. Idle(win) /\ win.team \notin ReadOnly
    BY <1>5, <2>1
  <2>6. Numbered(r) /\ Ordered(r) /\ Laid(r) /\ Treed(r)
    BY <1>1, <2>4, <2>5 DEF Numbered, Ordered, Idle, Quiet, Laid, Treed
  <2>7. Offered(r)
    BY <2>2, <2>3, <2>4, <2>5 DEF Offered, Idle, Quiet
  <2> QED
    BY <1>4, <2>1, <2>6, <2>7 DEF Fits
<1>15. ASSUME NEW d \in Dirs, ChoosesDir(d) PROVE Fits(win')
  <2> DEFINE v == [win.dlg EXCEPT !.dir = d, !.label = d, !.list = NamesIn(win.dlg.tree, d)]
             s == [win EXCEPT !.dlg = v]
  <2>1. win' = s /\ win.dlg.open
    BY <1>15 DEF ChoosesDir, InDialog
  <2>2. /\ IsRecord(v, DialogFields) /\ v.dir = d /\ v.label = d
        /\ v.list = NamesIn(win.dlg.tree, d)
        /\ \A y \in DialogFields \ {"dir", "label", "list"} : v[y] = win.dlg[y]
    BY <1>1 DEF Numbered, IsRecord, DialogFields
  <2> HIDE DEF v
  <2>3. IsRecord(s, Parts) /\ s.dlg = v /\ \A x \in Parts \ {"dlg"} : s[x] = win[x]
    BY <1>1 DEF IsRecord, Parts
  <2> HIDE DEF s
  <2>4. /\ v.nth = win.dlg.nth /\ v.open = win.dlg.open /\ v.tree = win.dlg.tree
        /\ v.type = win.dlg.type /\ v.op = win.dlg.op /\ v.proj = win.dlg.proj
        /\ v.chosen = win.dlg.chosen /\ v.olds = win.dlg.olds
    BY <2>2 DEF DialogFields
  <2>5. /\ s.net = win.net /\ s.team = win.team /\ s.disk = win.disk /\ s.ops = win.ops
        /\ s.offer = win.offer
    BY <2>3 DEF Parts
  <2>6. Numbered(s)
    BY <1>1, <2>2, <2>3, <2>4, <2>5 DEF Numbered
  <2>7. Ordered(s)
    BY <1>1, <2>5 DEF Ordered, Meant, Fresh
  <2>8. Quiet(s) <=> Quiet(win)
    BY <2>5 DEF Quiet
  <2>9. Offered(s) /\ Laid(s)
    BY <1>1, <2>2, <2>3, <2>4, <2>5, <2>8 DEF Offered, Meant, Laid
  <2>10. Asked(s) = Asked(win)
    BY <2>3, <2>4, <2>5 DEF Asked
  <2>11. Treed(s)
    BY <1>1, <2>3, <2>4, <2>5, <2>10 DEF Treed
  <2> QED
    BY <2>1, <2>6, <2>7, <2>9, <2>11 DEF Fits
<1>16. ASSUME Cancels PROVE Fits(win')
  <2> DEFINE u == Say(win)
  <2>1. win' = Hide(u)
    BY <1>16 DEF Cancels
  <2>2. IsRecord(u, Parts) /\ Fits(u)
    BY <1>4
  <2> HIDE DEF u
  <2> QED
    BY <2>1, <2>2, HideFits DEF Fits
<1>17. ASSUME PressProjects PROVE Fits(win')
  BY <1>4, <1>17 DEF PressProjects, Unbuttoned
<1> QED
  BY <1>6, <1>7, <1>8, <1>9, <1>10, <1>11, <1>12, <1>13, <1>14, <1>15, <1>16, <1>17

LEMMA SavesFit ==
  ASSUME Whole(win), Tidy(win.dlg), Fits(win), raced' = {}, NEW n, NEW told, Saves(n, told)
  PROVE  Fits(win')
<1> DEFINE d == win.dlg
           seen == Seen(d.chosen, d.proj, d.label, FALSE)
           place == <<d.dir, n>>
           a == [d EXCEPT !.asked = FALSE]
           b == [d EXCEPT !.asked = TRUE]
           done == Perform(win, d.op, d.proj, place, seen)
<1>1. /\ IsRecord(win, Parts) /\ Numbered(win) /\ Ordered(win) /\ Offered(win) /\ Laid(win)
      /\ Treed(win) /\ IsRecord(d, DialogFields)
  BY DEF Whole, Base, Fits, Numbered
<1>2. d.open /\ d.type \in TreeTypes /\ HasTree /\ ~Elsewhere(win)
  BY DEF Saves, InDialog
<1>3. \/ win' = [win EXCEPT !.dlg = a] \/ win' = [win EXCEPT !.dlg = b]
      \/ ~NameExists(win, n) /\ win' = Hide(done)
  <2>1. /\ [win EXCEPT !.dlg.asked = FALSE] = [win EXCEPT !.dlg = a]
        /\ [win EXCEPT !.dlg.asked = TRUE] = [win EXCEPT !.dlg = b]
    OBVIOUS
  <2>2. win' = IF NameExists(win, n) THEN [win EXCEPT !.dlg.asked = FALSE]
               ELSE IF ~told /\ ~d.asked THEN [win EXCEPT !.dlg.asked = TRUE]
               ELSE Hide(done)
    BY DEF Saves
  <2> HIDE DEF a, b, done, d
  <2> QED
    BY <2>1, <2>2
<1>4. ASSUME NEW v, v \in {a, b} PROVE Fits([win EXCEPT !.dlg = v])
  <2>1. /\ IsRecord(v, DialogFields) /\ v.proj = d.proj
        /\ \A y \in DialogFields \ {"asked"} : v[y] = d[y]
    BY <1>1, <1>4 DEF IsRecord, DialogFields
  <2> HIDE DEF a, b
  <2> QED
    BY <1>1, <2>1, FieldFits DEF Fits
<1>5. ASSUME ~NameExists(win, n), win' = Hide(done) PROVE Fits(win')
  <2>1. d.op \in {"mkdir", "mv", "cp"} /\ d.op \in Ops
    BY <1>2 DEF Tidy, Ops
  <2>2. d.tree = win.disk[win.team][d.proj] /\ n \notin NamesIn(d.tree, d.dir) /\ d.dir = d.label
    BY <1>1, <1>2, <1>5 DEF NameExists, Laid, Treed, HasTree
  <2>3. place \notin win.disk[win.team][d.proj]
    BY <1>2, <2>2 DEF NamesIn, HasTree
  <2>4. /\ win.team \notin ReadOnly
        /\ d.op \in {"mv", "cp"} => d.chosen = win.ops.sel /\ Len(win.ops.sel) = 1
                                    /\ d.proj = win.ops.proj
    BY <1>1, <1>2 DEF Laid, Elsewhere
  <2>5. /\ IsRecord(seen, SeenFields) /\ seen.chosen = ToSet(d.chosen) /\ seen.project = d.proj
        /\ seen.dir = d.label
    BY DEF Seen, IsRecord, SeenFields
  <2>6. place[1] = d.dir
    OBVIOUS
  <2> HIDE DEF seen, place
  <2>7. Means(win, d.op, d.proj, place, seen)
    BY <2>1, <2>2, <2>3, <2>4, <2>5, <2>6 DEF Means
  <2>8. Quiet(win) /\ win.offer.kind \notin {"delete", "again"}
    BY <1>1, <1>2 DEF Laid, Offered
  <2>9. IsRecord(done, Parts) /\ Numbered(done) /\ Ordered(done) /\ Offered(done)
    BY <1>1, <2>1, <2>7, <2>8, PerformFits
  <2> HIDE DEF done
  <2> QED
    BY <1>5, <2>9, HideFits
<1> HIDE DEF a, b
<1> QED
  BY <1>3, <1>4, <1>5

LEMMA AgainFits ==
  ASSUME Whole(win), Tidy(win.dlg), Fits(win), Again(win.offer), raced' = {},
         PressDelete \/ ClicksUndelete \/ PressAgain
  PROVE  Fits(win')
<1> DEFINE u == Say(win)
<1>1. /\ IsRecord(win, Parts) /\ Numbered(win) /\ Ordered(win) /\ Offered(win) /\ Laid(win)
      /\ Treed(win)
  BY DEF Whole, Base, Fits
<1>2. /\ IsRecord(u, Parts) /\ Numbered(u) /\ u.offer.kind \notin {"delete", "again"}
      /\ Same(u, win) /\ (Quiet(win) => Quiet(u))
  BY <1>1, SayFits
<1>3. /\ Acts(Unfinished) => ~Unfinished
      /\ Moves(Waiting(OpKinds) # {}) => Waiting(OpKinds) = {}
  BY DEF Acts, Moves
<1>4. Waiting(OpKinds) = {} => Quiet(win)
  BY DEF Waiting, Quiet
<1>5. ~win.dlg.open /\ Quiet(win)
  BY <1>3, <1>4 DEF PressDelete, ClicksUndelete, PressAgain, Chooses, AtFiles, Unfinished
<1>6. Unbuttoned = u
  BY DEF Unbuttoned
<1> HIDE DEF u
<1>7. u.ops = win.ops /\ u.team = win.team /\ u.disk = win.disk /\ u.dlg = win.dlg
  BY <1>2 DEF Same
<1>8. \A r : Numbered(r) /\ Ordered(r) /\ Offered(r) /\ ~r.dlg.open => Fits(r)
  BY DEF Fits, Laid, Treed
<1>9. ASSUME NEW w, IsRecord(w, Parts), Numbered(w), Quiet(w), ~w.dlg.open,
             w.offer.kind \notin {"delete", "again"},
             NEW op \in Ops, NEW p, NEW place, NEW seen, Means(w, op, p, place, seen)
      PROVE  Fits(Perform(w, op, p, place, seen))
  <2> DEFINE r == Perform(w, op, p, place, seen)
  <2>1. /\ IsRecord(r, Parts) /\ \A x \in Parts \ {"net", "offer"} : r[x] = w[x]
        /\ Numbered(r) /\ Ordered(r) /\ Offered(r)
    BY <1>9, PerformFits
  <2> HIDE DEF r
  <2>2. r.dlg = w.dlg
    BY <2>1 DEF Parts
  <2>3. Fits(r)
    BY <1>8, <1>9, <2>1, <2>2
  <2> QED
    BY <2>3 DEF r
<1>10. ASSUME PressDelete PROVE Fits(win')
  <2> DEFINE seen == Seen(win.offer.about, win.ops.proj, Top, FALSE)
  <2>1. win' = Perform(u, "del", None, None, seen) /\ win.offer.kind = "delete"
    <3>1. Perform(u, "del", None, None, seen) = RemoveFiles(u, seen)
      BY DEF Perform
    <3> QED
      BY <1>6, <1>10, <3>1 DEF PressDelete, Pressed
  <2>2. win.team \notin ReadOnly /\ win.offer.about = win.ops.sel
    BY <1>1, <2>1 DEF Offered
  <2>3. /\ IsRecord(seen, SeenFields) /\ seen.chosen = ToSet(win.ops.sel)
        /\ seen.project = win.ops.proj
    BY <2>2 DEF Seen, IsRecord, SeenFields
  <2> HIDE DEF seen
  <2>4. Means(u, "del", None, None, seen) /\ "del" \in Ops
    BY <1>7, <2>2, <2>3 DEF Means, Placing, Ops
  <2> QED
    BY <1>2, <1>5, <1>7, <1>9, <2>1, <2>4
<1>11. ASSUME ClicksUndelete PROVE Fits(win')
  <2> DEFINE seen == Seen(win.ops.sel, win.ops.proj, Top, FALSE)
  <2>1. win' = Perform(win, "co", None, None, seen) /\ Chooses
    <3>1. Perform(win, "co", None, None, seen) = Undelete(win, seen)
      BY DEF Perform
    <3> QED
      BY <1>11, <3>1 DEF ClicksUndelete
  <2>2. win.team \notin ReadOnly /\ win.offer.kind \notin {"delete", "again"}
    BY <1>3, <2>1 DEF Chooses, Unfinished
  <2>3. /\ IsRecord(seen, SeenFields) /\ seen.chosen = ToSet(win.ops.sel)
        /\ seen.project = win.ops.proj
    BY DEF Seen, IsRecord, SeenFields
  <2> HIDE DEF seen
  <2>4. Means(win, "co", None, None, seen) /\ "co" \in Ops
    BY <2>2, <2>3 DEF Means, Placing, Ops
  <2> QED
    BY <1>1, <1>5, <1>9, <2>1, <2>2, <2>4
<1>12. ASSUME PressAgain PROVE Fits(win')
  <2> DEFINE m == win.offer.about
             n == [m EXCEPT !.team = win.team]
             seen == [m.seen EXCEPT !.again = TRUE]
  <2>1. m.kind \in OpKinds /\ Formed(m) /\ win.offer.kind = "again"
    BY <1>12 DEF PressAgain, Pressed, Again
  <2>2. win' = IF m.kind = "project" THEN Ask(u, n)
               ELSE Perform(u, m.op, m.project, m.place, seen)
    BY <1>6, <1>12 DEF PressAgain
  <2>3. CASE m.kind = "project"
    <3> DEFINE r == Ask(u, n)
    <3>1. n.kind = "project"
      <4>1. IsRecord(m, {"kind", "team", "project"})
        BY <2>1, <2>3 DEF Formed
      <4> QED
        BY <2>3, <4>1 DEF IsRecord
    <3> HIDE DEF n, m
    <3>2. /\ IsRecord(r, Parts) /\ \A x \in Parts \ {"net"} : r[x] = u[x]
          /\ Numbered(r) /\ Ordered(r) /\ Offered(r)
      BY <1>2, <1>5, <3>1, OpFits DEF OpKinds
    <3> HIDE DEF r
    <3>3. r.dlg = u.dlg
      BY <3>2 DEF Parts
    <3>4. Fits(r)
      BY <1>5, <1>7, <1>8, <3>2, <3>3
    <3> QED
      BY <2>2, <2>3, <3>4 DEF r
  <2>4. CASE m.kind # "project"
    <3>1. m.op \in Ops
      BY <2>1, <2>4 DEF Formed, OpKinds
    <3>2. Meant(m, win) /\ win.team \notin ReadOnly
      BY <1>1, <2>1, <2>4 DEF Offered
    <3>3. /\ IsRecord(seen, SeenFields) /\ seen.chosen = m.seen.chosen
          /\ seen.project = m.seen.project /\ seen.dir = m.seen.dir /\ seen.again = TRUE
      BY <3>2 DEF Meant, IsRecord, SeenFields
    <3> HIDE DEF m, n, seen
    <3>4. Means(u, m.op, m.project, m.place, seen)
      BY <1>7, <3>2, <3>3 DEF Means, Meant
    <3>5. Fits(Perform(u, m.op, m.project, m.place, seen))
      BY <1>2, <1>5, <1>7, <1>9, <3>1, <3>4
    <3> QED
      BY <2>2, <2>4, <3>5
  <2> QED
    BY <2>3, <2>4
<1> QED
  BY <1>10, <1>11, <1>12

(* An answer takes its request away. *)
LEMMA AnsweredFits ==
  ASSUME Whole(win), Fits(win), NEW m \in win.net, NEW u, u = Answered(m)
  PROVE  /\ IsRecord(u, Parts) /\ u.net = win.net \ {m} /\ \A x \in Parts \ {"net"} : u[x] = win[x]
         /\ u.ops = win.ops /\ u.dlg = win.dlg /\ u.team = win.team /\ u.disk = win.disk
         /\ u.offer = win.offer /\ Same(u, win) /\ Fits(u)
         /\ m.kind \in OpKinds => Idle(u)
         /\ m.kind \in DialogKinds /\ m.nth = u.dlg.nth /\ u.dlg.open => Asked(u) = {}
<1>1. /\ IsRecord(u, Parts) /\ u.net = win.net \ {m}
      /\ \A x \in Parts \ {"net"} : u[x] = win[x]
  BY DEF Answered, Whole, Base, IsRecord, Parts
<1>2. /\ u.ops = win.ops /\ u.dlg = win.dlg /\ u.team = win.team /\ u.disk = win.disk
      /\ u.offer = win.offer
  BY <1>1 DEF Parts
<1>3. Same(u, win)
  BY <1>1, <1>2 DEF Same
<1>4. Fits(u)
  BY <1>3, FitsSame
<1>5. m.kind \in OpKinds => Idle(u)
  <2> SUFFICES ASSUME m.kind \in OpKinds PROVE Idle(u)
    OBVIOUS
  <2>1. Quiet(u)
    BY <1>1 DEF Fits, Ordered, Quiet
  <2>2. ~Quiet(win)
    BY DEF Quiet
  <2> QED
    BY <1>2, <2>1, <2>2 DEF Idle, Fits, Offered, Laid
<1>6. m.kind \in DialogKinds /\ m.nth = u.dlg.nth /\ u.dlg.open => Asked(u) = {}
  BY <1>1, <1>2 DEF Fits, Treed, Asked
<1> QED
  BY <1>1, <1>2, <1>3, <1>4, <1>5, <1>6

(* A tree is asked for by a dialog that is closed. *)
LEMMA ClosedTreeFits ==
  ASSUME NEW u, IsRecord(u, Parts), Fits(u), ~u.dlg.open, NEW n \in Nat, n <= u.dlg.nth,
         NEW t, NEW p
  PROVE  Fits(GetFileTree(u, n, t, p))
<1> DEFINE m == [kind |-> "tree", nth |-> n, team |-> t, project |-> p]
           r == Ask(u, m)
<1>1. GetFileTree(u, n, t, p) = r
  BY DEF GetFileTree, ReceiveTree
<1>2. m.kind \in DialogKinds /\ m.nth = n
  BY DEF DialogKinds
<1> HIDE DEF m
<1>3. /\ IsRecord(r, Parts) /\ \A x \in Parts \ {"net"} : r[x] = u[x]
      /\ Numbered(r) /\ Ordered(r) /\ Offered(r) /\ Laid(r)
  BY <1>2, AskedFits DEF Fits
<1> HIDE DEF r
<1>4. r.dlg = u.dlg
  BY <1>3 DEF Parts
<1>5. Fits(r)
  BY <1>3, <1>4 DEF Fits, Treed
<1> QED
  BY <1>1, <1>5

(* The projects of a dialog before this one are there. *)
LEMMA MoreOldsFits ==
  ASSUME NEW u, IsRecord(u, Parts), Fits(u), NEW old, IsRecord(old, OldFields),
         old.nth \in Nat, old.nth < u.dlg.nth,
         NEW d, IsRecord(d, DialogFields), d.olds = u.dlg.olds \cup {old},
         \A y \in DialogFields \ {"olds"} : d[y] = u.dlg[y],
         NEW r, r = [u EXCEPT !.dlg = d]
  PROVE  IsRecord(r, Parts) /\ Fits(r) /\ r.dlg.nth = u.dlg.nth
<1>1. /\ Numbered(u) /\ Ordered(u) /\ Offered(u) /\ Laid(u) /\ Treed(u)
      /\ IsRecord(u.dlg, DialogFields)
  BY DEF Fits, Numbered
<1>2. /\ IsRecord(d, DialogFields) /\ d.olds = u.dlg.olds \cup {old}
      /\ \A y \in DialogFields \ {"olds"} : d[y] = u.dlg[y]
  OBVIOUS
<1>3. IsRecord(r, Parts) /\ r.dlg = d /\ \A x \in Parts \ {"dlg"} : r[x] = u[x]
  BY DEF IsRecord, Parts
<1>4. /\ d.nth = u.dlg.nth /\ d.open = u.dlg.open /\ d.dir = u.dlg.dir /\ d.label = u.dlg.label
      /\ d.list = u.dlg.list /\ d.tree = u.dlg.tree /\ d.type = u.dlg.type /\ d.op = u.dlg.op
      /\ d.chosen = u.dlg.chosen /\ d.proj = u.dlg.proj
  BY <1>2 DEF DialogFields
<1>5. /\ r.net = u.net /\ r.team = u.team /\ r.disk = u.disk /\ r.ops = u.ops
      /\ r.offer = u.offer
  BY <1>3 DEF Parts
<1>6. Numbered(r)
  BY <1>1, <1>2, <1>3, <1>4, <1>5 DEF Numbered
<1>7. Ordered(r)
  BY <1>1, <1>5 DEF Ordered, Meant, Fresh
<1>8. Quiet(r) <=> Quiet(u)
  BY <1>5 DEF Quiet
<1>9. Offered(r) /\ Laid(r)
  BY <1>1, <1>3, <1>4, <1>5, <1>8 DEF Offered, Meant, Laid
<1>10. Asked(r) = Asked(u)
  BY <1>3, <1>4, <1>5 DEF Asked
<1>11. Treed(r)
  BY <1>1, <1>3, <1>4, <1>5, <1>10 DEF Treed
<1> QED
  BY <1>3, <1>4, <1>6, <1>7, <1>9, <1>11 DEF Fits

LEMMA GotProjectsFits ==
  ASSUME Whole(win), Fits(win), NEW m \in Waiting({"plist"}), GotProjects(m)
  PROVE  Fits(win')
<1> DEFINE u == Answered(m)
           p == DefaultProject(win, m.team)
           old == [nth |-> m.nth, team |-> m.team, proj |-> p]
           d == IF m.nth = win.dlg.nth THEN [u.dlg EXCEPT !.listed = m.team, !.proj = p]
                ELSE [u.dlg EXCEPT !.olds = @ \cup {old}]
           s == [u EXCEPT !.dlg = d]
<1>1. m \in win.net /\ m.kind = "plist" /\ m.kind \in DialogKinds
  BY DEF Waiting, DialogKinds
<1>2. /\ IsRecord(u, Parts) /\ u.net = win.net \ {m} /\ \A x \in Parts \ {"net"} : u[x] = win[x]
      /\ u.ops = win.ops /\ u.dlg = win.dlg /\ u.team = win.team /\ u.disk = win.disk
      /\ u.offer = win.offer /\ Same(u, win) /\ Fits(u)
      /\ m.nth = u.dlg.nth /\ u.dlg.open => Asked(u) = {}
  BY <1>1, AnsweredFits
<1>3. win' = IF p = None THEN Say(s) ELSE GetFileTree(s, m.nth, m.team, p)
  <2> DEFINE known == IF m.nth = win.dlg.nth
                      THEN [Answered(m) EXCEPT !.dlg = [@ EXCEPT !.listed = m.team, !.proj = p]]
                      ELSE [Answered(m) EXCEPT !.dlg.olds = @ \cup {old}]
  <2>1. win' = IF p = None THEN Say(known) ELSE GetFileTree(known, m.nth, m.team, p)
    BY DEF GotProjects
  <2>2. known = s
    OBVIOUS
  <2> HIDE DEF known, s, p
  <2> QED
    BY <2>1, <2>2
<1> HIDE DEF u, p
<1>4. m.nth \in Nat /\ m.nth <= u.dlg.nth /\ u.dlg.nth \in Nat /\ IsRecord(u.dlg, DialogFields)
  BY <1>1, <1>2 DEF Fits, Numbered
<1>5. ASSUME IsRecord(s, Parts), Fits(s) PROVE Fits(Say(s))
  <2> HIDE DEF s
  <2> QED
    BY <1>5, SayFits
<1>6. CASE m.nth # win.dlg.nth
  <2>1. m.nth < u.dlg.nth
    BY <1>2, <1>4, <1>6
  <2>2. IsRecord(old, OldFields) /\ old.nth = m.nth
    BY DEF IsRecord, OldFields
  <2>3. /\ IsRecord(d, DialogFields) /\ d.olds = u.dlg.olds \cup {old}
        /\ \A y \in DialogFields \ {"olds"} : d[y] = u.dlg[y]
    BY <1>4, <1>6 DEF IsRecord, DialogFields
  <2> HIDE DEF old, d
  <2>4. IsRecord(s, Parts) /\ Fits(s) /\ s.dlg.nth = u.dlg.nth
    <3>1. s = [u EXCEPT !.dlg = d]
      OBVIOUS
    <3>2. old.nth \in Nat /\ old.nth < u.dlg.nth
      BY <1>4, <2>1, <2>2
    <3>3. IsRecord(u, Parts) /\ Fits(u)
      BY <1>2
    <3> HIDE DEF s
    <3> QED
      BY <2>2, <2>3, <3>1, <3>2, <3>3, MoreOldsFits, ZenonT(40)
  <2>5. Fits(Say(s))
    BY <1>5, <2>4
  <2> HIDE DEF s
  <2>6. Fits(GetFileTree(s, m.nth, m.team, p))
    BY <1>4, <2>1, <2>4, OldTreeFits
  <2> QED
    BY <1>3, <2>5, <2>6
<1>7. CASE m.nth = win.dlg.nth
  <2>1. /\ IsRecord(d, DialogFields) /\ d.proj = p
        /\ \A y \in DialogFields \ {"proj", "listed", "asked"} : d[y] = u.dlg[y]
    BY <1>4, <1>7 DEF IsRecord, DialogFields
  <2> HIDE DEF d
  <2>2. /\ IsRecord(s, Parts) /\ s.dlg = d /\ \A x \in Parts \ {"dlg"} : s[x] = u[x]
        /\ Numbered(s) /\ Ordered(s) /\ Offered(s) /\ Laid(s) /\ Asked(s) = Asked(u)
    BY <1>2, <2>1, FieldFits DEF Fits
  <2>3. d.nth = u.dlg.nth /\ d.open = u.dlg.open /\ d.tree = u.dlg.tree
    BY <2>1 DEF DialogFields
  <2>4. CASE u.dlg.open
    <3>1. Asked(s) = {} /\ m.team = win.team /\ win.dlg.tree \in {None, Fake}
      BY <1>1, <1>2, <1>7, <2>2, <2>4 DEF Fits, Treed, Asked
    <3>2. Fits(s)
      BY <1>2, <2>2, <2>3, <3>1 DEF Fits, Treed
    <3>3. Fits(Say(s))
      BY <1>5, <2>2, <3>2
    <3> HIDE DEF s
    <3>4. s.dlg.nth = m.nth /\ s.team = m.team /\ s.dlg.proj = p
      BY <1>2, <1>7, <2>1, <2>2, <2>3, <3>1 DEF Parts
    <3>5. Fits(GetFileTree(s, s.dlg.nth, s.team, s.dlg.proj))
      BY <2>2, <3>1, OwnTreeFits
    <3> QED
      BY <1>3, <3>3, <3>4, <3>5
  <2>5. CASE ~u.dlg.open
    <3>1. Fits(s)
      BY <2>2, <2>3, <2>5 DEF Fits, Treed
    <3>2. Fits(Say(s))
      BY <1>5, <2>2, <3>1
    <3> HIDE DEF s
    <3>3. Fits(GetFileTree(s, m.nth, m.team, p))
      BY <1>4, <2>2, <2>3, <2>5, <3>1, ClosedTreeFits
    <3> QED
      BY <1>3, <3>2, <3>3
  <2> QED
    BY <2>4, <2>5
<1> QED
  BY <1>6, <1>7

LEMMA TreesFit ==
  ASSUME Whole(win), Fits(win), NEW m \in win.net, m.kind \in DialogKinds,
         FailProjects(m) \/ (m.kind = "tree" /\ (GotTree(m) \/ FailTree(m)))
  PROVE  Fits(win')
<1> DEFINE u == Answered(m)
<1>1. /\ IsRecord(u, Parts) /\ u.net = win.net \ {m} /\ \A x \in Parts \ {"net"} : u[x] = win[x]
      /\ u.ops = win.ops /\ u.dlg = win.dlg /\ u.team = win.team /\ u.disk = win.disk
      /\ u.offer = win.offer /\ Same(u, win) /\ Fits(u)
      /\ m.nth = u.dlg.nth /\ u.dlg.open => Asked(u) = {}
  BY AnsweredFits
<1>2. ASSUME FailProjects(m) PROVE Fits(win')
  <2> DEFINE o == [kind |-> "plist", about |-> None]
             r == Offer(u, "plist", None)
  <2>1. win' = r
    BY <1>2 DEF FailProjects
  <2>2. o.kind = "plist"
    OBVIOUS
  <2>3. IsRecord(r, Parts) /\ r.offer = o /\ \A x \in Parts \ {"offer"} : r[x] = u[x]
    BY <1>1, OfferIs DEF Sets
  <2> HIDE DEF r, o, u
  <2>4. Same(r, u)
    BY <2>2, <2>3 DEF Same, Parts
  <2> QED
    BY <1>1, <2>1, <2>4, FitsSame
<1> HIDE DEF u
<1>3. ASSUME NEW r, NEW tree, DrawsTree(r, u, tree), Treed(u),
             tree = u.dlg.tree \/ tree = u.disk[u.team][u.dlg.proj],
             tree # u.dlg.tree => Asked(u) = {}
      PROVE  Fits(r)
  <2>1. /\ Numbered(r) /\ Ordered(r) /\ Offered(r) /\ Laid(r) /\ Asked(r) = Asked(u)
        /\ r.net = u.net /\ r.team = u.team /\ r.disk = u.disk
        /\ r.dlg.open = u.dlg.open /\ r.dlg.nth = u.dlg.nth
        /\ r.dlg.proj = u.dlg.proj /\ r.dlg.tree = tree
    BY <1>1, <1>3, DrawnFits DEF Fits
  <2>2. Treed(r)
    BY <1>3, <2>1 DEF Treed
  <2> QED
    BY <2>1, <2>2 DEF Fits
<1>4. IsRecord(u.dlg, DialogFields) /\ Treed(u) /\ Treed(win)
  BY <1>1 DEF Fits, Numbered
<1>5. ASSUME GotTree(m), m.kind = "tree" PROVE Fits(win')
  <2> DEFINE t == win.disk[m.team][m.project]
             tree == IF m.nth = u.dlg.nth THEN t ELSE u.dlg.tree
             r == ReceiveTree(u, m.nth, t)
  <2>1. win' = r
    BY <1>5 DEF GotTree, u
  <2>2. IF ~u.dlg.open THEN r = u ELSE DrawsTree(r, u, tree)
    BY <1>1, <1>4, ReceiveTreeIs
  <2>3. u.dlg.open /\ m.nth = u.dlg.nth
        => /\ t = u.disk[u.team][u.dlg.proj] /\ Asked(u) = {}
    BY <1>1, <1>4, <1>5 DEF Treed, Asked
  <2>4. /\ m.nth # u.dlg.nth => tree = u.dlg.tree
        /\ m.nth = u.dlg.nth => tree = t
    OBVIOUS
  <2> HIDE DEF t, tree, r
  <2>5. CASE ~u.dlg.open
    BY <1>1, <2>1, <2>2, <2>5
  <2>6. CASE u.dlg.open
    BY <1>3, <1>4, <2>1, <2>2, <2>3, <2>4, <2>6
  <2> QED
    BY <2>5, <2>6
<1>6. ASSUME FailTree(m) PROVE Fits(win')
  <2>1. win' = IF u.dlg.open THEN RootSelected(u) ELSE u
    BY <1>1, <1>6 DEF FailTree, u
  <2>2. DrawsTree(RootSelected(u), u, u.dlg.tree)
    BY <1>1, <1>4, RootSelectedIs
  <2>3. Fits(RootSelected(u))
    BY <1>3, <1>4, <2>2
  <2> QED
    BY <1>1, <2>1, <2>3
<1> QED
  BY <1>2, <1>5, <1>6

(* What the server makes of an operation is not of the window.             *)
LEMMA ServeIs ==
  ASSUME NEW u, IsRecord(u, Parts), NEW m
  PROVE  /\ IsRecord(Serve(u, m), Parts) /\ \A x \in Parts \ {"disk"} : Serve(u, m)[x] = u[x]
BY DEF Serve, IsRecord, Parts

LEMMA IdlesAlong ==
  ASSUME NEW r, NEW u, r.dlg = u.dlg, r.net = u.net, r.offer = u.offer, r.ops = u.ops
  PROVE  /\ Idle(u) => Idle(r)
         /\ Numbered(u) => Numbered(r)
BY DEF Idle, Quiet, Numbered

LEMMA OpAnswersFit ==
  ASSUME Whole(win), Fits(win), NEW m \in win.net, Formed(m), m.kind \in OpKinds,
         \/ m.kind = "files" /\ GotFiles(m)
         \/ m.kind = "commit" /\ GotCommit(m)
         \/ m.kind = "project" /\ GotProject(m)
         \/ \E done \in BOOLEAN : FailOp(m, done)
  PROVE  Fits(win')
<1> DEFINE u == Answered(m)
           v == Serve(u, m)
<1>1. /\ IsRecord(u, Parts) /\ u.ops = win.ops /\ u.dlg = win.dlg /\ u.team = win.team
      /\ u.disk = win.disk /\ u.offer = win.offer /\ Fits(u) /\ Idle(u)
  BY AnsweredFits
<1>2. m.kind # "project" => /\ Meant(m, win) /\ m.team = win.team /\ win.team \notin ReadOnly
                            /\ m.op \in Ops
                            /\ IsRecord(m, {"kind", "op", "team", "project", "srcs", "place", "seen"})
  BY DEF Fits, Ordered, Formed, OpKinds
<1>3. IsRecord(v, Parts) /\ \A x \in Parts \ {"disk"} : v[x] = u[x]
  <2> HIDE DEF u
  <2> QED
    BY <1>1, ServeIs
<1> HIDE DEF u, v
<1>4. /\ v.ops = u.ops /\ v.dlg = u.dlg /\ v.team = u.team /\ v.net = u.net
      /\ v.offer = u.offer
  BY <1>3 DEF Parts
<1>5. Numbered(u) /\ Numbered(v) /\ Idle(v)
  BY <1>1, <1>4, IdlesAlong DEF Fits
<1>6. ASSUME NEW w \in {u, v} PROVE Meant(m, win) => Meant(m, w)
  BY <1>1, <1>4 DEF Meant
<1>7. ASSUME m.kind = "files", GotFiles(m) PROVE Fits(win')
  <2> DEFINE n == [m EXCEPT !.kind = "commit", !.team = v.team,
                            !.project = IF m.op \in {"del", "cp"} THEN v.ops.proj ELSE @]
             r == Ask(v, n)
  <2>1. win' = r
    BY <1>7 DEF GotFiles, Commit, u, v
  <2>2. /\ n.kind = "commit" /\ n.team = v.team /\ n.op = m.op /\ n.srcs = m.srcs
        /\ n.place = m.place /\ n.seen = m.seen
        /\ n.project = IF m.op \in {"del", "cp"} THEN v.ops.proj ELSE m.project
    BY <1>2, <1>7 DEF IsRecord
  <2> HIDE DEF n
  <2>3. Meant(m, v)
    BY <1>2, <1>6, <1>7
  <2>4. n.project = m.project
    BY <2>2, <2>3 DEF Meant
  <2>5. Meant(n, v)
    BY <2>2, <2>3, <2>4 DEF Meant
  <2>6. Fresh(n, v)
    BY <2>2 DEF Fresh
  <2>7. /\ IsRecord(r, Parts) /\ \A x \in Parts \ {"net"} : r[x] = v[x]
        /\ Numbered(r) /\ Ordered(r) /\ Offered(r)
    <3>1. n.kind \in OpKinds /\ v.team \notin ReadOnly
      BY <1>1, <1>2, <1>4, <1>7, <2>2 DEF OpKinds
    <3>2. Quiet(v) /\ v.offer.kind \notin {"delete", "again"}
      BY <1>5 DEF Idle
    <3> QED
      BY <1>3, <1>5, <2>2, <2>5, <2>6, <3>1, <3>2, OpFits
  <2> HIDE DEF r
  <2>8. ~r.dlg.open
    BY <1>5, <2>7 DEF Idle, Parts
  <2> QED
    BY <2>1, <2>7, <2>8 DEF Fits, Laid, Treed
<1>8. ASSUME GotCommit(m) PROVE Fits(win')
  <2> DEFINE sel == Only(u.ops.sel, u.disk[u.team][u.ops.proj])
             o == [u.ops EXCEPT !.sel = sel]
             s == [u EXCEPT !.ops = o]
             r == IF u.ops.proj = None THEN u ELSE s
  <2>1. win' = Say(r)
    BY <1>8 DEF GotCommit, Refresh, u
  <2>2. u.ops.sel \in Seq(Dirs \X Names) /\ IsRecord(u.ops, OpFields)
    BY <1>5 DEF Numbered
  <2>3. sel \in Seq(Dirs \X Names)
    BY <2>2, OnlyIs
  <2> HIDE DEF sel
  <2>4. IsRecord(o, OpFields) /\ o.sel \in Seq(Dirs \X Names)
    BY <2>2, <2>3 DEF IsRecord, OpFields
  <2> HIDE DEF o
  <2>5. IsRecord(s, Parts) /\ s.ops = o /\ \A x \in Parts \ {"ops"} : s[x] = u[x]
    BY <1>1 DEF IsRecord, Parts
  <2> HIDE DEF s
  <2>6. s.dlg = u.dlg /\ s.net = u.net /\ s.offer = u.offer
    BY <2>5 DEF Parts
  <2>7. Numbered(s) /\ Idle(s)
    BY <1>1, <1>5, <2>4, <2>5, <2>6 DEF Numbered, Idle, Quiet
  <2>8. Fits(s)
    BY <2>7, FitsIdle
  <2>9. IsRecord(r, Parts) /\ Fits(r)
    BY <1>1, <2>5, <2>8
  <2> HIDE DEF r
  <2> QED
    BY <2>1, <2>9, SayFits
<1>9. ASSUME GotProject(m) PROVE Fits(win')
  BY <1>1, <1>9, SayFits DEF GotProject, u
<1>10. ASSUME NEW done \in BOOLEAN, FailOp(m, done) PROVE Fits(win')
  <2> DEFINE w == IF done THEN v ELSE u
             o == [kind |-> "again", about |-> m]
             r == Offer(w, "again", m)
  <2>1. win' = r
    BY <1>10 DEF FailOp, u, v
  <2>2. /\ w \in {u, v} /\ IsRecord(w, Parts) /\ Numbered(w) /\ Idle(w) /\ w.team = win.team
    BY <1>1, <1>3, <1>4, <1>5
  <2>3. o.kind = "again" /\ o.about = m
    OBVIOUS
  <2> HIDE DEF w, o
  <2>4. IsRecord(r, Parts) /\ r.offer = o /\ \A x \in Parts \ {"offer"} : r[x] = w[x]
    BY <2>2, OfferIs DEF Sets, o
  <2> HIDE DEF r
  <2>5. r.ops = w.ops /\ r.dlg = w.dlg /\ r.team = w.team /\ r.net = w.net
    BY <2>4 DEF Parts
  <2>6. Numbered(r) /\ Quiet(r) /\ ~r.dlg.open
    BY <2>2, <2>5 DEF Numbered, Idle, Quiet
  <2>7. m.kind # "project" => Meant(m, r) /\ r.team \notin ReadOnly
    <3>1. Meant(m, w) => Meant(m, r)
      BY <2>5 DEF Meant
    <3> QED
      BY <1>2, <1>6, <2>2, <2>5, <3>1
  <2>8. Offered(r)
    BY <2>3, <2>4, <2>6, <2>7 DEF Offered
  <2>9. Ordered(r) /\ Laid(r) /\ Treed(r)
    BY <2>6 DEF Ordered, Quiet, Laid, Treed
  <2> QED
    BY <2>1, <2>6, <2>8, <2>9 DEF Fits
<1> QED
  BY <1>7, <1>8, <1>9, <1>10

(* The files page keeps its part. *)
LEMMA FilesPageKeeps ==
  ASSUME Orderly, FilesKept, raced \subseteq raced', FilesSteps PROVE FilesIn(win', raced')
<1> SUFFICES ASSUME raced' = {} PROVE Fits(win')
  BY DEF FilesIn
<1>1. /\ Whole(win) /\ Tidy(win.dlg) /\ Again(win.offer) /\ \A m \in win.net : Formed(m)
      /\ Fits(win)
  BY DEF Orderly, FilesKept, FilesIn
<1>2. CASE \/ \E p \in Projects : ShowsProject(p) \/ ChoosesIn(p) \/ SavesProject(p)
           \/ \E x \in Dirs \X Names : Selects(x)
           \/ ClicksNewFolder \/ ClicksNewProject \/ ClicksMove \/ ClicksCopy \/ ClicksDelete
           \/ \E d \in Dirs : ChoosesDir(d)
           \/ Cancels \/ PressProjects
  BY <1>1, <1>2, ChoiceFits
<1>3. CASE \E n \in Names, told \in BOOLEAN : Saves(n, told)
  BY <1>1, <1>3, SavesFit
<1>4. CASE PressDelete \/ ClicksUndelete \/ PressAgain
  BY <1>1, <1>4, AgainFits
<1>5. ASSUME NEW m \in Waiting({"plist"}), GotProjects(m) \/ FailProjects(m) PROVE Fits(win')
  <2>1. m \in win.net /\ m.kind \in DialogKinds
    BY DEF Waiting, DialogKinds
  <2> QED
    BY <1>1, <1>5, <2>1, GotProjectsFits, TreesFit
<1>6. ASSUME NEW m \in Waiting({"tree"}), GotTree(m) \/ FailTree(m) PROVE Fits(win')
  <2>1. m \in win.net /\ m.kind \in DialogKinds /\ m.kind = "tree"
    BY DEF Waiting, DialogKinds
  <2> QED
    BY <1>1, <1>6, <2>1, TreesFit
<1>7. ASSUME NEW m \in win.net, m.kind \in OpKinds,
             \/ m.kind = "files" /\ GotFiles(m)
             \/ m.kind = "commit" /\ GotCommit(m)
             \/ m.kind = "project" /\ GotProject(m)
             \/ \E done \in BOOLEAN : FailOp(m, done)
      PROVE  Fits(win')
  BY <1>1, <1>7, OpAnswersFit
<1>8. \A k : \A m \in Waiting({k}) : m \in win.net /\ m.kind = k
  BY DEF Waiting
<1>9. CASE \/ \E m \in Waiting({"files"}) : GotFiles(m) \/ \E done \in BOOLEAN : FailOp(m, done)
           \/ \E m \in Waiting({"commit"}) : GotCommit(m) \/ FailOp(m, FALSE)
           \/ \E m \in Waiting({"project"}) : GotProject(m) \/ FailOp(m, FALSE)
  <2>1. \A m \in Waiting({"files"}) \cup Waiting({"commit"}) \cup Waiting({"project"}) :
           m \in win.net /\ m.kind \in OpKinds
    BY DEF Waiting, OpKinds
  <2>2. CASE \E m \in Waiting({"files"}) : GotFiles(m) \/ \E done \in BOOLEAN : FailOp(m, done)
    BY <1>7, <1>8, <2>1, <2>2
  <2>3. CASE \E m \in Waiting({"commit"}) : GotCommit(m) \/ FailOp(m, FALSE)
    BY <1>7, <1>8, <2>1, <2>3
  <2>4. CASE \E m \in Waiting({"project"}) : GotProject(m) \/ FailOp(m, FALSE)
    BY <1>7, <1>8, <2>1, <2>4
  <2> QED
    BY <1>9, <2>2, <2>3, <2>4
<1> QED
  BY <1>2, <1>3, <1>4, <1>5, <1>6, <1>9 DEF FilesSteps

(* No other page changes it. *)
LEMMA FilesOwned ==
  ASSUME NEW x \in PageNames, x # "files"
  PROVE  /\ {"ops", "dlg", "disk", "team"} \cap (ShellParts \cup PartsOf(x)) = {}
         /\ (OpKinds \cup DialogKinds) \cap (ShellKinds \cup AsksOf(x)) = {}
         /\ {"delete", "again"} \cap (ShellOffers \cup OffersOf(x)) = {}
<1> USE DEF PartsOf, AsksOf, OffersOf, ShellParts, ShellKinds, ShellOffers, AdminKinds,
        StatusKinds, SearchKinds, LogKinds, OpKinds, DialogKinds
<1>1. CASE x = "menu" BY <1>1
<1>2. CASE x = "file" BY <1>2
<1>3. CASE x = "search" BY <1>3
<1>4. CASE x = "settings" BY <1>4
<1>5. CASE x = "errors" BY <1>5
<1>6. CASE x = "logs" BY <1>6
<1>7. CASE x = "diff" BY <1>7
<1>8. CASE x = "calendar" BY <1>8
<1>9. CASE x = "admin" BY <1>9
<1>10. CASE x = "status" BY <1>10
<1>11. CASE x = "edit" BY <1>11
<1>12. CASE x = "bar" BY <1>12
<1>13. CASE x = "start" BY <1>13
<1> QED
  BY <1>1, <1>2, <1>3, <1>4, <1>5, <1>6, <1>7, <1>8, <1>9, <1>10, <1>11, <1>12, <1>13
     DEF PageNames

LEMMA FilesLeft ==
  ASSUME NEW x \in PageNames, x # "files", NEW r, NEW u, Page(x, r, u), NEW rc, FilesIn(u, rc)
  PROVE  FilesIn(r, rc)
<1>1. /\ {"ops", "dlg", "disk", "team"} \cap (ShellParts \cup PartsOf(x)) = {}
      /\ (OpKinds \cup DialogKinds) \cap (ShellKinds \cup AsksOf(x)) = {}
      /\ {"delete", "again"} \cap (ShellOffers \cup OffersOf(x)) = {}
  BY FilesOwned
<1>2. r.ops = u.ops /\ r.dlg = u.dlg /\ r.team = u.team /\ r.disk = u.disk
  BY <1>1, Leaves DEF Parts, BarParts
<1>3. \A m \in r.net : m.kind \in OpKinds \cup DialogKinds => m \in u.net
  BY <1>1, Leaves
<1>4. r.offer.kind \in {"delete", "again"} => r.offer = u.offer
  BY <1>1, Leaves
<1>5. Same(r, u)
  BY <1>2, <1>3, <1>4 DEF Same
<1> QED
  BY <1>5, FitsSame DEF FilesIn

(* Another team's projects are shown, and nothing is under way.            *)
LEMMA FilesGo ==
  ASSUME NEW u, NEW t, NEW r, Goes(r, u, t), Fits(u), ~u.dlg.open,
         \A m \in u.net : m.kind \in ShellKinds, u.offer.kind \notin {"delete", "again"}
  PROVE  Fits(r)
<1>1. Page("team", r, u) /\ r.ops = [u.ops EXCEPT !.proj = None, !.sel = <<>>]
  BY DEF Goes
<1>2. r.dlg = u.dlg
  BY <1>1, Leaves, TeamAlone
<1>3. \A m \in r.net : m.kind \notin OpKinds \cup DialogKinds
  <2>1. \A k \in OpKinds \cup DialogKinds : k \notin ShellKinds \cup AsksOf("team")
    BY DEF OpKinds, DialogKinds, ShellKinds, AsksOf
  <2> QED
    BY <1>1, <2>1, Leaves
<1>4. r.offer.kind \notin {"delete", "again"}
  <2>1. "delete" \notin ShellOffers \cup OffersOf("team")
        /\ "again" \notin ShellOffers \cup OffersOf("team")
    BY DEF ShellOffers, OffersOf
  <2> QED
    BY <1>1, <2>1, Leaves
<1>5. IsRecord(r.ops, OpFields) /\ r.ops.sel \in Seq(Dirs \X Names)
  <2> DEFINE v == [u.ops EXCEPT !.proj = None, !.sel = <<>>]
  <2>1. IsRecord(u.ops, OpFields)
    BY DEF Fits, Numbered
  <2>2. IsRecord(v, OpFields) /\ v.sel = <<>>
    BY <2>1 DEF IsRecord, OpFields
  <2>3. r.ops = v
    BY <1>1
  <2> HIDE DEF v
  <2>4. <<>> \in Seq(Dirs \X Names)
    OBVIOUS
  <2> QED
    BY <2>2, <2>3, <2>4
<1>6. Numbered(r)
  BY <1>2, <1>3, <1>5 DEF Fits, Numbered
<1>7. Idle(r)
  BY <1>2, <1>3, <1>4 DEF Idle, Quiet
<1> QED
  BY <1>6, <1>7, FitsIdle

LEMMA FilesTeam ==
  ASSUME PagesInv, FilesKept, Next, NEW t \in Teams, SelectsTeam(t)
  PROVE  FilesIn(win', raced')
<1> DEFINE c == CloseAllTabs(Unprompt(win, "none"))
<1>1. Orderly
  BY DEF PagesInv
<1>2. Page("bar", c, win) /\ Whole(c)
  BY <1>1, ClosingKeeps, PageWhole
<1>3. /\ win' = IF Modified(c) = {} THEN TeamChanged(c, t, FALSE) ELSE c
      /\ raced' = {} => win.net = {} /\ win.offer = NoOffer
      /\ ~win.dlg.open
  BY DEF SelectsTeam
<1> HIDE DEF c
<1>4. c.dlg = win.dlg /\ \A m \in c.net : m \in win.net \/ m.kind \in ShellKinds
  BY <1>2, ClosedIn
<1>5. FilesIn(c, raced')
  <2>1. FilesIn(win, raced')
    <3>1. raced' = {} => raced = {}
      BY RacedGrows
    <3> QED
      BY <3>1 DEF FilesKept, FilesIn
  <2> QED
    BY <1>2, <2>1, FilesLeft DEF PageNames
<1>6. raced' = {} => c.offer.kind \notin {"delete", "again"}
  <2>1. "delete" \notin ShellOffers \cup OffersOf("bar")
        /\ "again" \notin ShellOffers \cup OffersOf("bar")
    BY DEF ShellOffers, OffersOf
  <2>2. NoOffer.kind \notin {"delete", "again"}
    BY DEF NoOffer
  <2>3. c.offer.kind \in {"delete", "again"} => c.offer = win.offer
    BY <1>2, <2>1, Leaves
  <2> QED
    BY <1>3, <2>2, <2>3
<1>7. CASE Modified(c) # {}
  BY <1>3, <1>5, <1>7
<1>8. CASE Modified(c) = {}
  <2> DEFINE r == TeamChanged(c, t, FALSE)
  <2>1. win' = r
    BY <1>3, <1>8
  <2>2. Goes(r, c, t)
    BY <1>2, TeamGoes
  <2> HIDE DEF r
  <2>3. raced' = {} => Fits(r)
    BY <1>3, <1>4, <1>5, <1>6, <2>2, FilesGo DEF FilesIn
  <2> QED
    BY <2>1, <2>3 DEF FilesIn
<1> QED
  BY <1>7, <1>8

LEMMA FilesGui ==
  ASSUME PagesInv, FilesKept, NEW m \in Waiting({"user"}), GotUser(m)
  PROVE  FilesIn(win', raced')
<1> DEFINE w == Answered(m)
           bar == AddTab([w EXCEPT !.loaded = TRUE], "shortcuts")
           t == TeamToLoad(w.settings.mine)
<1>1. /\ Orderly /\ Starts /\ Whole(win) /\ m \in win.net /\ m.kind = "user"
  BY DEF PagesInv, Orderly, Waiting
<1>2. /\ win.tabs = <<>> /\ win.net = {[kind |-> "user"]} /\ win.offer.kind = "none"
      /\ ~win.dlg.open
  BY <1>1 DEF Starts, Waiting
<1>3. /\ win' = IF t \in Teams THEN TeamChanged(bar, t, TRUE) ELSE Say(bar)
      /\ raced' = raced
  BY DEF GotUser, LoadGui, Arrives
<1>4. /\ Page("start", w, win) /\ w.net = {} /\ w.tabs = <<>>
      /\ \A x \in Parts \ {"net"} : w[x] = win[x]
  <2>1. Page("start", w, win)
    BY <1>1, PageAnswered DEF AsksOf
  <2>2. w.net = win.net \ {m} /\ \A x \in Parts \ {"net"} : w[x] = win[x]
    BY <1>1 DEF Answered, Whole, Base, IsRecord, Parts
  <2>3. w.tabs = win.tabs
    BY <2>2 DEF Parts
  <2> QED
    BY <1>1, <1>2, <2>1, <2>2, <2>3
<1> HIDE DEF w
<1>5. Whole(w)
  BY <1>4, PageWhole
<1>6. /\ Whole(bar) /\ \A x \in Parts \ {"loaded", "tabs"} : bar[x] = w[x]
  BY <1>4, <1>5, BarIs
<1> HIDE DEF bar, t
<1>7. /\ bar.net = {} /\ bar.ops = win.ops /\ bar.dlg = win.dlg /\ bar.team = win.team
      /\ bar.disk = win.disk /\ bar.offer = win.offer
  BY <1>4, <1>6 DEF Parts
<1>8. Fits(win) => Fits(bar)
  BY <1>7, FitsSame DEF Same
<1>9. CASE t \in Teams
  <2>1. Goes(win', bar, t)
    BY <1>3, <1>6, <1>9, TeamGoes
  <2>2. Fits(bar) => Fits(win')
    BY <1>2, <1>7, <2>1, FilesGo
  <2> QED
    BY <1>3, <1>8, <2>2 DEF FilesKept, FilesIn
<1>10. CASE t \notin Teams
  <2>1. IsRecord(bar, Parts)
    BY <1>6 DEF Whole, Base
  <2>2. Fits(bar) => Fits(Say(bar))
    BY <2>1, SayFits
  <2> QED
    BY <1>3, <1>8, <1>10, <2>2 DEF FilesKept, FilesIn
<1> QED
  BY <1>9, <1>10

LEMMA FilesStart == ASSUME Init PROVE FilesKept
<1>1. /\ win.ops = NoOps /\ win.dlg = NoDialog /\ win.net = {[kind |-> "user"]}
      /\ win.offer = NoOffer
  BY InitWindow
<1>2. IsRecord(NoOps, OpFields) /\ NoOps.sel = <<>> /\ <<>> \in Seq(Dirs \X Names)
  BY DEF NoOps, IsRecord, OpFields
<1>3. IsRecord(NoDialog, DialogFields) /\ NoDialog.nth = 0 /\ NoDialog.olds = {} /\ ~NoDialog.open
  BY DEF NoDialog, IsRecord, DialogFields
<1>4. \A m \in win.net : m.kind \notin OpKinds \cup DialogKinds
  BY <1>1 DEF OpKinds, DialogKinds
<1>5. win.offer.kind = "none"
  BY <1>1 DEF NoOffer
<1>6. Numbered(win)
  BY <1>1, <1>2, <1>3, <1>4 DEF Numbered
<1>7. Idle(win)
  BY <1>1, <1>3, <1>4, <1>5 DEF Idle, Quiet
<1> QED
  BY <1>6, <1>7, FitsIdle DEF FilesKept, FilesIn

LEMMA FilesStep == ASSUME PagesInv, FilesKept, [Next]_vars PROVE FilesKept'
<1>1. ASSUME FilesIn(win', raced') PROVE FilesKept'
  BY <1>1 DEF FilesKept
<1>2. Orderly /\ TeamShown
  BY DEF PagesInv
<1>3. ASSUME Next PROVE FilesIn(win', raced')
  <2>1. raced \subseteq raced'
    BY <1>3, RacedGrows
  <2>2. ASSUME NEW x \in PageNames, StepOn(x) PROVE FilesIn(win', raced')
    <3>1. CASE x = "files"
      <4>1. FilesSteps
        BY <2>2, <3>1 DEF StepOn
      <4> QED
        BY <1>2, <2>1, <4>1, FilesPageKeeps
    <3>2. CASE x # "files"
      <4>1. Page(x, win', win)
        BY <1>2, <2>2, StepTouches
      <4>2. FilesIn(win, raced')
        <5>1. raced' = {} => raced = {}
          BY <2>1
        <5> QED
          BY <5>1 DEF FilesKept, FilesIn
      <4> QED
        BY <3>2, <4>1, <4>2, FilesLeft
    <3> QED
      BY <3>1, <3>2
  <2> QED
    BY <1>3, <2>2, NextSplits, FilesTeam, FilesGui
<1>4. ASSUME UNCHANGED vars PROVE FilesIn(win', raced')
  <2>1. win' = win /\ raced' = raced
    BY <1>4 DEF vars
  <2> QED
    BY <2>1 DEF FilesKept
<1> QED
  BY <1>1, <1>3, <1>4

(* As long as the user has done nothing the pages do not expect (retried   *)
(* or confirmed with another selection, chosen a folder in an older        *)
(* dialog's tree, moved files to another project), what is asked for about *)
(* files, and what would be asked for again, is of what is selected, of    *)
(* the project it is in, where the dialog says, for a team that may be     *)
(* written to, and one thing at a time; the dialog shows its own directory *)
(* of its own tree. All five parts of FilesKept have this condition        *)
(* (projops.js:115-331; browser.js:130-158, 173-273, 306-333).             *)
THEOREM AlwaysFilesKept == Spec => []FilesKept
<1>1. PagesInv /\ FilesKept /\ [Next]_vars => FilesKept'
  BY FilesStep
<1> QED
  BY <1>1, FilesStart, AlwaysPagesInv, PTL DEF Spec

(* As long as the user has done nothing of that, every change of files on  *)
(* its way is what he asked for, in the project and the directory he saw,  *)
(* and does not overwrite                                                  *)
(* (projops.js:115-331; browser.js:130-158, 173-273, 306-333).             *)
THEOREM FilesAreMeant == Spec => []FilesChanged
<1>1. FilesKept => FilesChanged
  <2> SUFFICES ASSUME FilesKept, raced = {}, NEW m \in Waiting({"files", "commit"})
               PROVE  /\ m.team \notin ReadOnly
                      /\ m.op # "mkdir" => m.srcs = m.seen.chosen
                      /\ m.project = m.seen.project
                      /\ m.op \in {"mv", "cp", "mkdir"} =>
                            /\ m.place[1] = m.seen.dir
                            /\ (m.kind = "files" /\ ~m.seen.again)
                               => m.place \notin win.disk[m.team][m.project]
    BY DEF FilesChanged
  <2>1. m \in win.net /\ m.kind \in OpKinds /\ m.kind # "project"
    BY DEF Waiting, OpKinds
  <2>2. Ordered(win)
    BY DEF FilesKept, FilesIn, Fits
  <2>3. Meant(m, win) /\ m.team = win.team /\ win.team \notin ReadOnly /\ Fresh(m, win)
    BY <2>1, <2>2 DEF Ordered
  <2> QED
    BY <2>3 DEF Meant, Fresh, Placing
<1> QED
  BY <1>1, AlwaysFilesKept, PTL

-----------------------------------------------------------------------------
(* The page of errors. *)

(* It is open exactly while it lists some, and lists those that the model  *)
(* knows, unless it was left open when the team changed.                   *)
ErrorsIn(w, rc) == Paired(w) /\ ("left" \notin rc => Learnt(w))
ErrorsKept == ErrorsIn(win, raced)

LEMMA TruedIn ==
  ASSUME NEW r, NEW w, NEW rc, Trued(r, w), ErrorsIn(w, rc) PROVE ErrorsIn(r, rc)
BY DEF Trued, ErrorsIn

(* No other page but the bar changes it. *)
LEMMA ErrorsOwned ==
  ASSUME NEW x \in PageNames, x \notin {"errors", "bar"}
  PROVE  "errors" \notin ShellParts \cup PartsOf(x) /\ ~Shutting(x, "errors")
         /\ "errors" \notin TabsOf(x)
<1>1. "errors" \notin Files /\ "errors" \notin LogTabs
  BY Facts DEF PageTabs, LogTabs
<1> USE DEF PartsOf, TabsOf, ShellParts, Shutting, Shuts
<1>2. CASE x = "menu" BY <1>1, <1>2
<1>3. CASE x = "file" BY <1>1, <1>3
<1>4. CASE x = "search" BY <1>1, <1>4
<1>5. CASE x = "settings" BY <1>1, <1>5
<1>6. CASE x = "logs" BY <1>1, <1>6
<1>7. CASE x = "diff" BY <1>1, <1>7
<1>8. CASE x = "calendar" BY <1>1, <1>8
<1>9. CASE x = "admin" BY <1>1, <1>9
<1>10. CASE x = "status" BY <1>1, <1>10
<1>11. CASE x = "files" BY <1>1, <1>11
<1>12. CASE x = "edit" BY <1>1, <1>12
<1>13. CASE x = "start" BY <1>1, <1>13
<1> QED
  BY <1>2, <1>3, <1>4, <1>5, <1>6, <1>7, <1>8, <1>9, <1>10, <1>11, <1>12, <1>13 DEF PageNames

LEMMA ErrorsLeft ==
  ASSUME NEW x \in PageNames, x \notin {"errors", "bar"}, NEW r, NEW w, Page(x, r, w)
  PROVE  Trued(r, w)
<1>1. "errors" \notin ShellParts \cup PartsOf(x) /\ ~Shutting(x, "errors")
      /\ "errors" \notin TabsOf(x)
  BY ErrorsOwned
<1>2. "errors" \in Tabs \ Files /\ "errors" \in Parts \ BarParts
  BY Facts DEF PageTabs, Parts, BarParts
<1>3. r.errors = w.errors
  BY <1>1, <1>2, Leaves
<1>4. IsOpen(r, "errors") => IsOpen(w, "errors")
  BY <1>1, <1>2, Leaves
<1>5. IsOpen(w, "errors") => IsOpen(r, "errors")
  BY <1>1, <1>2 DEF Page, Touches, Frames, Shutting
<1> QED
  BY <1>3, <1>4, <1>5, TruedSame

(* A page's steps. *)
LEMMA ErrorsOn ==
  ASSUME Orderly, TeamShown, NEW x \in PageNames, StepOn(x) PROVE Trued(win', win)
<1>1. Whole(win) /\ Again(win.offer) /\ (\A m \in win.net : Formed(m))
      /\ (Waiting({"lint"}) # {} => IsOpen(win, "projects"))
  BY DEF Orderly, TeamShown, Waiting
<1>2. CASE x = "errors"
  <2>1. ErrorsSteps
    BY <1>2 DEF StepOn
  <2> QED
    BY <1>1, <2>1, ErrorsTouch
<1>3. CASE x = "bar"
  <2>1. BarSteps
    BY <1>3 DEF StepOn
  <2> QED
    BY <1>1, <2>1, BarTouches
<1>4. CASE x \notin {"errors", "bar"}
  <2>1. Page(x, win', win)
    BY StepTouches
  <2> QED
    BY <1>4, <2>1, ErrorsLeft
<1> QED
  BY <1>2, <1>3, <1>4

(* Another team's model knows of no errors, which no open page contradicts. *)
LEMMA ErrorsGo ==
  ASSUME NEW u, NEW t, NEW r, Goes(r, u, t), Paired(u)
  PROVE  Paired(r) /\ (~IsOpen(u, "errors") => Learnt(r))
<1>1. r.errors.listed = u.errors.listed /\ (IsOpen(r, "errors") <=> IsOpen(u, "errors"))
  BY DEF Goes, PageTabs
<1> QED
  BY <1>1 DEF Paired, Learnt, Entries

LEMMA ErrorsTeam ==
  ASSUME PagesInv, ErrorsKept, Next, NEW t \in Teams, SelectsTeam(t)
  PROVE  ErrorsIn(win', raced')
<1> DEFINE a == Unprompt(win, "none")
           c == CloseAllTabs(a)
<1>1. /\ win' = IF Modified(c) = {} THEN TeamChanged(c, t, FALSE) ELSE c
      /\ Modified(c) = {} /\ (\E u \in PageTabs : IsOpen(c, u)) => "left" \in raced'
  BY DEF SelectsTeam
<1>2. Whole(win)
  BY DEF PagesInv, Orderly
<1>3. Page("bar", a, win) /\ a.tabs = win.tabs /\ a.errors = win.errors
  <2>1. Page("bar", a, win)
    BY <1>2, PageNothing, ThenUnprompt
  <2>2. a.tabs = win.tabs /\ a.errors = win.errors
    <3>1. Say(win).tabs = win.tabs /\ Say(win).errors = win.errors
      BY <1>2, SayErrors
    <3> QED
      BY <3>1 DEF Unprompt
  <2> QED
    BY <2>1, <2>2
<1>4. Trued(a, win)
  BY <1>3, TruedSame DEF IsOpen
<1> HIDE DEF a
<1>5. Whole(c) /\ Trued(c, a)
  BY <1>3, BarCloses, CloseAllTouches, PageWhole
<1> HIDE DEF c
<1>6. ErrorsIn(c, raced')
  <2>1. ErrorsIn(win, raced')
    BY RacedGrows DEF ErrorsKept, ErrorsIn
  <2> QED
    BY <1>4, <1>5, <2>1, TruedIn
<1>7. CASE Modified(c) # {}
  BY <1>1, <1>6, <1>7
<1>8. CASE Modified(c) = {}
  <2>1. Goes(win', c, t)
    BY <1>1, <1>5, <1>8, TeamGoes
  <2>2. "left" \notin raced' => ~IsOpen(c, "errors")
    BY <1>1, <1>8 DEF PageTabs
  <2> QED
    BY <1>6, <2>1, <2>2, ErrorsGo DEF ErrorsIn
<1> QED
  BY <1>7, <1>8

LEMMA ErrorsGui ==
  ASSUME PagesInv, ErrorsKept, NEW m \in Waiting({"user"}), GotUser(m)
  PROVE  ErrorsIn(win', raced')
<1> DEFINE w == Answered(m)
           bar == AddTab([w EXCEPT !.loaded = TRUE], "shortcuts")
           t == TeamToLoad(w.settings.mine)
<1>1. /\ Orderly /\ Starts /\ Whole(win) /\ m \in win.net /\ m.kind = "user"
  BY DEF PagesInv, Orderly, Waiting
<1>2. win.tabs = <<>>
  BY <1>1 DEF Starts, Waiting
<1>3. /\ win' = IF t \in Teams THEN TeamChanged(bar, t, TRUE) ELSE Say(bar)
      /\ raced' = raced
  BY DEF GotUser, LoadGui, Arrives
<1>4. Page("start", w, win) /\ w.tabs = <<>> /\ w.errors = win.errors
  <2>1. Page("start", w, win)
    BY <1>1, PageAnswered DEF AsksOf
  <2>2. w.tabs = win.tabs /\ w.errors = win.errors
    BY <1>1 DEF Answered, Whole, Base, IsRecord, Parts
  <2> QED
    BY <1>2, <2>1, <2>2
<1> HIDE DEF w
<1>5. Whole(w)
  BY <1>4, PageWhole
<1>6. /\ Whole(bar) /\ bar.errors = w.errors /\ ~IsOpen(bar, "errors")
  BY <1>4, <1>5, BarIs DEF Parts
<1> HIDE DEF bar, t
<1>7. ErrorsIn(bar, raced')
  <2>1. ~IsOpen(win, "errors")
    BY <1>2 DEF IsOpen, Contains
  <2> QED
    BY <1>3, <1>4, <1>6, <2>1, TruedSame, TruedIn DEF ErrorsKept
<1>8. CASE t \in Teams
  <2>1. Goes(win', bar, t)
    BY <1>3, <1>6, <1>8, TeamGoes
  <2> QED
    BY <1>6, <1>7, <2>1, ErrorsGo DEF ErrorsIn
<1>9. CASE t \notin Teams
  <2>1. Say(bar).tabs = bar.tabs /\ Say(bar).errors = bar.errors
    BY <1>6, SayErrors
  <2> QED
    BY <1>3, <1>7, <1>9, <2>1, TruedSame, TruedIn DEF IsOpen
<1> QED
  BY <1>8, <1>9

LEMMA ErrorsStart == ASSUME Init PROVE ErrorsKept
<1>1. win.tabs = <<>> /\ win.errors = NoErrors
  BY InitWindow
<1>2. ~IsOpen(win, "errors")
  BY <1>1 DEF IsOpen, Contains
<1>3. Entries(win) = {}
  BY <1>1 DEF Entries, NoErrors
<1> QED
  BY <1>2, <1>3 DEF ErrorsKept, ErrorsIn, Paired, Learnt

LEMMA ErrorsStep == ASSUME PagesInv, ErrorsKept, [Next]_vars PROVE ErrorsKept'
<1>1. ASSUME ErrorsIn(win', raced') PROVE ErrorsKept'
  BY <1>1 DEF ErrorsKept
<1>2. ASSUME Next PROVE ErrorsIn(win', raced')
  <2>1. ASSUME NEW x \in PageNames, StepOn(x) PROVE ErrorsIn(win', raced')
    <3>1. Trued(win', win)
      BY <2>1, ErrorsOn DEF PagesInv
    <3>2. ErrorsIn(win, raced')
      BY <1>2, RacedGrows DEF ErrorsKept, ErrorsIn
    <3> QED
      BY <3>1, <3>2, TruedIn
  <2> QED
    BY <1>2, <2>1, NextSplits, ErrorsTeam, ErrorsGui
<1>3. ASSUME UNCHANGED vars PROVE ErrorsIn(win', raced')
  <2>1. win' = win /\ raced' = raced
    BY <1>3 DEF vars
  <2> QED
    BY <2>1 DEF ErrorsKept
<1> QED
  BY <1>1, <1>2, <1>3

(* Whatever order checks are answered in, the errors page is open exactly  *)
(* while a file is listed, and, unless it stayed open while the team       *)
(* changed, lists of a file what the model last learnt of it; the marks in *)
(* the tab of an open file are those listed, save in a tab that was to be  *)
(* marked once loaded and was cleared before (errors.js:37-122, 152-202,   *)
(* errors-model.js:80-105).                                                *)
THEOREM ErrorsAreShown == Spec => []ErrorsShown
<1>1. PagesInv /\ ErrorsKept /\ [Next]_vars => ErrorsKept'
  BY ErrorsStep
<1>2. PagesInv /\ ErrorsKept => ErrorsShown
  <2> SUFFICES ASSUME PagesInv, ErrorsKept PROVE ErrorsShown
    OBVIOUS
  <2>1. Paired(win) /\ ("left" \notin raced => Learnt(win))
    BY DEF ErrorsKept, ErrorsIn
  <2>2. Marked(win)
    BY DEF PagesInv, Orderly, Whole, Base
  <2>3. ASSUME NEW f \in OpenFiles(win)
        PROVE  win.edit[f].marks \in {0, win.errors.listed[f]} \/ win.edit[f].late
    BY <2>2 DEF Marked, Tab, Rightly, OpenFiles
  <2> QED
    BY <2>1, <2>3 DEF ErrorsShown, Paired, Learnt
<1> QED
  BY <1>1, <1>2, ErrorsStart, AlwaysPagesInv, PTL DEF Spec

-----------------------------------------------------------------------------
(* The page of the search. *)

SearchKept == SearchIn(win, raced)

LEMMA SearchAloof == ASSUME NEW x \in PageNames, x \notin {"search", "bar"} PROVE Aloof(x)
<1>1. "search" \notin Files /\ "search" \notin LogTabs
  BY Facts DEF PageTabs, LogTabs
<1> USE DEF PartsOf, TabsOf, AsksOf, ShellParts, ShellKinds, SearchKinds, Shutting, Shuts, Aloof
<1>2. CASE x = "menu" BY <1>1, <1>2
<1>3. CASE x = "file" BY <1>1, <1>3
<1>4. CASE x = "errors" BY <1>1, <1>4
<1>5. CASE x = "settings" BY <1>1, <1>5
<1>6. CASE x = "logs" BY <1>1, <1>6 DEF LogKinds
<1>7. CASE x = "diff" BY <1>1, <1>7
<1>8. CASE x = "calendar" BY <1>1, <1>8
<1>9. CASE x = "admin" BY <1>1, <1>9 DEF AdminKinds
<1>10. CASE x = "status" BY <1>1, <1>10 DEF StatusKinds
<1>11. CASE x = "files" BY <1>1, <1>11 DEF OpKinds, DialogKinds
<1>12. CASE x = "edit" BY <1>1, <1>12
<1>13. CASE x = "start" BY <1>1, <1>13
<1> QED
  BY <1>2, <1>3, <1>4, <1>5, <1>6, <1>7, <1>8, <1>9, <1>10, <1>11, <1>12, <1>13 DEF PageNames

LEMMA SearchForSeeks ==
  ASSUME PagesInv, SearchKept, NEW q \in Queries, Searches(q) PROVE SearchIn(win', raced')
<1> DEFINE r == SearchFor(win, q)
           open == {f \in OpenFiles(win) : Matches(win, f, q)}
           named == {p \in Listed(win) : q \in Named[p]}
           local == {Result("contents", x, q) : x \in open}
           names == {Result("projects", x, q) : x \in named}
<1>1. Whole(win) /\ Placed(win)
  BY DEF PagesInv, Orderly, SearchKept, SearchIn
<1>2. /\ win' = r /\ win.cur = "search"
      /\ raced' = IF Waiting(SearchKinds) # {} THEN raced \cup {"hasty"} ELSE raced
  BY DEF Searches, Busy, Acts
<1>3. IsOpen(win, "search") /\ win.team \in Teams
  <2>1. "search" \in Tabs
    BY DEF Tabs, PageTabs
  <2> QED
    BY <1>1, <1>2, <2>1 DEF Whole, Fronted, Placed
<1>4. IsRecord(win.search, SearchFields)
  BY <1>1 DEF Placed
<1>5. /\ IsRecord(r.search, SearchFields)
      /\ r.search.query = q /\ r.search.lost = {} /\ ~r.search.cancelled /\ ~r.search.cleared
      /\ (r.search.async <=> Listed(win) # {}) /\ r.search.local = OpenFiles(win)
      /\ r.search.results = (EmptyBag (+) SetToBag(local)) (+) SetToBag(names)
      /\ r.team = win.team /\ \A t : IsOpen(r, t) <=> IsOpen(win, t)
      /\ \A m \in r.net : m \in win.net
            \/ \E k \in SearchKinds, p \in Listed(win) : \E n :
                  m = [kind |-> k, team |-> win.team, project |-> p, query |-> q,
                       nth |-> n, again |-> FALSE]
      /\ \A k \in SearchKinds, p \in Listed(win) : Sought(r, k, p)
      /\ \A m, n \in r.net : m \in win.net \/ n \in win.net \/ m.kind # n.kind
                             \/ m.project # n.project \/ m = n
  BY <1>1, <1>4, SearchForIs
<1> HIDE DEF r
<1>6. /\ Listed(win) = {p \in Projects : Trees[win.team][p] # {}}
      /\ Listed(r) = Listed(win)
  BY <1>3, <1>5, TeamsAssumption DEF Listed
<1>7. /\ \A m \in r.net : m \in win.net
            \/ (m.team = win.team /\ m.query = q /\ m.project \in Listed(win))
  BY <1>5
<1>8. \A e \in local : /\ e.item \in OpenFiles(win) /\ e.section = "contents" /\ e.query = q
                       /\ e.item \in Files
  BY DEF Result, OpenFiles
<1>9. \A e \in names : e.item \in Projects /\ e.section = "projects" /\ e.query = q
  BY <1>6 DEF Result
<1>10. \A p \in Listed(win) : q \in Named[p] => Result("projects", p, q) \in names
  OBVIOUS
<1> HIDE DEF local, names
<1>11. DOMAIN EmptyBag = {}
  BY DEF EmptyBag, SetToBag
<1>12. /\ DOMAIN r.search.results = local \cup names
       /\ \A e \in local \cup names : r.search.results[e] = 1
  <2> DEFINE b == EmptyBag (+) SetToBag(local)
  <2>1. DOMAIN b = local /\ \A e \in local : b[e] = 1
    BY <1>11, BagAdded
  <2> HIDE DEF b
  <2>2. /\ DOMAIN (b (+) SetToBag(names)) = local \cup names
        /\ \A e \in names \ local : (b (+) SetToBag(names))[e] = 1
        /\ \A e \in local \ names : (b (+) SetToBag(names))[e] = 1
    BY <2>1, BagAdded
  <2>3. local \cap names = {}
    BY <1>8, <1>9
  <2>4. r.search.results = b (+) SetToBag(names)
    BY <1>5 DEF b
  <2> QED
    BY <2>2, <2>3, <2>4
<1>13. Placed(r)
  <2>1. \A e \in DOMAIN r.search.results : e.item \in Files \cup Projects
    BY <1>8, <1>9, <1>12
  <2>2. \A m \in r.net : Seeks(m) => m.team \in Teams /\ m.project \in Projects /\ r.team \in Teams
    BY <1>1, <1>3, <1>5, <1>6, <1>7 DEF Placed
  <2> QED
    BY <1>3, <1>5, <2>1, <2>2 DEF Placed
<1>14. raced' = {} => raced = {} /\ \A m \in win.net : ~Seeks(m)
  BY <1>2 DEF Waiting, Seeks
<1>15. ASSUME Teamless => raced' = {} PROVE Hushed(r)
  <2>1. ASSUME NEW m \in r.net, Seeks(m), Listed(win) = {} PROVE FALSE
    <3>1. Teamless
      BY <1>3, <1>6, <2>1 DEF Teamless
    <3>2. \A n \in win.net : ~Seeks(n)
      BY <1>14, <1>15, <3>1
    <3> QED
      BY <1>7, <2>1, <3>2
  <2> QED
    BY <1>3, <1>5, <2>1 DEF Hushed
<1>16. ASSUME raced' = {} PROVE Searched(r)
  <2>1. \A m \in win.net : ~Seeks(m)
    BY <1>14, <1>16
  <2>2. AskedFor(r, r.search)
    BY <1>5, <1>6, <1>7, <2>1 DEF AskedFor
  <2>3. Unmixed(r, r.search)
    <3> SUFFICES ASSUME NEW e \in DOMAIN r.search.results
                 PROVE  /\ e.query = r.search.query /\ r.search.results[e] = 1
                        /\ e.section = "contents" => e.item \in r.search.local
                        /\ e.section # "names"
      BY DEF Unmixed
    <3> QED
      BY <1>5, <1>8, <1>9, <1>12
  <2>4. Full(r, r.search)
    <3>1. \A p \in Listed(r) : Lists(r.search, "projects", {x \in {p} : q \in Named[x]})
      BY <1>6, <1>10, <1>12, <1>5 DEF Lists
    <3>2. \A k \in SearchKinds, p \in Listed(r) : Missing(r, r.search, k, p)
      BY <1>5, <1>6 DEF Missing
    <3> QED
      BY <1>5, <3>1, <3>2 DEF Full, SearchKinds
  <2> QED
    BY <2>2, <2>3, <2>4 DEF Searched
<1> QED
  BY <1>2, <1>13, <1>15, <1>16 DEF SearchIn

(* An answer that is not taken, and one that is.                           *)
LEMMA AnsweredSeeks ==
  ASSUME PagesInv, SearchKept, NEW m \in Waiting(SearchKinds)
  PROVE  LET a == Answered(m)
         IN /\ IsRecord(a, Parts) /\ a.search = win.search /\ a.net = win.net \ {m}
            /\ a.team = win.team /\ \A t : IsOpen(a, t) <=> IsOpen(win, t)
            /\ Placed(a) /\ (Hushed(win) => Hushed(a))
<1> DEFINE a == Answered(m)
<1>1. IsRecord(win, Parts) /\ Placed(win)
  BY DEF PagesInv, Orderly, Whole, Base, SearchKept, SearchIn
<1>2. /\ IsRecord(a, Parts) /\ a.search = win.search /\ a.net = win.net \ {m}
      /\ a.team = win.team /\ a.tabs = win.tabs
  BY <1>1 DEF Answered, IsRecord, Parts
<1> HIDE DEF a
<1>3. \A t : IsOpen(a, t) <=> IsOpen(win, t)
  BY <1>2 DEF IsOpen
<1>4. Placed(a) /\ (Hushed(win) => Hushed(a))
  BY <1>1, <1>2, <1>3 DEF Placed, Hushed
<1> QED
  BY <1>2, <1>3, <1>4 DEF a

LEMMA GotSeeks ==
  ASSUME PagesInv, SearchKept, NEW m \in Waiting(SearchKinds), GotResults(m)
  PROVE  SearchIn(win', raced')
<1> DEFINE a == Answered(m)
           s == win.search
           q == IF m.kind = "contents" THEN m.query ELSE s.query
           xs == Finds(m, s, m.kind, m.team, m.project)
           new == {Result(m.kind, x, q) : x \in xs}
           r == AddResults(a, m.kind, xs, q)
<1>1. /\ IsRecord(a, Parts) /\ a.search = s /\ a.net = win.net \ {m}
      /\ a.team = win.team /\ (\A t : IsOpen(a, t) <=> IsOpen(win, t))
      /\ Placed(a) /\ (Hushed(win) => Hushed(a))
  BY AnsweredSeeks
<1>2. /\ m \in win.net /\ Seeks(m) /\ m.kind \in {"contents", "names"}
      /\ Placed(win) /\ raced' = raced
  BY DEF Waiting, Seeks, SearchKinds, SearchKept, SearchIn, GotResults, Arrives
<1>3. /\ (Teamless => raced' = {}) => Hushed(win)
      /\ raced' = {} /\ ~s.cleared => Searched(win)
  BY <1>2 DEF SearchKept, SearchIn
<1>4. win' = IF s.cancelled THEN a ELSE r
  <2>1. m.kind = "contents" => TakesMatches(a, m) = r
    BY <1>1 DEF TakesMatches, Finds
  <2>2. m.kind = "names" => TakesNames(a, m) = r
    BY <1>1 DEF TakesNames, Finds
  <2> QED
    BY <1>2, <2>1, <2>2 DEF GotResults
<1>5. xs \subseteq Files
  BY <1>2, SearchAssumption DEF Finds, Placed
<1>6. CASE s.cancelled
  <2>1. s.cleared
    BY <1>2, <1>6 DEF Placed
  <2> QED
    BY <1>1, <1>3, <1>4, <1>6, <2>1 DEF SearchIn
<1>7. CASE ~s.cancelled
  <2>1. /\ IsRecord(r, Parts) /\ \A x \in Parts \ {"search"} : r[x] = a[x]
        /\ Others(r.search, s, "results") /\ r.search.results = s.results (+) SetToBag(new)
    <3>1. IsRecord(a.search, SearchFields)
      BY <1>1, <1>2 DEF Placed
    <3> HIDE DEF a, xs, q
    <3> QED
      BY <1>1, <3>1, AddResultsIs
  <2> HIDE DEF r, a
  <2>2. /\ r.net = win.net \ {m} /\ r.team = win.team /\ r.tabs = a.tabs
    BY <1>1, <2>1 DEF Parts
  <2>3. \A t : IsOpen(r, t) <=> IsOpen(win, t)
    BY <1>1, <2>2 DEF IsOpen
  <2>4. /\ IsRecord(r.search, SearchFields) /\ r.search.cleared = s.cleared
        /\ r.search.cancelled = s.cancelled /\ r.search.async = s.async
    BY <2>1 DEF Others, SearchFields
  <2>5. Placed(r)
    <3>1. DOMAIN r.search.results = DOMAIN s.results \cup new
      BY <2>1, BagAdded
    <3>2. \A e \in new : e.item \in Files
      BY <1>5 DEF Result
    <3>3. \A e \in DOMAIN r.search.results : e.item \in Files \cup Projects
      BY <1>2, <3>1, <3>2 DEF Placed
    <3> QED
      BY <1>2, <2>2, <2>3, <2>4, <3>3 DEF Placed
  <2>6. ASSUME Hushed(win) PROVE Hushed(r)
    <3>1. IsOpen(win, "search") /\ s.async
      BY <1>2, <1>7, <2>6 DEF Hushed
    <3> QED
      BY <2>3, <2>4, <3>1 DEF Hushed
  <2>7. ASSUME raced' = {}, ~r.search.cleared PROVE Searched(r)
    <3>1. Searched(win)
      BY <1>3, <2>4, <2>7
    <3>2. m.team = win.team /\ m.query = s.query /\ win.team \in Teams
      BY <1>2, <3>1 DEF Searched, AskedFor, Placed
    <3>3. new = {Result(m.kind, x, s.query) : x \in Finds(m, s, m.kind, win.team, m.project)}
      BY <3>2
    <3> HIDE DEF new
    <3> QED
      BY <1>2, <2>1, <2>2, <3>1, <3>2, <3>3, TakenFinds
  <2> QED
    BY <1>3, <1>4, <1>7, <2>5, <2>6, <2>7 DEF SearchIn
<1> QED
  BY <1>6, <1>7

LEMMA FailSeeks ==
  ASSUME PagesInv, SearchKept, NEW m \in Waiting(SearchKinds), FailResults(m)
  PROVE  SearchIn(win', raced')
<1> DEFINE a == Answered(m)
           s == win.search
           k == m.kind
           o == m.project
           v == [s EXCEPT !.lost = s.lost \cup {<<k, o>>}]
           lost == [a EXCEPT !.search = v]
           n == [kind |-> k, team |-> win.team, project |-> o, query |-> s.query,
                 nth |-> m.nth, again |-> TRUE]
           again == Ask(a, n)
<1>1. /\ IsRecord(a, Parts) /\ a.search = s /\ a.net = win.net \ {m}
      /\ a.team = win.team /\ (\A t : IsOpen(a, t) <=> IsOpen(win, t))
      /\ Placed(a) /\ (Hushed(win) => Hushed(a))
  BY AnsweredSeeks
<1>2. /\ m \in win.net /\ Seeks(m) /\ k \in SearchKinds /\ Placed(win) /\ raced' = raced
  BY DEF Waiting, Seeks, SearchKept, SearchIn, FailResults, Fails
<1>3. /\ (Teamless => raced' = {}) => Hushed(win)
      /\ raced' = {} /\ ~s.cleared => Searched(win)
  BY <1>2 DEF SearchKept, SearchIn
<1>4. win' = IF s.cancelled \/ m.again THEN lost ELSE again
  <2>1. [SearchAsk(win, k, o, TRUE) EXCEPT !.nth = m.nth] = n
    <3> DEFINE twice == TRUE
    <3> HIDE DEF twice
    <3>1. [SearchAsk(win, k, o, twice) EXCEPT !.nth = m.nth] 
            = [kind |-> k, team |-> win.team, project |-> o, query |-> s.query,
               nth |-> m.nth, again |-> twice]
      BY AgainIs
    <3> QED
      BY <3>1 DEF twice
  <2> QED
    BY <1>1, <2>1 DEF FailResults
<1>5. ASSUME Searched(win)
      PROVE  /\ m.team = win.team /\ m.query = s.query /\ o \in Listed(win)
             /\ AskedFor(win, s) /\ Unmixed(win, s) /\ Full(win, s)
             /\ \A l \in win.net : Seeks(l) /\ l.kind = k /\ l.project = o => l = m
  BY <1>2, <1>5 DEF Searched, AskedFor
<1>6. CASE s.cancelled \/ m.again
  <2> DEFINE r == lost
  <2>1. Others(v, s, "lost") /\ v.lost = s.lost \cup {<<k, o>>}
    BY <1>2 DEF Placed, Others, IsRecord, SearchFields
  <2> HIDE DEF v
  <2>2. Sets(r, a, "search", v)
    BY <1>1, PartIs DEF Parts
  <2> HIDE DEF a, r
  <2>3. r.search = v /\ r.net = win.net \ {m} /\ r.team = win.team /\ r.tabs = a.tabs
    BY <1>1, <2>2 DEF Sets, Parts
  <2>4. \A t : IsOpen(r, t) <=> IsOpen(win, t)
    BY <1>1, <2>3 DEF IsOpen
  <2>5. /\ IsRecord(v, SearchFields) /\ v.results = s.results /\ v.query = s.query
        /\ v.local = s.local /\ v.cleared = s.cleared /\ v.cancelled = s.cancelled
        /\ v.async = s.async
    BY <2>1 DEF Others, SearchFields
  <2>6. Placed(r)
    BY <1>2, <2>3, <2>4, <2>5 DEF Placed
  <2>7. Hushed(win) => Hushed(r)
    BY <2>3, <2>4, <2>5 DEF Hushed
  <2>8. ASSUME Searched(win) PROVE Searched(r)
    <3>1. /\ Listed(r) = Listed(win)
          /\ \A l, p : Sought(r, l, p) => Sought(win, l, p)
          /\ \A l, p : Sought(win, l, p) => Sought(r, l, p) \/ (l = k /\ p = o)
      BY <2>3 DEF Listed, Sought
    <3>2. \A l, x : Come(win, l, x) => Come(r, l, x)
      BY <2>3, <3>1 DEF Come
    <3>3. \A l, p : Missing(win, s, l, p) => Missing(r, v, l, p)
      BY <2>1, <3>1 DEF Missing
    <3>4. AskedFor(r, v)
      BY <1>5, <2>3, <2>5, <2>8, <3>1 DEF AskedFor
    <3>5. Unmixed(r, v)
      BY <1>5, <2>5, <2>8, <3>2 DEF Unmixed
    <3>6. \A section, ys : Lists(s, section, ys) => Lists(v, section, ys)
      BY <2>5 DEF Lists
    <3>7. Full(r, v)
      BY <1>5, <2>3, <2>5, <2>8, <3>1, <3>3, <3>6 DEF Full
    <3> QED
      BY <2>3, <3>4, <3>5, <3>7 DEF Searched
  <2> QED
    BY <1>3, <1>4, <1>6, <2>3, <2>5, <2>6, <2>7, <2>8 DEF SearchIn, r
<1>7. CASE ~s.cancelled /\ ~m.again
  <2> DEFINE r == again
  <2>1. Sets(r, a, "net", a.net \cup {n})
    <3> HIDE DEF a, n
    <3> QED
      BY <1>1, AskIs
  <2>2. n.kind = k /\ n.team = win.team /\ n.project = o /\ n.query = s.query /\ Seeks(n)
    BY <1>2 DEF Seeks
  <2> HIDE DEF a, r, n
  <2>3. r.search = s /\ r.net = (win.net \ {m}) \cup {n} /\ r.team = win.team /\ r.tabs = a.tabs
    BY <1>1, <2>1 DEF Sets, Parts
  <2>4. \A t : IsOpen(r, t) <=> IsOpen(win, t)
    BY <1>1, <2>3 DEF IsOpen
  <2>5. Placed(r)
    BY <1>2, <2>2, <2>3, <2>4 DEF Placed
  <2>6. ASSUME Hushed(win) PROVE Hushed(r)
    <3>1. IsOpen(win, "search") /\ s.async
      BY <1>2, <1>7, <2>6 DEF Hushed
    <3> QED
      BY <2>3, <2>4, <3>1 DEF Hushed
  <2>7. ASSUME Searched(win) PROVE Searched(r)
    <3>1. /\ Listed(r) = Listed(win)
          /\ \A l, p : Sought(r, l, p) <=> Sought(win, l, p)
      BY <1>2, <2>2, <2>3 DEF Listed, Sought
    <3>2. \A l, x : Come(win, l, x) => Come(r, l, x)
      BY <2>3, <3>1 DEF Come
    <3>3. \A l, p : Missing(win, s, l, p) => Missing(r, s, l, p)
      BY <3>1 DEF Missing
    <3>4. AskedFor(r, s)
      BY <1>5, <2>2, <2>3, <2>7, <3>1 DEF AskedFor
    <3>5. Unmixed(r, s)
      BY <1>5, <2>7, <3>2 DEF Unmixed
    <3>6. Full(r, s)
      BY <1>5, <2>3, <2>7, <3>1, <3>3 DEF Full
    <3> QED
      BY <2>3, <3>4, <3>5, <3>6 DEF Searched
  <2> QED
    BY <1>3, <1>4, <1>7, <2>3, <2>5, <2>6, <2>7 DEF SearchIn, r
<1> QED
  BY <1>6, <1>7

(* What the user did counts from then on. *)
LEMMA SearchLater ==
  ASSUME SearchKept, NEW rc, raced \subseteq rc PROVE SearchIn(win, rc)
BY DEF SearchKept, SearchIn

LEMMA OpenSeeks ==
  ASSUME PagesInv, NEW rc, SearchIn(win, rc) PROVE SearchIn(OpenSearch(win), rc)
<1> DEFINE a == AddTab(win, "search")
           b == ClearResults(a)
           r == SwitchTo(b, "search")
<1>1. /\ Whole(win) /\ Placed(win) /\ IsRecord(win, Parts)
      /\ win.team \in Teams \cup {None} /\ (win.team # None => IsOpen(win, "projects"))
  BY DEF PagesInv, Orderly, Whole, Base, TeamShown, SearchIn
<1>2. CASE IsOpen(win, "search")
  BY <1>2 DEF OpenSearch
<1>3. CASE ~IsOpen(win, "search") /\ win.team = None
  <2>1. SearchIn(Say(win), rc)
    BY <1>1, ShellSay, ShellCloses, ClosedSeeks DEF Seeking
  <2> QED
    BY <1>3, <2>1 DEF OpenSearch
<1>4. CASE ~IsOpen(win, "search") /\ win.team # None
  <2>1. Addable(win, "search") /\ win.cur \in Tabs
    BY <1>1, <1>4, SomeFront, Facts DEF Addable, Tabs, PageTabs, LogTabs
  <2>2. Page("search", a, win) /\ \A t : IsOpen(a, t) <=> IsOpen(win, t) \/ t = "search"
    BY <1>1, <2>1, PageNothing, ThenAddTab, AddTabBase DEF TabsOf
  <2>3. a.search = win.search /\ a.team = win.team /\ a.net = win.net
    BY <1>1 DEF AddTab, IsRecord, Parts
  <2> HIDE DEF a
  <2>4. SearchIn(a, rc)
    <3>1. Placed(a)
      BY <1>1, <1>4, <2>2, <2>3 DEF Placed
    <3>2. a.search.cleared /\ (Hushed(win) => Hushed(a))
      BY <1>1, <1>4, <2>2, <2>3 DEF Placed, Hushed
    <3> QED
      BY <3>1, <3>2 DEF SearchIn
  <2>5. Whole(a) /\ IsRecord(a, Parts)
    BY <2>2, PageWhole DEF Whole, Base
  <2>6. Page("search", b, a)
    BY <2>5, PageNothing, SearchOperators DEF PartsOf
  <2>7. Seeking(b, a)
    BY <2>5, ClearSeeks
  <2>8. IsOpen(b, "search") /\ "search" \in Tabs
    BY <2>2, <2>6, PageOpen DEF PartsOf, Tabs, PageTabs
  <2> HIDE DEF b
  <2>9. Seeking(r, b)
    BY <2>6, <2>8, PageWhole, ShellSwitch, ShellCloses, ClosedSeeks
  <2>10. OpenSearch(win) = r
    BY <1>4 DEF OpenSearch, a, b
  <2> HIDE DEF r
  <2> QED
    BY <2>4, <2>7, <2>9, <2>10 DEF Seeking
<1> QED
  BY <1>2, <1>3, <1>4

(* A step of any page. *)
LEMMA SearchOn ==
  ASSUME PagesInv, SearchKept, Next, NEW x \in PageNames, StepOn(x)
  PROVE  SearchIn(win', raced')
<1>1. SearchIn(win, raced')
  BY RacedGrows, SearchLater
<1>2. Whole(win) /\ TeamShown /\ IsRecord(win, Parts) /\ Orderly
  BY DEF PagesInv, Orderly, Whole, Base
<1>3. CASE x = "search"
  <2>1. SearchSteps
    BY <1>3 DEF StepOn
  <2>2. ASSUME ClearsSearch PROVE SearchIn(win', raced')
    BY <1>1, <1>2, <2>2, ClearSeeks DEF ClearsSearch, Seeking
  <2>3. ASSUME ShowsSearch PROVE SearchIn(win', raced')
    BY <1>1, <2>3, OpenSeeks DEF ShowsSearch
  <2>4. ASSUME NEW f \in Files, FollowsResult(f) PROVE SearchIn(win', raced')
    <3>1. "search" \in Tabs \ FarTabs
      BY DEF Tabs, PageTabs, FarTabs
    <3>2. IsOpen(win, "projects") /\ win' = EditFile(win, f, None)
      BY <1>2, <2>4, <3>1, TeamsTab DEF FollowsResult
    <3>3. Seeking(win', win)
      BY <1>2, <3>2, EditFileTouches, ShellCloses, ClosedSeeks
    <3> QED
      BY <1>1, <3>3 DEF Seeking
  <2> QED
    BY <2>1, <2>2, <2>3, <2>4, SearchForSeeks, GotSeeks, FailSeeks DEF SearchSteps
<1>4. CASE x = "bar"
  <2>1. BarSteps
    BY <1>4 DEF StepOn
  <2> QED
    BY <1>1, <1>2, <2>1, BarTouches DEF Seeking
<1>5. CASE x \notin {"search", "bar"}
  <2>1. Page(x, win', win) /\ Aloof(x)
    BY <1>2, <1>5, StepTouches, SearchAloof
  <2> QED
    BY <1>1, <2>1, AloofSeeks DEF Seeking
<1> QED
  BY <1>3, <1>4, <1>5

(* Another team: a search whose page is still open is no more judged. *)
LEMMA SearchGo ==
  ASSUME NEW u, NEW t \in Teams, NEW r, Goes(r, u, t), NEW rc, SearchIn(u, rc),
         ~u.search.cleared => rc # {}
  PROVE  SearchIn(r, rc)
<1>1. /\ r.search = u.search /\ r.team = t
      /\ (IsOpen(r, "search") <=> IsOpen(u, "search"))
  BY DEF Goes, PageTabs
<1>2. \A m \in r.net : Seeks(m) => m \in u.net
  BY DEF Goes, Seeks, SearchKinds, ShellKinds
<1>3. Placed(u)
  BY DEF SearchIn
<1>4. Placed(r)
  BY <1>1, <1>2, <1>3 DEF Placed
<1>5. Hushed(u) => Hushed(r)
  BY <1>1, <1>2 DEF Hushed
<1> QED
  BY <1>1, <1>4, <1>5 DEF SearchIn

LEMMA SearchTeam ==
  ASSUME PagesInv, SearchKept, Next, NEW t \in Teams, SelectsTeam(t)
  PROVE  SearchIn(win', raced')
<1> DEFINE a == Unprompt(win, "none")
           c == CloseAllTabs(a)
<1>1. /\ win' = IF Modified(c) = {} THEN TeamChanged(c, t, FALSE) ELSE c
      /\ Modified(c) = {} /\ (\E u \in PageTabs : IsOpen(c, u)) => "left" \in raced'
  BY DEF SelectsTeam
<1>2. Whole(win)
  BY DEF PagesInv, Orderly
<1>3. Page("bar", a, win) /\ Seeking(a, win)
  <2>1. Page("bar", a, win)
    BY <1>2, PageNothing, ThenUnprompt
  <2>2. Seeking(Say(win), win)
    BY <1>2, ShellSay, ShellCloses, ClosedSeeks
  <2> QED
    BY <2>1, <2>2, SeekingAlong DEF Unprompt
<1> HIDE DEF a
<1>4. Whole(c) /\ Seeking(c, a)
  BY <1>3, BarCloses, CloseAllTouches, PageWhole
<1> HIDE DEF c
<1>5. SearchIn(c, raced')
  <2>1. SearchIn(win, raced')
    BY RacedGrows, SearchLater
  <2> QED
    BY <1>3, <1>4, <2>1 DEF Seeking
<1>6. CASE Modified(c) # {}
  BY <1>1, <1>5, <1>6
<1>7. CASE Modified(c) = {}
  <2>1. Goes(win', c, t)
    BY <1>1, <1>4, <1>7, TeamGoes
  <2>2. ~c.search.cleared => IsOpen(c, "search")
    BY <1>5 DEF SearchIn, Placed
  <2>3. ~c.search.cleared => raced' # {}
    BY <1>1, <1>7, <2>2 DEF PageTabs
  <2> QED
    BY <1>5, <2>1, <2>3, SearchGo
<1> QED
  BY <1>6, <1>7

LEMMA SearchGui ==
  ASSUME PagesInv, SearchKept, NEW m \in Waiting({"user"}), GotUser(m)
  PROVE  SearchIn(win', raced')
<1> DEFINE w == Answered(m)
           bar == AddTab([w EXCEPT !.loaded = TRUE], "shortcuts")
           t == TeamToLoad(w.settings.mine)
<1>1. /\ Orderly /\ Starts /\ Whole(win) /\ m \in win.net /\ m.kind = "user"
  BY DEF PagesInv, Orderly, Waiting
<1>2. win.tabs = <<>>
  BY <1>1 DEF Starts, Waiting
<1>3. /\ win' = IF t \in Teams THEN TeamChanged(bar, t, TRUE) ELSE Say(bar)
      /\ raced' = raced
  BY DEF GotUser, LoadGui, Arrives
<1>4. /\ Page("start", w, win) /\ w.tabs = <<>> /\ w.search = win.search /\ w.team = win.team
      /\ w.net = win.net \ {m}
  <2>1. Page("start", w, win)
    BY <1>1, PageAnswered DEF AsksOf
  <2>2. /\ w.tabs = win.tabs /\ w.search = win.search /\ w.team = win.team
        /\ w.net = win.net \ {m}
    BY <1>1 DEF Answered, Whole, Base, IsRecord, Parts
  <2> QED
    BY <1>2, <2>1, <2>2
<1> HIDE DEF w
<1>5. Whole(w)
  BY <1>4, PageWhole
<1>6. /\ Whole(bar) /\ bar.search = w.search /\ bar.team = w.team /\ bar.net = w.net
      /\ ~IsOpen(bar, "search")
  BY <1>4, <1>5, BarIs DEF Parts
<1> HIDE DEF bar, t
<1>7. ~IsOpen(win, "search") /\ ~Seeks(m)
  BY <1>1, <1>2 DEF IsOpen, Contains, Seeks, SearchKinds
<1>8. SameSearch(bar, win)
  BY <1>4, <1>6, <1>7 DEF SameSearch
<1>9. SearchIn(bar, raced')
  BY <1>3, <1>8, SameSeeks DEF Seeking, SearchKept
<1>10. bar.search.cleared
  BY <1>6, <1>9 DEF SearchIn, Placed
<1>11. CASE t \in Teams
  <2>1. Goes(win', bar, t)
    BY <1>3, <1>6, <1>11, TeamGoes
  <2> QED
    BY <1>9, <1>10, <1>11, <2>1, SearchGo
<1>12. CASE t \notin Teams
  <2>1. Seeking(Say(bar), bar)
    BY <1>6, ShellSay, ShellCloses, ClosedSeeks
  <2> QED
    BY <1>3, <1>9, <1>12, <2>1 DEF Seeking
<1> QED
  BY <1>11, <1>12

LEMMA SearchStart == ASSUME Init PROVE SearchKept
<1>1. win.tabs = <<>> /\ win.search = NoSearch /\ win.net = {[kind |-> "user"]}
  BY InitWindow
<1>2. ~IsOpen(win, "search")
  BY <1>1 DEF IsOpen, Contains
<1>3. \A m \in win.net : ~Seeks(m)
  BY <1>1 DEF Seeks, SearchKinds
<1>4. /\ IsRecord(win.search, SearchFields)
      /\ win.search.results = EmptyBag /\ win.search.cleared
  <2> DEFINE yes == TRUE
             no == FALSE
  <2>1. win.search = [query |-> None, nth |-> 0, local |-> {}, cancelled |-> no, async |-> no,
                      results |-> EmptyBag, lost |-> {}, cleared |-> yes]
    BY <1>1 DEF NoSearch
  <2> HIDE DEF yes, no
  <2>2. IsRecord(win.search, SearchFields)
    BY <2>1 DEF IsRecord, SearchFields
  <2>3. win.search.results = EmptyBag /\ win.search.cleared = yes
    BY <2>1
  <2> QED
    BY <2>2, <2>3 DEF yes
<1>5. DOMAIN win.search.results = {}
  BY <1>4 DEF EmptyBag, SetToBag
<1> QED
  BY <1>2, <1>3, <1>4, <1>5 DEF SearchKept, SearchIn, Placed, Hushed

LEMMA SearchStep == ASSUME PagesInv, SearchKept, [Next]_vars PROVE SearchKept'
<1>1. ASSUME SearchIn(win', raced') PROVE SearchKept'
  BY <1>1 DEF SearchKept
<1>2. ASSUME Next PROVE SearchIn(win', raced')
  BY <1>2, NextSplits, SearchOn, SearchTeam, SearchGui
<1>3. ASSUME UNCHANGED vars PROVE SearchIn(win', raced')
  <2>1. win' = win /\ raced' = raced
    BY <1>3 DEF vars
  <2> QED
    BY <2>1 DEF SearchKept
<1> QED
  BY <1>1, <1>2, <1>3

(* A search page that is closed holds no results, and one whose answers    *)
(* have all come shows what its last query finds, each match once, unless  *)
(* the user was hasty (search.js:71-118, 270-279, 281-408).                *)
THEOREM SearchIsShown == Spec => []SearchShows
<1>1. PagesInv /\ SearchKept /\ [Next]_vars => SearchKept'
  BY SearchStep
<1>2. SearchKept => SearchShows
  <2> SUFFICES ASSUME SearchKept PROVE SearchShows
    OBVIOUS
  <2> DEFINE s == win.search
  <2>1. ASSUME Teamless => raced = {}, ~IsOpen(win, "search") PROVE s.results = EmptyBag
    BY <2>1 DEF SearchKept, SearchIn, Hushed
  <2>2. ASSUME raced = {}, Waiting(SearchKinds) = {}, ~s.cleared
        PROVE  /\ \A r \in DOMAIN s.results : r.query = s.query /\ s.results[r] = 1
               /\ Lists(s, "projects", {p \in Listed(win) : s.query \in Named[p]})
               /\ Lists(s, "names",
                        UNION {{f \in Trees[win.team][p] : s.query \in Named[f]} :
                                  p \in {p \in Listed(win) : <<"names", p>> \notin s.lost}})
               /\ Lists(s, "contents",
                        UNION {{f \in Trees[win.team][p] \ s.local : s.query \in Words[f]} :
                                  p \in {p \in Listed(win) : <<"contents", p>> \notin s.lost}})
    <3>1. Unmixed(win, s) /\ Full(win, s)
      BY <2>2 DEF SearchKept, SearchIn, Searched
    <3>2. \A k, p : ~Sought(win, k, p)
      BY <2>2 DEF Sought, Seeks, Waiting
    <3>3. \A k, p : <<k, p>> \notin s.lost => ~Missing(win, s, k, p)
      BY <3>2 DEF Missing
    <3>4. \A r \in DOMAIN s.results : r.query = s.query /\ s.results[r] = 1
      BY <3>1 DEF Unmixed
    <3>5. Lists(s, "projects", {p \in Listed(win) : s.query \in Named[p]})
      BY <3>1 DEF Full, Lists
    <3>6. Lists(s, "names",
                UNION {{f \in Trees[win.team][p] : s.query \in Named[f]} :
                          p \in {p \in Listed(win) : <<"names", p>> \notin s.lost}})
      BY <3>1, <3>3 DEF Full, Lists
    <3>7. Lists(s, "contents",
                UNION {{f \in Trees[win.team][p] \ s.local : s.query \in Words[f]} :
                          p \in {p \in Listed(win) : <<"contents", p>> \notin s.lost}})
      BY <3>1, <3>3 DEF Full, Lists
    <3> QED
      BY <3>4, <3>5, <3>6, <3>7
  <2> QED
    BY <2>1, <2>2 DEF SearchShows, Lists
<1> QED
  BY <1>1, <1>2, SearchStart, AlwaysPagesInv, PTL DEF Spec

-----------------------------------------------------------------------------
(* The window holds what its parts may hold, and the user spends no more   *)
(* than his habit has: every part is read and written by several pages,    *)
(* and answers write what was asked for when the window was another one.   *)
THEOREM WindowIsTyped == Spec => []TypeOK
<1>1. Init => CountsKept
  BY HabitsAssumption DEF Init, CountsKept
<1>2. CountsKept /\ [Next]_vars => CountsKept'
  BY CountsStep
<1>3. PagesInv /\ SearchKept /\ [Next]_vars => SearchKept'
  BY SearchStep
<1>4. PagesInv /\ SearchKept /\ CountsKept => TypeOK
  <2> SUFFICES ASSUME PagesInv, SearchKept, CountsKept PROVE TypeOK
    OBVIOUS
  <2>1. /\ habit \in DOMAIN MaxEvents /\ spent \in 0 .. MaxEvents[habit]
        /\ raced \subseteq {"hasty", "left", "old", "elsewhere", "several"}
    BY DEF CountsKept, Races
  <2>2. Base(win) /\ Fronted(win) /\ Stored(win)
    BY DEF PagesInv, Orderly, Whole
  <2>3. ToSet(win.tabs) \subseteq Tabs /\ IsInjective(win.tabs)
    BY <2>2 DEF Base, ToSet
  <2>4. win.cur \in Tabs \cup {None, "gone"} /\ win.team \in Teams \cup {None}
    BY <2>2 DEF Fronted, PagesInv, TeamShown
  <2>5. \A f \in OpenFiles(win) : win.edit[f].nth > 0
    BY <2>2 DEF Base, Marked, Tab, Rightly, OpenFiles
  <2>6. win.settings.mine \in Settings /\ win.settings.server \in Settings
    BY DEF PagesInv, SettingsKept
  <2>7. \A p \in DOMAIN win.search.results : p.item \in Files \cup Projects
    BY DEF SearchKept, SearchIn, Placed
  <2>8. \A t \in LogTabs : win.log[t].file \in Files \cup {None}
    BY <2>2 DEF Base, Logged
  <2>9. win.admin.rows \subseteq [team : Teams, field : Fields, nth : Nat]
    BY DEF PagesInv, AdminKept, RowsOfTeams
  <2>10. \A t \in Teams, p \in Projects : win.disk[t][p] \subseteq Dirs \X Names
    BY <2>2 DEF Stored, Paths
  <2> QED
    BY <2>1, <2>3, <2>4, <2>5, <2>6, <2>7, <2>8, <2>9, <2>10 DEF TypeOK
<1> QED
  BY <1>1, <1>2, <1>3, <1>4, SearchStart, AlwaysPagesInv, PTL DEF Spec

=============================================================================
