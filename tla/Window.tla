------------------------------- MODULE Window -------------------------------
(***************************************************************************)
(* The shell of the browser side: the tab bar, the roots of the pages that *)
(* are displayed, the tabs of the edited files with the pane they share,   *)
(* the status bar, the menu and the about box. The pages are modules that  *)
(* extend this one, and Pages puts them together.                          *)
(*                                                                         *)
(* An operator takes the window as it is and gives it as it becomes, as    *)
(* the handlers call one another. Requests are answered in any order.      *)
(***************************************************************************)
EXTENDS Integers, Sequences, FiniteSets, SequencesExt, FiniteSetsExt

CONSTANTS
    Teams,      \* the user's teams, two or more
    ReadOnly,   \* those that the user may only look at
    Files,      \* paths of files
    None,       \* null or undefined
    MaxEvents,  \* bound: how often the user acts or a request fails, for
                \* each of the habits considered
    Opened      \* bound: the files that a user of each habit opens from the list

(* What the user may be busy with, beside teams and tabs.                  *)
AllHabits == {"menu", "edit", "search", "errors", "logs", "calendar",
              "settings", "admin", "status", "files"}

ASSUME TeamsAssumption == /\ Cardinality(Teams) > 1 /\ None \notin Teams \cup Files
                          /\ ReadOnly \subseteq Teams
ASSUME HabitsAssumption == /\ DOMAIN MaxEvents \subseteq AllHabits
                           /\ \A h \in DOMAIN MaxEvents : MaxEvents[h] \in Nat
                           /\ Opened \in [DOMAIN MaxEvents -> SUBSET Files]

VARIABLES
    win,     \* the window: what its parts know, what they asked for
    habit,   \* bound: what the user of this behaviour is busy with
    spent,   \* bound: how much of MaxEvents is used up
    raced    \* history: what the user did that the pages do not expect:
             \* "hasty" when he acted before the page he acts on had all its
             \* answers, or turned to a tab before the pane and the list of
             \* log entries that tabs share had theirs, or pressed a button
             \* about another tab than the one in front; "left" when a page
             \* stayed open while the team changed; "several", "old" and
             \* "elsewhere" as in Pages and FileDialog

vars == <<win, habit, spent, raced>>

(* Every page root is named as its tab; files and logs share one.          *)
LogTabs == {"log 1", "log 2"}
PageTabs == {"search", "errors", "settings", "review", "admin", "diff"} \cup LogTabs
Tabs == {"shortcuts", "projects"} \cup PageTabs \cup Files

(* Paths of files, finitely many, start with a slash; names of pages do    *)
(* not, and what cur holds beside tabs is none.                            *)
ASSUME FilesAssumption ==
    /\ IsFiniteSet(Files)
    /\ Files \cap ({"shortcuts", "projects", "gone"} \cup PageTabs) = {}
    /\ None \notin Tabs

Root(t) == IF t \in Files THEN "edit" ELSE IF t \in LogTabs THEN "log" ELSE t

HEAD == 0

----------------------------------------------------------------------------
(* Requests and the status bar. *)

Ask(w, m) == [w EXCEPT !.net = @ \cup {m}]
Waiting(kinds) == {m \in win.net : m.kind \in kinds}
Answered(m) == [win EXCEPT !.net = @ \ {m}]

(* status_button(): a button about something, in place of any before it.   *)
NoOffer == [kind |-> "none", about |-> None]
Offer(w, kind, about) == [w EXCEPT !.offer = [kind |-> kind, about |-> about]]

(* status_msg(): a message, and no button any more. *)
Say(w) == [w EXCEPT !.offer = NoOffer]

(* close() of a prompt hides it if it is still what the bar shows.         *)
Unprompt(w, kind) == IF w.offer.kind = kind THEN Say(w) ELSE w

----------------------------------------------------------------------------
(* What a tab does when it gets the focus. *)

(* _populateList(): the one list of log entries, and its buttons, become   *)
(* those of this log.                                                      *)
DrawLog(w, t) == [w EXCEPT !.drawn = [owner |-> t, entries |-> w.log[t].history,
                                      page |-> w.log[t].offset, of |-> w.log[t].pages,
                                      picked |-> None]]     \* the radio button set

(* _get_revisions(): nothing is asked for a tab that is not loaded.        *)
GetRevisions(w, f) ==
    IF w.edit[f].loaded
    THEN Ask(w, [kind |-> "revisions", file |-> f, team |-> w.team])
    ELSE w

(* Mutant of ShowContents: the list stays until the new one is there.      *)
ShowContentsKeepingList(w, f) ==
    GetRevisions([w EXCEPT !.pane.session = f, !.pane.name = <<f, w.edit[f].rev>>], f)

(* _show_contents(): the session is displayed, the list of revisions is    *)
(* emptied and asked for.                                                  *)
ShowContents(w, f) ==
    GetRevisions([w EXCEPT !.pane = [session |-> f, name |-> <<f, w.edit[f].rev>>,
                                     history |-> None]], f)

GotFocus(w, t) == CASE t \in Files -> ShowContents(w, t)
                    [] t \in LogTabs -> DrawLog(w, t)
                    [] OTHER -> w

----------------------------------------------------------------------------
(* The tab bar. *)

CanFocus(t) == t # "shortcuts"
CanClose(t) == t \notin {"shortcuts", "projects"}
IsOpen(w, t) == Contains(w.tabs, t)

AddTab(w, t) == [w EXCEPT !.tabs = Append(@, t)]

(* Mutant of SwitchTo: the page that was in front stays displayed.         *)
SwitchToShowingBoth(w, t) ==
    IF ~CanFocus(t) \/ t = w.cur THEN w
    ELSE GotFocus([w EXCEPT !.cur = t, !.shown = @ \cup {Root(t)}], t)

(* switch_to(): the root of the tab left is hidden, that of the new shown. *)
SwitchTo(w, t) ==
    IF ~CanFocus(t) \/ t = w.cur THEN w
    ELSE GotFocus([w EXCEPT !.cur = t, !.shown = (@ \ {Root(w.cur)}) \cup {Root(t)}], t)

(* Tab.close(), and the bar's _onclose(): when the tab was in front, the   *)
(* nearest that can have the focus on the left of it, or else on the right.*)
RemoveTab(w, t) ==
    LET i == SelectInSeq(w.tabs, LAMBDA u : u = t)
        rest == RemoveAt(w.tabs, i)
        start == IF i > 1 THEN i - 1 ELSE 1
        left == {j \in 1 .. start : j <= Len(rest) /\ CanFocus(rest[j])}
        right == {j \in start .. Len(rest) : CanFocus(rest[j])}
        gone == [w EXCEPT !.tabs = rest]
    IN IF t # w.cur THEN gone
       ELSE IF left # {} THEN SwitchTo(gone, rest[Max(left)])
       ELSE IF right # {} THEN SwitchTo(gone, rest[Min(right)])
       ELSE [gone EXCEPT !.cur = "gone"]

(* next_tab() and prev_tab(): the next tab that takes the focus. *)
Place(w) == SelectInSeq(w.tabs, LAMBDA u : u = w.cur)
NextTab(w) ==
    LET right == {j \in Place(w) + 1 .. Len(w.tabs) : CanFocus(w.tabs[j])}
    IN IF Place(w) = 0 \/ right = {} THEN w ELSE SwitchTo(w, w.tabs[Min(right)])
PrevTab(w) ==
    LET left == {j \in 1 .. Place(w) - 1 : CanFocus(w.tabs[j])}
    IN IF left = {} THEN w ELSE SwitchTo(w, w.tabs[Max(left)])

(* Hiding the root of a page that closes itself before its tab goes. *)
Blur(w, t) == [w EXCEPT !.shown = @ \ {Root(t)}]

----------------------------------------------------------------------------
(* The tabs of edited files. nth tells the tab of a file from the tabs it  *)
(* had before, whose answers may still come.                               *)

NoFile == [nth |-> 0, loaded |-> FALSE, dirty |-> FALSE, rev |-> HEAD,
           text |-> None,      \* history: the revision that the session's text was
                               \* loaded as, none once a load failed (an old text
                               \* then stays under the name of the new revision)
           marks |-> 0, todo |-> 0,
           late |-> FALSE]     \* history: cleared while there were marks to do

OpenFiles(w) == {f \in Files : IsOpen(w, f)}
Modified(w) == {f \in OpenFiles(w) : w.edit[f].dirty}

LoadContents(w, f) == Ask(w, [kind |-> "file", file |-> f, nth |-> w.edit[f].nth,
                              rev |-> w.edit[f].rev])

OpenRevision(w, f, rev) ==
    IF w.edit[f].dirty THEN Offer(w, "revision", <<f, rev>>)
    ELSE LoadContents(Say([w EXCEPT !.edit[f].rev = rev]), f)

(* Mutant of EditFile: a file that is open is opened again.                *)
EditFileAnew(w, f, rev) ==
    LET new == [NoFile EXCEPT !.nth = w.edit[f].nth + 1, !.rev = IF rev = None THEN HEAD ELSE rev]
    IN SwitchTo(LoadContents(AddTab([w EXCEPT !.edit[f] = new], f), f), f)

(* edit_file(): a file that is open is switched to, and only its revision  *)
(* changed, if one is asked for.                                           *)
EditFile(w, f, rev) ==
    IF IsOpen(w, f)
    THEN IF rev = None THEN SwitchTo(w, f) ELSE OpenRevision(SwitchTo(w, f), f, rev)
    ELSE LET new == [NoFile EXCEPT !.nth = w.edit[f].nth + 1,
                                   !.rev = IF rev = None THEN HEAD ELSE rev]
         IN SwitchTo(LoadContents(AddTab([w EXCEPT !.edit[f] = new], f), f), f)

(* _recv_contents(): also the tab that is not in front shows what it got,  *)
(* and one that was closed meanwhile shows its own session and asks for    *)
(* its revisions.                                                          *)
ReceiveContents(w, m) ==
    IF ~IsOpen(w, m.file) \/ m.nth # w.edit[m.file].nth
    THEN Ask([w EXCEPT !.pane = [session |-> None, name |-> <<m.file, m.rev>>, history |-> None]],
             [kind |-> "revisions", file |-> m.file, team |-> w.team])
    ELSE LET first == ~w.edit[m.file].loaded
             shown == ShowContents([w EXCEPT !.edit[m.file] =
                                    [@ EXCEPT !.loaded = TRUE, !.dirty = FALSE, !.text = m.rev]],
                                   m.file)
         IN IF first /\ shown.edit[m.file].todo # 0
            THEN [shown EXCEPT !.edit[m.file].marks = shown.edit[m.file].todo]
            ELSE shown

(* _close() takes the status bar with it. *)
CloseFile(w, f, override) ==
    IF ~override /\ w.edit[f].dirty THEN Offer(SwitchTo(w, f), "close", f)
    ELSE Say(RemoveTab(w, f))

(* close_all_tabs() of the edit page: what is not modified is closed; what *)
(* is, is asked about. The bar's order stands for the order of the tabs in *)
(* the page's dictionary: the focus ends on the same tab.                  *)
CloseFiles(w, override) ==
    LET kept == IF override THEN {} ELSE Modified(w)
        close(u, t) == IF t \in Files \ kept THEN CloseFile(u, t, override) ELSE u
        closed == FoldLeft(close, w, w.tabs)
    IN IF kept = {} THEN closed
       ELSE IF Cardinality(kept) = 1 THEN CloseFile(closed, CHOOSE f \in kept : TRUE, FALSE)
       ELSE Offer(closed, "close all", None)

(* mark_errors() and clear_errors(), of open files only: the marks of a    *)
(* tab that is not loaded wait, and clearing them does not take these.     *)
MarkErrors(w, f, n) ==
    IF ~IsOpen(w, f) THEN w
    ELSE IF w.edit[f].loaded THEN [w EXCEPT !.edit[f] = [@ EXCEPT !.marks = n, !.late = FALSE]]
    ELSE [w EXCEPT !.edit[f] = [@ EXCEPT !.todo = n, !.late = FALSE]]
ClearErrors(w, f) ==
    IF IsOpen(w, f)
    THEN [w EXCEPT !.edit[f] =
             [@ EXCEPT !.marks = 0,
                       !.late = w.edit[f].late \/ (~w.edit[f].loaded /\ w.edit[f].todo # 0)]]
    ELSE w

----------------------------------------------------------------------------
(* The state of the shell. Every page adds its own fields. *)

NoLog == [file |-> None, nth |-> 0, history |-> <<>>, offset |-> 0, pages |-> 0,
          user |-> None, chosen |-> None, ro |-> FALSE, failed |-> FALSE]
NothingDrawn == [owner |-> None, entries |-> <<>>, page |-> 0, of |-> 0, picked |-> None]

Shell == [loaded |-> FALSE, tabs |-> <<>>, cur |-> None, shown |-> {}, team |-> None,
          net |-> {[kind |-> "user"]}, offer |-> NoOffer,
          edit |-> [f \in Files |-> NoFile],
          pane |-> [session |-> None, name |-> None, history |-> None],
          log |-> [t \in LogTabs |-> NoLog],
          drawn |-> NothingDrawn,
          menu |-> [visible |-> FALSE, inside |-> FALSE, held |-> FALSE, loose |-> 0],
          about |-> [visible |-> FALSE, got |-> FALSE]]

----------------------------------------------------------------------------
(* Steps. A user busy with h acts; haste, with requests of these kinds     *)
(* under way, costs twice and is remembered.                               *)

Spend(n) == spent + n <= MaxEvents[habit] /\ spent' = spent + n

Acts(hasty) == /\ win.loaded
               /\ Spend(IF hasty THEN 2 ELSE 1)
               /\ raced' = IF hasty THEN raced \cup {"hasty"} ELSE raced
               /\ UNCHANGED habit

(* What asks for nothing is free, and so is to try again, for the failure  *)
(* was not; haste apart.                                                   *)
Moves(hasty) == /\ win.loaded
                /\ Spend(IF hasty THEN 1 ELSE 0)
                /\ raced' = IF hasty THEN raced \cup {"hasty"} ELSE raced
                /\ UNCHANGED habit

Busy(h, kinds) == habit = h /\ Acts(Waiting(kinds) # {})
Arrives == UNCHANGED <<habit, spent, raced>>
Fails(m) == Spend(1) /\ UNCHANGED <<habit, raced>>

(* The button of the status bar is gone once it is pressed. *)
Pressed(kind) == win.offer.kind = kind
Unbuttoned == Say(win)

(* Clicking on a tab, and the keys Alt + PageUp and PageDown. *)
Drawing == {"file", "revisions", "log", "checkout", "revert"}
                      \* whose answers draw what the tabs share
ClickTab(t) == Moves(Waiting(Drawing) # {}) /\ IsOpen(win, t) /\ win' = SwitchTo(win, t)
PressKey == /\ Moves(Waiting(Drawing) # {})
            /\ \/ win' = NextTab(win)
               \/ win' = PrevTab(win)

(* A file is opened from the list of the project page. *)
OpensFile(f) == /\ Acts(Waiting(Drawing \cup {"lint"}) # {}) /\ win.cur = "projects"
                /\ f \in Opened[habit]
                /\ win' = EditFile(win, f, None)

GotFile(m) == Arrives /\ win' = ReceiveContents(Answered(m), m)
FailFile(m) ==
    /\ Fails(m)
    /\ win' = Offer(IF m.nth # win.edit[m.file].nth THEN Answered(m)
                    ELSE [Answered(m) EXCEPT !.edit[m.file].text = None], "load", m)

(* A button about a file is pressed in haste when the file is not in front.*)
Hasty == Waiting(Drawing) # {}

PressLoad == /\ Pressed("load") /\ Moves(Hasty \/ win.cur # win.offer.about.file)
             /\ win' = Ask(Unbuttoned, [win.offer.about EXCEPT
                              !.rev = IF win.offer.about.nth = win.edit[win.offer.about.file].nth
                                      THEN win.edit[win.offer.about.file].rev ELSE @])
PressClose == /\ Acts(Hasty) /\ Pressed("close")
              /\ win' = CloseFile(Unbuttoned, win.offer.about, TRUE)
PressCloseAll == Acts(Hasty) /\ Pressed("close all") /\ win' = CloseFiles(Unbuttoned, TRUE)
PressRevision == /\ Pressed("revision") /\ Acts(Hasty \/ win.cur # win.offer.about[1])
                 /\ win' = LET f == win.offer.about[1]
                           IN LoadContents([Unbuttoned EXCEPT !.edit[f].rev = win.offer.about[2]], f)

(* Typing in the session that is displayed for the tab in front. The files *)
(* that are open are those of the team: they are read-only with it.        *)
Type(f) == /\ Moves(Waiting(Drawing) # {}) /\ win.cur = f /\ ~win.edit[f].dirty
           /\ win.team \notin ReadOnly
           /\ win' = [win EXCEPT !.edit[f].dirty = TRUE]

----------------------------------------------------------------------------
(* The menu: a box that a click on the first tab shows, with a timer to    *)
(* hide it. A second showing sets another timer and forgets the first.     *)

HideBox(w) == [w EXCEPT !.menu.visible = FALSE, !.menu.inside = FALSE]
ShowBox(w) == [w EXCEPT !.menu.visible = TRUE, !.menu.held = TRUE,
                        !.menu.loose = @ + IF w.menu.held THEN 1 ELSE 0]

ToggleMenu == /\ Busy("menu", {}) /\ ~win.menu.inside
              /\ win' = IF win.menu.visible THEN HideBox(win) ELSE ShowBox(win)
EnterMenu == /\ habit = "menu" /\ win.menu.visible /\ ~win.menu.inside /\ Arrives
             /\ win' = [win EXCEPT !.menu.inside = TRUE, !.menu.held = FALSE]
LeaveMenu == habit = "menu" /\ win.menu.inside /\ Arrives /\ win' = HideBox(win)
MenuTimer == /\ habit = "menu" /\ Arrives
             /\ \/ win.menu.held /\ win' = HideBox([win EXCEPT !.menu.held = FALSE])
                \/ win.menu.loose > 0 /\ win' = HideBox([win EXCEPT !.menu.loose = @ - 1])

(* Any entry of the menu hides it; this one shows the about box, which     *)
(* asks until it has got its contents once.                                *)
ShowAbout == /\ Busy("menu", {}) /\ win.menu.inside
             /\ win' = LET shown == [HideBox(win) EXCEPT !.about.visible = TRUE]
                       IN IF win.about.got THEN shown ELSE Ask(shown, [kind |-> "about"])
HideAbout == /\ Busy("menu", {}) /\ win.about.visible
             /\ win' = [win EXCEPT !.about.visible = FALSE]
GotAbout(m) == Arrives /\ win' = [Answered(m) EXCEPT !.about.got = TRUE]
FailAbout(m) == Fails(m) /\ win' = Answered(m)

=============================================================================
