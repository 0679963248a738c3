------------------------------ MODULE LogPages ------------------------------
(***************************************************************************)
(* The logs of files, each with a tab of its own over one list, and the    *)
(* page of differences. A log asks for a page of the history of its file,  *)
(* of all authors or of one; its buttons are those of the log that was     *)
(* drawn last, and the radio buttons are read when they are needed.        *)
(***************************************************************************)
EXTENDS ErrorsPage

CONSTANTS Authors,      \* of commits; one of them is the user
          Me,
          FirstCommits, \* FirstCommits[f]: the authors of a file's commits, oldest first
          PageSize      \* entries in a page of the log, 10 in the code

ASSUME LogsAssumption ==
    /\ Me \in Authors /\ FirstCommits \in [Files -> Seq(Authors)]
    /\ PageSize \in Nat \ {0}

(* The commits of all files, newest first, are numbered from the oldest.   *)
Revisions(w, f, user) ==
    LET n == Len(w.commits[f])
    IN SelectSeq([i \in 1 .. n |-> <<f, n + 1 - i>>],
                 LAMBDA r : user = None \/ w.commits[f][r[2]] = user)

(* file/log: one page, and how many there are. *)
LogPage(w, m) ==
    LET all == Revisions(w, m.file, m.user)
        to == m.offset * PageSize + PageSize
    IN SubSeq(all, m.offset * PageSize + 1, IF to < Len(all) THEN to ELSE Len(all))
LogSize(w, m) == (Len(Revisions(w, m.file, m.user)) + PageSize - 1) \div PageSize

(* MochiKit's update(): the answer's entries replace those in their places.*)
Overlay(old, new) == [i \in 1 .. (IF Len(new) > Len(old) THEN Len(new) ELSE Len(old)) |->
                         IF i <= Len(new) THEN new[i] ELSE old[i]]

RetrieveHistory(w, t, quiet) ==
    Ask(w, [kind |-> "log", tab |-> t, nth |-> w.log[t].nth, file |-> w.log[t].file,
            offset |-> w.log[t].offset, user |-> w.log[t].user, quiet |-> quiet])

(* Mutant of AskAnew: the entries there are stay where none replaces them. *)
AskMore(w, t) == RetrieveHistory(w, t, FALSE)

(* _init() *)
AskAnew(w, t) == RetrieveHistory([w EXCEPT !.log[t].history = <<>>], t, FALSE)

(* new Log(): it is shown, then filled. *)
OpenLog(w, t, f) ==
    LET new == [w EXCEPT !.log[t] = [NoLog EXCEPT !.file = f, !.nth = w.log[t].nth + 1,
                                                  !.ro = w.team \in ReadOnly]]
    IN AskAnew(SwitchTo(AddTab(new, t), t), t)

FreeLogs(w) == {t \in LogTabs : ~IsOpen(w, t)}

(* _receiveHistory(): the list is drawn for the log that was asked for, in *)
(* front or not, also when it was closed meanwhile.                        *)
ReceiveHistory(w, m) ==
    IF ~IsOpen(w, m.tab) \/ m.nth # w.log[m.tab].nth
    THEN [w EXCEPT !.drawn = [NothingDrawn EXCEPT !.entries = LogPage(w, m)],
                   !.offer = IF m.quiet THEN @ ELSE NoOffer]
    ELSE LET got == [w EXCEPT !.log[m.tab] =
                        [@ EXCEPT !.history = Overlay(w.log[m.tab].history, LogPage(w, m)),
                                  !.pages = LogSize(w, m)]]
         IN DrawLog(IF m.quiet THEN got ELSE Say(got), m.tab)

(* _find_selected(): the radio buttons of the list as it is drawn now. *)
FindSelected(w, t) == [w EXCEPT !.log[t].chosen = w.drawn.picked]

(* _do_revert(): the file is checked out at the revision selected, then    *)
(* committed.                                                              *)
DoRevert(w, t) == Ask(w, [kind |-> "checkout", tab |-> t, nth |-> w.log[t].nth, team |-> w.team,
                          file |-> w.log[t].file, rev |-> w.log[t].chosen])

----------------------------------------------------------------------------
LogKinds == {"log", "file", "checkout", "revert"}
InFront(t) == Busy("logs", Drawing) /\ win.cur = t /\ t \in LogTabs

(* view_log(): a log of the file that is open flashes. *)
ViewsLog(f) ==
    /\ Busy("logs", Drawing) /\ win.cur \in {"projects"} \cup Files
    /\ win.cur = "projects" => ~\E t \in LogTabs \ FreeLogs(win) : win.log[t].file = f
    /\ win.cur \in Files => win.cur = f
    /\ FreeLogs(win) # {}
    /\ win' = OpenLog(win, CHOOSE t \in FreeLogs(win) : TRUE, f)

(* The buttons "older" and "newer", as enabled when the list was drawn. *)
Turns(t, by) ==
    /\ InFront(t) /\ win.drawn.owner \in LogTabs
    /\ IF by = 1 THEN win.drawn.page < win.drawn.of - 1 ELSE win.drawn.page > 0
    /\ LET o == win.drawn.owner
       IN win' = AskAnew([win EXCEPT !.log[o].offset = @ + by], o)

(* _update(): from the first page of one author's entries, or of all.      *)
Filters(t, user) ==
    /\ InFront(t) /\ win.drawn.owner \in LogTabs
    /\ LET o == win.drawn.owner
       IN /\ user # win.log[o].user
          /\ win' = AskAnew([win EXCEPT !.log[o] = [@ EXCEPT !.user = user, !.offset = 0,
                                                                 !.failed = FALSE]], o)

Picks(t, i) ==
    /\ habit = "logs" /\ win.cur = t /\ Moves(Waiting(Drawing) # {})
    /\ i \in DOMAIN win.drawn.entries /\ win.drawn.picked # win.drawn.entries[i]
    /\ win' = [win EXCEPT !.drawn.picked = win.drawn.entries[i]]

Reverts(t) ==
    /\ InFront(t) /\ win.drawn.owner \in LogTabs /\ ~win.log[win.drawn.owner].ro
    /\ win' = LET o == win.drawn.owner
                  found == FindSelected(win, o)
              IN IF found.log[o].chosen = None THEN Say(found) ELSE Offer(found, "revert", o)

(* "Yes", of a question that another log may have asked. The dialog for    *)
(* the message, behind which nothing else can be done, is left out.        *)
PressYes ==
    /\ Pressed("revert")
    /\ LET o == win.offer.about
           found == FindSelected(Unbuttoned, o)
       IN /\ habit = "logs" /\ Moves(Waiting(Drawing) # {} \/ win.drawn.owner # o)
          /\ win' = IF found.log[o].chosen = None THEN Say(found) ELSE DoRevert(Say(found), o)

OpensRevision(t) ==
    /\ InFront(t) /\ win.drawn.owner \in LogTabs
    /\ win' = LET o == win.drawn.owner
                  found == FindSelected(win, o)
              IN IF found.log[o].chosen = None THEN Say(found)
                 ELSE EditFile(found, found.log[o].file, found.log[o].chosen[2])

GotLog(m) == Arrives /\ win' = ReceiveHistory(Answered(m), m)

(* _errorReceiveHistory(): the list stays; the button calls the handler of *)
(* the answer without one, which throws.                                   *)
FailLog(m) ==
    /\ Fails(m)
    /\ win' = LET lost == Answered(m)
              IN Offer(IF m.nth # win.log[m.tab].nth THEN lost
                       ELSE [lost EXCEPT !.log[m.tab].history = <<>>,
                                         !.log[m.tab].failed = TRUE], "history", None)
PressHistory == Moves(FALSE) /\ Pressed("history") /\ win' = Unbuttoned

(* The checkout is followed by the commit, for the team of then, by the    *)
(* history again, and by the contents of the file if it is open; the loop  *)
(* over the tabs ends at one that was closed, if it comes first. The       *)
(* server commits nothing for a team that is read only.                    *)
GotCheckout(m) == Arrives /\ win' = Ask(Answered(m), [m EXCEPT !.kind = "revert",
                                                                     !.team = win.team])
GotRevert(m) ==
    LET f == m.file
        done == Say([Answered(m) EXCEPT !.commits[f] = Append(@, Me)])
        again == IF m.nth = win.log[m.tab].nth THEN RetrieveHistory(done, m.tab, TRUE) ELSE done
        loads == IsOpen(win, f)
        closed == \E g \in Files \ OpenFiles(win) : win.edit[g].nth > 0
    IN /\ Arrives /\ m.team \notin ReadOnly
       /\ \/ loads /\ win' = LoadContents(again, f)
          \/ (~loads \/ closed) /\ win' = again
FailRevert(m) == Fails(m) /\ win' = Offer(Answered(m), "revert again", m.tab)
PressRevert == /\ habit = "logs" /\ Pressed("revert again")
               /\ Moves(Waiting(Drawing) # {} \/ win.drawn.owner # win.offer.about)
               /\ win' = DoRevert(Unbuttoned, win.offer.about)

LogSteps ==
    \/ \E f \in Files : ViewsLog(f)
    \/ \E t \in LogTabs : \/ \E by \in {-1, 1} : Turns(t, by)
                          \/ \E user \in Authors \cup {None} : Filters(t, user)
                          \/ \E i \in DOMAIN win.drawn.entries : Picks(t, i)
                          \/ Reverts(t) \/ OpensRevision(t)
    \/ PressYes \/ PressHistory \/ PressRevert
    \/ \E m \in Waiting({"log"}) : GotLog(m) \/ FailLog(m)
    \/ \E m \in Waiting({"checkout"}) : GotCheckout(m) \/ FailRevert(m)
    \/ \E m \in Waiting({"revert"}) : GotRevert(m) \/ FailRevert(m)

----------------------------------------------------------------------------
(* The page of differences. Every request makes an object that draws its   *)
(* answer into the one listing, and then tells the page, which describes   *)
(* what it was asked for last. Closing the page stops the telling only.    *)

NoDiff == [about |-> None, nth |-> 0, text |-> None, summary |-> None, told |-> {}]

About(f, rev, code) == [file |-> f, rev |-> rev, code |-> code]

(* diff(), for a revision of a log or for the modified text of a tab. *)
Diff(w, about) ==
    Ask([w EXCEPT !.diff = [@ EXCEPT !.about = about, !.nth = w.diff.nth + 1,
                                     !.told = w.diff.told \cup {w.diff.nth + 1}]],
        [kind |-> "diff", about |-> about, nth |-> w.diff.nth + 1])

OpenDiff(w) == SwitchTo(IF IsOpen(w, "diff") THEN w ELSE AddTab(w, "diff"), "diff")
CloseDiff(w) == RemoveTab(Blur([w EXCEPT !.diff.told = {}], "diff"), "diff")

(* _recieveDiff() and _diffReady() *)
RecieveDiff(w, m) ==
    LET drawn == [w EXCEPT !.diff.text = m.about]
    IN IF m.nth \in w.diff.told THEN OpenDiff([drawn EXCEPT !.diff.summary = w.diff.about])
       ELSE drawn

DiffsRevision(t) ==
    /\ habit = "logs" /\ Acts(Waiting(Drawing \cup {"diff"}) # {})
    /\ win.cur = t /\ t \in LogTabs /\ win.drawn.owner \in LogTabs
    /\ win' = LET o == win.drawn.owner
                  found == FindSelected(win, o)
              IN IF found.log[o].chosen = None THEN Say(found)
                 ELSE Diff(found, About(found.log[o].file, found.log[o].chosen[2], FALSE))

DiffsTab(f) ==
    /\ habit = "logs" /\ Acts(Waiting(Drawing \cup {"diff"}) # {}) /\ win.cur = f
    /\ win.team \notin ReadOnly
    /\ win' = IF win.edit[f].dirty THEN Diff(win, About(f, win.edit[f].rev, TRUE)) ELSE Say(win)

(* The button offered for a failed request calls what does not exist.      *)
GotDiff(m) == Arrives /\ win' = RecieveDiff(Answered(m), m)
FailDiff(m) == Fails(m) /\ win' = Offer(Answered(m), "diff", None)
PressDiff == Moves(FALSE) /\ Pressed("diff") /\ win' = Unbuttoned

DiffSteps ==
    \/ \E t \in LogTabs : DiffsRevision(t)
    \/ \E f \in Files : DiffsTab(f)
    \/ PressDiff
    \/ \E m \in Waiting({"diff"}) : GotDiff(m) \/ FailDiff(m)

----------------------------------------------------------------------------
(* One list and one set of buttons serve all logs, and one listing all     *)
(* differences. Unless the user was hasty or a request failed, what the    *)
(* log in front shows, once it has its answer, is a page of the history of *)
(* its file, by the author it filters by, and its buttons are its own; a   *)
(* file is only ever reverted to a revision of its own; and the page of    *)
(* differences shows what it says it shows (log.js:52-94, 104-199,         *)
(* 245-297; diff.js:76-94, 128-177).                                       *)
LogShown ==
    raced = {} =>
        /\ \A t \in LogTabs : 
              (win.cur = t /\ ~win.log[t].failed /\ \A m \in Waiting({"log"}) : m.tab # t)
              => LET d == win.drawn
                     g == win.log[t]
                 IN /\ d.owner = t /\ d.entries = g.history /\ d.page = g.offset /\ d.of = g.pages
                    /\ g.offset = 0 \/ g.offset < g.pages
                    /\ \A i \in DOMAIN g.history :
                          /\ g.history[i][1] = g.file
                          /\ g.user \in {None, win.commits[g.file][g.history[i][2]]}
        /\ \A m \in Waiting({"checkout", "revert"}) : m.rev[1] = m.file
        /\ (Waiting({"diff"}) = {} /\ win.diff.summary # None) => win.diff.text = win.diff.summary

=============================================================================
