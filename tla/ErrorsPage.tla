----------------------------- MODULE ErrorsPage -----------------------------
(***************************************************************************)
(* Checks of files for errors: the model that keeps what is known of each  *)
(* file of the team, the page that lists the files with errors, and the    *)
(* marks in the tabs of these files. A check is answered at any time, also *)
(* after the team has changed, and may be tried again.                     *)
(***************************************************************************)
EXTENDS SettingsPage

CONSTANTS ProjectOf,     \* ProjectOf[f]: the project in the path of f
          Checkable      \* the files that are Python, for their names

ASSUME ErrorsAssumption == ProjectOf \in [Files -> Projects] /\ Checkable \subseteq Files

(* Errors are named by the check that found them: 0 stands for none.       *)
NoErrors == [gen |-> 0,                         \* the team's model, of several
             known |-> [f \in Files |-> 0],     \* its map
             listed |-> [f \in Files |-> 0],    \* the entries of the page
             nulls |-> {},                      \* the entries it has removed
             folded |-> {},                     \* those it shows no errors of
             nth |-> 0]

Entries(w) == {f \in Files : w.errors.listed[f] # 0}

(* init(): a new model for the new team; the old one is disposed of. *)
NewModel(w) == [w EXCEPT !.errors.gen = @ + 1, !.errors.known = NoErrors.known]

(* ErrorFile.remove() *)
RemoveEntry(w, f) ==
    IF f \notin Entries(w) THEN w
    ELSE ClearErrors([w EXCEPT !.errors.listed[f] = 0, !.errors.nulls = @ \cup {f},
                               !.errors.folded = @ \ {f}], f)

CloseErrors(w) ==
    IF ~IsOpen(w, "errors") THEN w
    ELSE LET none == FoldSet(LAMBDA f, u : RemoveEntry(u, f), w, Entries(w))
         IN Unprompt(RemoveTab([none EXCEPT !.errors.nulls = {}], "errors"), "view errors")

(* _clear_file() *)
ClearFile(w, f) == LET cleared == RemoveEntry(w, f)
                   IN IF Entries(cleared) = {} THEN CloseErrors(cleared) ELSE cleared

(* An entry new or reset, with its errors shown and marked in its tab. *)
ListFile(w, f, n) == MarkErrors([w EXCEPT !.errors.listed[f] = n, !.errors.nulls = @ \ {f},
                                          !.errors.folded = @ \ {f}], f, n)

(* Mutant of Load: a file without errors keeps its entry.                  *)
LoadErrorsOnly(w, f, bad, n) ==
    LET shown == IF IsOpen(w, "errors") THEN w ELSE AddTab(w, "errors")
    IN FoldSet(LAMBDA g, u : ListFile(u, g, n), shown, bad)

(* load(): the answer tells of the file checked and of the others with     *)
(* errors; the tab is opened, not switched to.                             *)
Load(w, f, bad, n) ==
    LET shown == IF IsOpen(w, "errors") THEN w ELSE AddTab(w, "errors")
        rest == IF f \in bad THEN shown ELSE RemoveEntry(shown, f)
    IN FoldSet(LAMBDA g, u : ListFile(u, g, n), rest, bad)

(* check() *)
NoOpts == [alert |-> FALSE, switch |-> FALSE, quiet |-> FALSE]
Check(w, f, opts) ==
    Ask([w EXCEPT !.errors.nth = @ + 1],
        [kind |-> "lint", file |-> f, opts |-> opts, gen |-> w.errors.gen,
         nth |-> w.errors.nth + 1])

(* done_check() of the model *)
Learn(w, f, bad, n) ==
    [w EXCEPT !.errors.known = [g \in Files |-> IF g \in bad THEN n
                                               ELSE IF g = f THEN 0 ELSE @[g]]]

(* _done_check() of the page: "no errors" is said unless it is one of many *)
(* checks, or the caller wants no word of it.                              *)
Passed(w, m) ==
    LET quiet == m.opts.quiet \/ (m.opts.switch /\ w.cur = "projects" /\ Cardinality(w.net) > 1)
    IN ClearFile(IF quiet THEN w ELSE Say(w), m.file)

Failed(w, m, bad) ==
    LET loaded == Load(Unprompt(w, "view errors"), m.file, bad, m.nth)
        switched == IF m.opts.switch THEN SwitchTo(loaded, "errors") ELSE loaded
    IN IF m.opts.alert THEN Offer(switched, "view errors", None) ELSE switched

----------------------------------------------------------------------------
Unchecked == Waiting({"lint", "file"}) # {}

ChecksSelection(fs) ==
    /\ Busy("errors", {"lint", "file"}) /\ win.cur = "projects" /\ fs # {}
    /\ win' = FoldSet(LAMBDA f, w : Check(w, f, [NoOpts EXCEPT !.switch = TRUE]),
                      IF fs \subseteq Checkable THEN win ELSE Say(win), fs \cap Checkable)

(* The button of the edit pane, and what follows a save. *)
ChecksTab(f, quiet) ==
    /\ Busy("errors", {"lint", "file"}) /\ win.cur = f /\ f \in Checkable
    /\ win' = Check(win, f, [NoOpts EXCEPT !.alert = TRUE, !.quiet = quiet])

ChecksAgain(fs) == /\ Busy("errors", {"lint", "file"}) /\ win.cur = "errors"
                   /\ fs \subseteq Entries(win)
                   /\ win' = FoldSet(LAMBDA f, w : Check(w, f, NoOpts), win, fs)

ViewsErrors(f) ==
    /\ Busy("errors", {"lint", "file", "revisions"})
    /\ win.cur = "errors" /\ f \in Entries(win)
    /\ LET front == EditFile(win, f, None)
           newest == IF front.edit[f].rev = HEAD THEN front ELSE OpenRevision(front, f, HEAD)
       IN win' = MarkErrors(newest, f, win.errors.listed[f])

(* _expand_onclick(), _expand_all() and _collapse_all(): the loops stop at *)
(* an entry that was removed, so that they reach any of the others.        *)
Folds(f) == /\ Busy("errors", {}) /\ win.cur = "errors" /\ f \in Entries(win)
            /\ win' = [win EXCEPT !.errors.folded = SymDiff(@, {f})]
FoldsAll(fs, fold) ==
    /\ Busy("errors", {}) /\ win.cur = "errors" /\ fs \subseteq Entries(win)
    /\ win.errors.nulls = {} => fs = Entries(win)
    /\ win' = [win EXCEPT !.errors.folded = IF fold THEN @ \cup fs ELSE @ \ fs]

(* The model that was asked may be disposed of: then nothing happens.      *)
GotLint(m, bad) ==
    /\ Arrives
    /\ bad \subseteq {g \in Files : ProjectOf[g] = ProjectOf[m.file]}
    /\ win' = IF m.gen # win.errors.gen THEN Answered(m)
              ELSE LET w == Learn(Answered(m), m.file, bad, m.nth)
                   IN IF bad = {} THEN Passed(w, m) ELSE Failed(w, m, bad)
FailLint(m) == Fails(m) /\ win' = Offer(Answered(m), "lint", m)

PressLint == Moves(Unchecked) /\ Pressed("lint") /\ win' = Ask(Unbuttoned, win.offer.about)
PressView == /\ Acts(FALSE) /\ Pressed("view errors")
             /\ win' = SwitchTo(Unbuttoned, "errors")

ErrorsSteps ==
    \/ \E fs \in SUBSET Files : \/ ChecksSelection(fs)
                                \/ \E fold \in BOOLEAN : FoldsAll(fs, fold)
    \/ \E f \in Files : \/ \E quiet \in BOOLEAN : ChecksTab(f, quiet)
                        \/ ChecksAgain({f}) \/ ViewsErrors(f) \/ Folds(f)
    \/ ChecksAgain(Entries(win))
    \/ PressLint \/ PressView
    \/ \E m \in Waiting({"lint"}) : FailLint(m) \/ \E bad \in SUBSET Files : GotLint(m, bad)

----------------------------------------------------------------------------
(* Whatever order checks are answered in, the errors page is open exactly  *)
(* while a file is listed, and, unless it stayed open while the team       *)
(* changed, lists of a file what the model last learnt of it. The marks in *)
(* the tab of an open file are those listed, save in a tab that was to be  *)
(* marked once loaded and was cleared before (errors.js:37-122, 152-202,   *)
(* errors-model.js:80-105).                                                *)
ErrorsShown ==
    /\ IsOpen(win, "errors") <=> Entries(win) # {}
    /\ "left" \notin raced =>
          \A f \in Entries(win) : win.errors.listed[f] = win.errors.known[f]
    /\ \A f \in OpenFiles(win) :
          win.edit[f].marks \in {0, win.errors.listed[f]} \/ win.edit[f].late

=============================================================================
