----------------------------- MODULE FileDialog -----------------------------
(***************************************************************************)
(* The operations on the files selected on the project page, and the       *)
(* dialog that asks where a new file or folder goes. Every dialog is an    *)
(* object of its own over the same elements of the page: those that were   *)
(* closed still listen to the list of projects and still draw their trees. *)
(* An operation is a request followed by a commit; after a failure the     *)
(* whole of it can be done again.                                          *)
(***************************************************************************)
EXTENDS ReviewPages

CONSTANTS
    Dirs, Top,     \* directories, and the one at the root of a project
    Names,         \* names of files and folders
    Dotted,        \* the names with a dot, which stand for files
    PlaceOf        \* PlaceOf[f]: where a file is in its project

ASSUME DialogAssumption ==
    /\ Top \in Dirs /\ "Loading..." \notin Names /\ Dotted \subseteq Names
    /\ PlaceOf \in [Files -> Dirs \X Names]

FirstDisk == [t \in Teams |-> [p \in Projects |-> {PlaceOf[f] : f \in Trees[t][p]}]]

(* last is the setting of the project chosen last, on the page or here.    *)
NoOps == [proj |-> None, sel |-> <<>>, last |-> None]

(* owner and label are elements of the page, shared by all.      *)
NoDialog == [open |-> FALSE, nth |-> 0, type |-> None, op |-> None,
             proj |-> None,
             listed |-> None,          \* the team of the projects it lists
             tree |-> None,
             dir |-> Top, list |-> {},
             asked |-> FALSE,          \* whether to go on without a message
             olds |-> {},              \* the selectors of dialogs before it
             owner |-> 0,              \* the dialog that drew the left pane
             label |-> Top,            \* the directory that is shown as chosen
             chosen |-> <<>>]          \* history: the selection at its opening

Fake == {<<Top, "Loading...">>}
NamesIn(tree, d) == IF tree = None THEN {} ELSE {x[2] : x \in {y \in tree : y[1] = d}}

(* A click on the root of the left pane, true or not: the dialog that is   *)
(* open lists its own tree from the top.                                   *)
RootSelected(w) == [w EXCEPT !.dlg = [@ EXCEPT !.dir = Top, !.label = Top,
                                               !.list = NamesIn(w.dlg.tree, Top)]]

(* _receiveTree() of the n-th dialog. *)
ReceiveTree(w, n, tree) ==
    IF ~w.dlg.open THEN w
    ELSE RootSelected([w EXCEPT !.dlg =
             [@ EXCEPT !.tree = IF n = w.dlg.nth THEN tree ELSE w.dlg.tree, !.owner = n]])

(* _getFileTree(): a tree that says so is shown until the answer. *)
GetFileTree(w, n, t, p) ==
    Ask(ReceiveTree(w, n, Fake), [kind |-> "tree", nth |-> n, team |-> t, project |-> p])

(* select() of every selector made so far, the last one being this one's.  *)
OldsChanged(w, p) ==
    LET moved == {o \in w.dlg.olds : o.proj # p /\ p \in Listed([w EXCEPT !.team = o.team])}
        asked == FoldSet(LAMBDA o, u : GetFileTree(u, o.nth, o.team, p), w, moved)
    IN [asked EXCEPT !.dlg.olds = (@ \ moved) \cup {[o EXCEPT !.proj = p] : o \in moved}]
SelectProject(w, p) ==
    GetFileTree([OldsChanged(w, p) EXCEPT !.dlg.proj = p, !.ops.last = p], w.dlg.nth, w.team, p)

(* new Browser(): a dialog with a tree lists the projects first. *)
TreeTypes == {"isFile", "isDir"}
OpenDialog(w, type, op) ==
    LET d == w.dlg
        old == IF d.listed # None
              THEN {[nth |-> d.nth, team |-> d.listed, proj |-> d.proj]} ELSE {}
        new == [NoDialog EXCEPT !.open = TRUE, !.nth = d.nth + 1, !.type = type, !.op = op,
                                !.olds = d.olds \cup old, !.chosen = w.ops.sel]
    IN IF type \in TreeTypes
       THEN Ask([w EXCEPT !.dlg = new], [kind |-> "plist", nth |-> d.nth + 1, team |-> w.team])
       ELSE [w EXCEPT !.dlg = new]

(* hide(): of the dialog only its selector matters from now on. *)
Hide(w) == [w EXCEPT !.dlg = [NoDialog EXCEPT !.nth = w.dlg.nth, !.listed = w.dlg.listed,
                                              !.proj = w.dlg.proj, !.olds = w.dlg.olds]]

(* _get_default() of the selector. *)
DefaultProject(w, t) ==
    LET all == Listed([w EXCEPT !.team = t])
        set == IF w.settings.mine.projauto = "load" THEN w.settings.mine.projload
               ELSE IF w.settings.mine.projauto = "last" THEN w.ops.last ELSE None
    IN IF Cardinality(all) = 1 THEN CHOOSE p \in all : TRUE
       ELSE IF set \in all THEN set ELSE None

----------------------------------------------------------------------------
(* The operations. srcs is what they are about, place where it goes. A     *)
(* place is looked for in the project of the source, and an operation that *)
(* is done again is about what is selected then. The history is what was   *)
(* selected when it was chosen, what the dialog showed, and whether it is  *)
(* a retry.                                                                *)

Op(w, op, srcs, p, place, seen) ==
    [kind |-> "files", op |-> op, team |-> w.team, project |-> p, srcs |-> srcs,
     place |-> place, seen |-> seen]
Seen(chosen, p, label, again) ==
    [chosen |-> ToSet(chosen), project |-> p, dir |-> label, again |-> again]

IsFile(x) == x[2] \in Dotted

(* What mv, cp, mkdir and rm ask for, once they know what to do. *)
Move(w, p, place, seen) ==
    LET src == w.ops.sel[1]
    IN IF IsFile(src) # IsFile(place) THEN Say(w)
       ELSE Ask(Say(w), Op(w, "mv", {src}, w.ops.proj, place, seen))
Copy(w, p, place, seen) ==
    Ask(w, Op(w, "cp", {w.ops.sel[1]}, w.ops.proj, place, seen))
NewFolder(w, p, place, seen) ==
    IF Listed(w) = {} THEN Say(w) ELSE Ask(w, Op(w, "mkdir", {}, p, place, seen))
RemoveFiles(w, seen) ==
    IF w.ops.sel = <<>> THEN Say(w)
    ELSE Ask(w, Op(w, "del", ToSet(w.ops.sel), w.ops.proj, None, seen))
Undelete(w, seen) ==
    IF w.ops.sel = <<>> THEN Say(w)
    ELSE Ask(w, Op(w, "co", ToSet(w.ops.sel), w.ops.proj, None, seen))

Perform(w, op, p, place, seen) ==
    CASE op = "mv" /\ w.ops.sel # <<>> -> Move(w, p, place, seen)
      [] op = "cp" /\ w.ops.sel # <<>> -> Copy(w, p, place, seen)
      [] op \in {"mv", "cp"} /\ w.ops.sel = <<>> -> w      \* throws
      [] op = "mkdir" -> NewFolder(w, p, place, seen)
      [] op = "new" -> Ask(w, [kind |-> "project", team |-> w.team, project |-> p])
      [] op = "del" -> RemoveFiles(w, seen)
      [] op = "co" -> Undelete(w, seen)

(* What the server makes of it, before the commit. *)
Changed(m, disk) ==
    CASE m.op = "mv" -> (disk \ m.srcs) \cup {m.place}
      [] m.op \in {"cp", "mkdir"} -> disk \cup {m.place}
      [] m.op = "del" -> disk \ m.srcs
      [] m.op = "co" -> disk \cup m.srcs
Serve(w, m) == [w EXCEPT !.disk[m.team][m.project] = Changed(m, @)]

(* The commit: for the team of now, and in the project that is shown (del) *)
(* or that of the file selected (cp) now; else in that of the request.     *)
Commit(w, m) == Ask(w, [m EXCEPT !.kind = "commit", !.team = w.team,
                                 !.project = IF m.op \in {"del", "cp"} THEN w.ops.proj ELSE @])

(* Of the selection s what is among xs, in the order it was selected in.   *)
Only(s, xs) == FoldLeft(LAMBDA sel, x : IF x \in xs THEN Append(sel, x) ELSE sel, <<>>, s)

(* refresh() of the file list forgets what is gone. *)
Refresh(w) ==
    IF w.ops.proj = None THEN w
    ELSE [w EXCEPT !.ops.sel = Only(@, w.disk[w.team][w.ops.proj])]

----------------------------------------------------------------------------
OpKinds == {"files", "commit", "project"}
Unfinished == Waiting(OpKinds) # {} \/ win.offer.kind \in {"delete", "again"}
AtFiles == habit = "files" /\ win.cur = "projects" /\ ~win.dlg.open
Chooses == AtFiles /\ Acts(Unfinished) /\ win.team \notin ReadOnly

ShowsProject(p) == /\ AtFiles /\ Moves(Unfinished) /\ p \in Listed(win) \ {win.ops.proj}
                   /\ win' = Say([win EXCEPT !.ops = [proj |-> p, sel |-> <<>>, last |-> p]])
Selects(x) == /\ AtFiles /\ Moves(Unfinished)
              /\ win.ops.proj # None /\ x \in win.disk[win.team][win.ops.proj]
              /\ win' = IF Contains(win.ops.sel, x)
                        THEN [win EXCEPT !.ops.sel = Only(@, ToSet(@) \ {x})]
                        ELSE [win EXCEPT !.ops.sel = Append(@, x)]

ClicksNewFolder == Chooses /\ win' = IF Listed(win) = {} THEN Say(win)
                                     ELSE OpenDialog(win, "isDir", "mkdir")
ClicksNewProject == /\ AtFiles /\ Acts(Unfinished)
                    /\ win' = OpenDialog(win, "isProj", "new")

(* mv() closes the file first, which may be modified. *)
ClicksMove ==
    /\ Chooses
    /\ LET opened == {f \in OpenFiles(win) : /\ Len(win.ops.sel) = 1
                                             /\ PlaceOf[f] = win.ops.sel[1]
                                             /\ ProjectOf[f] = win.ops.proj}
           closed == FoldSet(LAMBDA f, w : CloseFile(w, f, FALSE), win, opened)
       IN win' = IF Len(win.ops.sel) # 1 THEN Say(win)
                 ELSE IF opened \cap Modified(win) # {} THEN closed
                 ELSE OpenDialog(closed, "isFile", "mv")
ClicksCopy == Chooses /\ win' = IF Len(win.ops.sel) # 1 THEN Say(win)
                                ELSE OpenDialog(win, "isFile", "cp")

ClicksDelete == Chooses /\ win' = IF win.ops.sel = <<>> THEN Say(win)
                                  ELSE Offer(win, "delete", win.ops.sel)
PressDelete == /\ AtFiles /\ Moves(Waiting(OpKinds) # {}) /\ Pressed("delete")
               /\ win' = RemoveFiles(Unbuttoned, Seen(win.offer.about, win.ops.proj, Top, FALSE))
ClicksUndelete ==
    Chooses /\ win' = Undelete(win, Seen(win.ops.sel, win.ops.proj, Top, FALSE))

(* The retry asks no question about a team that is read only. *)
PressAgain ==
    /\ AtFiles /\ Moves(Waiting(OpKinds) # {}) /\ Pressed("again")
    /\ LET m == win.offer.about
       IN win' = IF m.kind = "project" THEN Ask(Unbuttoned, [m EXCEPT !.team = win.team])
                 ELSE Perform(Unbuttoned, m.op, m.project, m.place, [m.seen EXCEPT !.again = TRUE])

----------------------------------------------------------------------------
(* The dialog, while it is open. *)
InDialog == habit = "files" /\ win.dlg.open
DialogKinds == {"plist", "tree"}
HasTree == win.dlg.tree \notin {None, Fake}

ChoosesIn(p) ==
    /\ InDialog /\ Acts(Waiting(DialogKinds) # {}) /\ win.dlg.type \in TreeTypes
    /\ win.dlg.listed # None /\ p \in Listed(win) \ {win.dlg.proj}
    /\ win' = SelectProject(Say(win), p)

(* dirSelected(), of the dialog that drew the tree. *)
ChoosesDir(d) ==
    /\ InDialog /\ HasTree /\ d # win.dlg.label
    /\ Spend(0) /\ UNCHANGED habit
    /\ raced' = IF win.dlg.owner # win.dlg.nth THEN raced \cup {"old"} ELSE raced
    /\ win' = IF win.dlg.owner # win.dlg.nth THEN [win EXCEPT !.dlg.label = d]
              ELSE [win EXCEPT !.dlg = [@ EXCEPT !.dir = d, !.label = d,
                                                 !.list = NamesIn(win.dlg.tree, d)]]

(* Mutant of NameExists: of a folder, not checked. *)
NameExistsAsFile(w, n) == w.dlg.type = "isFile" /\ n \in w.dlg.list

(* _nameExists() *)
NameExists(w, n) == w.dlg.type \in TreeTypes /\ n \in w.dlg.list

(* Where the result of a copy or a move is to be, for the user. *)
Elsewhere(w) == w.dlg.op \in {"mv", "cp"} /\ w.dlg.proj # w.ops.proj

(* clickSaveFile(): by the button, unless it is disabled, by the key, or   *)
(* by a click that says to go on without a message.                        *)
Saves(n, told) ==
    /\ InDialog /\ win.dlg.type \in TreeTypes /\ win.dlg.tree # None
    /\ raced' = raced \cup (IF Waiting(DialogKinds) # {} \/ ~HasTree THEN {"hasty"} ELSE {})
                      \cup (IF Elsewhere(win) THEN {"elsewhere"} ELSE {})
    /\ Spend(IF Waiting(DialogKinds) # {} \/ ~HasTree THEN 1 ELSE 0) /\ UNCHANGED habit
    /\ LET d == win.dlg
           seen == Seen(d.chosen, d.proj, d.label, FALSE)
       IN win' = IF NameExists(win, n) THEN [win EXCEPT !.dlg.asked = FALSE]
                 ELSE IF ~told /\ ~d.asked THEN [win EXCEPT !.dlg.asked = TRUE]
                 ELSE Hide(Perform(win, d.op, d.proj, <<d.dir, n>>, seen))

(* A new project needs no message, and no other project of its name.       *)
SavesProject(p) ==
    /\ InDialog /\ win.dlg.type = "isProj" /\ Moves(FALSE)
    /\ p \notin Listed(win) /\ win' = Hide(Perform(win, "new", p, None, None))

Cancels == InDialog /\ Moves(FALSE) /\ win' = Hide(Say(win))

(* _got_list() and _plist_onchange() of the n-th dialog; those before the  *)
(* last one keep the project they find.                                    *)
GotProjects(m) ==
    /\ Arrives
    /\ LET p == DefaultProject(win, m.team)
           old == [nth |-> m.nth, team |-> m.team, proj |-> p]
           known == IF m.nth = win.dlg.nth
                    THEN [Answered(m) EXCEPT !.dlg = [@ EXCEPT !.listed = m.team, !.proj = p]]
                    ELSE [Answered(m) EXCEPT !.dlg.olds = @ \cup {old}]
       IN win' = IF p = None THEN Say(known) ELSE GetFileTree(known, m.nth, m.team, p)
GotTree(m) == /\ Arrives
              /\ win' = ReceiveTree(Answered(m), m.nth, win.disk[m.team][m.project])

(* The list of projects can be asked for again, of no team (an error); a   *)
(* tree cannot.                                                            *)
FailProjects(m) == Fails(m) /\ win' = Offer(Answered(m), "plist", None)
PressProjects == Moves(FALSE) /\ Pressed("plist") /\ win' = Unbuttoned
FailTree(m) == /\ Fails(m)
               /\ win' = IF win.dlg.open THEN RootSelected(Answered(m)) ELSE Answered(m)

(* The server writes nothing for a team that is read only; to check out    *)
(* again what was deleted does not count as writing, its commit does.      *)
Allowed(m) == m.team \notin ReadOnly \/ (m.kind = "files" /\ m.op = "co")

GotFiles(m) == Arrives /\ Allowed(m) /\ win' = Commit(Serve(Answered(m), m), m)
GotCommit(m) == /\ Arrives /\ Allowed(m)
                /\ win' = Say(Refresh(Answered(m)))
GotProject(m) == Arrives /\ Allowed(m) /\ win' = Say(Answered(m))
FailOp(m, done) ==
    /\ Fails(m)
    /\ done => m.kind = "files" /\ Allowed(m)
    /\ win' = Offer(IF done THEN Serve(Answered(m), m) ELSE Answered(m), "again", m)

FilesSteps ==
    \/ \E p \in Projects : ShowsProject(p) \/ ChoosesIn(p) \/ SavesProject(p)
    \/ \E x \in Dirs \X Names : Selects(x)
    \/ ClicksNewFolder \/ ClicksNewProject \/ ClicksMove \/ ClicksCopy
    \/ ClicksDelete \/ ClicksUndelete \/ PressDelete \/ PressAgain
    \/ \E d \in Dirs : ChoosesDir(d)
    \/ \E n \in Names, told \in BOOLEAN : Saves(n, told)
    \/ Cancels \/ PressProjects
    \/ \E m \in Waiting({"plist"}) : GotProjects(m) \/ FailProjects(m)
    \/ \E m \in Waiting({"tree"}) : GotTree(m) \/ FailTree(m)
    \/ \E m \in Waiting({"files"}) : GotFiles(m) \/ \E done \in BOOLEAN : FailOp(m, done)
    \/ \E m \in Waiting({"commit"}) : GotCommit(m) \/ FailOp(m, FALSE)
    \/ \E m \in Waiting({"project"}) : GotProject(m) \/ FailOp(m, FALSE)

----------------------------------------------------------------------------
(* Unless the user was hasty, or a dialog before this one had drawn its    *)
(* tree last, or a copy or move was to leave its project, every change of  *)
(* files on its way is about the files that were selected when it was      *)
(* chosen, is for a team that may be written to, and goes where the dialog *)
(* said, and what it makes, when it is first asked for, is not there yet   *)
(* (projops.js:115-331; browser.js:130-158, 173-273, 306-333).             *)
FilesChanged ==
    raced = {} =>
        \A m \in Waiting({"files", "commit"}) :
            /\ m.team \notin ReadOnly
            /\ m.op # "mkdir" => m.srcs = m.seen.chosen
            /\ m.project = m.seen.project
            /\ m.op \in {"mv", "cp", "mkdir"} =>
                  /\ m.place[1] = m.seen.dir
                  /\ (m.kind = "files" /\ ~m.seen.again)
                     => m.place \notin win.disk[m.team][m.project]

=============================================================================
