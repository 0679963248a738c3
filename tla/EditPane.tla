------------------------------ MODULE EditPane ------------------------------
(***************************************************************************)
(* The pane that all edited files share: the editor with the session it    *)
(* displays, the name above it, and the list of revisions, which is asked  *)
(* for each time a tab is shown. Whatever tab asked, the answer is drawn.  *)
(* How the tabs' texts are saved is the module EditTabs.                   *)
(***************************************************************************)
EXTENDS FileDialog

EditKinds == {"file", "revisions"}

(* _change_revision(): a revision in the list, for the tab in front. *)
ChangesRevision(f, rev) ==
    /\ Busy("edit", EditKinds) /\ win.cur = f
    /\ win.pane.history # None /\ rev \in DOMAIN win.commits[win.pane.history]
    /\ win' = OpenRevision(win, f, rev)

(* _receive_revisions() *)
ReceiveRevisions(w, m) == [w EXCEPT !.pane.history = m.file]

GotRevisions(m) == Arrives /\ win' = ReceiveRevisions(Answered(m), m)
FailRevisions(m) == Fails(m) /\ win' = Say(Answered(m))

EditSteps ==
    \/ \E f \in Files : \E rev \in UNION {DOMAIN win.commits[g] : g \in Files} :
          ChangesRevision(f, rev)
    \/ \E m \in Waiting({"revisions"}) : GotRevisions(m) \/ FailRevisions(m)

(* Unless the user was hasty, or had all of several files closed, which    *)
(* shows one after another, the pane is that of the file in front: it      *)
(* displays its session and its name, with the revision of what is in the  *)
(* session once that is there, and lists no other file's revisions. Only   *)
(* the errors page may bring about the latter without the user: it closes  *)
(* itself when a check finds no more errors, and the file that comes to    *)
(* the front may get the list asked for another before                     *)
(* (edittab.js:131-151, 434-463, 499-547).                                 *)
PaneShowsFront ==
    \A f \in OpenFiles(win) :
        (raced = {} /\ win.cur = f) =>
            LET p == win.pane
            IN /\ p.session = f /\ p.name[1] = f
               /\ habit # "errors" => p.history \in {None, f}
               /\ (\A m \in Waiting({"file"}) : m.file # f)
                  => win.edit[f].text \in {None, p.name[2]}

=============================================================================
