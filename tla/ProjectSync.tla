---------------------------- MODULE ProjectSync ----------------------------
(***************************************************************************)
(* One project's repositories: the bare master and a clone per user, as    *)
(* the requests of modules/file.php and modules/proj.php drive them        *)
(* through include/project-manager.php and include/git.php.                *)
(*                                                                         *)
(* A request on a clone first brings it up to date with the master:        *)
(* fetch, keep the unstaged files in memory, reset --hard, merge, write    *)
(* the kept files back, push.  Then it does its own work.  A commit works  *)
(* first and updates last.  The clone's lock (LockHandler) admits one      *)
(* request per clone, so users meet only where they fetch from the master  *)
(* and push to it.  A request may be killed between any two git commands   *)
(* or files written; a move killed after its first step is a copy.         *)
(*                                                                         *)
(* A file stands for a region of text that git merges as a unit: edits of  *)
(* two files stand for edits that merge, edits of one for edits that clash.*)
(***************************************************************************)
EXTENDS Naturals, Sequences, FiniteSets

CONSTANTS User, File,
          Content,       \* the texts users write
          EmptyText,     \* what copying a missing file writes
          Markers,       \* a text with conflict markers
          Absent,        \* no file
          Unmerged,      \* an index entry in conflict
          Kept,          \* no text in memory for the file
          Clean,         \* no autosave of the file outstanding
          Nested,        \* the files in the sub-folder, all others in the root
          InitialTree,   \* the trees of the master's first commit
          Kinds,         \* the kinds of operation requested
          MaxRequests    \* bound: requests served

Text == Content \union {EmptyText, Markers}
Tree == [File -> Text \union {Absent}]

ASSUME NestedAssumption == Nested \subseteq File
ASSUME InitialTreeAssumption == InitialTree \subseteq [File -> Content \union {Absent}]
ASSUME MaxRequestsAssumption == MaxRequests \in Nat
ASSUME SentinelAssumption ==
  /\ {Absent, Unmerged, Kept, Clean} \intersect Text = {}
  /\ Cardinality({Absent, Unmerged, Kept, Clean}) = 4

VARIABLES
  commits,    \* every commit made: its tree, ancestors, and what it changed
  master,     \* the master's head
  head,       \* head[u]: the head of u's clone
  upstream,   \* upstream[u]: origin/master in u's clone
  index,      \* index[u]: the index of u's clone
  work,       \* work[u]: its working tree
  phase,      \* phase[u]: how far the request on u's clone is
  op,         \* op[u]: what that request was asked to do
  saved,      \* saved[u]: the unstaged files it holds in memory
  conflicts,  \* conflicts[u]: the conflicted files merge() returned
  requests,   \* requests served so far
  autosaved,  \* history: texts u saved, not committed and not replaced since
  leftStaged, \* history: the files that a killed commit of u's left staged
  reported    \* history: the conflicts last reported to u, and against what

clone == <<head, upstream, index, work>>
request == <<phase, op, saved, conflicts>>
history == <<autosaved, leftStaged, reported>>
vars == <<commits, master, clone, request, requests, history>>

Phase == {"idle", "stage", "fetch", "reset", "clean", "merge", "rewrite", "apply"}
(* The phases in which what was not staged is in the process's memory.     *)
InMemory == {"clean", "merge", "rewrite"}
NoOp == [kind |-> "none"]
Commit == 1..Len(commits)
Snapshot == [File -> Text \union {Absent, Kept}]

(* The operations a client may ask for, as it may ask for them now. *)
Ops ==
  [kind : {"put"}, file : File, text : Content]
    \union [kind : {"del"}, file : File]
    \union {o \in [kind : {"cp", "mv"}, file : File, dst : File] : o.file # o.dst}
    \union [kind : {"co"}, file : File]
    \union [kind : {"revert"}, file : File, rev : Commit]
    \union [kind : {"commit"}, paths : SUBSET File \ {{}}]
    \union [kind : {"list"}]

TypeOK ==
  /\ \A c \in Commit : commits[c] \in [tree : Tree, anc : SUBSET (1..c), touched : SUBSET File]
  /\ master \in Commit
  /\ head \in [User -> Commit]
  /\ upstream \in [User -> Commit]
  /\ index \in [User -> [File -> Text \union {Absent, Unmerged}]]
  /\ work \in [User -> Tree]
  /\ phase \in [User -> Phase]
  /\ op \in [User -> Ops \union {NoOp}]
  /\ saved \in [User -> Snapshot]
  /\ conflicts \in [User -> SUBSET File]
  /\ requests \in 0..MaxRequests
  /\ autosaved \in [User -> [File -> Text \union {Clean}]]
  /\ leftStaged \in [User -> SUBSET File]
  /\ \A u \in User : reported[u].files \subseteq File /\ reported[u].upstream \in Commit

NothingSaved == [f \in File |-> Kept]

Init ==
  /\ \E t \in InitialTree :
       /\ commits = <<[tree |-> t, anc |-> {1}, touched |-> {}]>>
       /\ index = [u \in User |-> t]
       /\ work = [u \in User |-> t]
  /\ master = 1
  /\ head = [u \in User |-> 1]
  /\ upstream = [u \in User |-> 1]
  /\ phase = [u \in User |-> "idle"]
  /\ op = [u \in User |-> NoOp]
  /\ saved = [u \in User |-> NothingSaved]
  /\ conflicts = [u \in User |-> {}]
  /\ requests = 0
  /\ autosaved = [u \in User |-> [f \in File |-> Clean]]
  /\ leftStaged = [u \in User |-> {}]
  /\ reported = [u \in User |-> [files |-> {}, upstream |-> 1]]

-----------------------------------------------------------------------------
(* Git *)

TreeOf(c) == commits[c].tree
Anc(c) == commits[c].anc
NewCommit == Len(commits) + 1

InSomeCommit(f, text) == \E c \in Commit : TreeOf(c)[f] = text

(* The best common ancestors of two commits. *)
MergeBases(c, d) ==
  LET common == Anc(c) \intersect Anc(d)
  IN {b \in common : \A e \in common \ {b} : b \notin Anc(e)}

(* Three texts of one file merge unless both sides changed it differently. *)
Clashes(b, o, t) == o # t /\ o # b /\ t # b
(* Mutant of Merged: the merge keeps our side, as -s ours does. *)
MergedOurs(b, o, t) == o
Merged(b, o, t) == IF o = b THEN t ELSE o

(* What a failed merge leaves in the working tree: markers where there are *)
(* two versions, the one version where the other side deleted the file.    *)
Left(o, t) == IF o = Absent THEN t ELSE IF t = Absent THEN o ELSE Markers

(* git rm -rf: nothing happens for a path that is not in the index. *)
Removed(tree, i, f) ==
  IF i[f] = Absent THEN tree ELSE [tree EXCEPT ![f] = Absent]

(* git status --porcelain lists the folder, not the file, when the folder  *)
(* holds nothing that is in the index.                                     *)
Collapsed(u, f) == f \in Nested /\ \A g \in Nested : index[u][g] = Absent

-----------------------------------------------------------------------------
(* Helpers *)

(* Mutant of Unstaged: unstagedChanges(true), untracked files left out. *)
UnstagedIndexed(u, f) ==
  index[u][f] # Absent /\ (index[u][f] = Unmerged \/ work[u][f] # index[u][f])

(* unstagedChanges() *)
Unstaged(u, f) ==
  /\ index[u][f] = Unmerged \/ work[u][f] # index[u][f]
  /\ ~Collapsed(u, f)

(* The entry is not the head's, and the working tree has nothing else: of  *)
(* such a file status says "M ", "A " or "D ", and Unstaged passes it over.*)
OnlyStaged(u, f) == index[u][f] = work[u][f] /\ index[u][f] # TreeOf(head[u])[f]

(* What is left of the outstanding autosaves beside this head.             *)
Outstanding(a, t) == [f \in File |-> IF a[f] = t[f] THEN Clean ELSE a[f]]

Idle(u) ==
  /\ phase' = [phase EXCEPT ![u] = "idle"]
  /\ op' = [op EXCEPT ![u] = NoOp]
  /\ saved' = [saved EXCEPT ![u] = NothingSaved]
  /\ conflicts' = [conflicts EXCEPT ![u] = {}]

(* putFile() of a text, by the user's request. *)
Writes(u, f, text, w) ==
  /\ work' = [work EXCEPT ![u] = [w EXCEPT ![f] = text]]
  /\ autosaved' = [autosaved EXCEPT ![u] =
       Outstanding([@ EXCEPT ![f] = text], TreeOf(head[u]))]

-----------------------------------------------------------------------------
(* Requests arrive: the clone's lock has been obtained. *)

Accepted(u, o) ==
  /\ phase[u] = "idle"
  /\ requests < MaxRequests
  /\ o.kind \in Kinds
  /\ requests' = requests + 1

(* modules/file.php: repository() updates the clone before anything else. *)
StartFileOp(u) ==
  \E o \in Ops :
    /\ Accepted(u, o)
    /\ o.kind # "commit"
    /\ op' = [op EXCEPT ![u] = o]
    /\ phase' = [phase EXCEPT ![u] = "fetch"]
    /\ UNCHANGED <<commits, master, clone, saved, conflicts, history>>

(* commitProject(): unstage all, ... *)
StartCommit(u) ==
  \E paths \in SUBSET File \ {{}} :
    LET o == [kind |-> "commit", paths |-> paths]
    IN /\ Accepted(u, o)
       /\ op' = [op EXCEPT ![u] = o]
       /\ index' = [index EXCEPT ![u] = TreeOf(head[u])]
       /\ leftStaged' = [leftStaged EXCEPT ![u] = {}]
       /\ phase' = [phase EXCEPT ![u] = "stage"]
       /\ UNCHANGED <<commits, master, head, upstream, work, saved, conflicts,
                      autosaved, reported>>

(* ... stage() each path: add it, or git rm the file that is not there, ...*)
StageFile(u) ==
  \E f \in File :
    /\ phase[u] = "stage"
    /\ f \in op[u].paths
    /\ index[u][f] # work[u][f]
    /\ index' = [index EXCEPT ![u][f] = work[u][f]]
    /\ UNCHANGED <<commits, master, head, upstream, work, request, requests, history>>

AllStaged(u) ==
  /\ phase[u] = "stage"
  /\ \A f \in op[u].paths : index[u][f] = work[u][f]

(* ... and commit, to go on with the update. *)
CommitStaged(u) ==
  LET t == TreeOf(head[u])
      i == index[u]
  IN /\ AllStaged(u)
     /\ i # t
     /\ commits' = Append(commits,
          [tree |-> i,
           anc |-> Anc(head[u]) \union {NewCommit},
           touched |-> {f \in File : i[f] # t[f]}])
     /\ head' = [head EXCEPT ![u] = NewCommit]
     /\ autosaved' = [autosaved EXCEPT ![u] = Outstanding(@, i)]
     /\ phase' = [phase EXCEPT ![u] = "fetch"]
     /\ UNCHANGED <<master, upstream, index, work, op, saved, conflicts, requests,
                    leftStaged, reported>>

(* There is nothing to commit: the request fails, the index is HEAD's. *)
CommitFails(u) ==
  /\ AllStaged(u)
  /\ index[u] = TreeOf(head[u])
  /\ Idle(u)
  /\ UNCHANGED <<commits, master, clone, requests, history>>

-----------------------------------------------------------------------------
(* updateRepository() *)

(* Mutant of Fetch: the other clones are the remotes. *)
FetchClones(u) ==
  \E v \in User \ {u} :
    /\ phase[u] = "fetch"
    /\ upstream' = [upstream EXCEPT ![u] = head[v]]
    /\ phase' = [phase EXCEPT ![u] = IF head[u] = head[v] THEN "apply" ELSE "reset"]
    /\ UNCHANGED <<commits, master, head, index, work, op, saved, conflicts,
                   requests, history>>

Fetch(u) ==
  /\ phase[u] = "fetch"
  /\ upstream' = [upstream EXCEPT ![u] = master]
  /\ phase' = [phase EXCEPT ![u] = IF head[u] = master THEN "apply" ELSE "reset"]
  /\ UNCHANGED <<commits, master, head, index, work, op, saved, conflicts,
                 requests, history>>

(* What git reset --hard to this tree leaves: untracked files stay.        *)
HardReset(u, t) ==
  [f \in File |-> IF index[u][f] = Absent /\ t[f] = Absent THEN work[u][f] ELSE t[f]]

(* The files not staged are read; those only staged are not, and are gone  *)
(* unless a commit has them: a killed commit left them so.                 *)
Remember(u) ==
  /\ saved' = [saved EXCEPT ![u] =
       [f \in File |-> IF Unstaged(u, f) THEN work[u][f] ELSE Kept]]
  /\ autosaved' = [autosaved EXCEPT ![u] =
       [f \in File |-> IF OnlyStaged(u, f) /\ (f \in leftStaged[u] \/ InSomeCommit(f, work[u][f]))
                       THEN Clean ELSE @[f]]]
  /\ leftStaged' = [leftStaged EXCEPT ![u] = {}]

(* Mutant of Reset: reset --hard origin/master. *)
ResetToUpstream(u) ==
  LET t == TreeOf(upstream[u])
  IN /\ phase[u] = "reset"
     /\ Remember(u)
     /\ head' = [head EXCEPT ![u] = upstream[u]]
     /\ index' = [index EXCEPT ![u] = t]
     /\ work' = [work EXCEPT ![u] = HardReset(u, t)]
     /\ phase' = [phase EXCEPT ![u] = "clean"]
     /\ UNCHANGED <<commits, master, upstream, op, conflicts, requests, reported>>

(* Read the unstaged files, then reset --hard; ... *)
Reset(u) ==
  LET t == TreeOf(head[u])
  IN /\ phase[u] = "reset"
     /\ Remember(u)
     /\ index' = [index EXCEPT ![u] = t]
     /\ work' = [work EXCEPT ![u] = HardReset(u, t)]
     /\ phase' = [phase EXCEPT ![u] = "clean"]
     /\ UNCHANGED <<commits, master, head, upstream, op, conflicts, requests, reported>>

(* ... then clean -f -d: what is not in the index goes. *)
CleanUp(u) ==
  /\ phase[u] = "clean"
  /\ work' = [work EXCEPT ![u] = [f \in File |-> IF index[u][f] = Absent THEN Absent ELSE @[f]]]
  /\ phase' = [phase EXCEPT ![u] = "merge"]
  /\ UNCHANGED <<commits, master, head, upstream, index, op, saved, conflicts, requests, history>>

(* merge(): already up to date. *)
MergeNothing(u) ==
  /\ phase[u] = "merge"
  /\ upstream[u] \in Anc(head[u])
  /\ phase' = [phase EXCEPT ![u] = "rewrite"]
  /\ UNCHANGED <<commits, master, clone, op, saved, conflicts, requests, history>>

(* The clone is now at a merged commit with this tree. *)
MergedTo(u, c, tree) ==
  /\ head' = [head EXCEPT ![u] = c]
  /\ index' = [index EXCEPT ![u] = tree]
  /\ work' = [work EXCEPT ![u] = tree]
  /\ autosaved' = [autosaved EXCEPT ![u] = Outstanding(@, tree)]
  /\ phase' = [phase EXCEPT ![u] = "rewrite"]
  /\ UNCHANGED <<master, upstream, op, saved, conflicts, requests, leftStaged, reported>>

(* merge(): fast-forward. *)
MergeFastForward(u) ==
  /\ phase[u] = "merge"
  /\ upstream[u] \notin Anc(head[u])
  /\ head[u] \in Anc(upstream[u])
  /\ MergedTo(u, upstream[u], TreeOf(upstream[u]))
  /\ UNCHANGED commits

(* The clone and upstream have diverged; the files both changed. *)
Diverged(u) ==
  /\ phase[u] = "merge"
  /\ upstream[u] \notin Anc(head[u])
  /\ head[u] \notin Anc(upstream[u])

BaseTree(u) == TreeOf(CHOOSE b \in MergeBases(head[u], upstream[u]) : TRUE)
Ours(u) == TreeOf(head[u])
Theirs(u) == TreeOf(upstream[u])
Clashing(u) == {f \in File : Clashes(BaseTree(u)[f], Ours(u)[f], Theirs(u)[f])}

(* merge(): a merge commit. *)
MergeClean(u) ==
  /\ Diverged(u)
  /\ Clashing(u) = {}
  /\ LET tree == [f \in File |-> Merged(BaseTree(u)[f], Ours(u)[f], Theirs(u)[f])]
     IN /\ commits' = Append(commits,
             [tree |-> tree,
              anc |-> Anc(head[u]) \union Anc(upstream[u]) \union {NewCommit},
              touched |-> {}])
        /\ MergedTo(u, NewCommit, tree)

(* The conflicts whose message merge() recognises: both sides and the base *)
(* have the file.  Add/add and modify/delete conflicts are worded apart.   *)
Recognised(u) ==
  {f \in Clashing(u) : Absent \notin {BaseTree(u)[f], Ours(u)[f], Theirs(u)[f]}}

(* merge(): stopped by conflicts, what merges being staged. *)
MergeConflicts(u) ==
  /\ Diverged(u)
  /\ Clashing(u) # {}
  /\ LET b == BaseTree(u)
         o == Ours(u)
         t == Theirs(u)
         i == [f \in File |-> IF f \in Clashing(u) THEN Unmerged
                              ELSE Merged(b[f], o[f], t[f])]
     IN /\ index' = [index EXCEPT ![u] = i]
        /\ work' = [work EXCEPT ![u] =
             [f \in File |-> IF f \in Clashing(u) THEN Left(o[f], t[f]) ELSE i[f]]]
  /\ conflicts' = [conflicts EXCEPT ![u] = Recognised(u)]
  /\ phase' = [phase EXCEPT ![u] = "rewrite"]
  /\ UNCHANGED <<commits, master, head, upstream, op, saved, requests, history>>

(* One of the files in memory is written back, or removed again. *)
Rewrite(u) ==
  \E f \in File :
    /\ phase[u] = "rewrite"
    /\ saved[u][f] # Kept
    /\ IF saved[u][f] = Absent
         THEN /\ work' = [work EXCEPT ![u] = Removed(@, index[u], f)]
              /\ index' = [index EXCEPT ![u][f] = Absent]
         ELSE /\ work' = [work EXCEPT ![u][f] = saved[u][f]]
              /\ UNCHANGED index
    /\ saved' = [saved EXCEPT ![u][f] = Kept]
    /\ UNCHANGED <<commits, master, head, upstream, phase, op, conflicts, requests, history>>

Rewritten(u) == phase[u] = "rewrite" /\ saved[u] = NothingSaved

(* Mutants of Push: it is forced; a commit leaves it to the next request. *)
PushForced(u) ==
  /\ Rewritten(u)
  /\ conflicts[u] = {}
  /\ master' = head[u]
  /\ upstream' = [upstream EXCEPT ![u] = head[u]]
  /\ phase' = [phase EXCEPT ![u] = "apply"]
  /\ UNCHANGED <<commits, head, index, work, op, saved, conflicts, requests, history>>

PushForFileOps(u) ==
  /\ Rewritten(u)
  /\ conflicts[u] = {}
  /\ IF op[u].kind # "commit" /\ master \in Anc(head[u])
       THEN master' = head[u] /\ upstream' = [upstream EXCEPT ![u] = head[u]]
       ELSE UNCHANGED <<master, upstream>>
  /\ phase' = [phase EXCEPT ![u] = "apply"]
  /\ UNCHANGED <<commits, head, index, work, op, saved, conflicts, requests, history>>

(* No conflicts were recognised: push.  The master refuses what does not   *)
(* contain its head; nobody looks at the outcome.                          *)
Push(u) ==
  /\ Rewritten(u)
  /\ conflicts[u] = {}
  /\ IF master \in Anc(head[u])
       THEN master' = head[u] /\ upstream' = [upstream EXCEPT ![u] = head[u]]
       ELSE UNCHANGED <<master, upstream>>
  /\ phase' = [phase EXCEPT ![u] = "apply"]
  /\ UNCHANGED <<commits, head, index, work, op, saved, conflicts, requests, history>>

ReportConflicts(u) ==
  /\ Rewritten(u)
  /\ conflicts[u] # {}
  /\ phase' = [phase EXCEPT ![u] = "apply"]
  /\ UNCHANGED <<commits, master, clone, op, saved, conflicts, requests, history>>

-----------------------------------------------------------------------------
(* The operations, on the updated clone *)

Applying(u, kind) ==
  /\ phase[u] = "apply"
  /\ op[u].kind = kind
  /\ Idle(u)
  /\ UNCHANGED <<commits, master, head, upstream, requests>>

PutFile(u) ==
  /\ Applying(u, "put")
  /\ UNCHANGED <<index, leftStaged, reported>>
  /\ Writes(u, op[u].file, op[u].text, work[u])

DeleteFile(u) ==
  /\ Applying(u, "del")
  /\ LET f == op[u].file
     IN /\ work' = [work EXCEPT ![u] = Removed(@, index[u], f)]
        /\ index' = [index EXCEPT ![u][f] = Absent]
        /\ autosaved' = [autosaved EXCEPT ![u][f] =
             IF index[u][f] = Absent THEN @ ELSE Clean]
  /\ UNCHANGED <<leftStaged, reported>>

(* Mutant of Source: the copy of a missing file is no file. *)
SourceMissing(u) == work[u][op[u].file]

(* getFile() of a missing file is FALSE, and putFile() writes that as "". *)
Source(u) == IF work[u][op[u].file] = Absent THEN EmptyText ELSE work[u][op[u].file]

CopyFile(u) ==
  /\ Applying(u, "cp")
  /\ UNCHANGED <<index, leftStaged, reported>>
  /\ Writes(u, op[u].dst, Source(u), work[u])

(* Mutant of MoveFile: git rm first, the copy finds nothing. *)
MoveFileRemovesFirst(u) ==
  /\ Applying(u, "mv")
  /\ LET f == op[u].file
         d == op[u].dst
         gone == index[u][f] # Absent
     IN /\ index' = [index EXCEPT ![u][f] = Absent]
        /\ work' = [work EXCEPT ![u] =
             [Removed(@, index[u], f) EXCEPT ![d] = IF gone THEN EmptyText ELSE Source(u)]]
        /\ autosaved' = [autosaved EXCEPT ![u] =
             Outstanding([g \in File |-> IF g = d THEN Source(u)
                                         ELSE IF g = f /\ gone THEN Clean ELSE @[g]],
                         TreeOf(head[u]))]
  /\ UNCHANGED <<leftStaged, reported>>

(* moveFile(): copy, then git rm of the source. *)
MoveFile(u) ==
  /\ Applying(u, "mv")
  /\ LET f == op[u].file
         d == op[u].dst
         gone == index[u][f] # Absent
     IN /\ index' = [index EXCEPT ![u][f] = Absent]
        /\ work' = [work EXCEPT ![u] =
             Removed([@ EXCEPT ![d] = Source(u)], index[u], f)]
        /\ autosaved' = [autosaved EXCEPT ![u] =
             Outstanding([g \in File |-> IF g = d THEN Source(u)
                                         ELSE IF g = f /\ gone THEN Clean ELSE @[g]],
                         TreeOf(head[u]))]
  /\ UNCHANGED <<leftStaged, reported>>

(* git checkout -- file: from the index, refused if it has no such file.   *)
CheckoutFile(u) ==
  /\ Applying(u, "co")
  /\ LET f == op[u].file
         found == index[u][f] \notin {Absent, Unmerged}
     IN /\ work' = IF found THEN [work EXCEPT ![u][f] = index[u][f]] ELSE work
        /\ autosaved' = IF found THEN [autosaved EXCEPT ![u][f] = Clean] ELSE autosaved
  /\ UNCHANGED <<index, leftStaged, reported>>

(* git checkout rev -- file: into index and working tree, if rev has it. *)
RevertFile(u) ==
  /\ Applying(u, "revert")
  /\ LET f == op[u].file
         text == TreeOf(op[u].rev)[f]
         found == text # Absent /\ op[u].rev \in Anc(head[u]) \union Anc(upstream[u])
     IN /\ work' = IF found THEN [work EXCEPT ![u][f] = text] ELSE work
        /\ index' = IF found THEN [index EXCEPT ![u][f] = text] ELSE index
        /\ autosaved' = IF found THEN [autosaved EXCEPT ![u][f] = Clean] ELSE autosaved
  /\ UNCHANGED <<leftStaged, reported>>

ListFiles(u) ==
  /\ Applying(u, "list")
  /\ UNCHANGED <<index, work, history>>

(* commitProject() answers with the conflicts and the commit. *)
FinishCommit(u) ==
  /\ Applying(u, "commit")
  /\ reported' = [reported EXCEPT ![u] = [files |-> conflicts[u], upstream |-> upstream[u]]]
  /\ UNCHANGED <<index, work, autosaved, leftStaged>>

(* The process dies: the clone stays as it is, and the lock goes.  What    *)
(* was in its memory alone is lost.                                        *)
Crash(u) ==
  /\ phase[u] # "idle"
  /\ Idle(u)
  /\ autosaved' = [autosaved EXCEPT ![u] =
       [f \in File |-> IF phase[u] \in InMemory /\ work[u][f] # @[f]
                       THEN Clean ELSE @[f]]]
  /\ leftStaged' = [leftStaged EXCEPT ![u] =
       IF phase[u] = "stage" THEN {f \in File : index[u][f] # TreeOf(head[u])[f]} ELSE @]
  /\ UNCHANGED <<commits, master, clone, requests, reported>>

Update(u) ==
  \/ Fetch(u) \/ Reset(u) \/ CleanUp(u)
  \/ MergeNothing(u) \/ MergeFastForward(u) \/ MergeClean(u) \/ MergeConflicts(u)
  \/ Rewrite(u) \/ Push(u) \/ ReportConflicts(u)

Apply(u) ==
  \/ PutFile(u) \/ DeleteFile(u) \/ CopyFile(u) \/ MoveFile(u)
  \/ CheckoutFile(u) \/ RevertFile(u) \/ ListFiles(u) \/ FinishCommit(u)

Next ==
  \E u \in User :
    \/ StartFileOp(u)
    \/ StartCommit(u) \/ StageFile(u) \/ CommitStaged(u) \/ CommitFails(u)
    \/ Update(u)
    \/ Apply(u)
    \/ Crash(u)

Spec == Init /\ [][Next]_vars

-----------------------------------------------------------------------------
(* Properties *)

(* A text a user has saved and not committed is in the working tree        *)
(* whenever no update is going on: no update loses it, whatever others     *)
(* pushed and however the merge ended.  Two kinds of text an update does   *)
(* lose, and the history drops them where it happens: those in the memory  *)
(* of a process that died (Crash), and those that a commit killed before   *)
(* git commit left staged (Reset).  A text staged in another way that the  *)
(* next update drops as well is still in a commit.                         *)
AutosavedRemain ==
  \A u \in User, f \in File :
    phase[u] \notin InMemory /\ autosaved[u][f] # Clean
      => work[u][f] = autosaved[u][f]

(* The clone and the master never diverge in a criss-cross: a merge has    *)
(* exactly one base, so its outcome does not depend on a choice.           *)
UniqueMergeBase ==
  \A u \in User :
    Cardinality(MergeBases(head[u], master)) = 1
      /\ Cardinality(MergeBases(head[u], upstream[u])) = 1

(* A commit that merged and that nobody overtook is in the master when the *)
(* reply is sent, although the result of the push is never looked at.      *)
UnracedCommitsLand ==
  \A u \in User :
    /\ phase[u] = "apply"
    /\ op[u].kind = "commit"
    /\ master = upstream[u]
    /\ upstream[u] \in Anc(head[u])
    => head[u] = master

(* A commit is never dropped from a clone's history or from the master's,  *)
(* whatever is merged, reset or pushed, and whoever dies.                  *)
HistoryKept ==
  [][ /\ \A u \in User : head[u] \in commits'[head'[u]].anc
      /\ master \in commits'[master'].anc ]_vars

(* What a push changes in the master, the pusher changed: no merge undoes  *)
(* or mixes up another user's pushed changes.                              *)
PushesOnlyOwnChanges ==
  [][ \A f \in File :
        TreeOf(master)[f] # commits'[master'].tree[f]
          => \E c \in commits'[master'].anc \ Anc(master) :
               f \in commits'[c].touched ]_vars

(* edittab.js takes a commit answered without merges for saved and pushed: *)
(* such a commit is in the master.                                         *)
SavedMeansMerged ==
  \A u \in User :
    phase[u] = "apply" /\ op[u].kind = "commit" /\ conflicts[u] = {}
      => head[u] \in Anc(master)

(* "Merge required, please check and try again": a commit of other texts   *)
(* for every file reported in conflict, upstream being the same, merges.   *)
RetryMerges ==
  \A u \in User :
    /\ phase[u] = "apply"
    /\ op[u].kind = "commit"
    /\ reported[u].files # {}
    /\ reported[u].files \subseteq op[u].paths
    /\ reported[u].upstream = upstream[u]
    /\ \A f \in reported[u].files : TreeOf(head[u])[f] # Markers
    => conflicts[u] = {}

-----------------------------------------------------------------------------
(* The inductive invariants of the proofs *)

(* An index that is being staged has no entry in conflict. *)
Staging == \A u \in User : phase[u] = "stage" => index[u] \in Tree

(* Commits are records, and a report names one. *)
Typed ==
  /\ commits \in Seq([tree : Tree, anc : SUBSET Nat, touched : SUBSET File])
  /\ reported \in [User -> [files : SUBSET File, upstream : Commit]]
  /\ TypeOK
  /\ Staging

(* A commit is among its ancestors, all of them older. *)
Ancestry == \A c \in Commit : c \in Anc(c) /\ Anc(c) \subseteq 1..c

(* Where an autosaved text is, phase by phase, and that it is a change:    *)
(* what stands at the head is not saved across a reset.                    *)
Autosave(u, f) ==
  /\ autosaved[u][f] # TreeOf(head[u])[f]
  /\ phase[u] \in {"clean", "merge"} => saved[u][f] = autosaved[u][f]
  /\ phase[u] = "rewrite" => \/ saved[u][f] = autosaved[u][f]
                             \/ saved[u][f] = Kept /\ work[u][f] = autosaved[u][f]
  /\ phase[u] \notin InMemory => work[u][f] = autosaved[u][f]
(* What is staged without the head having it stands in a commit, unless a  *)
(* commit is staging it or was killed when it had.                         *)
Entry(u, f) ==
  index[u][f] \in Text /\ index[u][f] # TreeOf(head[u])[f]
    => \/ phase[u] = "stage"
       \/ f \in leftStaged[u]
       \/ InSomeCommit(f, index[u][f])
EntriesOf(u) == \A f \in File : Entry(u, f)
Entries == \A u \in User : EntriesOf(u)
AutosavesOf(u) == \A f \in File \ Nested : autosaved[u][f] # Clean => Autosave(u, f)
Autosaves == \A u \in User : AutosavesOf(u)

(* A clone has fetched no later revision than the master's; what conflicts *)
(* is not merged; and when its update is over it is in step, not merged,   *)
(* or overtaken.                                                           *)
InStepOf(u) ==
  /\ upstream[u] <= master
  /\ conflicts[u] # {} => /\ phase[u] \in {"rewrite", "apply"}
                          /\ upstream[u] \notin Anc(head[u])
  /\ phase[u] = "apply" => \/ head[u] = upstream[u]
                           \/ upstream[u] \notin Anc(head[u])
                           \/ upstream[u] < master
InStep == \A u \in User : InStepOf(u)

(* A clone shares with the master one revision and what led to it, and all *)
(* of that it has fetched; what two clones share is in the master.         *)
SharedOf(u) ==
  /\ upstream[u] \in Anc(master)
  /\ Anc(head[u]) \intersect Anc(master) \subseteq Anc(upstream[u])
  /\ \E m \in Anc(head[u]) \intersect Anc(upstream[u]) :
       Anc(head[u]) \intersect Anc(upstream[u]) \subseteq Anc(m)
Lineage ==
  /\ \A c \in Commit : \A d \in Anc(c) : Anc(d) \subseteq Anc(c)
  /\ \A u \in User : SharedOf(u)
  /\ \A u, v \in User : u # v => Anc(head[u]) \intersect Anc(head[v]) \subseteq Anc(master)

(* Where a commit differs from one of its ancestors, a commit in between   *)
(* changed the file.                                                       *)
Accounted ==
  \A c \in Commit : \A d \in Anc(c), f \in File :
    TreeOf(c)[f] # TreeOf(d)[f] => \E e \in Anc(c) \ Anc(d) : f \in commits[e].touched
=============================================================================
