# A TLA+ model of the Student Robotics IDE

The IDE (srobo-ide) is a web editor for teams' robot code. A PHP server keeps
every project in git: a bare *master* repository per project and a working
*clone* per user. A single-page JavaScript client edits files in tabs and talks
to the server with asynchronous requests. Every request is a PHP process of its
own; the processes share nothing but the disk.

This directory models the parts of it whose correctness depends on what happens
between processes, requests, answers and failures. TLC checks the models on
small instances; TLAPS proves the main safety results for every instance.

    tlc -workers 2 -config LockHandler.cfg LockHandler      # one run
    tlapm LockHandlerProofs.tla                             # one proof

`PROJECT.json` lists the components, the runs, the mutants (for every property a
plausible bug that breaks it), the source lines each definition stands for, the
findings, the hazards and the theorems.

## 1. The system

### Parts, their state, and how they interact

| part | source | state | operations | modelled by |
|---|---|---|---|---|
| repository locks | `include/lock-handler.php`, `file_lock` in `include/file-utils.php`, constructors and destructors in `include/git.php` | per process: the table of lock handles and their counts; in the system: the flocks | lock, unlock, time-out | `LockHandler`, `RWLock` |
| project synchronisation | `include/project-manager.php`, `include/git.php`, `modules/file.php`, `modules/proj.php` | the master's history; each clone's history, index and working tree | update, put, delete, copy, move, checkout, revert, list, commit | `ProjectSync` |
| project life cycle | the same files | the directories of masters and clones | create, copy, delete, clone on demand | planned: `UserClones` |
| zip export | `modules/proj.php`, `include/checkout-helper.php`, `modules/cron.php` | the zip folders | export, hourly cleaning | planned: `ZipStore` |
| edit tabs | `edittab.js`, `editpage.js`, `tabs.js`, `status.js`, `editorwrapper.js` under `web/javascript` | per tab: editor session, contents, original, revision; shared: the tab in front, the session displayed, the status bar's button | open, switch, type, save, change revision, close, retry; answers | `EditTabs` |
| team status and review | `include/team-status.php`, `modules/team.php`, `modules/admin.php` | one JSON file and two image files per team | put status, put image, review, publish | `TeamStatus` |
| process execution | `include/proc-utils.php` | a child process, its pipes | run with or without a time-out, reap | planned: `ProcExec` |
| project page | `projpage.js`, `projlist.js`, `projselect.js`, `projfilelist.js`, `poll.js` | the list of projects, the one selected, the listing and its selection, the polls, the export under way | choose, create, select files, refresh, poll, export | `ProjectPage` |
| browser shell | `gui.js`, `tabs.js`, `status.js`, `editpage.js` | the tab bar, the page displayed, the menu, the status bar, the team | start, open, close, switch, change team | `Window`, `Pages` |
| file operations and their dialog | `projops.js`, `browser.js` | the dialog, its tree and directory; the selection | new folder, move, copy, delete, undelete, new project | `FileDialog` |
| search, errors, logs, differences, calendar, settings, reviews | `search.js`, `errors.js`, `errors-model.js`, `log.js`, `diff.js`, `calendar.js`, `settings.js`, `admin.js`, `team-status.js` | what each page shows and has asked for | one module each, below | `SearchPage`, `ErrorsPage`, `LogPages`, `CalendarPage`, `SettingsPage`, `ReviewPages` |
| notifications, cached files | `include/notifications.php`, `cache-utils.php` | one file each | read, write, clear | not modelled |
| authentication, dispatch, logging, lint, formatting | the rest of `include`, `modules` | none between requests | | not modelled |

The browser sends `file/get` to the master (read only, shared lock) and
`file/put`, `file/del`, ..., `proj/commit` to the user's clone (exclusive lock).
A request on a clone starts by bringing it up to date with the master; a commit
ends with that. A tab's save is two requests, `file/put` and, in its success
callback, `proj/commit`. The lock of a repository is taken by the constructor
of its object and given back by the destructor, so one request may hold several
objects, and so counted locks, on one file.

### What is hard, and what makes each part correct

* **Locks.** A request may make several objects of one repository, drop them in
  any order, be refused (exclusive on top of shared), time out and unwind, or
  die. Correct: exclusion between processes; the flock is held exactly while an
  object lives; a process never waits for itself; every wait ends.
* **Synchronisation.** An update takes the user's unsaved-to-git texts into
  memory, resets and cleans the tree, merges, writes the texts back and pushes;
  other users push between its fetch and its push, and the process may die
  between any two of its commands. Correct: what was saved stays (but for two
  losses a kill brings about, section 5), what was committed stays, a push
  changes only what its user changed, and the answer tells the truth.
* **Tabs.** Three texts per tab, one shared editor and one shared status bar,
  answers in any order, failures and retries. Correct: typing goes to the tab in
  front, nothing typed is lost or closed unasked, "not modified" means that there
  is a commit.
* **Team status.** Whole-file load, change and save with no lock, torn writes,
  an image file replaced at any time. Correct: nothing is public that was not
  approved; a new draft is always reviewed.
* **Life cycle, zip export.** Tests of the disk followed by changes to it in
  another moment. **Process execution.** Two pipes read one after the other, a
  time-out racing the child's end.
* **Pages.** Every page asks and is answered later, when the user may have
  turned to another page, project, team or query, closed the page, or pressed a
  retry that was offered for something else. All edit tabs share a pane, all logs
  a list, all pages a status bar, all dialogs a set of elements. Correct: a page
  shows what it says it shows, and a request is about what the user saw.

`hazards` in `PROJECT.json` lists these at the lines where they bite, with the
properties that cover them or the reason none does.

## 2. The modules

### `LockHandler` (with `RWLock`, `LockHandlerProofs`)

Per request `r` and lock file `f`: `objects[r][f]` counts the live repository
objects by kind, `handles[r][f]` is the wrapper `LockHandler::$handles` keeps
(`count = 0` is "not set"), `flocks[f]` is who holds the flock, `exists` the lock
files on the disk, `want[r]` the `file_lock` call under way with whether its
`fopen` succeeded, `attempts[r]` its failed attempts, `throwing` the requests an
exception is unwinding in.

| action | code |
|---|---|
| `BeginFileLock` | `lock()` without a handle: `file_lock` opens the file (mode `w` creates, mode `r` may fail) |
| `LockAgain`, `LockRefused` | `lock()` with a handle |
| `FlockGranted`, `FlockRetry`, `FlockTimeout` | one turn of the polling loop; the `throw` after it |
| `Unlock` | an object's destructor |
| `Caught` | a `catch` |
| `Killed` | the process dies, the system closes its files |

`LOCK_NB` polling makes the wait a loop: `MaxAttempts` stands for
`lock.max_wait` / 10 ms (any number from 1 may fit, since scheduling decides).
An `fopen` that failed makes every `flock` fail until the time-out, as in PHP.

`RWLock` is the abstract readers-writer lock: what a request was granted is
neither weakened nor strengthened until it lets go. `LockHandler` implements it
under the mapping `Owned`.

### `ProjectSync` (with `MCProjectSync`, `ProjectSyncProofs`)

`commits` is every commit made, with its tree, its ancestors and, for a user's
commit, the files it changed; `master`, `head[u]`, `upstream[u]` are revisions;
`index[u]` and `work[u]` are u's index and working tree; `phase[u]`, `op[u]`,
`saved[u]`, `conflicts[u]` are the request at work on u's clone: where it is in
`commitProject` or `updateRepository`, what it was asked, the `$unstagedFiles`
array, and what `merge()` returned. `autosaved`, `leftStaged` and `reported` are
history variables.

One action per git command or loop step: `Fetch` (with the comparison of revisions),
`Reset` (read the unstaged files, then `reset --hard`), `CleanUp` (`clean -f -d`),
`MergeNothing` / `MergeFastForward` / `MergeClean` / `MergeConflicts`, `Rewrite` (one
file of the loop), `Push` / `ReportConflicts`, then the handler's own work: `PutFile`,
`DeleteFile`, `CopyFile`, `MoveFile`, `CheckoutFile`, `RevertFile`, `ListFiles`,
`FinishCommit`. `StartFileOp` is a request that has the clone's the clone's lock.
`commitProject` is `StartCommit` (`git reset`), `StageFile` (one path of its loop), and
`CommitStaged` or `CommitFails`, then its update. `Crash` kills the process between any
two of them; what it held in memory alone is gone, and what a commit had staged is noted
in `leftStaged`: the next update does not list it as unstaged and resets it away.

The clone's lock admits one request per clone, so a user is one process at a
time; that is what `LockHandler` provides (`Exclusion`), and it is why the steps
on one clone do not interleave with each other. Git itself is external: a merge
is three-way per file. A *file* of the model stands for a region of text that
git merges as a unit: two users' edits of two files stand for edits that merge,
edits of the same file for edits that clash. Rename detection, ignored files,
and lists of several files in one delete or checkout are abstracted (each file
of the list is a step of its own kind; a commit does take sets of paths).

### `EditTabs` (with `EditTabsProofs`)

The client with its server reduced to what a tab can tell apart: the committed
versions of its file in the master, the text put last, the version the clone was
brought up to, and the commits the clone holds that the master does not have
(`held`: they conflicted, or their push was refused). `session[t]` is the
ACE session, `contents[t]`, `original[t]`, `rev[t]` the tab's fields; `focus` is
the tab bar's current tab, `shown` the session the one editor displays, `offer`
the button the one status bar shows. `net` is the set of requests and answers
under way, delivered in any order; any of them may fail at any time.

User actions: `Open`, `Switch`, `Type`, `Save`, `ChangeRevision`, `Close`,
`CloseAll`, and the buttons `CloseAnyway`, `RevisionAnyway`, `RetryLoad`,
`RetrySave`. Server: `ServeGet`, `ServePut`, `ServeCommit` / `ServeMerge` /
`ServeRefused` / `ServeConflict`, `Fail`, `PushHeld` (another request of the user
merges and pushes what the clone holds) and `OthersCommit`. Answers: `ReceiveContents`,
`LoadFailed`, `PutDone` (which sends the commit), `SaveFailed`, `Saved`,
`Conflict`. The commit message dialog is modal, so a save is one user action.
`ServeRefused` is finding 2 seen from the tab: the push is refused and the answer is
that of a save, so `UnmodifiedMeansSaved` says that there is a commit, in the
master or in the clone. The retry of a save puts the text, and then asks for a
commit without a message (`edittab.js:258`), which the server refuses
(`proj.php:141`, `input.php:53`): messages `"reput"`, `"redone"`, `"recommit"`.

`Patient` says what the user waits for: `"load"` (leaves a tab alone, and in
front, until it has loaded) and `"save"` (leaves it alone until it is saved).
The code itself relies on such a user; the findings, `LateContentsOnly` and section 5
say what happens to others.

### `ProjectPage` (with `MCProjectPage`, `ProjectPageProofs`)

The parts of the project page are records of `ui`: `list` (`ProjList`), `sel`
(`ProjSelect`), `flist` (`ProjFileList` with the listing in the page's DOM, what
is selected and what is highlighted, its automatic refresh), `page`, `cal`,
`polls` and the status bar's `offer`; `repo` is the server. Each handler is an
operator from one window to the next, as handlers call one another by signals:
`ListChanged` is `_plist_onchange`, `UpdateTo` the file list's `update`,
`Received` its `_received`, `PollChanged` the page's `_pollChanged`. A poll that
was cancelled with a request under way is kept in `polls`, since it polls on.
User actions choose a team, a project, a revision or files, create a project,
export, and press the status bar's button; timers fire when the model lets them.
`raced` notes that somebody acted while a request was under way.

### `Window` ... `Pages` (with `MCPages`, `PagesFrames`, `PagesProofs`, `FoldInduction`)

The rest of the browser is one state, `win`, of which every module has its
fields and its actions; each module extends the one before it, in this order:

| module | models | fields of `win` |
|---|---|---|
| `Window` | tab bar, page roots, status bar, menu and about box, tabs of edited files with their session, loading, modification and closing | `tabs`, `cur`, `shown`, `edit`, `pane`, `offer`, `menu`, `team`, `net` |
| `SearchPage` | both search providers | `search` |
| `SettingsPage` | the user's settings, the form and what its fields depend upon | `settings` |
| `ErrorsPage` | the errors of each file, the page's lists, the marks in edit tabs | `errors` |
| `LogPages` | logs with pages and authors, reverts, the page of differences | `log`, `drawn`, `diff`, `commits` |
| `CalendarPage` | months, days with revisions, the revision loaded | `cal` |
| `ReviewPages` | the team's form, the administrator's table | `status`, `admin`, `reviews`, `texts` |
| `FileDialog` | file operations, the save dialog and its project selector | `ops`, `dlg`, `disk` |
| `EditPane` | the list of revisions of the pane all edit tabs share | `pane` |
| `Pages` | start-up, closing, changing the team; `Next` | |

An operator takes the window as it is and gives it as it becomes, the way the
handlers call one another; an action is a user's gesture, an answer, a failure
or a timer. `net` holds the requests under way; the server's part happens when
the answer arrives, at once with it. A request may fail, and one of two steps
(`file/mv`, then `proj/commit`) may fail between them, with the first done.

**Habits.** The pages interact through the tabs, the pane, the status bar, the
team and the settings, hardly with one another. A behaviour has a `habit`, the
page its user is busy with; he opens and closes tabs, changes the team and
stays on the page in any of them. `habit` is chosen in `Init` and never changes.

**`raced`** is a history of what the user did that the pages do not expect:
`"hasty"` (acted before the page he acts on, or what the tabs share with it, had
its answers), `"left"` (a page
stayed open while the team changed), `"several"` (had all of several open files
closed at once), `"old"` (chose a folder in a tree that a dialog before this
one had drawn) and `"elsewhere"` (let a copy or a move leave its project). The
properties say which of these they exclude; section 5 says what happens then.

### `TeamStatus` (with `TeamStatusProofs`)

`file` is what loading the JSON file gives (a missing, empty or torn file gives
no data), `copy[p]` the copy of the process between its load and its save, `pc`
where it is, `upload` and `liveImage` the two image files, `seen` what the
reviewer's page shows, `review` the verdict a process still has to publish.
`Truncate` and `Write` are the two halves of `file_put_contents`; if another
process wrote in between, the longer text's tail may remain and the file is
torn. Images are told apart by content, as md5 does. `approved` and `judged` are
history variables.

## 3. The runs

| run | module, cfg | bounds | shows |
|---|---|---|---|
| `LockHandler` | `LockHandler` | 2 requests, 2 lock files, 3 objects, 2 attempts; 62 128 states | type, `Exclusion`, `LocksMatchObjects`, `NoSelfDeadlock`, every wait ends, refinement of `RWLock` |
| `ProjectSync` | `MCProjectSync` | 2 users, 2 files (one of them new), 3 texts, 6 requests (put and commit); 1.25 M states up to symmetry and without `reported`, which no step reads (`VIEW`) | `AutosavedRemain`, `UniqueMergeBase`, `UnracedCommitsLand`, `HistoryKept`, `PushesOnlyOwnChanges` |
| `FileOps` | `MCProjectSync` | the same, all kinds of operation, 4 requests; 0.37 M states | type, `AutosavedRemain`, `PushesOnlyOwnChanges` |
| `EditTabs` | `EditTabs` | 2 tabs, 4 versions per file, 3 requests, patient user; 1.2 M states | type, `FocusShown`, `UnmodifiedMeansSaved`, `EditsKept`, `ClosesOnlySaved` |
| `ProjectPage` | `MCProjectPage` | 2 teams, 2 projects, 2 files, 3 events (gestures, failures, commits), 1 timer; 0.63 M states | type, `Agreement`, `SelectionListed`, `ListingShown`, `ListCurrent`, `ExportsWhatWasChecked`, `NoCommitMissed` |
| `Pages` | `MCPages` | 2 teams (one read only), 3 files, 2 projects, 2 logs, pages of 1 entry, 3 to 6 events by habit; 0.46 M states | type, `FrontShown`, `SearchShows`, `ErrorsShown`, `LogShown`, `CalendarShown`, `SettingsStored`, `ReviewsOwn`, `FilesChanged`, `PaneShowsFront` |
| `TeamStatus` | `TeamStatus` | 2 processes, 1 text field and the image, 2 values, 5 requests; 1.1 M states | type, `LiveWasApproved`, `LiveImageApproved`, `ReviewedWasJudged` |
| `NewFolder` | `MCProjectSync` | a file in a folder of its own, 3 requests | finding: `AutosavedRemain` is violated |
| `SavedMeansMerged` | `MCProjectSync` | 4 requests | finding |
| `RetryMerges` | `MCProjectSync` | 1 file, 4 texts, 6 requests | finding |
| `TypedWhileSaving` | `EditTabs` | 1 tab, a user who does not wait for a save | finding: `ClosesOnlySaved` is violated |
| `ConflictKeepsText` | `EditTabs` | 1 tab | finding |

**Why the bounds are enough to meet the interesting cases.** Locks: two requests and
three objects give nesting, both orders of release and re-locking; the proofs remove the
bounds. Synchronisation: a clash needs two users to put and commit the same file (four
requests); six let the loser carry on after it (another put, commit, merge). A file that
exists and one that does not give modify/modify, add/add and, with `FileOps`,
modify/delete. Tabs: a save that conflicts after another user's commit takes two
versions; four leave room for one that was refused to be merged and pushed later. Three
requests are a load and a save of one tab and a load of the other. Project page: one
event chooses, a second chooses again or commits while the first is unanswered, a third
fails or presses what was offered; answers and timers are not counted. Pages: an event
is a gesture or a failure, and an act before the answers are there costs two, so three
of them are a request, a second one racing it and a failure; pages with small states
have more. Three files give two tabs of one project and one of another, logs of several
pages (3 commits, 1 an entry), of one page and of none. With every file opened the logs,
errors and search habits pass with 4 events each. Team status: a draft, a verdict on it,
and a stale copy saved over both takes four requests.

**Symmetry** is used for users and texts in `MCProjectSync` only, whose runs
check invariants and `[][A]_v` properties and no liveness.

**Deadlock** is checked for `LockHandler` and `TeamStatus`. The other runs say
`CHECK_DEADLOCK FALSE`: what happens in them is bounded (`MaxRequests`,
`MaxEvents`), and a user who stops making requests is no error. In `Pages` an
answer the server refuses (a write for a team that is read only) can only fail,
and failures count as events.

**Fairness.** Only `LockHandler` assumes any: weak fairness of `FileLockStep(r)`,
that a process in `file_lock`'s loop goes on executing it. The loop sleeps 10 ms
between attempts and never blocks (`LOCK_NB`), so the scheduler's ordinary
fairness is all it takes. Nothing is assumed of whoever holds the lock: under
readers that come and go a writer may never get it, and the property is that the
*wait* ends. The other modules state safety only; their counterexamples are
finite behaviours.

## 4. Findings

1. `NewFolder` (`project-manager.php:150`): git lists a folder with no tracked
   file as one entry; it is skipped when the unstaged files are kept, and
   `git clean -f -d` deletes it. A file saved in a new folder is lost by the next
   update, although "Autosaved (uncommitted) files should remain after an update"
   (`tests/basic/proj-manager.php:89`, which tests a file in the root).
2. `SavedMeansMerged` (`project-manager.php:185`): the result of the push is
   ignored, and only conflicts worded `CONFLICT (content)` are recognised; the
   client says "Saved successfully" of a commit the master does not have.
   `UnracedCommitsLand` says when it does have it.
3. `RetryMerges` (`proj.php:147`): the reset at the start of the next commit drops
   the merge under way, so trying again after "Merge required, please check and
   try again" never records a merge and conflicts every time.
4. `TypedWhileSaving` (`edittab.js:235`): the answer of a save takes the contents
   of now, not those that were sent, for saved.
5. `ConflictKeepsText` (`edittab.js:242`): after a conflict the editor gets
   `nodes.code`, a field `proj/commit` does not answer with, and is emptied.

`EditsKept` and `ClosesOnlySaved` leave out tabs after a conflict, whose text is
gone by finding 5, and hold for the patient user by finding 4.

## 5. What happens to a user the pages do not expect

Most properties of `ProjectPage` and `Pages` have a condition, `~raced` or
`raced = {}`, and none of these catches what the condition excludes: mostly an
answer that comes after the user chose something else, the very hazard at that
line. `Agreement`, `SelectionListed` and `FrontShown` have no condition,
`ErrorsShown` and `SearchShows` for a closed page nearly none; the notes of the
hazards in `PROJECT.json` say of each property what is left. Each of the
following was met as a counterexample of a stronger property; no document or test
of the repository promises the stronger one, so none is a finding.

* A process killed between `reset --hard` and the end of the rewrite takes with it
  the texts it had in memory; one killed between `git add` and `git commit` leaves
  them staged, and the next update does not list them and resets them away
  (`git.php:293-297`, `project-manager.php:159`). A staged removal, or a staged
  revert to an old text, is reset away as well; that text is in a commit.
* Contents that arrive for a tab the user has left take the editor from the tab in
  front (`edittab.js:140`), and what he then types goes to the other file. Nothing
  else does (`LateContentsOnly`).
* The button that retries a failed save never saves (`edittab.js:258`).


* A late listing of another project or revision replaces the one shown
  (`projfilelist.js:160`), and the right-hand pane stays hidden after a list that
  failed (`projpage.js:244`). A cancelled poll polls on (`poll.js:35-50`); its "retry once"
  never retries (`projpage.js:146`, `poll.js:55`).
* Buttons act on what is selected when they are pressed: the export, the retries
  and the confirmation of a deletion (`projops.js:155`, `212`, `249-291`). The
  retries also pass by the guard of read-only teams (`projops.js:37-43`); the
  server does not. Retries of the list of projects send no team (`projlist.js:46`),
  those of a log or a diff throw (`log.js:78`, `diff.js:155`).
* A retry of a load pressed while another tab is in front draws the other file's
    session (`edittab.js:132-155`); a tab that was closed while it loaded shows its
  session, in a file's place. Closing several modified files asks for several lists
  of revisions, and the last to arrive stays (`edittab.js:498-525`); so it does
  when the errors page closes itself and brings another file to the front.
* Marks that wait for a file to load survive `clear_errors` (`edittab.js:576-600`).
* Selectors of earlier dialogs listen to the one select element: they draw their tree
  last, and a folder then clicked changes the label only (`browser.js:80-85`,
  `311`). The save button stays disabled after a tree that failed
  (`browser.js:153`); the Enter key saves all the same, also under the "Loading..."
  tree (`browser.js:116-121`). A move or copy to another project lands at that path
  inside the source's project, unchecked (`projops.js:172-178`, `228-234`).
* `close_all_tabs` passes over every other page (`tabs.js:255-262`): pages of the
  old team stay, with its items. A verdict may be sent about no team
  (`admin.js:80`, `224`), which the server refuses.
* A day of the calendar lists the revisions of that day of any month
  (`calendar.js:209`), and going from the 31st to a shorter month skips it
  (`calendar.js:179`; `init` sets the first of the month only afterwards).
* The answer of a save of the team's text empties the choice of an image, and so
  does the failure of a load: `_setReviewState` adds `image` to the list of text
  fields (`team-status.js:141-142`).
* The menu's second timer forgets its first (`gui.js:257-282`).

## 6. What is proved

All of it holds for every value of the constants that the named assumptions
admit, the bounds included. Invariants are conjunctions of named parts; a proof
has one lemma per action and the theorem puts the lemmas together.

**`LockHandlerProofs`**, from `MaxObjectsAssumption`, `MaxAttemptsAssumption`
and `NoneAssumption`. None of the properties is inductive: that another process
has no object follows only from what the system's flock says, and that the flock
is there only from the count. `IInv` is the conjunction of `TypeOK`, `CountInv`
(the wrapper's count is the number of live objects, and an exclusive object is
under an exclusive wrapper), `TableInv` (the system holds for `r` just what the
wrapper says), `SystemInv` (an exclusive flock is alone) and `WaitInv` (a process
that waits has no handle on that file). `Invariance` is `Spec => []IInv`, one
step per action and below it one per conjunct. `TypeCorrect`, `ExclusionHolds`,
`LocksMatchObjectsHolds` and `NoSelfDeadlockHolds` follow. `Refinement` proves
that every step of the lock handler is, under `Owned`, an acquisition, a
release, the end of a request, or a stutter of `RWLock`.

**`TeamStatusProofs`**, from `ImageAssumption`, `NoneAssumption` and
`MaxRequestsAssumption`. What is in the file is sound only if what will be
written over it is: `IInv` says of the file *and of every copy a process holds*
that what is live was approved and what is reviewed was judged (`DataInv`), of
the public image and of every verdict not yet carried out that it was approved
(`ImageInv`), and that a process that has uploaded finds a file (`UploadInv`).
`Invariance` and, from it, `TypeCorrect`, `LiveWasApprovedHolds`,
`LiveImageApprovedHolds` and `ReviewedWasJudgedHolds`.

**`ProjectSyncProofs`**, from `NestedAssumption` and the assumptions on names and
bounds of `ProjectSync`. `AlwaysTyped` is `Typed` (with the shape of a commit) and
`Ancestry` (a commit's ancestors are older commits, itself among them): without
the latter a new commit could be its own past. From these `TypeCorrect` and
`HistoryIsKept`. `AlwaysIInv` adds two parts.

* `Autosaves` says in each phase of an update *where* an autosaved text is: in the tree
  before `reset --hard`, in `$unstagedFiles` from then until its turn in the rewriting
  loop, in the tree again after it. It also says that the text differs from the head.
  Only what `git status` lists as unstaged is read into the array, so `Entries` says of
  what is staged alone that a commit has it, unless a commit is staging it or was killed
  when it had. `NoListedAutosaveLost` follows, and `NoAutosaveLost` for a project
  without sub-folders (`Nested = {}`). Both except what a killed process had in memory
  alone or left staged: the history `autosaved` drops these texts where they are lost.
  The restriction on folders is needed: git lists a new folder by its name and not its
  files, which the run of `NewFolder.cfg` shows.
* `InStep` says that what a clone fetched is not later than the master, and that
  an update that is over leaves the clone equal to what it fetched, in conflict, or
  overtaken. `UnracedCommitsDoLand` is what remains when it was not overtaken
  and did not conflict.

Its second part, on the history the requests make, has an invariant of its own.
`Lineage`: what a clone and the revision it fetched share is the history of *one*
revision, what the clone shares with the master it has fetched, and what two clones
share is in the master. Uniqueness of the base alone is not inductive, because the next
merge's base comes from what other clones will push. `Accounted`: where a commit differs
from an ancestor, a commit in between changed that file; for a merge this takes a case
per side. They give `MergeBaseIsUnique` and `PushesAreOwn`.

**`EditTabsProofs`**: `TypeCorrect` and `OnlyLateContents`, whoever the user is: the
editor stops displaying the tab in front only when contents arrive for a tab the user
has left (`LateContentsOnly`, which does not assume that he waits; `FocusShown`, which
does, is model-checked). The rest is for a user who waits (`Waits`, that is `Patient =
{"load", "save"}`), for any number of tabs and requests, any of which may fail. None of
the three properties survives a step without the others. `OneAtATime`: only the tab in
front loads, and a tab has one save under way, and does not load meanwhile. `Untouched`:
a tab never opened has nothing under way. `TextsInHand`: each message under way goes
with its tab's texts (a put carries the contents, a put that was done left them in the
clone, an answer "saved" means that there is a commit of them) and each tab's session
shows its contents, its original is a text of which there is a commit, and a text typed
and not saved is in the session and differs from the original. Then `UnmodifiedIsSaved`,
`EditsAreKept` and `OnlySavedTabsClose`. The run `TypedWhileSaving` shows the last one
false for a user who does not wait for a save.

**`ProjectPageProofs`**, from `NamesAssumption` and `BoundsAssumption`, for any
number of teams, projects, files, commits, events and timers. `TypeOK` is the
complete type of the page and of every message under way. `IInv` adds `Good`,
which holds whatever the user does, and `Calm`, which holds until somebody acts
while a request is under way (`~raced => Calm(ui)`).

* `Good`: the parts are about one project and one poll is the current one
  (`Agree`), what is selected is listed (`Selected`), and a revision asked for or
  displayed exists (`RevsExist`): without the last, a listing may claim to be newer
  than the server's newest, and "not older than what the page knows" proves nothing.
* `Calm`: beside listings one thing is asked for at a time (`OneAsked`), and it is
  about what the page is on (`AskedFits`); a list that has come is the team's
  (`ListFits`); no replaced poll is still waiting for its answer (`PollsFit`); what the
  polls, the page and its answers know of revisions is ordered the way the
  refreshes need (`RevFits`, `InfoFits`); and a listing with nothing under way and no
  timer is the page's (`ShownFits`). None of `ListingShown`, `ListCurrent`
  and `NoCommitMissed` is inductive: each answer is right only
  because of what the request said when it was sent.

TLC checked `IInv` as an invariant before it was proved. The six theorems
`TypesHold`, `PartsAgree`, `SelectionIsListed`, `ShowsListing`, `ListIsCurrent` and
`MissesNoCommit` state the invariants of the run `ProjectPage`, the first three
without a condition and the last three with `~raced`. `ExportsWhatWasChecked` stays
with TLC: its condition excludes the one way in which an export differs from its
check, so that a proof of it would say little.

**`PagesFrames`** and **`PagesProofs`**, from `FilesAssumption` (finitely many paths,
none of them the name of a page) and `TeamsAssumption`, for any number of teams,
files, projects, revisions and requests, whatever the user is busy with. The
window is one record that a hundred handlers change, and handlers call one
another, so the argument has two halves.

* `PagesFrames` proves of each handler what it leaves alone. To a page `x` belong the parts
  `PartsOf(x)`, the tabs `TabsOf(x)`, the requests `AsksOf(x)` and the buttons
  `OffersOf(x)`; the tab bar, the editor and the list of revisions are everybody's.
  `Page(x, r, w)` says that from `w` to `r` nothing else has changed, that what is
  new has the fields of its kind, and that `r` is `Whole`: no tab is in the bar twice,
  those of a team are there only beside its projects, the tab in front can have the
  focus and is there if one can, and its page is the one displayed. The relation is
  transitive, so a handler that calls another is proved from that one's lemma. What
  closes or opens every tab of a set is a fold: `FoldInduction` proves once, for any
  step, that what each step keeps the fold keeps (an induction over finite sets, by
  the library's well-founded minimum, as its induction theorems cannot be used), and is
  instantiated for each loop of the code.
* `PagesProofs` has the invariant `PagesInv`: the window is `Orderly`; before the settings
  have come there is nothing but that request (`Starts`); tabs, checks and diffs are
  of a team (`TeamShown`); and for the menu and four pages their own part agrees with
  the requests under way (`MenuKept`, `SettingsKept`, `CalendarKept`, `AdminKept`,
  `StatusKept`). The properties are not inductive: that the calendar shows its
  project's log follows from what was asked for, hence `CalendarKept` speaks of
  the requests, too; `SettingsStored` needs that every put under way carries the
  settings the user has now. `OthersKeep` says that no page disturbs another's part,
  so each of these is proved against its own page's steps only; a change of team
  and the start, which touch several, are taken apart in `TeamStep` and `GuiStep`.

TLC checked the parts of `PagesInv` as invariants before they were proved. From
`AlwaysPagesInv` come `FrontIsShown`, which has no condition, `CalendarIsShown`,
`SettingsAreStored` and `ReviewsAreOwn`, which hold as long as `raced = {}` (but for
what the form of the settings enables). Three more properties have invariants of their
own beside it:

* `FilesAreMeant` (`FilesChanged`) needs `FilesKept`, five parts about the list of files,
  the dialog and their requests. All of them, and the theorem, have the condition
  `raced = {}`: what is asked for, and what the button would ask for
  again, is of what is selected in the project it is in (`Ordered`); what the dialog
  offers is of its own tree and directory (`Offered`, `Laid`, `Treed`); only the
  newest opening of the dialog has a request under way that may fill it (`Numbered`).
  The property speaks of requests only; they are right because the dialog was.
* `ErrorsAreShown` (`ErrorsShown`) needs `ErrorsKept`: the page is open exactly while it
  has entries (`Paired`), which are the model's unless the page was left open when the
  team changed (`Learnt`). Checks that are answered, in any order and while files are
  closed, enter and remove entries one file at a time, in loops which are folds:
  `Trued` is what each round keeps. That the marks of an open tab are those listed
  (`Marked`) is part of `Whole`, since opening, closing and loading a file, which every
  page does, must keep it; proved so, it holds even of a hasty user.
* `SearchIsShown` (`SearchShows`), from `SearchAssumption` (no file is in two projects),
  needs `SearchKept`. `Placed`: a search that was not cleared has its page open, and is
  of a team. `Hushed`: answers that may still come belong to a search that can be
  cancelled, or was, and was if the page is closed. `Searched`: what is still to come is of
  the query and the team of now, at most once for each project and provider (`AskedFor`);
  a result is there once, and no answer to come will bring it again (`Unmixed`); what has
  come and not failed twice is there in full (`Full`). The proof attempt found that
  `Hushed` fails where a team has no projects: a search among none reports that there is
  nothing to wait for (`search.js:278`, `358`) and so is not cancelled with its page, but
  it has taken back the cancelling of the search before (`search.js:271`, `348`), whose
  late answers then fill the closed page. That takes a user who searches again before the
  answers, and another team; `SearchShows` says so (`Teamless`).

`WindowIsTyped` (`TypeOK`) takes its parts from all of these: what a page holds is
typed because requests are, and these because the page was when it asked (`Stored`,
`Formed`, `RowsOfTeams`). That the user spends no more than his habit has is
`CountsKept`, kept by each of the hundred actions (`StepCounts`).

**Model-checked only.** `EveryWaitEnds` (liveness under fairness is out of the
prover's reach), `FocusShown` and `ExportsWhatWasChecked` (see above), and of `Pages`
`LogShown` and `PaneShowsFront`. Their pages' frames are proved; what lacks is the part of the invariant that ties a page
to its requests, which for these is longer (the pages of a log and the commits they are
cut from, the session behind the pane).

## 7. What is not modelled

In parts that are modelled:

* `file/mkdir`'s placeholder files, renames and ignored files in git; new files,
  renaming and autosaves in a tab.
* In the browser: the order of projects by use, the puts of `project.last` and
  `project.recent` (`projselect.js:68`, `177`), the disabled look
  of read-only pages, the dialog that only asks for a commit message, the buttons that a late answer
  binds to a log that is closed (`log.js:158-198`; here they do nothing), texts and
  layout. A search knows the team's projects as soon as the team has changed (the list
  is asked for in `ProjectPage`). Typed text matches no query; an open file that has
  not loaded hides its saved matches. The list of files the dialog works on is up to
  date (how it gets there is `ProjectPage`'s), undeletion acts on listed files, a file's
  commits are those of one team, and a project that was made is not in the list
  `FileDialog` uses (`ProjectPage` has it).
* What an update loses by design: removals staged by `file/del` and `file/mv` and
  not committed before the next update; a text put over another user's pushed
  change (no revision is sent along); what was in the memory of a process that
  died, or had been staged by a commit that died. These are hazards without a property, since the sources promise nothing.
* Lost updates of the team status: one request's save wipes another's draft. The
  properties say that it never publishes anything.

Parts that are not: the life cycle of projects, the zip folders, process
execution, notifications and cached files (hazards are listed for them),
authentication, dispatch, linting, the file tree's order, formatting, logging,
packaging and vendored code (MochiKit is half of the JavaScript).

## 8. Plan

Done: `LockHandler`, `RWLock`, `ProjectSync`, `EditTabs`, `TeamStatus` and
`ProjectPage`, each with its proofs; `Window` to `Pages`, with proofs of eight properties.

What would add most next:

1. `UserClones`: `getUserRepository`, `createRepository`, `copyRepository`,
   `deleteRepository` over directories that are absent, partial or complete, with
   the master's lock as `RWLock` gives it. Properties: at most one process clones
   into a path, a clone in use is complete, a clone belongs to its master.
2. `ProcExec`: the two pipes, the child, the time-out and the reaper. Properties:
   the caller's answer matches what the child did; every call with a time-out
   ends (liveness).
3. `ZipStore`: export against the hourly cleaning. Property: an answered URL
   names a zip until it is old.
4. Pure algorithms: the file tree's order and the usage sorter against reference
   definitions over bounded inputs.
5. Invariants for the logs and the pane after the pattern of `SearchKept`;
   and the autosaves in a new folder that git does know.
