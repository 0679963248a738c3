------------------------------ MODULE EditTabs ------------------------------
(***************************************************************************)
(* The edit tabs of the browser side: web/javascript/edittab.js, with the  *)
(* tab bar (tabs.js), the edit page (editpage.js) and the one status bar   *)
(* button (status.js) they share, over asynchronous requests (ide.js).     *)
(*                                                                         *)
(* A tab keeps three texts: the editor session the user types in, the      *)
(* captured contents, and the original they are compared with.  Requests   *)
(* are answered in any order, any of them may fail, and the user goes on   *)
(* meanwhile.  The server keeps the versions of each tab's file that the   *)
(* master has, those that only the user's clone has, and the text last     *)
(* put; what it does between is ProjectSync.                               *)
(***************************************************************************)
EXTENDS Naturals, Sequences, FiniteSets

CONSTANTS Tab,          \* edit tabs, each of a file of its own
          NoTab,        \* none of them: another page is in front
          Typed,        \* the texts the user types
          Empty,        \* the text of a new editor session
          First,        \* the first version of each file
          Other, Mixed, \* another user's version, and its merge with ours
          Undefined,    \* the JavaScript value
          Nothing,      \* no text typed and not saved
          Patient,      \* what the user waits for in a tab: "load", "save"
          MaxVersions,  \* bound: committed versions of a file
          MaxRequests   \* bound: requests sent

Text == Typed \union {Empty, First, Other, Mixed}
HEAD == 0                     \* the revision of a tab opened without one
Local == MaxVersions + 1      \* any commit of the clone the master lacks
Revision == 0..Local

ASSUME PatientAssumption == Patient \subseteq {"load", "save"}
ASSUME BoundsAssumption == MaxVersions \in Nat \ {0} /\ MaxRequests \in Nat
ASSUME NamesAssumption == NoTab \notin Tab /\ {Undefined, Nothing} \intersect Text = {}

VARIABLES
  versions,  \* versions[t]: the texts of t's file in the master, oldest first
  draft,     \* draft[t]: the text of t's file in the user's clone
  base,      \* base[t]: how many of the versions that clone has
  held,      \* held[t]: what is committed in the clone, not in the master
  net,       \* requests and answers under way
  sent,      \* requests sent so far
  open,      \* the tabs in the tab bar
  fresh,     \* the tabs never opened yet
  focus,     \* TabBar._curtab
  shown,     \* the tab whose session the editor displays
  session,   \* session[t]: the text in t's editor session
  contents,  \* contents[t]
  original,  \* original[t]
  rev,       \* rev[t]
  loaded,    \* the tabs that have received a text
  offer,     \* the button in the status bar
  unsaved,   \* history: unsaved[t]: what the user typed and has not saved
  conflicted \* history: the tabs answered "Merge required"

server == <<versions, draft, base, held>>
bar == <<open, fresh, focus, shown>>
texts == <<session, contents, original, rev, loaded>>
history == <<unsaved, conflicted>>
vars == <<server, net, sent, bar, texts, offer, history>>

Message ==
  [kind : {"get"}, tab : Tab, rev : Revision]
    \union [kind : {"put", "reput", "got"}, tab : Tab, text : Text \union {Undefined}]
    \union [kind : {"commit", "recommit", "done", "redone", "noget", "nosave"}, tab : Tab]
    \union [kind : {"saved", "conflict"}, tab : Tab, rev : Revision]

NoOffer == [kind |-> "none"]
Offer ==
  {NoOffer}
    \union [kind : {"close", "save", "load"}, tab : Tab]
    \union [kind : {"closeall"}]
    \union [kind : {"revision"}, tab : Tab, rev : Revision]

TypeOK ==
  /\ versions \in [Tab -> Seq(Text)] /\ \A t \in Tab : Len(versions[t]) \in 1..MaxVersions
  /\ draft \in [Tab -> Text]
  /\ base \in [Tab -> 1..MaxVersions] /\ \A t \in Tab : base[t] <= Len(versions[t])
  /\ held \in [Tab -> Seq(Text)]
  /\ net \subseteq Message
  /\ sent \in 0..MaxRequests
  /\ open \subseteq Tab \ fresh /\ fresh \subseteq Tab
  /\ focus \in open \union {NoTab}
  /\ shown \in Tab \union {NoTab}
  /\ session \in [Tab -> Text]
  /\ contents \in [Tab -> Text \union {Undefined}]
  /\ original \in [Tab -> Text \union {Undefined}]
  /\ rev \in [Tab -> Revision]
  /\ loaded \subseteq Tab
  /\ offer \in Offer
  /\ unsaved \in [Tab -> Text \union {Nothing}]
  /\ conflicted \subseteq Tab

Init ==
  /\ versions = [t \in Tab |-> <<First>>]
  /\ draft = [t \in Tab |-> First]
  /\ base = [t \in Tab |-> 1]
  /\ held = [t \in Tab |-> <<>>]
  /\ net = {}
  /\ sent = 0
  /\ open = {}
  /\ fresh = Tab
  /\ focus = NoTab
  /\ shown = NoTab
  /\ session = [t \in Tab |-> Empty]
  /\ contents = [t \in Tab |-> Empty]
  /\ original = [t \in Tab |-> Empty]
  /\ rev = [t \in Tab |-> HEAD]
  /\ loaded = {}
  /\ offer = NoOffer
  /\ unsaved = [t \in Tab |-> Nothing]
  /\ conflicted = {}

-----------------------------------------------------------------------------
(* Helpers *)

Committed(t) == {versions[t][i] : i \in DOMAIN versions[t]}
Latest(t) == versions[t][Len(versions[t])]

(* The text at the head of the clone. *)
HeadText(t) == IF held[t] = <<>> THEN versions[t][base[t]] ELSE held[t][Len(held[t])]

(* The texts of which there is a commit, in the master or in the clone.    *)
Recorded(t) == Committed(t) \union {held[t][i] : i \in DOMAIN held[t]}

Room(t, n) == Len(versions[t]) + n <= MaxVersions

Send(messages) ==
  /\ sent < MaxRequests
  /\ sent' = sent + 1
  /\ net' = net \union messages

(* What setValue() leaves in a session. *)
Displayed(text) == IF text = Undefined THEN Empty ELSE text

(* The contents with the tab in front captured. *)
Captured == [t \in Tab |-> IF t = focus THEN session[t] ELSE contents[t]]

(* Mutant of IsModified: only what was captured before counts. *)
IsModifiedUncaptured(t) == t # focus /\ contents[t] # original[t]

(* is_modified() *)
IsModified(t) == Captured[t] # original[t]

(* Mutant of SwitchTo: the old session is displayed until it is redrawn. *)
SwitchToUnshown(t) ==
  /\ focus' = t
  /\ contents' = Captured
  /\ shown' = IF t # NoTab /\ shown = NoTab THEN t ELSE shown

(* switch_to(): the old tab is blurred, the new one shows its session. *)
SwitchTo(t) ==
  /\ focus' = t
  /\ contents' = Captured
  /\ shown' = IF t = NoTab THEN shown ELSE t

(* Mutant of Remove: the focus stays with the tab that goes. *)
RemoveUnfocused(gone) ==
  /\ open' = open \ gone
  /\ contents' = Captured
  /\ UNCHANGED <<focus, shown>>

(* The tabs of a set are closed; if the one in front goes another tab, or  *)
(* the project page, comes to the front.                                   *)
Remove(gone) ==
  /\ open' = open \ gone
  /\ IF focus \in gone
       THEN \E u \in (open \ gone) \union {NoTab} : SwitchTo(u)
       ELSE contents' = Captured /\ UNCHANGED <<focus, shown>>

(* A load or a save of the tab that is under way, or has failed. *)
Loading(t) ==
  \/ \E m \in net : m.tab = t /\ m.kind \in {"get", "got", "noget"}
  \/ offer = [kind |-> "load", tab |-> t]

Saving(t) == \E m \in net : m.tab = t /\ m.kind \notin {"get", "got", "noget"}

(* The patient user leaves a tab alone until it is loaded and saved, and   *)
(* stays with it until it is loaded.                                       *)
Waited(t) ==
  /\ "load" \in Patient => ~Loading(t)
  /\ "save" \in Patient => ~Saving(t)

MayLeave == "load" \in Patient => ~Loading(focus)

-----------------------------------------------------------------------------
(* The user *)

(* edit_file() of a file that has no tab: it is loaded, and brought up.    *)
Open(t) ==
  /\ t \in fresh
  /\ MayLeave
  /\ fresh' = fresh \ {t}
  /\ open' = open \union {t}
  /\ SwitchTo(t)
  /\ Send({[kind |-> "get", tab |-> t, rev |-> rev[t]]})
  /\ UNCHANGED <<server, session, original, rev, loaded, offer, history>>

Switch(t) ==
  /\ t \in (open \union {NoTab}) \ {focus}
  /\ MayLeave
  /\ SwitchTo(t)
  /\ UNCHANGED <<server, net, sent, open, fresh, session, original, rev, loaded,
                 offer, history>>

(* Typing goes to the session displayed; a tab in front captures it.       *)
Type(text) ==
  /\ focus # NoTab /\ shown # NoTab
  /\ Waited(focus)
  /\ session[shown] # text
  /\ session' = [session EXCEPT ![shown] = text]
  /\ contents' = IF shown = focus THEN [contents EXCEPT ![shown] = text] ELSE contents
  /\ unsaved' = [unsaved EXCEPT ![shown] = IF text = original[shown] THEN Nothing ELSE text]
  /\ UNCHANGED <<server, net, sent, bar, original, rev, loaded, offer, conflicted>>

(* _save() and the commit message dialog: put the text first. *)
Save(t) ==
  /\ t = focus /\ t # NoTab
  /\ Waited(t)
  /\ IsModified(t)
  /\ contents' = Captured
  /\ Send({[kind |-> "put", tab |-> t, text |-> session[t]]})
  /\ UNCHANGED <<server, bar, session, original, rev, loaded, offer, history>>

(* Mutant of ChangeRevision: it does not look for modifications. *)
ChangeRevisionAnyway(t, r) ==
  /\ t = focus /\ t # NoTab
  /\ Waited(t)
  /\ r \in 1..Len(versions[t])
  /\ contents' = Captured
  /\ rev' = [rev EXCEPT ![t] = r]
  /\ offer' = NoOffer
  /\ Send({[kind |-> "get", tab |-> t, rev |-> r]})
  /\ UNCHANGED <<server, bar, session, original, loaded, history>>

(* open_revision(), from the history box. *)
ChangeRevision(t, r) ==
  /\ t = focus /\ t # NoTab
  /\ Waited(t)
  /\ r \in 1..Len(versions[t])
  /\ contents' = Captured
  /\ IF IsModified(t)
       THEN /\ offer' = [kind |-> "revision", tab |-> t, rev |-> r]
            /\ UNCHANGED <<net, sent, rev>>
       ELSE /\ rev' = [rev EXCEPT ![t] = r]
            /\ offer' = NoOffer
            /\ Send({[kind |-> "get", tab |-> t, rev |-> r]})
  /\ UNCHANGED <<server, bar, session, original, loaded, history>>

(* close(): a tab with modifications comes to the front and asks. *)
Close(t) ==
  /\ t \in open
  /\ Waited(t) /\ MayLeave
  /\ IF IsModified(t)
       THEN /\ SwitchTo(t)
            /\ offer' = [kind |-> "close", tab |-> t]
            /\ UNCHANGED open
       ELSE /\ Remove({t})
            /\ offer' = NoOffer
  /\ UNCHANGED <<server, net, sent, fresh, session, original, rev, loaded, history>>

(* close_all_tabs(): those with modifications stay, and ask. *)
CloseAll ==
  LET modified == {t \in open : IsModified(t)}
  IN /\ open # {}
     /\ \A t \in open : Waited(t)
     /\ open' = modified
     /\ offer' = CASE modified = {} -> NoOffer
                   [] Cardinality(modified) = 1 ->
                        [kind |-> "close", tab |-> CHOOSE t \in modified : TRUE]
                   [] OTHER -> [kind |-> "closeall"]
     /\ IF Cardinality(modified) = 1
          THEN SwitchTo(CHOOSE t \in modified : TRUE)
          ELSE Remove(open \ modified)
     /\ UNCHANGED <<server, net, sent, fresh, session, original, rev, loaded, history>>

(* The button in the status bar is clicked. *)
CloseAnyway ==
  /\ \/ offer.kind = "close" /\ offer.tab \in open /\ Waited(offer.tab) /\ Remove({offer.tab})
     \/ offer.kind = "closeall" /\ (\A t \in open : Waited(t)) /\ Remove(open)
  /\ offer' = NoOffer
  /\ UNCHANGED <<server, net, sent, fresh, session, original, rev, loaded, history>>

RevisionAnyway ==
  /\ offer.kind = "revision"
  /\ "load" \in Patient => offer.tab = focus
  /\ Waited(offer.tab)
  /\ contents' = [contents EXCEPT ![offer.tab] = session[offer.tab]]
  /\ rev' = [rev EXCEPT ![offer.tab] = offer.rev]
  /\ unsaved' = [unsaved EXCEPT ![offer.tab] = Nothing]
  /\ Send({[kind |-> "get", tab |-> offer.tab, rev |-> offer.rev]})
  /\ offer' = NoOffer
  /\ UNCHANGED <<server, bar, session, original, loaded, conflicted>>

RetryLoad ==
  /\ offer.kind = "load"
  /\ "load" \in Patient => offer.tab = focus
  /\ Send({[kind |-> "get", tab |-> offer.tab, rev |-> rev[offer.tab]]})
  /\ offer' = NoOffer
  /\ UNCHANGED <<server, bar, texts, history>>

(* The button is bound to _repo_save(), but not to the commit's message.   *)
RetrySave ==
  /\ offer.kind = "save"
  /\ Waited(offer.tab)
  /\ Send({[kind |-> "reput", tab |-> offer.tab, text |-> contents[offer.tab]]})
  /\ offer' = NoOffer
  /\ UNCHANGED <<server, bar, texts, history>>

User ==
  \/ \E t \in Tab : Open(t) \/ Close(t) \/ Save(t)
  \/ \E t \in Tab \union {NoTab} : Switch(t)
  \/ \E t \in Tab, r \in Revision : ChangeRevision(t, r)
  \/ \E text \in Typed \union {First} : Type(text)
  \/ CloseAll \/ CloseAnyway \/ RevisionAnyway \/ RetryLoad \/ RetrySave

-----------------------------------------------------------------------------
(* The server *)

Answer(m, a) == net' = (net \ {m}) \union {a}

(* file/get, from the master; a revision it lacks is FALSE. *)
ServeGet(m) ==
  /\ m.kind = "get"
  /\ LET text == IF m.rev = HEAD THEN Latest(m.tab)
                 ELSE IF m.rev > Len(versions[m.tab]) THEN Undefined
                 ELSE versions[m.tab][m.rev]
     IN Answer(m, [kind |-> "got", tab |-> m.tab, text |-> text])
  /\ UNCHANGED server

(* file/put, after an update: a clone with commits of its own stays as it  *)
(* is.  An undefined text is left out of the request and refused.          *)
ServePut(m) ==
  LET t == m.tab
  IN /\ m.kind \in {"put", "reput"}
     /\ IF m.text = Undefined
          THEN Answer(m, [kind |-> "nosave", tab |-> t]) /\ UNCHANGED <<draft, base>>
          ELSE /\ Answer(m, [kind |-> IF m.kind = "put" THEN "done" ELSE "redone", tab |-> t])
               /\ draft' = [draft EXCEPT ![t] = m.text]
               /\ base' = [base EXCEPT ![t] = IF held[t] # <<>> THEN @ ELSE Len(versions[t])]
     /\ UNCHANGED <<versions, held>>

(* There is something to commit. *)
Commits(m) == m.kind = "commit" /\ draft[m.tab] # HeadText(m.tab)

(* proj/commit: it becomes the latest version; ... *)
ServeCommit(m) ==
  LET t == m.tab
  IN /\ Commits(m)
     /\ base[t] = Len(versions[t]) /\ held[t] = <<>>
     /\ Room(t, 1)
     /\ versions' = [versions EXCEPT ![t] = Append(@, draft[t])]
     /\ base' = [base EXCEPT ![t] = @ + 1]
     /\ Answer(m, [kind |-> "saved", tab |-> t, rev |-> base'[t]])
     /\ UNCHANGED <<draft, held>>

(* ... or is merged with another user's; ... *)
ServeMerge(m) ==
  LET t == m.tab
      new == held[t] \o <<draft[t], Mixed>>
  IN /\ Commits(m)
     /\ base[t] < Len(versions[t])
     /\ Room(t, Len(new))
     /\ versions' = [versions EXCEPT ![t] = @ \o new]
     /\ draft' = [draft EXCEPT ![t] = Mixed]
     /\ base' = [base EXCEPT ![t] = Len(versions'[t])]
     /\ held' = [held EXCEPT ![t] = <<>>]
     /\ Answer(m, [kind |-> "saved", tab |-> t, rev |-> base'[t]])

(* ... or another user's push comes first: the master refuses this one,    *)
(* merged or not, and the answer is the same; ...                          *)
ServeRefused(m) ==
  LET t == m.tab
  IN /\ Commits(m)
     /\ \/ /\ base[t] < Len(versions[t]) /\ held[t] = <<>>
           /\ held' = [held EXCEPT ![t] = <<draft[t]>>]
           /\ UNCHANGED <<draft, base>>
        \/ /\ base[t] + 1 < Len(versions[t])
           /\ held' = [held EXCEPT ![t] = @ \o <<draft[t], Mixed>>]
           /\ draft' = [draft EXCEPT ![t] = Mixed]
           /\ base' = [base EXCEPT ![t] = Len(versions[t]) - 1]
     /\ Answer(m, [kind |-> "saved", tab |-> t, rev |-> Local])
     /\ UNCHANGED versions

(* ... or conflicts with it, and stays in the clone; ... *)
ServeConflict(m) ==
  LET t == m.tab
  IN /\ Commits(m)
     /\ base[t] < Len(versions[t])
     /\ held' = [held EXCEPT ![t] = Append(@, draft[t])]
     /\ Answer(m, [kind |-> "conflict", tab |-> t, rev |-> Local])
     /\ UNCHANGED <<versions, draft, base>>

(* ... or there is nothing to commit, or no message (and it is refused),   *)
(* or the request fails, or its answer is lost after all.                  *)
Fail(m) ==
  /\ \/ m.kind \in {"get", "got"} /\ Answer(m, [kind |-> "noget", tab |-> m.tab])
     \/ m.kind \in {"put", "reput", "commit", "recommit", "done", "redone", "saved", "conflict"}
          /\ Answer(m, [kind |-> "nosave", tab |-> m.tab])
  /\ UNCHANGED server

Serve ==
  /\ \E m \in net :
       \/ ServeGet(m) \/ ServePut(m) \/ ServeCommit(m) \/ ServeMerge(m)
       \/ ServeRefused(m) \/ ServeConflict(m) \/ Fail(m)
  /\ UNCHANGED <<sent, bar, texts, offer, history>>

(* Another request of the user's, say for the file list, merges and pushes *)
(* what the clone holds; what is put and not committed it writes back.     *)
PushHeld(t) ==
  LET new == Append(held[t], Mixed)
  IN /\ held[t] # <<>>
     /\ Room(t, Len(new))
     /\ versions' = [versions EXCEPT ![t] = @ \o new]
     /\ draft' = [draft EXCEPT ![t] = IF @ = HeadText(t) THEN Mixed ELSE @]
     /\ base' = [base EXCEPT ![t] = Len(versions'[t])]
     /\ held' = [held EXCEPT ![t] = <<>>]
     /\ UNCHANGED <<net, sent, bar, texts, offer, history>>

OthersCommit(t) ==
  /\ Room(t, 1)
  /\ versions' = [versions EXCEPT ![t] = Append(@, IF Latest(t) = Other THEN First ELSE Other)]
  /\ UNCHANGED <<draft, base, held, net, sent, bar, texts, offer, history>>

-----------------------------------------------------------------------------
(* Answers, in any order *)

(* _recv_contents() *)
ReceiveContents(m) ==
  LET t == m.tab
  IN /\ m.kind = "got"
     /\ net' = net \ {m}
     /\ loaded' = loaded \union {t}
     /\ original' = [original EXCEPT ![t] = m.text]
     /\ contents' = [contents EXCEPT ![t] = m.text]
     /\ session' = [session EXCEPT ![t] = Displayed(m.text)]
     /\ shown' = t
     /\ UNCHANGED <<server, sent, open, fresh, focus, rev, offer, history>>

LoadFailed(m) ==
  /\ m.kind = "noget"
  /\ net' = net \ {m}
  /\ offer' = [kind |-> "load", tab |-> m.tab]
  /\ UNCHANGED <<server, sent, bar, texts, history>>

(* Mutant of PutDone: the text is taken for saved. *)
PutDoneSaved(m) ==
  /\ m.kind \in {"done", "redone"}
  /\ net' = (net \ {m}) \union
       {[kind |-> IF m.kind = "done" THEN "commit" ELSE "recommit", tab |-> m.tab]}
  /\ original' = [original EXCEPT ![m.tab] = contents[m.tab]]
  /\ UNCHANGED <<server, sent, bar, session, contents, rev, loaded, offer, history>>

(* The put succeeded: commit. *)
PutDone(m) ==
  /\ m.kind \in {"done", "redone"}
  /\ net' = (net \ {m}) \union
       {[kind |-> IF m.kind = "done" THEN "commit" ELSE "recommit", tab |-> m.tab]}
  /\ UNCHANGED <<server, sent, bar, texts, offer, history>>

SaveFailed(m) ==
  /\ m.kind = "nosave"
  /\ net' = net \ {m}
  /\ offer' = [kind |-> "save", tab |-> m.tab]
  /\ UNCHANGED <<server, sent, bar, texts, history>>

(* _receive_repo_save() without merges *)
Saved(m) ==
  LET t == m.tab
  IN /\ m.kind = "saved"
     /\ net' = net \ {m}
     /\ original' = [original EXCEPT ![t] = contents[t]]
     /\ session' = [session EXCEPT ![t] = Displayed(contents[t])]
     /\ rev' = [rev EXCEPT ![t] = m.rev]
     /\ offer' = NoOffer
     /\ unsaved' = [unsaved EXCEPT ![t] =
          IF @ \in Recorded(t) \/ t \in conflicted THEN Nothing ELSE @]
     /\ conflicted' = conflicted \ {t}
     /\ UNCHANGED <<server, sent, bar, contents, loaded>>

(* _receive_repo_save() with merges: no answer has a field "code".         *)
Conflict(m) ==
  LET t == m.tab
  IN /\ m.kind = "conflict"
     /\ net' = net \ {m}
     /\ contents' = [contents EXCEPT ![t] = Undefined]
     /\ session' = [session EXCEPT ![t] = Displayed(Undefined)]
     /\ rev' = [rev EXCEPT ![t] = m.rev]
     /\ offer' = NoOffer
     /\ conflicted' = conflicted \union {t}
     /\ UNCHANGED <<server, sent, bar, original, loaded, unsaved>>

Receive ==
  \E m \in net :
    \/ ReceiveContents(m) \/ LoadFailed(m) \/ PutDone(m) \/ SaveFailed(m)
    \/ Saved(m) \/ Conflict(m)

Next == User \/ Serve \/ (\E t \in Tab : PushHeld(t) \/ OthersCommit(t)) \/ Receive

Spec == Init /\ [][Next]_vars

-----------------------------------------------------------------------------
(* Properties *)

(* What the user types goes to the tab in front: the one editor displays   *)
(* the session of the tab that has the focus, as long as the user does not *)
(* leave a tab that is loading.                                            *)
FocusShown == focus # NoTab => shown = focus

(* The editor stops displaying the tab in front only when the contents of  *)
(* a tab arrive that the user has left: no switch, close or save does it.  *)
LateContentsOnly ==
  [][ FocusShown /\ ~FocusShown'
        => \E m \in net : m.kind = "got" /\ m.tab # focus /\ shown' = m.tab ]_vars

(* "is_modified: are the contents of the file modified compared to the     *)
(* original": a tab that says no holds a text of which there is a commit,  *)
(* in the master or, where its push was refused, in the user's clone.      *)
UnmodifiedMeansSaved ==
  \A t \in open :
    t \in loaded /\ ~IsModified(t) => session[t] \in Recorded(t)

(* What the user has typed and not saved stays in its tab's editor, until  *)
(* the user agrees to drop it: across switches, closes, failed and retried *)
(* requests of this tab and of the others.  A conflict empties the editor  *)
(* (ConflictKeepsText).                                                    *)
EditsKept ==
  \A t \in open :
    unsaved[t] # Nothing /\ t \notin conflicted => session[t] = unsaved[t]

(* "check the contents of the file then close": a tab whose text is not    *)
(* saved goes only when the user has answered the question about it.       *)
ClosesOnlySaved ==
  [][ \A t \in open \ open' :
        unsaved[t] # Nothing /\ t \notin conflicted
          => \/ offer = [kind |-> "close", tab |-> t]
             \/ offer.kind = "closeall" ]_vars

(* "Merge required, please check and try again": the editor has the text   *)
(* to check.                                                               *)
ConflictKeepsText ==
  \A t \in open : t \in conflicted => contents[t] # Undefined

-----------------------------------------------------------------------------
(* The inductive invariant of the proofs, for a user who waits *)

LoadKinds == {"get", "got", "noget"}

(* Only the tab in front loads, and a tab has one save under way and does  *)
(* not load meanwhile.                                                     *)
OneAtATime ==
  /\ \A m \in net : m.kind \in LoadKinds => m.tab = focus
  /\ offer.kind = "load" => offer.tab = focus
  /\ \A m, n \in net :
       m.tab = n.tab /\ m.kind \notin LoadKinds /\ n.kind \notin LoadKinds => m = n
  /\ \A t \in Tab : ~(Loading(t) /\ Saving(t))

(* A tab that was never open has no requests, no button and no text typed. *)
Untouched ==
  \A t \in fresh :
    /\ \A m \in net : m.tab # t
    /\ offer.kind \in {"save", "load", "revision"} => offer.tab # t
    /\ unsaved[t] = Nothing /\ rev[t] = HEAD

(* A message under way goes with the texts of its tab. *)
Carried(m) ==
  /\ m.kind = "get" => m.rev <= Len(versions[m.tab])
  /\ m.kind = "got" => m.text \in Committed(m.tab)
  /\ m.kind = "put" => m.text \in {contents[m.tab], Undefined}
  /\ m.kind \in {"done", "commit"} => draft[m.tab] \in {contents[m.tab], HeadText(m.tab)}
  /\ m.kind = "saved" => contents[m.tab] \in Recorded(m.tab)

(* The three texts of a tab and what the user typed in it. *)
InHand(t) ==
  /\ session[t] = Displayed(contents[t])
  /\ original[t] \in Text
  /\ t \in loaded => original[t] \in Recorded(t)
  /\ t \in open /\ unsaved[t] # Nothing /\ t \notin conflicted
       => session[t] = unsaved[t] /\ unsaved[t] # original[t] /\ ~Loading(t)
  /\ Loading(t) => rev[t] <= Len(versions[t])

TextsInHand ==
  /\ \A m \in net : Carried(m)
  /\ \A t \in Tab : InHand(t)
  /\ offer.kind = "revision" => offer.rev <= Len(versions[offer.tab])
=============================================================================
