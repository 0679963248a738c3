--------------------------- MODULE ProjectSyncProofs ---------------------------
(***************************************************************************)
(* Proofs about ProjectSync for any number of users, files and requests:   *)
(* no commit is ever dropped, no update loses an autosaved text, and a     *)
(* commit that nobody overtook is in the master; clones and master never   *)
(* diverge in a criss-cross, and a push changes in the master what the     *)
(* pusher changed.                                                         *)
(***************************************************************************)
EXTENDS ProjectSync, TLAPS, FiniteSetTheorems

CommitRecord == [tree : Tree, anc : SUBSET Nat, touched : SUBSET File]
State == Text \union {Absent, Unmerged}

(* What may have become of the commits in a step. *)
Grown == /\ commits' \in Seq(CommitRecord)
         /\ Len(commits') \in Nat
         /\ Len(commits) <= Len(commits')
         /\ \A c \in Commit : commits'[c] = commits[c]

LEMMA CommitsThere ==
  ASSUME Typed
  PROVE  /\ Len(commits) \in Nat /\ commits \in Seq(CommitRecord)
         /\ \A c \in Commit : /\ commits[c] \in CommitRecord
                              /\ TreeOf(c) \in Tree
         /\ master \in Commit
         /\ \A u \in User : head[u] \in Commit /\ upstream[u] \in Commit
BY DEF Typed, TypeOK, CommitRecord, Commit, TreeOf

LEMMA SameCommits ==
  ASSUME Typed, Ancestry, UNCHANGED commits
  PROVE  Grown /\ Ancestry' /\ Commit' = Commit
BY CommitsThere DEF Grown, Ancestry, Commit, Anc

(* A new commit, of the tree of an index that is not in conflict. *)
LEMMA NewerCommits ==
  ASSUME Typed, Ancestry,
         NEW r \in CommitRecord, commits' = Append(commits, r),
         NEW before \in SUBSET Commit, r.anc = before \union {NewCommit}
  PROVE  /\ Grown /\ Ancestry'
         /\ NewCommit \in Commit' /\ commits'[NewCommit] = r
         /\ Commit \subseteq Commit'
<1>1. Len(commits) \in Nat /\ commits \in Seq(CommitRecord)
  BY CommitsThere
<1>2. /\ commits' \in Seq(CommitRecord)
      /\ Len(commits') = Len(commits) + 1
      /\ \A c \in Commit : commits'[c] = commits[c]
      /\ commits'[NewCommit] = r
  BY <1>1 DEF Commit, NewCommit
<1>3. Ancestry'
  <2> SUFFICES ASSUME NEW c \in Commit'
               PROVE  c \in commits'[c].anc /\ commits'[c].anc \subseteq 1..c
    BY DEF Ancestry, Anc
  <2>1. CASE c \in Commit
    BY <1>2, <2>1 DEF Ancestry, Anc
  <2>2. CASE c = NewCommit
    <3>1. commits'[c].anc = before \union {c}
      BY <1>2, <2>2
    <3>2. before \subseteq 1..c /\ c \in 1..c
      BY <1>1, <2>2 DEF NewCommit, Commit
    <3> QED
      BY <3>1, <3>2
  <2>3. c \in Commit \/ c = NewCommit
    BY <1>1, <1>2 DEF Commit, NewCommit
  <2> QED
    BY <2>1, <2>2, <2>3
<1> QED
  BY <1>1, <1>2, <1>3 DEF Grown, Commit, NewCommit

(* What else the types need of a step in which commits only grow. *)
LEMMA TypedAfter ==
  ASSUME Typed, Grown,
         master' \in Commit',
         head' \in [User -> Commit'],
         upstream' \in [User -> Commit'],
         index' \in [User -> [File -> State]],
         work' \in [User -> Tree],
         phase' \in [User -> Phase],
         op' \in [User -> Ops' \union {NoOp}],
         saved' \in [User -> Snapshot],
         conflicts' \in [User -> SUBSET File],
         requests' \in 0..MaxRequests,
         autosaved' \in [User -> [File -> Text \union {Clean}]],
         leftStaged' \in [User -> SUBSET File],
         reported' \in [User -> [files : SUBSET File, upstream : Commit']],
         Ancestry', Staging'
  PROVE  Typed'
<1>1. ASSUME NEW c \in Commit'
      PROVE  commits'[c] \in [tree : Tree, anc : SUBSET (1..c), touched : SUBSET File]
  <2>1. commits'[c] \in CommitRecord
    BY DEF Grown, Commit
  <2>2. commits'[c].anc \in SUBSET (1..c)
    BY DEF Ancestry, Anc
  <2> QED
    BY <2>1, <2>2 DEF CommitRecord
<1>2. \A v \in User : reported'[v].files \subseteq File /\ reported'[v].upstream \in Commit'
  OBVIOUS
<1>3. TypeOK'
  BY <1>1, <1>2 DEF TypeOK, State
<1> QED
  BY <1>3 DEF Typed, Grown, CommitRecord

(* Requests for revisions that exist go on doing so. *)
LEMMA OpsGrow ==
  ASSUME Typed, Grown
  PROVE  /\ Commit \subseteq Commit'
         /\ Ops \subseteq Ops'
<1>1. Commit \subseteq Commit'
  BY CommitsThere DEF Commit, Grown
<1> QED
  BY <1>1 DEF Ops

(* What the requests carry. *)
LEMMA OpFields ==
  ASSUME Typed, NEW u \in User
  PROVE  /\ op[u].kind = "put" => op[u].file \in File /\ op[u].text \in Text
         /\ op[u].kind \in {"del", "co"} => op[u].file \in File
         /\ op[u].kind \in {"cp", "mv"} =>
              op[u].file \in File /\ op[u].dst \in File /\ op[u].file # op[u].dst
         /\ op[u].kind = "revert" => op[u].file \in File /\ op[u].rev \in Commit
<1>1. op[u] \in Ops \/ op[u] = NoOp
  BY DEF Typed, TypeOK
<1>2. CASE op[u] = NoOp
  BY <1>2 DEF NoOp
<1>3. CASE op[u] \in Ops
  BY <1>3 DEF Ops, Text
<1> QED
  BY <1>1, <1>2, <1>3

LEMMA Sentinels ==
  /\ Absent \notin Text /\ Unmerged \notin Text /\ Kept \notin Text /\ Clean \notin Text
  /\ EmptyText \in Text /\ Markers \in Text
BY SentinelAssumption DEF Text

(* The helpers on trees give trees. *)
LEMMA TreesClosed ==
  /\ \A i : \A t \in Tree, f \in File : Removed(t, i, f) \in Tree
  /\ \A t \in Tree, f \in File, x \in Text \union {Absent} : [t EXCEPT ![f] = x] \in Tree
  /\ \A t \in Tree : t \in [File -> State]
  /\ NothingSaved \in Snapshot
BY DEF Tree, Removed, State, NothingSaved, Snapshot

LEMMA SameFunctions ==
  ASSUME Typed
  PROVE  /\ index \in [User -> [File -> State]] /\ phase \in [User -> Phase]
         /\ work \in [User -> Tree]
BY DEF Typed, TypeOK, State

LEMMA OutstandingTyped ==
  ASSUME NEW a \in [File -> Text \union {Clean}], NEW t
  PROVE  Outstanding(a, t) \in [File -> Text \union {Clean}]
BY DEF Outstanding

-----------------------------------------------------------------------------
(* Types and history, action by action *)

(* The step of HistoryKept. *)
Remembered == /\ \A u \in User : head[u] \in commits'[head'[u]].anc
              /\ master \in commits'[master'].anc

LEMMA InitTyped == Init => Typed /\ Ancestry
<1> SUFFICES ASSUME Init PROVE Typed /\ Ancestry
  OBVIOUS
<1>1. PICK t \in InitialTree :
        /\ commits = <<[tree |-> t, anc |-> {1}, touched |-> {}]>>
        /\ index = [u \in User |-> t]
        /\ work = [u \in User |-> t]
  BY DEF Init
<1>2. t \in Tree /\ t \in [File -> State]
  BY InitialTreeAssumption DEF Tree, Text, State
<1>3. commits \in Seq(CommitRecord) /\ Len(commits) = 1 /\ commits[1].anc = {1}
  BY <1>1, <1>2 DEF CommitRecord
<1>4. Commit = {1}
  BY <1>3 DEF Commit
<1>5. Ancestry
  BY <1>3, <1>4 DEF Ancestry, Anc
<1>6. commits[1] \in [tree : Tree, anc : SUBSET (1..1), touched : SUBSET File]
  BY <1>1, <1>2
<1>7. /\ reported \in [User -> [files : SUBSET File, upstream : Commit]]
      /\ \A u \in User : reported[u].files \subseteq File /\ reported[u].upstream \in Commit
  BY <1>4 DEF Init
<1>8. /\ phase \in [User -> Phase]
      /\ op \in [User -> Ops \union {NoOp}]
      /\ saved \in [User -> Snapshot]
      /\ conflicts \in [User -> SUBSET File]
      /\ requests \in 0..MaxRequests
      /\ autosaved \in [User -> [File -> Text \union {Clean}]]
      /\ leftStaged \in [User -> SUBSET File]
      /\ Staging
  BY MaxRequestsAssumption, TreesClosed DEF Init, Phase, Staging
<1>9. /\ master \in Commit
      /\ head \in [User -> Commit]
      /\ upstream \in [User -> Commit]
      /\ index \in [User -> [File -> State]]
      /\ work \in [User -> Tree]
  BY <1>1, <1>2, <1>4 DEF Init
<1>10. TypeOK
  BY <1>4, <1>6, <1>7, <1>8, <1>9 DEF TypeOK, State
<1> QED
  BY <1>3, <1>5, <1>7, <1>8, <1>10 DEF Typed, CommitRecord

(* The types of all that a step on one clone may leave alone. *)
LEMMA TypesNow ==
  ASSUME Typed, Grown, Ancestry
  PROVE  /\ Commit \subseteq Commit'
         /\ master \in Commit'
         /\ head \in [User -> Commit']
         /\ upstream \in [User -> Commit']
         /\ index \in [User -> [File -> State]]
         /\ work \in [User -> Tree]
         /\ phase \in [User -> Phase]
         /\ op \in [User -> Ops' \union {NoOp}]
         /\ saved \in [User -> Snapshot]
         /\ conflicts \in [User -> SUBSET File]
         /\ requests \in 0..MaxRequests
         /\ autosaved \in [User -> [File -> Text \union {Clean}]]
         /\ leftStaged \in [User -> SUBSET File]
         /\ reported \in [User -> [files : SUBSET File, upstream : Commit']]
<1>1. Commit \subseteq Commit' /\ Ops \subseteq Ops'
  BY OpsGrow
<1>2. reported \in [User -> [files : SUBSET File, upstream : Commit']]
  BY <1>1 DEF Typed
<1> QED
  BY <1>1, <1>2 DEF Typed, TypeOK, State

LEMMA StartFileOpTyped ==
  ASSUME Typed, Ancestry, Staging', NEW u \in User, StartFileOp(u)
  PROVE  Grown /\ Typed' /\ Ancestry' /\ Remembered
<1> USE DEF StartFileOp, Accepted, clone, history
<1>1. Grown /\ Ancestry' /\ Commit' = Commit
  BY SameCommits
<1>2. PICK o \in Ops : op' = [op EXCEPT ![u] = o]
  OBVIOUS
<1>3. /\ op' \in [User -> Ops' \union {NoOp}]
      /\ phase' \in [User -> Phase]
      /\ requests' \in 0..MaxRequests
  BY <1>1, <1>2, TypesNow, OpsGrow, MaxRequestsAssumption DEF Phase
<1>4. Typed'
  BY <1>1, <1>3, TypesNow, TypedAfter
<1> QED
  BY <1>1, <1>4, CommitsThere DEF Remembered, Ancestry, Anc

(* A commit's ancestors are commits up to it. *)
LEMMA AncOf ==
  ASSUME Typed, Ancestry, NEW c \in Commit
  PROVE  /\ c \in Nat /\ c \in Anc(c) /\ Anc(c) \subseteq 1..c
         /\ Anc(c) \in SUBSET Commit
<1>1. c \in Anc(c) /\ Anc(c) \subseteq 1..c
  BY DEF Ancestry
<1>2. 1..c \subseteq Commit /\ c \in Nat
  BY CommitsThere DEF Commit
<1> QED
  BY <1>1, <1>2

(* No head moves in a step that leaves commits, head and master alone. *)
LEMMA NothingForgotten ==
  ASSUME Typed, Ancestry, UNCHANGED <<commits, head, master>>
  PROVE  Remembered
BY CommitsThere DEF Remembered, Ancestry, Anc

LEMMA StartCommitTyped ==
  ASSUME Typed, Ancestry, Staging', NEW u \in User, StartCommit(u)
  PROVE  Grown /\ Typed' /\ Ancestry' /\ Remembered
<1>1. PICK paths \in SUBSET File \ {{}} :
        /\ Accepted(u, [kind |-> "commit", paths |-> paths])
        /\ op' = [op EXCEPT ![u] = [kind |-> "commit", paths |-> paths]]
        /\ index' = [index EXCEPT ![u] = TreeOf(head[u])]
        /\ leftStaged' = [leftStaged EXCEPT ![u] = {}]
        /\ phase' = [phase EXCEPT ![u] = "stage"]
        /\ UNCHANGED <<commits, master, head, upstream, work, saved, conflicts,
                       autosaved, reported>>
  BY DEF StartCommit
<1>2. Grown /\ Ancestry' /\ Commit' = Commit
  BY <1>1, SameCommits
<1>3. TreeOf(head[u]) \in [File -> State]
  BY CommitsThere, TreesClosed
<1>4. [kind |-> "commit", paths |-> paths] \in Ops'
  BY DEF Ops
<1>5. /\ index' \in [User -> [File -> State]]
      /\ leftStaged' \in [User -> SUBSET File]
      /\ phase' \in [User -> Phase]
      /\ op' \in [User -> Ops' \union {NoOp}]
      /\ requests' \in 0..MaxRequests
  BY <1>1, <1>2, <1>3, <1>4, TypesNow, MaxRequestsAssumption DEF Phase, Accepted
<1>6. Typed'
  BY <1>1, <1>2, <1>5, TypesNow, TypedAfter
<1> QED
  BY <1>1, <1>2, <1>6, NothingForgotten

LEMMA StageFileTyped ==
  ASSUME Typed, Ancestry, Staging', NEW u \in User, StageFile(u)
  PROVE  Grown /\ Typed' /\ Ancestry' /\ Remembered
<1>1. PICK f \in File :
        /\ index' = [index EXCEPT ![u] = [index[u] EXCEPT ![f] = work[u][f]]]
        /\ UNCHANGED <<commits, master, head, upstream, work, phase, op, saved, conflicts,
                       requests, autosaved, leftStaged, reported>>
  BY DEF StageFile, request, history
<1>2. Grown /\ Ancestry' /\ Commit' = Commit
  BY <1>1, SameCommits
<1>3. [index[u] EXCEPT ![f] = work[u][f]] \in [File -> State]
  BY <1>2, TypesNow DEF Tree, State
<1>4. index' \in [User -> [File -> State]]
  BY <1>1, <1>2, <1>3, TypesNow
<1>5. Typed'
  BY <1>1, <1>2, <1>4, TypesNow, TypedAfter
<1> QED
  BY <1>1, <1>2, <1>5, NothingForgotten

(* The commit that CommitStaged makes. *)
StagedCommit(u) ==
  [tree |-> index[u],
   anc |-> Anc(head[u]) \union {NewCommit},
   touched |-> {f \in File : index[u][f] # TreeOf(head[u])[f]}]

LEMMA CommitStagedTyped ==
  ASSUME Typed, Ancestry, Staging', NEW u \in User, CommitStaged(u)
  PROVE  Grown /\ Typed' /\ Ancestry' /\ Remembered
<1> DEFINE r == StagedCommit(u)
<1>1. /\ commits' = Append(commits, r)
      /\ head' = [head EXCEPT ![u] = NewCommit]
      /\ autosaved' = [autosaved EXCEPT ![u] = Outstanding(autosaved[u], index[u])]
      /\ phase' = [phase EXCEPT ![u] = "fetch"]
      /\ phase[u] = "stage"
      /\ UNCHANGED <<master, upstream, index, work, op, saved, conflicts, requests,
                     leftStaged, reported>>
  BY DEF CommitStaged, AllStaged, StagedCommit
<1>2. index[u] \in Tree
  BY <1>1 DEF Typed, Staging
<1>3. Anc(head[u]) \in SUBSET Commit /\ head[u] \in Anc(head[u])
  BY CommitsThere, AncOf
<1>4. NewCommit \in Nat /\ Commit \subseteq Nat
  BY CommitsThere DEF NewCommit, Commit
<1>5. r \in CommitRecord /\ r.anc = Anc(head[u]) \union {NewCommit}
  BY <1>2, <1>3, <1>4 DEF CommitRecord, StagedCommit
<1> HIDE DEF r
<1>6. /\ Grown /\ Ancestry'
      /\ NewCommit \in Commit' /\ commits'[NewCommit] = r
  BY <1>1, <1>3, <1>5, NewerCommits
<1>7. Outstanding(autosaved[u], index[u]) \in [File -> Text \union {Clean}]
  BY <1>6, OutstandingTyped, TypesNow
<1>8. /\ head' \in [User -> Commit']
      /\ autosaved' \in [User -> [File -> Text \union {Clean}]]
      /\ phase' \in [User -> Phase]
  BY <1>1, <1>6, <1>7, TypesNow DEF Phase
<1>9. Typed'
  BY <1>1, <1>6, <1>8, TypesNow, TypedAfter
<1>10. Remembered
  <2>1. \A v \in User : head'[v] = IF v = u THEN NewCommit ELSE head[v]
    BY <1>1, TypesNow, <1>6
  <2>2. \A v \in User : head[v] \in commits'[head'[v]].anc
    <3> TAKE v \in User
    <3>1. CASE v = u
      BY <2>1, <3>1, <1>6, <1>3, <1>5
    <3>2. CASE v # u
      BY <2>1, <3>2, <1>6, CommitsThere, AncOf DEF Grown, Anc
    <3> QED
      BY <3>1, <3>2
  <2>3. master \in commits'[master'].anc
    BY <1>1, <1>6, CommitsThere, AncOf DEF Grown, Anc
  <2> QED
    BY <2>2, <2>3 DEF Remembered
<1> QED
  BY <1>6, <1>9, <1>10

(* An operation ends with the clone's history as it was. *)
LEMMA ApplyingTyped ==
  ASSUME Typed, Ancestry, Staging', NEW u \in User, Idle(u),
         UNCHANGED <<commits, master, head, upstream, requests>>,
         index' \in [User -> [File -> State]],
         work' \in [User -> Tree],
         autosaved' \in [User -> [File -> Text \union {Clean}]],
         leftStaged' \in [User -> SUBSET File],
         reported' \in [User -> [files : SUBSET File, upstream : Commit]]
  PROVE  Grown /\ Typed' /\ Ancestry' /\ Remembered
<1>1. Grown /\ Ancestry' /\ Commit' = Commit
  BY SameCommits
<1>2. /\ phase' \in [User -> Phase]
      /\ op' \in [User -> Ops' \union {NoOp}]
      /\ saved' \in [User -> Snapshot]
      /\ conflicts' \in [User -> SUBSET File]
  BY <1>1, TypesNow, TreesClosed DEF Idle, Phase
<1>3. Typed'
  BY <1>1, <1>2, TypesNow, TypedAfter
<1> QED
  BY <1>1, <1>3, NothingForgotten

LEMMA SameTyped ==
  ASSUME Typed, Ancestry
  PROVE  /\ index \in [User -> [File -> State]]
         /\ work \in [User -> Tree]
         /\ autosaved \in [User -> [File -> Text \union {Clean}]]
         /\ leftStaged \in [User -> SUBSET File]
         /\ reported \in [User -> [files : SUBSET File, upstream : Commit]]
BY DEF Typed, TypeOK, State

LEMMA CommitFailsTyped ==
  ASSUME Typed, Ancestry, Staging', NEW u \in User, CommitFails(u)
  PROVE  Grown /\ Typed' /\ Ancestry' /\ Remembered
BY SameTyped, ApplyingTyped DEF CommitFails, clone, history

LEMMA FetchTyped ==
  ASSUME Typed, Ancestry, Staging', NEW u \in User, Fetch(u)
  PROVE  Grown /\ Typed' /\ Ancestry' /\ Remembered
<1> USE DEF Fetch, history
<1>1. Grown /\ Ancestry' /\ Commit' = Commit
  BY SameCommits
<1>2. upstream' \in [User -> Commit'] /\ phase' \in [User -> Phase]
  BY <1>1, TypesNow DEF Phase
<1>3. UNCHANGED <<commits, master, head, index, work, op, saved, conflicts, requests,
                  autosaved, leftStaged, reported>>
  OBVIOUS
<1>4. Typed'
  BY <1>1, <1>2, <1>3, TypesNow, TypedAfter
<1> QED
  BY <1>1, <1>3, <1>4, NothingForgotten

LEMMA ResetTyped ==
  ASSUME Typed, Ancestry, Staging', NEW u \in User, Reset(u)
  PROVE  Grown /\ Typed' /\ Ancestry' /\ Remembered
<1> DEFINE s == [f \in File |-> IF Unstaged(u, f) THEN work[u][f] ELSE Kept]
           lost(f) == OnlyStaged(u, f) /\ (f \in leftStaged[u] \/ InSomeCommit(f, work[u][f]))
           a == [f \in File |-> IF lost(f) THEN Clean ELSE autosaved[u][f]]
           t == TreeOf(head[u])
           w == HardReset(u, t)
<1>1. /\ saved' = [saved EXCEPT ![u] = s]
      /\ autosaved' = [autosaved EXCEPT ![u] = a]
      /\ leftStaged' = [leftStaged EXCEPT ![u] = {}]
      /\ index' = [index EXCEPT ![u] = t]
      /\ work' = [work EXCEPT ![u] = w]
      /\ phase' = [phase EXCEPT ![u] = "clean"]
      /\ UNCHANGED <<commits, master, head, upstream, op, conflicts, requests, reported>>
  BY DEF Reset, Remember
<1>2. Grown /\ Ancestry' /\ Commit' = Commit
  BY <1>1, SameCommits
<1>3. t \in Tree /\ t \in [File -> State]
  BY CommitsThere, TreesClosed
<1>4. w \in Tree
  BY <1>2, <1>3, TypesNow DEF HardReset, Tree
<1>5. s \in Snapshot
  BY <1>2, TypesNow DEF Snapshot, Tree
<1>6. a \in [File -> Text \union {Clean}]
  <2> HIDE DEF lost
  <2> QED
    BY <1>2, TypesNow
<1> HIDE DEF s, a, t, w
<1>7. /\ saved' \in [User -> Snapshot]
      /\ autosaved' \in [User -> [File -> Text \union {Clean}]]
      /\ leftStaged' \in [User -> SUBSET File]
      /\ index' \in [User -> [File -> State]]
      /\ work' \in [User -> Tree]
      /\ phase' \in [User -> Phase]
  BY <1>1, <1>2, <1>3, <1>4, <1>5, <1>6, TypesNow DEF Phase
<1>8. Typed'
  BY <1>1, <1>2, <1>7, TypesNow, TypedAfter
<1> QED
  BY <1>1, <1>2, <1>8, NothingForgotten

LEMMA CleanUpTyped ==
  ASSUME Typed, Ancestry, Staging', NEW u \in User, CleanUp(u)
  PROVE  Grown /\ Typed' /\ Ancestry' /\ Remembered
<1> DEFINE w == [f \in File |-> IF index[u][f] = Absent THEN Absent ELSE work[u][f]]
<1>1. /\ work' = [work EXCEPT ![u] = w]
      /\ phase' = [phase EXCEPT ![u] = "merge"]
      /\ UNCHANGED <<commits, master, head, upstream, index, op, saved, conflicts, requests,
                     autosaved, leftStaged, reported>>
  BY DEF CleanUp, history
<1>2. Grown /\ Ancestry' /\ Commit' = Commit
  BY <1>1, SameCommits
<1>3. w \in Tree
  BY <1>2, TypesNow DEF Tree
<1> HIDE DEF w
<1>4. work' \in [User -> Tree] /\ phase' \in [User -> Phase]
  BY <1>1, <1>2, <1>3, TypesNow DEF Phase
<1>5. Typed'
  BY <1>1, <1>2, <1>4, TypesNow, TypedAfter
<1> QED
  BY <1>1, <1>2, <1>5, NothingForgotten

LEMMA MergeNothingTyped ==
  ASSUME Typed, Ancestry, Staging', NEW u \in User, MergeNothing(u)
  PROVE  Grown /\ Typed' /\ Ancestry' /\ Remembered
<1> USE DEF MergeNothing, clone, history
<1>1. Grown /\ Ancestry' /\ Commit' = Commit
  BY SameCommits
<1>2. phase' \in [User -> Phase]
  BY <1>1, TypesNow DEF Phase
<1>3. UNCHANGED <<commits, master, head, upstream, index, work, op, saved, conflicts,
                  requests, autosaved, leftStaged, reported>>
  OBVIOUS
<1>4. Typed'
  BY <1>1, <1>2, <1>3, TypesNow, TypedAfter
<1> QED
  BY <1>1, <1>3, <1>4, NothingForgotten

(* What MergedTo does, the commits being what they may be. *)
LEMMA MergedToTyped ==
  ASSUME Typed, Ancestry, Staging', Grown, Ancestry', NEW u \in User,
         NEW c \in Commit', NEW tree \in Tree, MergedTo(u, c, tree)
  PROVE  Typed'
<1> USE DEF MergedTo
<1>1. tree \in [File -> State]
  BY TreesClosed
<1>2. Outstanding(autosaved[u], tree) \in [File -> Text \union {Clean}]
  BY OutstandingTyped, TypesNow
<1>3. /\ head' \in [User -> Commit']
      /\ index' \in [User -> [File -> State]]
      /\ work' \in [User -> Tree]
      /\ phase' \in [User -> Phase]
  BY <1>1, TypesNow DEF Phase
<1>4. autosaved' \in [User -> [File -> Text \union {Clean}]]
  BY <1>2, TypesNow
<1> QED
  BY <1>3, <1>4, TypesNow, TypedAfter

LEMMA MergeFastForwardTyped ==
  ASSUME Typed, Ancestry, Staging', NEW u \in User, MergeFastForward(u)
  PROVE  Grown /\ Typed' /\ Ancestry' /\ Remembered
<1> USE DEF MergeFastForward
<1>1. Grown /\ Ancestry' /\ Commit' = Commit
  BY SameCommits
<1>2. upstream[u] \in Commit /\ TreeOf(upstream[u]) \in Tree
  BY CommitsThere
<1>3. Typed'
  BY <1>1, <1>2, MergedToTyped
<1>4. \A v \in User : head[v] \in Anc(head'[v])
  <2>1. head' = [head EXCEPT ![u] = upstream[u]]
    BY DEF MergedTo
  <2> QED
    BY <2>1, CommitsThere, TypesNow, <1>1 DEF Ancestry
<1>5. master' = master /\ master \in Anc(master)
  BY CommitsThere, AncOf DEF MergedTo
<1> QED
  BY <1>1, <1>3, <1>4, <1>5 DEF Remembered, Anc

(* What merges is, file by file, the text of one side, whatever the base. *)
LEMMA BaseTyped ==
  ASSUME Typed, Ancestry, NEW u \in User
  PROVE  \A f \in File : Merged(BaseTree(u)[f], Ours(u)[f], Theirs(u)[f])
                           \in Text \union {Absent}
BY CommitsThere DEF Merged, Ours, Theirs, Tree

LEMMA MergeCleanTyped ==
  ASSUME Typed, Ancestry, Staging', NEW u \in User, MergeClean(u)
  PROVE  Grown /\ Typed' /\ Ancestry' /\ Remembered
<1> DEFINE tree == [f \in File |-> Merged(BaseTree(u)[f], Ours(u)[f], Theirs(u)[f])]
           r == [tree |-> tree,
                 anc |-> Anc(head[u]) \union Anc(upstream[u]) \union {NewCommit},
                 touched |-> {}]
<1>1. commits' = Append(commits, r) /\ MergedTo(u, NewCommit, tree)
  BY DEF MergeClean
<1>2. tree \in Tree
  BY BaseTyped DEF Tree
<1>3. /\ Anc(head[u]) \union Anc(upstream[u]) \in SUBSET Commit
      /\ head[u] \in Anc(head[u])
  BY CommitsThere, AncOf
<1>4. NewCommit \in Nat /\ Commit \subseteq Nat
  BY CommitsThere DEF NewCommit, Commit
<1>5. r \in CommitRecord
  BY <1>2, <1>3, <1>4 DEF CommitRecord
<1>6. r.anc = (Anc(head[u]) \union Anc(upstream[u])) \union {NewCommit}
  OBVIOUS
<1> HIDE DEF r, tree
<1>7. /\ Grown /\ Ancestry'
      /\ NewCommit \in Commit' /\ commits'[NewCommit] = r
  BY <1>1, <1>3, <1>5, <1>6, NewerCommits
<1>8. Typed'
  BY <1>1, <1>2, <1>7, MergedToTyped
<1>9. head' = [head EXCEPT ![u] = NewCommit] /\ master' = master
  BY <1>1 DEF MergedTo
<1>10. \A v \in User : head[v] \in commits'[head'[v]].anc
  <2> TAKE v \in User
  <2>1. CASE v = u
    BY <1>3, <1>6, <1>7, <1>9, <2>1, TypesNow
  <2>2. CASE v # u
    BY <1>7, <1>9, <2>2, TypesNow, CommitsThere, AncOf DEF Grown, Anc
  <2> QED
    BY <2>1, <2>2
<1>11. master \in commits'[master'].anc
  BY <1>7, <1>9, CommitsThere, AncOf DEF Grown, Anc
<1> QED
  BY <1>7, <1>8, <1>10, <1>11 DEF Remembered

LEMMA MergeConflictsTyped ==
  ASSUME Typed, Ancestry, Staging', NEW u \in User, MergeConflicts(u)
  PROVE  Grown /\ Typed' /\ Ancestry' /\ Remembered
<1> DEFINE i == [f \in File |-> IF f \in Clashing(u) THEN Unmerged
                                ELSE Merged(BaseTree(u)[f], Ours(u)[f], Theirs(u)[f])]
           w == [f \in File |-> IF f \in Clashing(u) THEN Left(Ours(u)[f], Theirs(u)[f])
                                ELSE i[f]]
<1>1. /\ index' = [index EXCEPT ![u] = i]
      /\ work' = [work EXCEPT ![u] = w]
      /\ conflicts' = [conflicts EXCEPT ![u] = Recognised(u)]
      /\ phase' = [phase EXCEPT ![u] = "rewrite"]
      /\ UNCHANGED <<commits, master, head, upstream, op, saved, requests,
                     autosaved, leftStaged, reported>>
  BY DEF MergeConflicts, history
<1>2. Grown /\ Ancestry' /\ Commit' = Commit
  BY <1>1, SameCommits
<1>3. i \in [File -> State]
  BY BaseTyped DEF State
<1>4. w \in Tree
  <2>1. \A f \in File : Left(Ours(u)[f], Theirs(u)[f]) \in Text \union {Absent}
    BY CommitsThere, Sentinels DEF Left, Ours, Theirs, Tree
  <2> QED
    BY <2>1, BaseTyped DEF Tree
<1>5. Recognised(u) \in SUBSET File
  BY DEF Recognised, Clashing
<1> HIDE DEF i, w
<1>7. /\ index' \in [User -> [File -> State]]
      /\ work' \in [User -> Tree]
      /\ conflicts' \in [User -> SUBSET File]
      /\ phase' \in [User -> Phase]
  BY <1>1, <1>2, <1>3, <1>4, <1>5, TypesNow DEF Phase
<1>8. Typed'
  BY <1>1, <1>2, <1>7, TypesNow, TypedAfter
<1> QED
  BY <1>1, <1>2, <1>8, NothingForgotten

LEMMA RewriteTyped ==
  ASSUME Typed, Ancestry, Staging', NEW u \in User, Rewrite(u)
  PROVE  Grown /\ Typed' /\ Ancestry' /\ Remembered
<1>1. PICK f \in File :
        /\ saved[u][f] # Kept
        /\ IF saved[u][f] = Absent
             THEN /\ work' = [work EXCEPT ![u] = Removed(work[u], index[u], f)]
                  /\ index' = [index EXCEPT ![u] = [index[u] EXCEPT ![f] = Absent]]
             ELSE /\ work' = [work EXCEPT ![u] = [work[u] EXCEPT ![f] = saved[u][f]]]
                  /\ UNCHANGED index
        /\ saved' = [saved EXCEPT ![u] = [saved[u] EXCEPT ![f] = Kept]]
        /\ UNCHANGED <<commits, master, head, upstream, phase, op, conflicts, requests,
                       autosaved, leftStaged, reported>>
  BY DEF Rewrite, history
<1>2. Grown /\ Ancestry' /\ Commit' = Commit
  BY <1>1, SameCommits
<1>3. saved[u][f] \in Text \union {Absent}
  BY <1>1, <1>2, TypesNow DEF Snapshot
<1>4. /\ Removed(work[u], index[u], f) \in Tree
      /\ [work[u] EXCEPT ![f] = saved[u][f]] \in Tree
      /\ [index[u] EXCEPT ![f] = Absent] \in [File -> State]
  BY <1>2, <1>3, TypesNow, TreesClosed DEF State
<1>5. [saved[u] EXCEPT ![f] = Kept] \in Snapshot
  BY <1>2, TypesNow DEF Snapshot
<1>6. /\ index' \in [User -> [File -> State]]
      /\ work' \in [User -> Tree]
      /\ saved' \in [User -> Snapshot]
  <2>1. saved' \in [User -> Snapshot]
    BY <1>1, <1>2, <1>5, TypesNow
  <2>2. \/ /\ work' = [work EXCEPT ![u] = Removed(work[u], index[u], f)]
           /\ index' = [index EXCEPT ![u] = [index[u] EXCEPT ![f] = Absent]]
        \/ /\ work' = [work EXCEPT ![u] = [work[u] EXCEPT ![f] = saved[u][f]]]
           /\ index' = index
    BY <1>1
  <2>3. index \in [User -> [File -> State]] /\ work \in [User -> Tree]
    BY <1>2, TypesNow
  <2>4. index' \in [User -> [File -> State]] /\ work' \in [User -> Tree]
    BY <1>4, <2>2, <2>3
  <2> QED
    BY <2>1, <2>4
<1>7. Typed'
  BY <1>1, <1>2, <1>6, TypesNow, TypedAfter
<1> QED
  BY <1>1, <1>2, <1>7, NothingForgotten

LEMMA PushTyped ==
  ASSUME Typed, Ancestry, Staging', NEW u \in User, Push(u)
  PROVE  Grown /\ Typed' /\ Ancestry' /\ Remembered
<1> USE DEF Push, history
<1>1. Grown /\ Ancestry' /\ Commit' = Commit
  BY SameCommits
<1>2. /\ master' \in Commit'
      /\ upstream' \in [User -> Commit']
      /\ phase' \in [User -> Phase]
  BY <1>1, CommitsThere, TypesNow DEF Phase
<1>3. UNCHANGED <<commits, head, index, work, op, saved, conflicts, requests,
                  autosaved, leftStaged, reported>>
  OBVIOUS
<1>4. Typed'
  BY <1>1, <1>2, <1>3, TypesNow, TypedAfter
<1>5. Remembered
  BY CommitsThere, AncOf DEF Remembered, Anc
<1> QED
  BY <1>1, <1>4, <1>5

LEMMA ReportConflictsTyped ==
  ASSUME Typed, Ancestry, Staging', NEW u \in User, ReportConflicts(u)
  PROVE  Grown /\ Typed' /\ Ancestry' /\ Remembered
<1> USE DEF ReportConflicts, clone, history
<1>1. Grown /\ Ancestry' /\ Commit' = Commit
  BY SameCommits
<1>2. phase' \in [User -> Phase]
  BY <1>1, TypesNow DEF Phase
<1>3. UNCHANGED <<commits, master, head, upstream, index, work, op, saved, conflicts,
                  requests, autosaved, leftStaged, reported>>
  OBVIOUS
<1>4. Typed'
  BY <1>1, <1>2, <1>3, TypesNow, TypedAfter
<1> QED
  BY <1>1, <1>3, <1>4, NothingForgotten

LEMMA WritesTyped ==
  ASSUME Typed, Ancestry, NEW u \in User, NEW f \in File, NEW text \in Text,
         Writes(u, f, text, work[u])
  PROVE  /\ work' \in [User -> Tree]
         /\ autosaved' \in [User -> [File -> Text \union {Clean}]]
<1> DEFINE a == [autosaved[u] EXCEPT ![f] = text]
<1>1. /\ work' = [work EXCEPT ![u] = [work[u] EXCEPT ![f] = text]]
      /\ autosaved' = [autosaved EXCEPT ![u] = Outstanding(a, TreeOf(head[u]))]
  BY DEF Writes
<1>2. [work[u] EXCEPT ![f] = text] \in Tree
  BY SameTyped, TreesClosed
<1>3. a \in [File -> Text \union {Clean}]
  BY SameTyped
<1> HIDE DEF a
<1>4. Outstanding(a, TreeOf(head[u])) \in [File -> Text \union {Clean}]
  BY <1>3, OutstandingTyped
<1> QED
  BY <1>1, <1>2, <1>4, SameTyped

LEMMA PutFileTyped ==
  ASSUME Typed, Ancestry, Staging', NEW u \in User, PutFile(u)
  PROVE  Grown /\ Typed' /\ Ancestry' /\ Remembered
<1>1. op[u].file \in File /\ op[u].text \in Text
  BY OpFields DEF PutFile, Applying
<1> QED
  BY <1>1, WritesTyped, SameTyped, ApplyingTyped DEF PutFile, Applying

LEMMA DeleteFileTyped ==
  ASSUME Typed, Ancestry, Staging', NEW u \in User, DeleteFile(u)
  PROVE  Grown /\ Typed' /\ Ancestry' /\ Remembered
<1> DEFINE f == op[u].file
<1>1. /\ work' = [work EXCEPT ![u] = Removed(work[u], index[u], f)]
      /\ index' = [index EXCEPT ![u] = [index[u] EXCEPT ![f] = Absent]]
      /\ autosaved' = [autosaved EXCEPT ![u] = [autosaved[u] EXCEPT ![f] =
           IF index[u][f] = Absent THEN autosaved[u][f] ELSE Clean]]
  BY DEF DeleteFile
<1>2. f \in File
  BY OpFields DEF DeleteFile, Applying
<1> HIDE DEF f
<1>3. /\ index' \in [User -> [File -> State]]
      /\ work' \in [User -> Tree]
      /\ autosaved' \in [User -> [File -> Text \union {Clean}]]
  BY <1>1, <1>2, SameTyped, TreesClosed DEF State
<1> QED
  BY <1>3, SameTyped, ApplyingTyped DEF DeleteFile, Applying

LEMMA SourceTyped ==
  ASSUME Typed, Ancestry, NEW u \in User, op[u].file \in File
  PROVE  Source(u) \in Text
BY SameTyped, Sentinels DEF Source, Tree

LEMMA CopyFileTyped ==
  ASSUME Typed, Ancestry, Staging', NEW u \in User, CopyFile(u)
  PROVE  Grown /\ Typed' /\ Ancestry' /\ Remembered
<1>1. op[u].file \in File /\ op[u].dst \in File
  BY OpFields DEF CopyFile, Applying
<1>2. Source(u) \in Text
  BY <1>1, SourceTyped
<1> QED
  BY <1>1, <1>2, WritesTyped, SameTyped, ApplyingTyped DEF CopyFile, Applying

(* What a move leaves of the user's outstanding autosaves. *)
AfterMove(u, f, d) ==
  [g \in File |-> IF g = d THEN Source(u)
                  ELSE IF g = f /\ index[u][f] # Absent THEN Clean ELSE autosaved[u][g]]

LEMMA MoveFileTyped ==
  ASSUME Typed, Ancestry, Staging', NEW u \in User, MoveFile(u)
  PROVE  Grown /\ Typed' /\ Ancestry' /\ Remembered
<1> DEFINE f == op[u].file
           d == op[u].dst
<1>1. /\ index' = [index EXCEPT ![u] = [index[u] EXCEPT ![f] = Absent]]
      /\ work' = [work EXCEPT ![u] =
           Removed([work[u] EXCEPT ![d] = Source(u)], index[u], f)]
      /\ autosaved' = [autosaved EXCEPT ![u] =
           Outstanding(AfterMove(u, f, d), TreeOf(head[u]))]
  BY DEF MoveFile, AfterMove
<1>2. f \in File /\ d \in File
  BY OpFields DEF MoveFile, Applying
<1>3. Source(u) \in Text
  BY <1>2, SourceTyped
<1>4. AfterMove(u, f, d) \in [File -> Text \union {Clean}]
  BY <1>3, SameTyped DEF AfterMove
<1> HIDE DEF f, d
<1>5. Outstanding(AfterMove(u, f, d), TreeOf(head[u]))
        \in [File -> Text \union {Clean}]
  BY <1>4, OutstandingTyped
<1>6. [work[u] EXCEPT ![d] = Source(u)] \in Tree
  BY <1>2, <1>3, SameTyped, TreesClosed
<1>7. /\ index' \in [User -> [File -> State]]
      /\ work' \in [User -> Tree]
      /\ autosaved' \in [User -> [File -> Text \union {Clean}]]
  BY <1>1, <1>2, <1>5, <1>6, SameTyped, TreesClosed DEF State
<1> QED
  BY <1>7, SameTyped, ApplyingTyped DEF MoveFile, Applying

LEMMA CheckoutFileTyped ==
  ASSUME Typed, Ancestry, Staging', NEW u \in User, CheckoutFile(u)
  PROVE  Grown /\ Typed' /\ Ancestry' /\ Remembered
<1> DEFINE f == op[u].file
           found == index[u][f] \notin {Absent, Unmerged}
<1>1. /\ work' = IF found
                   THEN [work EXCEPT ![u] = [work[u] EXCEPT ![f] = index[u][f]]] ELSE work
      /\ autosaved' = IF found
           THEN [autosaved EXCEPT ![u] = [autosaved[u] EXCEPT ![f] = Clean]] ELSE autosaved
  BY DEF CheckoutFile
<1>2. f \in File
  BY OpFields DEF CheckoutFile, Applying
<1> HIDE DEF f
<1>3. found => index[u][f] \in Text
  BY <1>2, SameTyped DEF State
<1>4. found => [work[u] EXCEPT ![f] = index[u][f]] \in Tree
  BY <1>2, <1>3, SameTyped, TreesClosed
<1> HIDE DEF found
<1>5. /\ work' \in [User -> Tree]
      /\ autosaved' \in [User -> [File -> Text \union {Clean}]]
  BY <1>1, <1>2, <1>4, SameTyped
<1> QED
  BY <1>5, SameTyped, ApplyingTyped DEF CheckoutFile, Applying

LEMMA RevertFileTyped ==
  ASSUME Typed, Ancestry, Staging', NEW u \in User, RevertFile(u)
  PROVE  Grown /\ Typed' /\ Ancestry' /\ Remembered
<1> DEFINE f == op[u].file
           text == TreeOf(op[u].rev)[f]
           found == text # Absent /\ op[u].rev \in Anc(head[u]) \union Anc(upstream[u])
<1>1. /\ work' = IF found
                   THEN [work EXCEPT ![u] = [work[u] EXCEPT ![f] = text]] ELSE work
      /\ index' = IF found
                   THEN [index EXCEPT ![u] = [index[u] EXCEPT ![f] = text]] ELSE index
      /\ autosaved' = IF found
           THEN [autosaved EXCEPT ![u] = [autosaved[u] EXCEPT ![f] = Clean]] ELSE autosaved
  BY DEF RevertFile
<1>2. f \in File /\ op[u].rev \in Commit
  BY OpFields DEF RevertFile, Applying
<1>3. text \in Text \union {Absent}
  BY <1>2, CommitsThere DEF Tree
<1> HIDE DEF f, text, found
<1>4. /\ [work[u] EXCEPT ![f] = text] \in Tree
      /\ [index[u] EXCEPT ![f] = text] \in [File -> State]
  BY <1>2, <1>3, SameTyped, TreesClosed DEF State
<1>5. /\ work' \in [User -> Tree]
      /\ index' \in [User -> [File -> State]]
      /\ autosaved' \in [User -> [File -> Text \union {Clean}]]
  BY <1>1, <1>2, <1>4, SameTyped
<1> QED
  BY <1>5, SameTyped, ApplyingTyped DEF RevertFile, Applying

LEMMA ListFilesTyped ==
  ASSUME Typed, Ancestry, Staging', NEW u \in User, ListFiles(u)
  PROVE  Grown /\ Typed' /\ Ancestry' /\ Remembered
BY SameTyped, ApplyingTyped DEF ListFiles, Applying, history

LEMMA FinishCommitTyped ==
  ASSUME Typed, Ancestry, Staging', NEW u \in User, FinishCommit(u)
  PROVE  Grown /\ Typed' /\ Ancestry' /\ Remembered
<1>1. reported' \in [User -> [files : SUBSET File, upstream : Commit]]
  BY SameTyped, CommitsThere DEF FinishCommit, Typed, TypeOK
<1> QED
  BY <1>1, SameTyped, ApplyingTyped DEF FinishCommit, Applying

LEMMA CrashTyped ==
  ASSUME Typed, Ancestry, Staging', NEW u \in User, Crash(u)
  PROVE  Grown /\ Typed' /\ Ancestry' /\ Remembered
<1>1. autosaved' \in [User -> [File -> Text \union {Clean}]]
  BY SameTyped DEF Crash
<1>2. leftStaged' \in [User -> SUBSET File]
  BY SameTyped DEF Crash
<1> QED
  BY <1>1, <1>2, SameTyped, ApplyingTyped DEF Crash, clone

(* The index of a clone is staged from a tree, in the phase for it. *)
LEMMA NextStaging ==
  ASSUME Typed, [Next]_vars
  PROVE  Staging'
<1> DEFINE Still(v) == index'[v] = index[v] /\ phase'[v] = phase[v]
<1> SUFFICES ASSUME NEW v \in User, phase'[v] = "stage" PROVE index'[v] \in Tree
  BY DEF Staging
<1>1. CASE Still(v)
  BY <1>1 DEF Typed, Staging
<1>2. CASE UNCHANGED vars
  BY <1>1, <1>2 DEF vars, clone, request
<1>3. ASSUME NEW u \in User, StartFileOp(u) PROVE Still(v)
  BY <1>3, SameFunctions DEF StartFileOp, clone
<1>4. ASSUME NEW u \in User, StartCommit(u) PROVE Still(v) \/ index'[v] \in Tree
  BY <1>4, SameFunctions, CommitsThere DEF StartCommit
<1>5. ASSUME NEW u \in User, StageFile(u) PROVE Still(v) \/ index'[v] \in Tree
  <2>1. PICK f \in File :
          /\ phase[u] = "stage" /\ phase' = phase
          /\ index' = [index EXCEPT ![u] = [index[u] EXCEPT ![f] = work[u][f]]]
    BY <1>5 DEF StageFile, request
  <2>2. CASE v = u
    <3>1. index[u] \in Tree
      BY <2>1 DEF Typed, Staging
    <3>2. index'[v] = [index[u] EXCEPT ![f] = work[u][f]]
      BY <2>1, <2>2, SameFunctions
    <3> QED
      BY <3>1, <3>2, SameFunctions DEF Tree
  <2>3. CASE v # u
    BY <2>1, <2>3, SameFunctions
  <2> QED
    BY <2>2, <2>3
<1>6. ASSUME NEW u \in User, CommitStaged(u) PROVE Still(v)
  BY <1>6, SameFunctions DEF CommitStaged
<1>7. ASSUME NEW u \in User, CommitFails(u) PROVE Still(v)
  BY <1>7, SameFunctions DEF CommitFails, Idle, clone
<1>8. ASSUME NEW u \in User, Crash(u) PROVE Still(v)
  BY <1>8, SameFunctions DEF Crash, Idle, clone
<1>9. ASSUME NEW u \in User, Apply(u) PROVE Still(v)
  BY <1>9, SameFunctions DEF Apply, PutFile, DeleteFile, CopyFile, MoveFile, CheckoutFile,
     RevertFile, ListFiles, FinishCommit, Applying, Idle
<1>10. ASSUME NEW u \in User, Update(u) PROVE Still(v)
  <2>1. CASE Fetch(u) \/ Reset(u) \/ CleanUp(u) \/ MergeNothing(u)
    BY <2>1, SameFunctions DEF Fetch, Reset, CleanUp, MergeNothing, clone
  <2>2. CASE MergeFastForward(u) \/ MergeClean(u)
    BY <2>2, SameFunctions DEF MergeFastForward, MergeClean, MergedTo
  <2>3. CASE MergeConflicts(u)
    BY <2>3, SameFunctions DEF MergeConflicts
  <2>4. CASE Rewrite(u)
    BY <2>4, SameFunctions DEF Rewrite
  <2>5. CASE Push(u) \/ ReportConflicts(u)
    BY <2>5, SameFunctions DEF Push, ReportConflicts, clone
  <2> QED
    BY <1>10, <2>1, <2>2, <2>3, <2>4, <2>5 DEF Update
<1> QED
  BY <1>1, <1>2, <1>3, <1>4, <1>5, <1>6, <1>7, <1>8, <1>9, <1>10 DEF Next

LEMMA NextTyped ==
  ASSUME Typed, Ancestry, [Next]_vars
  PROVE  Grown /\ Typed' /\ Ancestry' /\ Remembered
<1>0. Staging'
  BY NextStaging
<1>1. CASE UNCHANGED vars
  <2>1. Typed' = Typed /\ Ancestry' = Ancestry
    BY <1>1 DEF vars, clone, request, history, Typed, TypeOK, Staging, Ancestry,
                Commit, Anc, Ops
  <2> QED
    BY <1>1, <2>1, SameCommits, NothingForgotten DEF vars, clone
<1>2. ASSUME NEW u \in User,
             \/ StartFileOp(u)
             \/ StartCommit(u) \/ StageFile(u) \/ CommitStaged(u) \/ CommitFails(u)
             \/ Update(u) \/ Apply(u) \/ Crash(u)
      PROVE  Grown /\ Typed' /\ Ancestry' /\ Remembered
  <2>1. CASE Update(u)
    BY <1>0, <2>1, FetchTyped, ResetTyped, CleanUpTyped, MergeNothingTyped, MergeFastForwardTyped,
       MergeCleanTyped, MergeConflictsTyped, RewriteTyped, PushTyped, ReportConflictsTyped
       DEF Update
  <2>2. CASE Apply(u)
    BY <1>0, <2>2, PutFileTyped, DeleteFileTyped, CopyFileTyped, MoveFileTyped,
       CheckoutFileTyped, RevertFileTyped, ListFilesTyped, FinishCommitTyped DEF Apply
  <2> QED
    BY <1>0, <1>2, <2>1, <2>2, StartFileOpTyped, StartCommitTyped, StageFileTyped,
       CommitStagedTyped, CommitFailsTyped, CrashTyped
<1> QED
  BY <1>1, <1>2 DEF Next

(* Whatever requests do and whoever dies, every variable keeps its type,   *)
(* and the ancestors of a commit are older commits.                        *)
THEOREM AlwaysTyped == Spec => [](Typed /\ Ancestry)
<1>1. Typed /\ Ancestry /\ [Next]_vars => (Typed /\ Ancestry)'
  BY NextTyped
<1> QED
  BY <1>1, InitTyped, PTL DEF Spec

(* Every clone, the master and every request in progress stay within the   *)
(* types of TypeOK.                                                        *)
THEOREM TypeCorrect == Spec => []TypeOK
<1>1. Typed => TypeOK
  BY DEF Typed
<1> QED
  BY <1>1, AlwaysTyped, PTL

(* A commit is never dropped from a clone's history or from the master's.  *)
THEOREM HistoryIsKept == Spec => HistoryKept
<1>1. Typed /\ Ancestry /\ [Next]_vars => [Remembered]_vars
  BY NextTyped
<1>2. Spec => [][Remembered]_vars
  BY <1>1, AlwaysTyped, PTL DEF Spec
<1> QED
  BY <1>2 DEF HistoryKept, Remembered

-----------------------------------------------------------------------------
(* Clones in step, and autosaved texts, action by action *)

(* A step for one user leaves the other clones as they are. *)
Elsewhere(u) ==
  \A v \in User \ {u} :
    /\ head'[v] = head[v]
    /\ upstream'[v] = upstream[v]
    /\ index'[v] = index[v]
    /\ work'[v] = work[v]
    /\ phase'[v] = phase[v]
    /\ saved'[v] = saved[v]
    /\ conflicts'[v] = conflicts[v]
    /\ autosaved'[v] = autosaved[v]
    /\ leftStaged'[v] = leftStaged[v]

IInv == Typed /\ Ancestry /\ InStep /\ Entries /\ Autosaves

LEMMA InitKeeps == Init => InStep /\ Entries /\ Autosaves
<1> SUFFICES ASSUME Init PROVE InStep /\ Entries /\ Autosaves
  OBVIOUS
<1>1. InStep
  BY DEF Init, InStep, InStepOf
<1>2. Entries
  BY DEF Init, Entries, EntriesOf, Entry, TreeOf
<1>3. Autosaves
  BY DEF Init, Autosaves, AutosavesOf
<1> QED
  BY <1>1, <1>2, <1>3

(* What a step for one user keeps of it, the other users' clones keep too. *)
LEMMA OthersKeep ==
  ASSUME IInv, Grown, Typed', Ancestry', Remembered, NEW u \in User, Elsewhere(u),
         InStepOf(u)', EntriesOf(u)', AutosavesOf(u)'
  PROVE  InStep' /\ Entries' /\ Autosaves'
<1>1. master <= master'
  BY CommitsThere DEF Remembered, Ancestry, Anc, Typed, TypeOK
<1>2. ASSUME NEW v \in User, v # u PROVE InStepOf(v)' /\ EntriesOf(v)' /\ AutosavesOf(v)'
  <2>1. commits'[head'[v]] = commits[head[v]]
    BY <1>2, CommitsThere DEF IInv, Elsewhere, Grown
  <2>2. InStepOf(v) /\ EntriesOf(v) /\ AutosavesOf(v)
    BY DEF IInv, InStep, Entries, Autosaves
  <2>3. upstream[v] \in Nat /\ master \in Nat /\ master' \in Nat
    <3>1. upstream[v] \in Commit /\ master \in Commit
      BY DEF IInv, Typed, TypeOK
    <3>2. master' \in Commit'
      BY DEF Typed, TypeOK
    <3>3. Len(commits) \in Nat /\ Len(commits') \in Nat
      BY DEF IInv, Typed
    <3> QED
      BY <3>1, <3>2, <3>3 DEF Commit
  <2>4. InStepOf(v)'
    BY <1>1, <1>2, <2>1, <2>2, <2>3 DEF Elsewhere, InStepOf, Anc
  <2>5. AutosavesOf(v)'
    BY <1>2, <2>1, <2>2 DEF Elsewhere, AutosavesOf, Autosave, TreeOf, InMemory
  <2>6. EntriesOf(v)'
    <3>1. \A f \in File : \A x : InSomeCommit(f, x) => InSomeCommit(f, x)'
      BY CommitsThere DEF IInv, InSomeCommit, Grown, TreeOf, Commit
    <3> HIDE DEF InSomeCommit
    <3> QED
      BY <1>2, <2>1, <2>2, <3>1 DEF Elsewhere, EntriesOf, Entry, TreeOf
  <2> QED
    BY <2>4, <2>5, <2>6
<1> QED
  BY <1>2 DEF InStep, Entries, Autosaves

(* The functions of a clone, for the EXCEPTs of the actions. *)
LEMMA Functions ==
  ASSUME Typed, NEW u \in User
  PROVE  /\ head \in [User -> Commit] /\ upstream \in [User -> Commit]
         /\ index \in [User -> [File -> State]] /\ work \in [User -> Tree]
         /\ phase \in [User -> Phase] /\ op \in [User -> Ops \union {NoOp}]
         /\ saved \in [User -> Snapshot] /\ conflicts \in [User -> SUBSET File]
         /\ autosaved \in [User -> [File -> Text \union {Clean}]]
         /\ leftStaged \in [User -> SUBSET File]
         /\ Commit \subseteq Nat /\ master \in Nat
BY CommitsThere DEF Typed, TypeOK, State, Commit

(* What is outstanding is an autosave, and not the head's text. *)
LEMMA OutstandingKeeps ==
  ASSUME NEW a, NEW t, NEW f \in File, Outstanding(a, t)[f] # Clean
  PROVE  /\ Outstanding(a, t)[f] = a[f]
         /\ a[f] # Clean /\ a[f] # t[f]
BY DEF Outstanding

(* A step that stages nothing but what a commit has. *)
LEMMA EntriesKept ==
  ASSUME IInv, NEW u \in User, UNCHANGED commits, head'[u] = head[u],
         phase[u] # "stage" \/ phase'[u] = "stage",
         leftStaged'[u] = leftStaged[u],
         \A f \in File : index'[u][f] \in Text =>
           index'[u][f] = index[u][f] \/ InSomeCommit(f, index'[u][f])
  PROVE  EntriesOf(u)'
<1>1. EntriesOf(u)
  BY DEF IInv, Entries
<1>2. \A f, x : InSomeCommit(f, x)' = InSomeCommit(f, x)
  BY DEF InSomeCommit, TreeOf, Commit
<1>3. TreeOf(head[u])' = TreeOf(head[u])
  BY DEF TreeOf
<1> QED
  BY <1>1, <1>2, <1>3 DEF EntriesOf, Entry

LEMMA StartFileOpKeeps ==
  ASSUME IInv, NEW u \in User, StartFileOp(u)
  PROVE  Elsewhere(u) /\ InStepOf(u)' /\ EntriesOf(u)' /\ AutosavesOf(u)'
<1> USE Functions DEF IInv, StartFileOp, Accepted, clone, history
<1>1. /\ phase[u] = "idle" /\ phase'[u] = "fetch"
      /\ UNCHANGED <<commits, master, head, upstream, index, work, saved, conflicts, autosaved,
                     leftStaged>>
  OBVIOUS
<1>2. Elsewhere(u)
  BY DEF Elsewhere
<1> HIDE DEF StartFileOp
<1>3. InStepOf(u)'
  BY <1>1 DEF InStep, InStepOf, Anc
<1>4. AutosavesOf(u)'
  BY <1>1 DEF Autosaves, AutosavesOf, Autosave, TreeOf, InMemory
<1>5. EntriesOf(u)'
  BY <1>1, EntriesKept
<1> QED
  BY <1>2, <1>3, <1>4, <1>5

LEMMA StartCommitKeeps ==
  ASSUME IInv, NEW u \in User, StartCommit(u)
  PROVE  Elsewhere(u) /\ InStepOf(u)' /\ EntriesOf(u)' /\ AutosavesOf(u)'
<1> USE Functions DEF IInv, StartCommit, Accepted
<1>1. /\ phase[u] = "idle" /\ phase'[u] = "stage"
      /\ UNCHANGED <<commits, master, head, upstream, work, saved, conflicts, autosaved>>
  OBVIOUS
<1>2. Elsewhere(u)
  BY DEF Elsewhere
<1> HIDE DEF StartCommit
<1>3. InStepOf(u)'
  BY <1>1 DEF InStep, InStepOf, Anc
<1>4. AutosavesOf(u)'
  BY <1>1 DEF Autosaves, AutosavesOf, Autosave, TreeOf, InMemory
<1>5. EntriesOf(u)'
  BY <1>1 DEF EntriesOf, Entry
<1> QED
  BY <1>2, <1>3, <1>4, <1>5

LEMMA StageFileKeeps ==
  ASSUME IInv, NEW u \in User, StageFile(u)
  PROVE  Elsewhere(u) /\ InStepOf(u)' /\ EntriesOf(u)' /\ AutosavesOf(u)'
<1> USE Functions DEF IInv, StageFile, request, history
<1>1. /\ phase[u] = "stage"
      /\ UNCHANGED <<commits, master, head, upstream, work, phase, saved, conflicts, autosaved>>
  OBVIOUS
<1>2. Elsewhere(u)
  BY DEF Elsewhere
<1> HIDE DEF StageFile
<1>3. InStepOf(u)'
  BY <1>1 DEF InStep, InStepOf, Anc
<1>4. AutosavesOf(u)'
  BY <1>1 DEF Autosaves, AutosavesOf, Autosave, TreeOf, InMemory
<1>5. EntriesOf(u)'
  BY <1>1 DEF EntriesOf, Entry
<1> QED
  BY <1>2, <1>3, <1>4, <1>5

LEMMA CommitStagedKeeps ==
  ASSUME IInv, NEW u \in User, CommitStaged(u)
  PROVE  Elsewhere(u) /\ InStepOf(u)' /\ EntriesOf(u)' /\ AutosavesOf(u)'
<1> USE Functions DEF IInv
<1> DEFINE r == StagedCommit(u)
<1>1. /\ phase[u] = "stage"
      /\ commits' = Append(commits, r)
      /\ head' = [head EXCEPT ![u] = NewCommit]
      /\ autosaved' = [autosaved EXCEPT ![u] = Outstanding(autosaved[u], index[u])]
      /\ phase' = [phase EXCEPT ![u] = "fetch"]
      /\ UNCHANGED <<master, upstream, index, work, saved, conflicts, leftStaged>>
  BY DEF CommitStaged, AllStaged, StagedCommit
<1>2. r.tree = index[u]
  BY DEF StagedCommit
<1> HIDE DEF r
<1>3. Elsewhere(u)
  BY <1>1 DEF Elsewhere
<1>4. commits'[head'[u]].tree = index[u]
  BY <1>1, <1>2, CommitsThere DEF NewCommit
<1>5. InStepOf(u)'
  BY <1>1 DEF InStep, InStepOf, Anc
<1>6. AutosavesOf(u)'
  <2> SUFFICES ASSUME NEW f \in File \ Nested, autosaved'[u][f] # Clean
               PROVE  Autosave(u, f)'
    BY DEF AutosavesOf
  <2>1. autosaved'[u] = Outstanding(autosaved[u], index[u])
    BY <1>1
  <2>2. /\ autosaved'[u][f] = autosaved[u][f] /\ autosaved[u][f] # Clean
        /\ autosaved'[u][f] # index[u][f]
    BY <2>1, OutstandingKeeps
  <2>3. work[u][f] = autosaved[u][f]
    BY <1>1, <2>2 DEF Autosaves, AutosavesOf, Autosave, InMemory
  <2>4. phase'[u] = "fetch" /\ work' = work
    BY <1>1
  <2> QED
    BY <1>4, <2>2, <2>3, <2>4 DEF Autosave, TreeOf, InMemory
<1>7. EntriesOf(u)'
  BY <1>1, <1>4 DEF EntriesOf, Entry, TreeOf
<1> QED
  BY <1>3, <1>5, <1>6, <1>7

LEMMA FetchKeeps ==
  ASSUME IInv, NEW u \in User, Fetch(u)
  PROVE  Elsewhere(u) /\ InStepOf(u)' /\ EntriesOf(u)' /\ AutosavesOf(u)'
<1> USE Functions DEF IInv, Fetch, history
<1>1. /\ phase[u] = "fetch" /\ phase'[u] \in {"apply", "reset"}
      /\ upstream'[u] = master
      /\ phase'[u] = "apply" => head[u] = master
      /\ UNCHANGED <<commits, master, head, index, work, saved, conflicts, autosaved,
                     leftStaged>>
  OBVIOUS
<1>2. Elsewhere(u)
  BY DEF Elsewhere
<1> HIDE DEF Fetch
<1>3. InStepOf(u)'
  BY <1>1 DEF InStep, InStepOf, Anc
<1>4. AutosavesOf(u)'
  BY <1>1 DEF Autosaves, AutosavesOf, Autosave, TreeOf, InMemory
<1>5. EntriesOf(u)'
  BY <1>1, EntriesKept
<1> QED
  BY <1>2, <1>3, <1>4, <1>5

(* A reset holds on to every autosaved text, but for what a commit left   *)
(* staged: an autosaved text in the index was staged or is in a commit.    *)
LEMMA ResetKeeps ==
  ASSUME IInv, NEW u \in User, Reset(u)
  PROVE  Elsewhere(u) /\ InStepOf(u)' /\ EntriesOf(u)' /\ AutosavesOf(u)'
<1> USE Functions DEF IInv
<1> DEFINE lost(f) == OnlyStaged(u, f) /\ (f \in leftStaged[u] \/ InSomeCommit(f, work[u][f]))
           s == [f \in File |-> IF Unstaged(u, f) THEN work[u][f] ELSE Kept]
           a == [f \in File |-> IF lost(f) THEN Clean ELSE autosaved[u][f]]
<1>1. /\ phase[u] = "reset"
      /\ saved' = [saved EXCEPT ![u] = s]
      /\ autosaved' = [autosaved EXCEPT ![u] = a]
      /\ leftStaged' = [leftStaged EXCEPT ![u] = {}]
      /\ index' = [index EXCEPT ![u] = TreeOf(head[u])]
      /\ work' = [work EXCEPT ![u] = HardReset(u, TreeOf(head[u]))]
      /\ phase' = [phase EXCEPT ![u] = "clean"]
      /\ UNCHANGED <<commits, master, head, upstream, conflicts>>
  BY DEF Reset, Remember
<1> HIDE DEF s, a
<1>2. /\ phase'[u] = "clean" /\ index'[u] = TreeOf(head[u])
      /\ \A f \in File : saved'[u][f] = IF Unstaged(u, f) THEN work[u][f] ELSE Kept
      /\ \A f \in File : autosaved'[u][f] = IF lost(f) THEN Clean ELSE autosaved[u][f]
  <2> HIDE DEF lost
  <2> QED
    BY <1>1 DEF s, a
<1>3. Elsewhere(u)
  BY <1>1 DEF Elsewhere
<1>4. InStepOf(u)'
  BY <1>1, <1>2 DEF InStep, InStepOf, Anc
<1>5. AutosavesOf(u)'
  <2> SUFFICES ASSUME NEW f \in File \ Nested, autosaved'[u][f] # Clean
               PROVE  Autosave(u, f)'
    BY DEF AutosavesOf
  <2>1. autosaved'[u][f] = autosaved[u][f] /\ ~lost(f)
    BY <1>2
  <2>2. Autosave(u, f) /\ Entry(u, f)
    BY <2>1 DEF Autosaves, AutosavesOf, Entries, EntriesOf
  <2>3. autosaved[u][f] \in Text
    BY <2>1
  <2>4. work[u][f] = autosaved[u][f] /\ work[u][f] # TreeOf(head[u])[f]
    BY <1>1, <2>2 DEF Autosave, InMemory
  <2>5. index[u][f] # work[u][f]
    BY <1>1, <2>1, <2>2, <2>3, <2>4 DEF OnlyStaged, Entry
  <2>6. saved'[u][f] = autosaved[u][f]
    BY <1>2, <2>4, <2>5 DEF Unstaged, Collapsed
  <2> QED
    BY <1>1, <1>2, <2>1, <2>2, <2>6 DEF Autosave, TreeOf, InMemory
<1>6. EntriesOf(u)'
  BY <1>1, <1>2 DEF EntriesOf, Entry, TreeOf
<1> QED
  BY <1>3, <1>4, <1>5, <1>6

LEMMA CleanUpKeeps ==
  ASSUME IInv, NEW u \in User, CleanUp(u)
  PROVE  Elsewhere(u) /\ InStepOf(u)' /\ EntriesOf(u)' /\ AutosavesOf(u)'
<1> USE Functions DEF IInv, CleanUp, history
<1>1. /\ phase[u] = "clean" /\ phase'[u] = "merge"
      /\ UNCHANGED <<commits, master, head, upstream, index, saved, conflicts, autosaved,
                     leftStaged>>
  OBVIOUS
<1>2. Elsewhere(u)
  BY DEF Elsewhere
<1> HIDE DEF CleanUp
<1>3. InStepOf(u)'
  BY <1>1 DEF InStep, InStepOf, Anc
<1>4. AutosavesOf(u)'
  BY <1>1 DEF Autosaves, AutosavesOf, Autosave, TreeOf, InMemory
<1>5. EntriesOf(u)'
  BY <1>1, EntriesKept
<1> QED
  BY <1>2, <1>3, <1>4, <1>5

LEMMA MergeNothingKeeps ==
  ASSUME IInv, NEW u \in User, MergeNothing(u)
  PROVE  Elsewhere(u) /\ InStepOf(u)' /\ EntriesOf(u)' /\ AutosavesOf(u)'
<1> USE Functions DEF IInv, MergeNothing, clone, history
<1>1. /\ phase[u] = "merge" /\ phase'[u] = "rewrite"
      /\ UNCHANGED <<commits, master, head, upstream, index, work, saved, conflicts, autosaved,
                     leftStaged>>
  OBVIOUS
<1>2. Elsewhere(u)
  BY DEF Elsewhere
<1> HIDE DEF MergeNothing
<1>3. InStepOf(u)'
  BY <1>1 DEF InStep, InStepOf, Anc
<1>4. AutosavesOf(u)'
  BY <1>1 DEF Autosaves, AutosavesOf, Autosave, TreeOf, InMemory
<1>5. EntriesOf(u)'
  BY <1>1, EntriesKept
<1> QED
  BY <1>2, <1>3, <1>4, <1>5

LEMMA MergedToKeeps ==
  ASSUME IInv, NEW u \in User, phase[u] = "merge", Grown,
         NEW c \in Commit', NEW tree, commits'[c].tree = tree, MergedTo(u, c, tree)
  PROVE  Elsewhere(u) /\ InStepOf(u)' /\ EntriesOf(u)' /\ AutosavesOf(u)'
<1> USE Functions DEF IInv, MergedTo
<1>1. /\ phase'[u] = "rewrite" /\ index'[u] = tree /\ head'[u] = c
      /\ autosaved'[u] = Outstanding(autosaved[u], tree)
      /\ UNCHANGED <<master, upstream, saved, conflicts>>
  OBVIOUS
<1>2. Elsewhere(u)
  BY DEF Elsewhere
<1> HIDE DEF MergedTo
<1>3. InStepOf(u)'
  BY <1>1 DEF InStep, InStepOf, Anc
<1>4. AutosavesOf(u)'
  <2> SUFFICES ASSUME NEW f \in File \ Nested, autosaved'[u][f] # Clean
               PROVE  Autosave(u, f)'
    BY DEF AutosavesOf
  <2>1. /\ autosaved'[u][f] = autosaved[u][f] /\ autosaved[u][f] # Clean
        /\ autosaved'[u][f] # tree[f]
    BY <1>1, OutstandingKeeps
  <2>2. saved[u][f] = autosaved[u][f]
    BY <2>1 DEF Autosaves, AutosavesOf, Autosave
  <2> QED
    BY <1>1, <2>1, <2>2 DEF Autosave, TreeOf, InMemory
<1>5. EntriesOf(u)'
  BY <1>1 DEF EntriesOf, Entry, TreeOf
<1> QED
  BY <1>2, <1>3, <1>4, <1>5

LEMMA MergeFastForwardKeeps ==
  ASSUME IInv, Staging', NEW u \in User, MergeFastForward(u)
  PROVE  Elsewhere(u) /\ InStepOf(u)' /\ EntriesOf(u)' /\ AutosavesOf(u)'
<1>1. Grown /\ upstream[u] \in Commit' /\ phase[u] = "merge"
  BY MergeFastForwardTyped, Functions DEF MergeFastForward, IInv, Commit
<1>2. commits'[upstream[u]].tree = TreeOf(upstream[u])
  BY DEF MergeFastForward, TreeOf
<1> QED
  BY <1>1, <1>2, MergedToKeeps DEF MergeFastForward

LEMMA MergeCleanKeeps ==
  ASSUME IInv, Staging', NEW u \in User, MergeClean(u)
  PROVE  Elsewhere(u) /\ InStepOf(u)' /\ EntriesOf(u)' /\ AutosavesOf(u)'
<1> DEFINE tree == [f \in File |-> Merged(BaseTree(u)[f], Ours(u)[f], Theirs(u)[f])]
           r == [tree |-> tree,
                 anc |-> Anc(head[u]) \union Anc(upstream[u]) \union {NewCommit},
                 touched |-> {}]
<1>1. commits' = Append(commits, r) /\ MergedTo(u, NewCommit, tree) /\ phase[u] = "merge"
  BY DEF MergeClean, Diverged
<1>2. r.tree = tree
  OBVIOUS
<1> HIDE DEF r, tree
<1>3. Grown
  BY MergeCleanTyped DEF IInv
<1>4. NewCommit \in Commit' /\ commits'[NewCommit] = r
  BY <1>1, CommitsThere DEF NewCommit, Commit, IInv
<1> QED
  BY <1>1, <1>2, <1>3, <1>4, MergedToKeeps

(* A failed merge stages what one of the two sides has. *)
LEMMA MergeConflictsKeeps ==
  ASSUME IInv, NEW u \in User, MergeConflicts(u)
  PROVE  Elsewhere(u) /\ InStepOf(u)' /\ EntriesOf(u)' /\ AutosavesOf(u)'
<1> USE Functions DEF IInv
<1> DEFINE i == [f \in File |-> IF f \in Clashing(u) THEN Unmerged
                                ELSE Merged(BaseTree(u)[f], Ours(u)[f], Theirs(u)[f])]
<1>1. /\ index' = [index EXCEPT ![u] = i]
      /\ \E w : work' = [work EXCEPT ![u] = w]
      /\ conflicts' = [conflicts EXCEPT ![u] = Recognised(u)]
      /\ phase' = [phase EXCEPT ![u] = "rewrite"]
      /\ UNCHANGED <<commits, master, head, upstream, op, saved, requests, autosaved, leftStaged>>
      /\ phase[u] = "merge" /\ upstream[u] \notin Anc(head[u])
  BY DEF MergeConflicts, Diverged, history
<1>2. \A f \in File : i[f] \in {Unmerged, TreeOf(head[u])[f], TreeOf(upstream[u])[f]}
  BY DEF Merged, Ours, Theirs
<1> HIDE DEF i
<1>3. Elsewhere(u)
  BY <1>1 DEF Elsewhere
<1>4. InStepOf(u)'
  BY <1>1 DEF InStep, InStepOf, Anc
<1>5. AutosavesOf(u)'
  BY <1>1 DEF Autosaves, AutosavesOf, Autosave, TreeOf, InMemory
<1>6. EntriesOf(u)'
  <2>1. \A f \in File : index'[u][f] \in Text => InSomeCommit(f, index'[u][f])
    BY <1>1, <1>2, Sentinels, CommitsThere DEF InSomeCommit
  <2> QED
    BY <1>1, <2>1, EntriesKept
<1> QED
  BY <1>3, <1>4, <1>5, <1>6

(* A text held in memory is written back as it was. *)
LEMMA RewriteKeeps ==
  ASSUME IInv, NEW u \in User, Rewrite(u)
  PROVE  Elsewhere(u) /\ InStepOf(u)' /\ EntriesOf(u)' /\ AutosavesOf(u)'
<1> USE Functions DEF IInv
<1>1. PICK g \in File :
        /\ phase[u] = "rewrite" /\ saved[u][g] # Kept
        /\ \/ /\ saved[u][g] = Absent
              /\ work' = [work EXCEPT ![u] = Removed(work[u], index[u], g)]
              /\ index' = [index EXCEPT ![u] = [index[u] EXCEPT ![g] = Absent]]
           \/ /\ work' = [work EXCEPT ![u] = [work[u] EXCEPT ![g] = saved[u][g]]]
              /\ index' = index
        /\ saved' = [saved EXCEPT ![u] = [saved[u] EXCEPT ![g] = Kept]]
        /\ UNCHANGED <<commits, master, head, upstream, phase, conflicts, autosaved,
                     leftStaged>>
  BY DEF Rewrite, history
<1>2. Elsewhere(u)
  BY <1>1 DEF Elsewhere
<1>3. InStepOf(u)'
  BY <1>1 DEF InStep, InStepOf, Anc
<1>4. AutosavesOf(u)'
  <2> SUFFICES ASSUME NEW f \in File \ Nested, autosaved[u][f] # Clean
               PROVE  Autosave(u, f)'
    BY <1>1 DEF AutosavesOf
  <2>1. Autosave(u, f)
    BY DEF Autosaves, AutosavesOf
  <2>2. autosaved[u][f] \in Text /\ autosaved[u][f] \notin {Absent, Kept}
    BY Sentinels
  <2>3. CASE f = g
    <3>1. saved[u][g] = autosaved[u][g]
      BY <1>1, <2>1, <2>3 DEF Autosave
    <3>2. work' = [work EXCEPT ![u] = [work[u] EXCEPT ![g] = saved[u][g]]] /\ index' = index
      BY <1>1, <2>2, <2>3, <3>1
    <3>3. work'[u][g] = autosaved[u][g]
      BY <3>1, <3>2 DEF Tree
    <3>4. saved'[u][g] = Kept
      BY <1>1 DEF Snapshot
    <3> QED
      BY <1>1, <2>1, <2>3, <3>2, <3>3, <3>4 DEF Autosave, TreeOf, InMemory
  <2>4. CASE f # g
    <3>1. work'[u][f] = work[u][f] /\ index'[u][f] = index[u][f]
      BY <1>1, <2>4 DEF Removed, Tree
    <3>2. saved'[u][f] = saved[u][f]
      BY <1>1, <2>4 DEF Snapshot
    <3> QED
      BY <1>1, <2>1, <3>1, <3>2 DEF Autosave, TreeOf, InMemory
  <2> QED
    BY <2>3, <2>4
<1>5. EntriesOf(u)'
  <2>1. \A f \in File : index'[u][f] \in {index[u][f], Absent}
    BY <1>1
  <2>2. phase[u] # "stage" /\ head'[u] = head[u] /\ leftStaged'[u] = leftStaged[u]
    BY <1>1
  <2> QED
    BY <1>1, <2>1, <2>2, Sentinels, EntriesKept
<1> QED
  BY <1>2, <1>3, <1>4, <1>5

(* With nothing left in memory, every autosaved text is in the tree. *)
LEMMA RewrittenKeeps ==
  ASSUME IInv, NEW u \in User, Rewritten(u), phase'[u] = "apply",
         UNCHANGED <<commits, head, index, work, autosaved, leftStaged>>
  PROVE  EntriesOf(u)' /\ AutosavesOf(u)'
<1> USE Functions DEF IInv
<1>0. EntriesOf(u)'
  BY EntriesKept DEF Rewritten
<1> SUFFICES ASSUME NEW f \in File \ Nested, autosaved[u][f] # Clean
             PROVE  Autosave(u, f)'
  BY <1>0 DEF AutosavesOf
<1>1. Autosave(u, f) /\ phase[u] = "rewrite"
  BY DEF Autosaves, AutosavesOf, Rewritten
<1>2. saved[u][f] = Kept /\ autosaved[u][f] # Kept
  BY Sentinels DEF Rewritten, NothingSaved
<1> QED
  BY <1>1, <1>2 DEF Autosave, TreeOf, InMemory

(* A push that the master refuses was overtaken. *)
LEMMA PushKeeps ==
  ASSUME IInv, NEW u \in User, Push(u)
  PROVE  Elsewhere(u) /\ InStepOf(u)' /\ EntriesOf(u)' /\ AutosavesOf(u)'
<1> USE Functions DEF IInv
<1>1. /\ Rewritten(u) /\ conflicts[u] = {} /\ phase'[u] = "apply"
      /\ UNCHANGED <<commits, head, index, work, saved, conflicts, autosaved,
                     leftStaged>>
  BY DEF Push, history
<1>2. Elsewhere(u)
  BY DEF Push, history, Elsewhere
<1>3. CASE master \in Anc(head[u])
  <2>1. upstream'[u] = head[u] /\ master' = head[u]
    BY <1>3 DEF Push
  <2>2. InStepOf(u)'
    BY <1>1, <2>1 DEF InStepOf
  <2> QED
    BY <1>1, <1>2, <2>2, RewrittenKeeps
<1>4. CASE master \notin Anc(head[u])
  <2>1. UNCHANGED <<master, upstream>>
    BY <1>4 DEF Push
  <2>2. upstream[u] <= master /\ upstream[u] \in Nat /\ master \in Nat
    BY DEF InStep, InStepOf
  <2>3. upstream[u] = master \/ upstream[u] < master
    BY ONLY <2>2, SMT
  <2>4. InStepOf(u)'
    BY <1>1, <1>4, <2>1, <2>2, <2>3 DEF InStepOf, Anc
  <2> QED
    BY <1>1, <1>2, <2>4, RewrittenKeeps
<1> QED
  BY <1>3, <1>4

LEMMA ReportConflictsKeeps ==
  ASSUME IInv, NEW u \in User, ReportConflicts(u)
  PROVE  Elsewhere(u) /\ InStepOf(u)' /\ EntriesOf(u)' /\ AutosavesOf(u)'
<1> USE Functions DEF IInv
<1>1. /\ Rewritten(u) /\ conflicts[u] # {} /\ phase'[u] = "apply"
      /\ UNCHANGED <<commits, master, head, upstream, index, work, saved, conflicts, autosaved,
                     leftStaged>>
  BY DEF ReportConflicts, clone, history
<1>2. Elsewhere(u)
  BY <1>1 DEF ReportConflicts, Elsewhere
<1>3. InStepOf(u)'
  BY <1>1 DEF InStep, InStepOf, Anc
<1> QED
  BY <1>1, <1>2, <1>3, RewrittenKeeps

(* An operation ends with the request's memory empty. *)
LEMMA ApplyingKeeps ==
  ASSUME IInv, NEW u \in User, phase[u] = "apply", Idle(u),
         UNCHANGED <<commits, master, head, upstream>>,
         \E i : index' = [index EXCEPT ![u] = i],
         \E w : work' = [work EXCEPT ![u] = w],
         \E a : autosaved' = [autosaved EXCEPT ![u] = a],
         leftStaged' = leftStaged,
         \A f \in File : index'[u][f] \in Text =>
           index'[u][f] = index[u][f] \/ InSomeCommit(f, index'[u][f]),
         \A f \in File \ Nested : autosaved'[u][f] # Clean =>
           /\ autosaved'[u][f] = work'[u][f]
           /\ autosaved'[u][f] # TreeOf(head[u])[f]
  PROVE  Elsewhere(u) /\ InStepOf(u)' /\ EntriesOf(u)' /\ AutosavesOf(u)'
<1> USE Functions DEF IInv, Idle
<1>1. phase'[u] = "idle" /\ conflicts'[u] = {}
  OBVIOUS
<1>2. Elsewhere(u)
  BY DEF Elsewhere
<1>3. InStepOf(u)'
  BY <1>1 DEF InStep, InStepOf
<1>4. AutosavesOf(u)'
  BY <1>1 DEF AutosavesOf, Autosave, TreeOf, InMemory
<1>5. EntriesOf(u)'
  BY <1>1, EntriesKept
<1> QED
  BY <1>2, <1>3, <1>4, <1>5

(* While an operation is about to run, autosaved texts are in the tree. *)
LEMMA BeforeApplying ==
  ASSUME IInv, NEW u \in User, phase[u] = "apply"
  PROVE  /\ \A f \in File \ Nested : autosaved[u][f] # Clean =>
              /\ autosaved[u][f] = work[u][f]
              /\ autosaved[u][f] # TreeOf(head[u])[f]
         /\ \E i : index = [index EXCEPT ![u] = i]
         /\ \E w : work = [work EXCEPT ![u] = w]
         /\ \E a : autosaved = [autosaved EXCEPT ![u] = a]
<1>1. \A f \in File \ Nested : autosaved[u][f] # Clean => Autosave(u, f)
  BY DEF IInv, Autosaves, AutosavesOf
<1>2. /\ index = [index EXCEPT ![u] = index[u]]
      /\ work = [work EXCEPT ![u] = work[u]]
      /\ autosaved = [autosaved EXCEPT ![u] = autosaved[u]]
  BY Functions DEF IInv
<1> QED
  BY <1>1, <1>2 DEF Autosave, InMemory

LEMMA WritesKeeps ==
  ASSUME IInv, NEW u \in User, NEW g \in File, NEW text \in Text, UNCHANGED index,
         phase[u] = "apply",
         Writes(u, g, text, work[u])
  PROVE  /\ \E w : work' = [work EXCEPT ![u] = w]
         /\ \E a : autosaved' = [autosaved EXCEPT ![u] = a]
         /\ \A f \in File \ Nested : autosaved'[u][f] # Clean =>
              /\ autosaved'[u][f] = work'[u][f]
              /\ autosaved'[u][f] # TreeOf(head[u])[f]
<1> USE Functions DEF IInv
<1> DEFINE a == [autosaved[u] EXCEPT ![g] = text]
           o == Outstanding(a, TreeOf(head[u]))
<1>1. /\ work' = [work EXCEPT ![u] = [work[u] EXCEPT ![g] = text]]
      /\ autosaved' = [autosaved EXCEPT ![u] = o]
  BY DEF Writes
<1>2. \A f \in File : a[f] = IF f = g THEN text ELSE autosaved[u][f]
  OBVIOUS
<1>3. \A f \in File : o[f] # Clean => /\ o[f] = a[f] /\ a[f] # Clean
                                      /\ a[f] # TreeOf(head[u])[f]
  <2> HIDE DEF a
  <2> QED
    BY OutstandingKeeps
<1> HIDE DEF o, a
<1>4. autosaved'[u] = o
  BY <1>1
<1>5. \A f \in File : work'[u][f] = IF f = g THEN text ELSE work[u][f]
  BY <1>1 DEF Tree
<1>6. ASSUME NEW f \in File \ Nested, o[f] # Clean
      PROVE  /\ o[f] = work'[u][f]
             /\ o[f] # TreeOf(head[u])[f]
  BY <1>2, <1>3, <1>5, <1>6, BeforeApplying
<1> QED
  BY <1>1, <1>4, <1>6

LEMMA PutFileKeeps ==
  ASSUME IInv, NEW u \in User, PutFile(u)
  PROVE  Elsewhere(u) /\ InStepOf(u)' /\ EntriesOf(u)' /\ AutosavesOf(u)'
<1>1. op[u].file \in File /\ op[u].text \in Text
  BY OpFields DEF PutFile, Applying, IInv
<1>2. /\ phase[u] = "apply" /\ Idle(u)
      /\ UNCHANGED <<commits, master, head, upstream, index, leftStaged>>
      /\ Writes(u, op[u].file, op[u].text, work[u])
  BY DEF PutFile, Applying
<1>3. /\ \E w : work' = [work EXCEPT ![u] = w]
      /\ \E a : autosaved' = [autosaved EXCEPT ![u] = a]
      /\ \A f \in File \ Nested : autosaved'[u][f] # Clean =>
           /\ autosaved'[u][f] = work'[u][f]
           /\ autosaved'[u][f] # TreeOf(head[u])[f]
  BY <1>1, <1>2, WritesKeeps
<1>4. \E i : index' = [index EXCEPT ![u] = i]
  BY <1>1, <1>2, BeforeApplying
<1> QED
  BY <1>2, <1>3, <1>4, ApplyingKeeps

LEMMA CopyFileKeeps ==
  ASSUME IInv, NEW u \in User, CopyFile(u)
  PROVE  Elsewhere(u) /\ InStepOf(u)' /\ EntriesOf(u)' /\ AutosavesOf(u)'
<1>1. op[u].file \in File /\ op[u].dst \in File
  BY OpFields DEF CopyFile, Applying, IInv
<1>2. Source(u) \in Text
  BY <1>1, SourceTyped DEF IInv
<1>3. /\ phase[u] = "apply" /\ Idle(u)
      /\ UNCHANGED <<commits, master, head, upstream, index, leftStaged>>
      /\ Writes(u, op[u].dst, Source(u), work[u])
  BY DEF CopyFile, Applying
<1>4. /\ \E w : work' = [work EXCEPT ![u] = w]
      /\ \E a : autosaved' = [autosaved EXCEPT ![u] = a]
      /\ \A f \in File \ Nested : autosaved'[u][f] # Clean =>
           /\ autosaved'[u][f] = work'[u][f]
           /\ autosaved'[u][f] # TreeOf(head[u])[f]
  BY <1>1, <1>2, <1>3, WritesKeeps
<1>5. \E i : index' = [index EXCEPT ![u] = i]
  BY <1>1, <1>2, <1>3, BeforeApplying
<1> QED
  BY <1>3, <1>4, <1>5, ApplyingKeeps

LEMMA DeleteFileKeeps ==
  ASSUME IInv, NEW u \in User, DeleteFile(u)
  PROVE  Elsewhere(u) /\ InStepOf(u)' /\ EntriesOf(u)' /\ AutosavesOf(u)'
<1> USE Functions DEF IInv
<1> DEFINE g == op[u].file
<1>1. /\ work' = [work EXCEPT ![u] = Removed(work[u], index[u], g)]
      /\ index' = [index EXCEPT ![u] = [index[u] EXCEPT ![g] = Absent]]
      /\ autosaved' = [autosaved EXCEPT ![u] = [autosaved[u] EXCEPT ![g] =
           IF index[u][g] = Absent THEN autosaved[u][g] ELSE Clean]]
      /\ phase[u] = "apply" /\ Idle(u)
      /\ UNCHANGED <<commits, master, head, upstream, leftStaged>>
  BY DEF DeleteFile, Applying
<1>2. g \in File
  BY OpFields DEF DeleteFile, Applying
<1> HIDE DEF g
<1>3. ASSUME NEW f \in File \ Nested, autosaved'[u][f] # Clean
      PROVE  /\ autosaved'[u][f] = work'[u][f]
             /\ autosaved'[u][f] # TreeOf(head[u])[f]
  <2>1. autosaved'[u][f] = autosaved[u][f] /\ (f = g => index[u][g] = Absent)
    BY <1>1, <1>2, <1>3
  <2>2. work'[u][f] = work[u][f]
    BY <1>1, <1>2, <2>1 DEF Removed, Tree
  <2>3. index'[u][f] = index[u][f]
    BY <1>1, <1>2, <2>1
  <2> QED
    BY <1>1, <1>3, <2>1, <2>2, <2>3, BeforeApplying
<1>4. \A f \in File : index'[u][f] \in Text => index'[u][f] = index[u][f]
  BY <1>1, Sentinels
<1> QED
  BY <1>1, <1>3, <1>4, ApplyingKeeps

LEMMA MoveFileKeeps ==
  ASSUME IInv, NEW u \in User, MoveFile(u)
  PROVE  Elsewhere(u) /\ InStepOf(u)' /\ EntriesOf(u)' /\ AutosavesOf(u)'
<1> USE Functions DEF IInv
<1> DEFINE g == op[u].file
           d == op[u].dst
<1>1. /\ index' = [index EXCEPT ![u] = [index[u] EXCEPT ![g] = Absent]]
      /\ work' = [work EXCEPT ![u] =
           Removed([work[u] EXCEPT ![d] = Source(u)], index[u], g)]
      /\ autosaved' = [autosaved EXCEPT ![u] =
           Outstanding(AfterMove(u, g, d), TreeOf(head[u]))]
      /\ phase[u] = "apply" /\ Idle(u)
      /\ UNCHANGED <<commits, master, head, upstream, leftStaged>>
  BY DEF MoveFile, Applying, AfterMove
<1>2. g \in File /\ d \in File /\ g # d
  BY OpFields DEF MoveFile, Applying
<1> HIDE DEF g, d
<1>3. ASSUME NEW f \in File \ Nested, autosaved'[u][f] # Clean
      PROVE  /\ autosaved'[u][f] = work'[u][f]
             /\ autosaved'[u][f] # TreeOf(head[u])[f]
  <2>1. autosaved'[u] = Outstanding(AfterMove(u, g, d), TreeOf(head[u]))
    BY <1>1
  <2>2. /\ autosaved'[u][f] = AfterMove(u, g, d)[f]
        /\ AfterMove(u, g, d)[f] # Clean
        /\ autosaved'[u][f] # TreeOf(head[u])[f]
    BY <1>3, <2>1, OutstandingKeeps
  <2>3. work'[u] = Removed([work[u] EXCEPT ![d] = Source(u)], index[u], g)
    BY <1>1
  <2>4. CASE f = d
    <3>1. AfterMove(u, g, d)[f] = Source(u)
      BY <2>4 DEF AfterMove
    <3>2. work'[u][f] = Source(u)
      BY <1>2, <2>3, <2>4 DEF Removed, Tree
    <3> QED
      BY <2>2, <3>1, <3>2
  <2>5. CASE f # d
    <3>1. AfterMove(u, g, d)[f] = autosaved[u][f] /\ (f = g => index[u][g] = Absent)
      BY <2>2, <2>5 DEF AfterMove
    <3>2. work'[u][f] = work[u][f]
      BY <1>2, <2>3, <2>5, <3>1 DEF Removed, Tree
    <3> QED
      BY <1>1, <2>2, <3>1, <3>2, BeforeApplying
  <2> QED
    BY <2>4, <2>5
<1>4. \A f \in File : index'[u][f] \in Text => index'[u][f] = index[u][f]
  BY <1>1, Sentinels
<1> QED
  BY <1>1, <1>3, <1>4, ApplyingKeeps

LEMMA CheckoutFileKeeps ==
  ASSUME IInv, NEW u \in User, CheckoutFile(u)
  PROVE  Elsewhere(u) /\ InStepOf(u)' /\ EntriesOf(u)' /\ AutosavesOf(u)'
<1> USE Functions DEF IInv
<1> DEFINE g == op[u].file
           found == index[u][g] \notin {Absent, Unmerged}
<1>1. /\ \/ /\ work' = [work EXCEPT ![u] = [work[u] EXCEPT ![g] = index[u][g]]]
            /\ autosaved' = [autosaved EXCEPT ![u] = [autosaved[u] EXCEPT ![g] = Clean]]
         \/ UNCHANGED <<work, autosaved>>
      /\ phase[u] = "apply" /\ Idle(u)
      /\ UNCHANGED <<commits, master, head, upstream, index, leftStaged>>
  BY DEF CheckoutFile, Applying
<1>2. g \in File
  BY OpFields DEF CheckoutFile, Applying
<1> HIDE DEF g
<1>3. /\ \E i : index' = [index EXCEPT ![u] = i]
      /\ \E w : work' = [work EXCEPT ![u] = w]
      /\ \E a : autosaved' = [autosaved EXCEPT ![u] = a]
  <2>1. /\ \E i : index = [index EXCEPT ![u] = i]
        /\ \E w : work = [work EXCEPT ![u] = w]
        /\ \E a : autosaved = [autosaved EXCEPT ![u] = a]
    BY <1>1, BeforeApplying
  <2>2. \E i : index' = [index EXCEPT ![u] = i]
    BY <1>1, <2>1, Zenon
  <2>3. \E w : work' = [work EXCEPT ![u] = w]
    BY <1>1, <2>1, Zenon
  <2>4. \E a : autosaved' = [autosaved EXCEPT ![u] = a]
    BY <1>1, <2>1, Zenon
  <2> QED
    BY <2>2, <2>3, <2>4
<1>4. ASSUME NEW f \in File \ Nested, autosaved'[u][f] # Clean
      PROVE  /\ autosaved'[u][f] = work'[u][f]
             /\ autosaved'[u][f] # TreeOf(head[u])[f]
  <2>1. autosaved'[u][f] = autosaved[u][f] /\ work'[u][f] = work[u][f]
    <3>1. CASE /\ work' = [work EXCEPT ![u] = [work[u] EXCEPT ![g] = index[u][g]]]
               /\ autosaved' = [autosaved EXCEPT ![u] = [autosaved[u] EXCEPT ![g] = Clean]]
      <4>1. f # g
        BY <1>2, <1>4, <3>1
      <4> QED
        BY <3>1, <4>1 DEF Tree
    <3> QED
      BY <1>1, <3>1
  <2> QED
    BY <1>1, <1>4, <2>1, BeforeApplying
<1> QED
  BY <1>1, <1>3, <1>4, ApplyingKeeps

LEMMA RevertFileKeeps ==
  ASSUME IInv, NEW u \in User, RevertFile(u)
  PROVE  Elsewhere(u) /\ InStepOf(u)' /\ EntriesOf(u)' /\ AutosavesOf(u)'
<1> USE Functions DEF IInv
<1> DEFINE g == op[u].file
           text == TreeOf(op[u].rev)[g]
<1>1. /\ \/ /\ work' = [work EXCEPT ![u] = [work[u] EXCEPT ![g] = text]]
            /\ index' = [index EXCEPT ![u] = [index[u] EXCEPT ![g] = text]]
            /\ autosaved' = [autosaved EXCEPT ![u] = [autosaved[u] EXCEPT ![g] = Clean]]
         \/ UNCHANGED <<work, index, autosaved>>
      /\ phase[u] = "apply" /\ Idle(u)
      /\ UNCHANGED <<commits, master, head, upstream, leftStaged>>
  BY DEF RevertFile, Applying
<1>2. g \in File /\ InSomeCommit(g, text)
  BY OpFields DEF RevertFile, Applying, InSomeCommit
<1> HIDE DEF g, text
<1>3. /\ \E i : index' = [index EXCEPT ![u] = i]
      /\ \E w : work' = [work EXCEPT ![u] = w]
      /\ \E a : autosaved' = [autosaved EXCEPT ![u] = a]
  <2>1. /\ \E i : index = [index EXCEPT ![u] = i]
        /\ \E w : work = [work EXCEPT ![u] = w]
        /\ \E a : autosaved = [autosaved EXCEPT ![u] = a]
    BY <1>1, BeforeApplying
  <2>2. \E i : index' = [index EXCEPT ![u] = i]
    BY <1>1, <2>1, Zenon
  <2>3. \E w : work' = [work EXCEPT ![u] = w]
    BY <1>1, <2>1, Zenon
  <2>4. \E a : autosaved' = [autosaved EXCEPT ![u] = a]
    BY <1>1, <2>1, Zenon
  <2> QED
    BY <2>2, <2>3, <2>4
<1>4. ASSUME NEW f \in File \ Nested, autosaved'[u][f] # Clean
      PROVE  /\ autosaved'[u][f] = work'[u][f]
             /\ autosaved'[u][f] # TreeOf(head[u])[f]
  <2>1. /\ autosaved'[u][f] = autosaved[u][f] /\ work'[u][f] = work[u][f]
        /\ index'[u][f] = index[u][f]
    <3>1. CASE /\ work' = [work EXCEPT ![u] = [work[u] EXCEPT ![g] = text]]
               /\ index' = [index EXCEPT ![u] = [index[u] EXCEPT ![g] = text]]
               /\ autosaved' = [autosaved EXCEPT ![u] = [autosaved[u] EXCEPT ![g] = Clean]]
      <4>1. f # g
        BY <1>4, <3>1
      <4> QED
        BY <3>1, <4>1 DEF Tree
    <3> QED
      BY <1>1, <3>1
  <2> QED
    BY <1>1, <1>4, <2>1, BeforeApplying
<1>5. \A f \in File : index'[u][f] \in Text =>
        index'[u][f] = index[u][f] \/ InSomeCommit(f, index'[u][f])
  <2>1. CASE index' = [index EXCEPT ![u] = [index[u] EXCEPT ![g] = text]]
    <3> SUFFICES ASSUME NEW f \in File
                 PROVE  index'[u][f] = index[u][f] \/ InSomeCommit(f, index'[u][f])
      OBVIOUS
    <3>1. CASE f = g
      <4>1. index'[u][g] = text
        BY <1>2, <2>1
      <4> QED
        BY <1>2, <3>1, <4>1
    <3>2. CASE f # g
      BY <2>1, <3>2
    <3> QED
      BY <3>1, <3>2
  <2>2. CASE index' = index
    BY <2>2
  <2> QED
    BY <1>1, <2>1, <2>2
<1> QED
  BY <1>1, <1>3, <1>4, <1>5, ApplyingKeeps

LEMMA ListFilesKeeps ==
  ASSUME IInv, NEW u \in User, ListFiles(u) \/ FinishCommit(u)
  PROVE  Elsewhere(u) /\ InStepOf(u)' /\ EntriesOf(u)' /\ AutosavesOf(u)'
<1>1. /\ phase[u] = "apply" /\ Idle(u)
      /\ UNCHANGED <<commits, master, head, upstream, index, work, autosaved, leftStaged>>
  BY DEF ListFiles, FinishCommit, Applying, history
<1> QED
  BY <1>1, BeforeApplying, ApplyingKeeps

(* The commit's index, if it was nothing but the head's, stays so. *)
LEMMA CommitFailsKeeps ==
  ASSUME IInv, NEW u \in User, CommitFails(u)
  PROVE  Elsewhere(u) /\ InStepOf(u)' /\ EntriesOf(u)' /\ AutosavesOf(u)'
<1> USE Functions DEF IInv, CommitFails, AllStaged, Idle, clone, history
<1>1. /\ phase[u] = "stage" /\ phase'[u] = "idle" /\ conflicts'[u] = {}
      /\ index[u] = TreeOf(head[u])
      /\ UNCHANGED <<commits, master, head, upstream, index, work, autosaved, leftStaged>>
  OBVIOUS
<1>2. Elsewhere(u)
  BY DEF Elsewhere
<1> HIDE DEF CommitFails, AllStaged, Idle
<1>3. InStepOf(u)'
  BY <1>1 DEF InStep, InStepOf, Anc
<1>4. AutosavesOf(u)'
  BY <1>1 DEF Autosaves, AutosavesOf, Autosave, TreeOf, InMemory
<1>5. EntriesOf(u)'
  BY <1>1 DEF EntriesOf, Entry, TreeOf
<1> QED
  BY <1>2, <1>3, <1>4, <1>5

(* A process that dies loses the texts in its memory, and no others yet:   *)
(* what it had staged is known to be left so.                              *)
LEMMA CrashKeeps ==
  ASSUME IInv, NEW u \in User, Crash(u)
  PROVE  Elsewhere(u) /\ InStepOf(u)' /\ EntriesOf(u)' /\ AutosavesOf(u)'
<1> USE Functions DEF IInv
<1> DEFINE l == IF phase[u] = "stage" THEN {f \in File : index[u][f] # TreeOf(head[u])[f]}
                ELSE leftStaged[u]
<1>1. /\ Idle(u)
      /\ autosaved' = [autosaved EXCEPT ![u] =
           [f \in File |-> IF phase[u] \in InMemory /\ work[u][f] # autosaved[u][f]
                           THEN Clean ELSE autosaved[u][f]]]
      /\ leftStaged' = [leftStaged EXCEPT ![u] = l]
      /\ UNCHANGED <<commits, master, head, upstream, index, work>>
  BY DEF Crash, clone
<1> HIDE DEF l
<1>2. phase'[u] = "idle" /\ conflicts'[u] = {} /\ leftStaged'[u] = l
  BY <1>1 DEF Idle
<1>3. Elsewhere(u)
  BY <1>1 DEF Elsewhere, Idle
<1>4. InStepOf(u)'
  BY <1>1, <1>2 DEF InStep, InStepOf, Anc
<1>5. AutosavesOf(u)'
  <2> SUFFICES ASSUME NEW f \in File \ Nested, autosaved'[u][f] # Clean
               PROVE  Autosave(u, f)'
    BY DEF AutosavesOf
  <2>1. /\ autosaved'[u][f] = autosaved[u][f] /\ autosaved[u][f] # Clean
        /\ phase[u] \in InMemory => work[u][f] = autosaved[u][f]
    BY <1>1
  <2>2. Autosave(u, f)
    BY <2>1 DEF Autosaves, AutosavesOf
  <2>3. work[u][f] = autosaved[u][f]
    BY <2>1, <2>2 DEF Autosave
  <2> QED
    BY <1>1, <1>2, <2>1, <2>2, <2>3 DEF Autosave, TreeOf, InMemory
<1>6. EntriesOf(u)'
  <2> SUFFICES ASSUME NEW f \in File, index[u][f] \in Text, index[u][f] # TreeOf(head[u])[f]
               PROVE  f \in l \/ InSomeCommit(f, index[u][f])'
    BY <1>1, <1>2 DEF EntriesOf, Entry, TreeOf
  <2>1. Entry(u, f)
    BY DEF Entries, EntriesOf
  <2>2. InSomeCommit(f, index[u][f]) => InSomeCommit(f, index[u][f])'
    BY <1>1 DEF InSomeCommit, TreeOf, Commit
  <2> QED
    BY <2>1, <2>2 DEF Entry, l
<1> QED
  BY <1>3, <1>4, <1>5, <1>6

LEMMA NextIInv ==
  ASSUME IInv, [Next]_vars
  PROVE  IInv'
<1>1. Grown /\ Typed' /\ Ancestry' /\ Remembered
  BY NextTyped DEF IInv
<1>0. Staging'
  BY <1>1 DEF Typed
<1>2. CASE UNCHANGED vars
  <2>1. InStep' /\ Entries' /\ Autosaves'
    BY <1>2 DEF vars, clone, request, history, IInv, InStep, InStepOf, Anc, Entries,
                EntriesOf, Entry, InSomeCommit, Commit, Autosaves, AutosavesOf, Autosave, TreeOf, InMemory
  <2> QED
    BY <1>1, <2>1 DEF IInv
<1>3. ASSUME NEW u \in User,
             \/ StartFileOp(u)
             \/ StartCommit(u) \/ StageFile(u) \/ CommitStaged(u) \/ CommitFails(u)
             \/ Update(u) \/ Apply(u) \/ Crash(u)
      PROVE  IInv'
  <2>1. CASE Update(u)
    BY <1>0, <2>1, FetchKeeps, ResetKeeps, CleanUpKeeps, MergeNothingKeeps, MergeFastForwardKeeps,
       MergeCleanKeeps, MergeConflictsKeeps, RewriteKeeps, PushKeeps, ReportConflictsKeeps,
       <1>1, OthersKeep DEF Update, IInv
  <2>2. CASE Apply(u)
    BY <2>2, PutFileKeeps, DeleteFileKeeps, CopyFileKeeps, MoveFileKeeps, CheckoutFileKeeps,
       RevertFileKeeps, ListFilesKeeps, <1>1, OthersKeep DEF Apply, IInv
  <2>3. CASE \/ StartFileOp(u) \/ StartCommit(u) \/ StageFile(u) \/ CommitStaged(u)
              \/ CommitFails(u) \/ Crash(u)
    BY <2>3, StartFileOpKeeps, StartCommitKeeps, StageFileKeeps, CommitStagedKeeps,
       CommitFailsKeeps, CrashKeeps, <1>0, <1>1, OthersKeep DEF IInv
  <2> QED
    BY <1>3, <2>1, <2>2, <2>3
<1> QED
  BY <1>2, <1>3 DEF Next

(* The inductive invariant of an update: the types, where each autosaved   *)
(* text is in every phase, whence each staged text comes, and how a clone  *)
(* stands to the master.                                                   *)
THEOREM AlwaysIInv == Spec => []IInv
<1>1. Init => IInv
  BY InitTyped, InitKeeps DEF IInv
<1>2. IInv /\ [Next]_vars => IInv'
  BY NextIInv
<1> QED
  BY <1>1, <1>2, PTL DEF Spec

(* A commit that merged and that nobody overtook is in the master when the *)
(* reply is sent, although the result of the push is never looked at.      *)
THEOREM UnracedCommitsDoLand == Spec => []UnracedCommitsLand
<1>1. ASSUME IInv PROVE UnracedCommitsLand
  <2> SUFFICES ASSUME NEW u \in User, phase[u] = "apply", master = upstream[u],
                      upstream[u] \in Anc(head[u])
               PROVE  head[u] = master
    BY DEF UnracedCommitsLand
  <2>1. head[u] = upstream[u] \/ upstream[u] < master
    BY <1>1 DEF IInv, InStep, InStepOf
  <2> QED
    BY <1>1, <2>1, Functions DEF IInv
<1> QED
  BY <1>1, AlwaysIInv, PTL

(* What AutosavedRemain says, of the files that git status lists by name.  *)
ListedAutosavesRemain ==
  \A u \in User, f \in File \ Nested :
    phase[u] \notin InMemory /\ autosaved[u][f] # Clean
      => work[u][f] = autosaved[u][f]

(* No update loses a text saved and not committed of a file outside the    *)
(* sub-folder, whoever else pushes or conflicts, but for those in the      *)
(* memory of a process that dies and those it had staged and not committed.*)
THEOREM NoListedAutosaveLost == Spec => []ListedAutosavesRemain
<1>1. IInv => ListedAutosavesRemain
  BY DEF IInv, Autosaves, AutosavesOf, Autosave, ListedAutosavesRemain
<1> QED
  BY <1>1, AlwaysIInv, PTL

(* In a project without sub-folders that is all of them. *)
THEOREM NoAutosaveLost == ASSUME Nested = {} PROVE Spec => []AutosavedRemain
<1>1. ListedAutosavesRemain => AutosavedRemain
  BY DEF ListedAutosavesRemain, AutosavedRemain
<1> QED
  BY <1>1, NoListedAutosaveLost, PTL

-----------------------------------------------------------------------------
(* The history that the requests make. *)

LInv == Typed /\ Ancestry /\ Lineage /\ Accounted

LEMMA InitLInv == Init => LInv
<1> SUFFICES ASSUME Init PROVE LInv
  OBVIOUS
<1>1. Typed /\ Ancestry
  BY InitTyped
<1>2. /\ Len(commits) = 1 /\ commits[1].anc = {1}
      /\ master = 1 /\ \A u \in User : head[u] = 1 /\ upstream[u] = 1
  BY DEF Init
<1>3. Commit = {1} /\ Anc(1) = {1}
  BY <1>2 DEF Commit, Anc
<1>4. Lineage
  <2>1. \A u \in User : SharedOf(u)
    BY <1>2, <1>3 DEF SharedOf
  <2> QED
    BY <1>2, <1>3, <2>1 DEF Lineage
<1>5. Accounted
  BY <1>3 DEF Accounted
<1> QED
  BY <1>1, <1>4, <1>5 DEF LInv

(* The commits there were keep their ancestors and their trees. *)
LEMMA OldCommits ==
  ASSUME Typed, Ancestry, Grown
  PROVE  /\ \A c \in Commit : /\ commits'[c].anc = Anc(c) /\ commits'[c].tree = TreeOf(c)
                              /\ commits'[c].touched = commits[c].touched
                              /\ c \in Anc(c) /\ Anc(c) \subseteq Commit
         /\ NewCommit \notin Commit
         /\ master \in Commit /\ \A u \in User : head[u] \in Commit /\ upstream[u] \in Commit
<1>1. \A c \in Commit : c \in Anc(c) /\ Anc(c) \subseteq Commit
  BY AncOf
<1>2. NewCommit \notin Commit
  BY CommitsThere DEF NewCommit, Commit
<1> QED
  BY <1>1, <1>2, CommitsThere DEF Grown, Anc, TreeOf

(* A step that moves no head is no part of the history. *)
LEMMA StillLInv ==
  ASSUME LInv, UNCHANGED <<commits, master, head, upstream>>
  PROVE  Lineage' /\ Accounted'
BY DEF LInv, Lineage, SharedOf, Accounted, Commit, Anc, TreeOf

LEMMA FetchLInv ==
  ASSUME LInv, NEW u \in User, Fetch(u)
  PROVE  Lineage' /\ Accounted'
<1> USE DEF LInv
<1>1. upstream' = [upstream EXCEPT ![u] = master] /\ UNCHANGED <<commits, master, head>>
  BY DEF Fetch
<1>2. master \in Anc(master)
  BY CommitsThere, AncOf
<1>3. upstream[u] \in Anc(master) /\ Anc(upstream[u]) \subseteq Anc(master)
  BY CommitsThere DEF Lineage, SharedOf
<1>4. ASSUME NEW v \in User PROVE SharedOf(v)'
  <2>1. CASE v = u
    <3>1. upstream'[v] = master
      BY <1>1, <2>1, Functions
    <3>2. Anc(head[v]) \intersect Anc(upstream[v]) = Anc(head[v]) \intersect Anc(master)
      BY <1>3, <2>1 DEF Lineage, SharedOf
    <3> QED
      BY <1>1, <1>2, <3>1, <3>2 DEF Lineage, SharedOf, Anc
  <2>2. CASE v # u
    <3>1. head'[v] = head[v] /\ upstream'[v] = upstream[v]
      BY <1>1, <2>2, Functions
    <3>2. SharedOf(v)
      BY DEF Lineage
    <3> QED
      BY <1>1, <3>1, <3>2 DEF SharedOf, Anc
  <2> QED
    BY <2>1, <2>2
<1>5. Lineage'
  BY <1>1, <1>4 DEF Lineage, Commit, Anc
<1>6. Accounted'
  BY <1>1 DEF Accounted, Commit, Anc, TreeOf
<1> QED
  BY <1>5, <1>6

LEMMA MergeFastForwardLInv ==
  ASSUME LInv, NEW u \in User, MergeFastForward(u)
  PROVE  Lineage' /\ Accounted'
<1> USE DEF LInv
<1>1. head' = [head EXCEPT ![u] = upstream[u]] /\ UNCHANGED <<commits, master, upstream>>
  BY DEF MergeFastForward, MergedTo
<1>2. \A v \in User : /\ upstream[v] \in Anc(upstream[v])
                      /\ Anc(upstream[v]) \subseteq Anc(master)
  BY CommitsThere, AncOf DEF Lineage, SharedOf
<1>3. ASSUME NEW v \in User PROVE SharedOf(v)'
  <2>1. CASE v = u
    <3>1. head'[v] = upstream[v]
      BY <1>1, <2>1, Functions
    <3> QED
      BY <1>1, <1>2, <3>1 DEF Lineage, SharedOf, Anc
  <2>2. CASE v # u
    <3>1. head'[v] = head[v] /\ upstream'[v] = upstream[v]
      BY <1>1, <2>2, Functions
    <3>2. SharedOf(v)
      BY DEF Lineage
    <3> QED
      BY <1>1, <3>1, <3>2 DEF SharedOf, Anc
  <2> QED
    BY <2>1, <2>2
<1>4. ASSUME NEW v \in User, NEW w \in User, v # w
      PROVE  Anc(head'[v]) \intersect Anc(head'[w]) \subseteq Anc(master)
  <2>1. head'[v] = (IF v = u THEN upstream[u] ELSE head[v])
        /\ head'[w] = (IF w = u THEN upstream[u] ELSE head[w])
    BY <1>1, Functions
  <2> QED
    BY <1>2, <1>4, <2>1 DEF Lineage
<1>5. Lineage'
  BY <1>1, <1>3, <1>4 DEF Lineage, Commit, Anc
<1>6. Accounted'
  BY <1>1 DEF Accounted, Commit, Anc, TreeOf
<1> QED
  BY <1>5, <1>6

(* The master takes on a head that descends from it. *)
LEMMA PushLInv ==
  ASSUME LInv, NEW u \in User, Push(u)
  PROVE  Lineage' /\ Accounted'
<1> USE DEF LInv
<1>1. CASE master \notin Anc(head[u])
  BY <1>1, StillLInv DEF Push
<1>2. CASE master \in Anc(head[u])
  <2>1. /\ upstream' = [upstream EXCEPT ![u] = head[u]] /\ master' = head[u]
        /\ UNCHANGED <<commits, head>>
    BY <1>2 DEF Push
  <2>2. Anc(master) \subseteq Anc(head[u]) /\ head[u] \in Anc(head[u])
    BY <1>2, CommitsThere, AncOf DEF Lineage
  <2>3. ASSUME NEW v \in User PROVE SharedOf(v)'
    <3>1. CASE v = u
      <4>1. upstream'[v] = head[v]
        BY <2>1, <3>1, Functions
      <4> QED
        BY <2>1, <2>2, <3>1, <4>1 DEF SharedOf, Anc
    <3>2. CASE v # u
      <4>1. upstream'[v] = upstream[v]
        BY <2>1, <3>2, Functions
      <4>2. Anc(head[v]) \intersect Anc(head[u]) \subseteq Anc(master)
        BY <3>2 DEF Lineage
      <4>3. SharedOf(v)
        BY DEF Lineage
      <4> QED
        BY <2>1, <2>2, <4>1, <4>2, <4>3 DEF SharedOf, Anc
    <3> QED
      BY <3>1, <3>2
  <2>4. Lineage'
    BY <2>1, <2>2, <2>3 DEF Lineage, Commit, Anc
  <2>5. Accounted'
    BY <2>1 DEF Accounted, Commit, Anc, TreeOf
  <2> QED
    BY <2>4, <2>5
<1> QED
  BY <1>1, <1>2

(* A commit of ancestors closed under ancestry is one of such, too. *)
LEMMA DescentAfter ==
  ASSUME LInv, Grown, NEW before \in SUBSET Commit,
         \A c \in before : Anc(c) \subseteq before,
         Commit' = Commit \union {NewCommit},
         commits'[NewCommit].anc = before \union {NewCommit}
  PROVE  \A c \in Commit' : \A d \in commits'[c].anc : commits'[d].anc \subseteq commits'[c].anc
<1>1. \A c \in Commit : commits'[c].anc = Anc(c) /\ Anc(c) \subseteq Commit
  BY OldCommits DEF LInv
<1>2. \A c \in Commit : \A d \in Anc(c) : Anc(d) \subseteq Anc(c)
  BY DEF LInv, Lineage
<1> QED
  BY <1>1, <1>2

LEMMA CommitStagedLInv ==
  ASSUME LInv, Staging', NEW u \in User, CommitStaged(u)
  PROVE  Lineage' /\ Accounted'
<1> USE DEF LInv
<1> DEFINE r == StagedCommit(u)
<1>1. /\ commits' = Append(commits, r)
      /\ r.anc = Anc(head[u]) \union {NewCommit}
      /\ r.touched = {f \in File : r.tree[f] # TreeOf(head[u])[f]}
      /\ head' = [head EXCEPT ![u] = NewCommit]
      /\ UNCHANGED <<master, upstream>>
  BY DEF CommitStaged, StagedCommit
<1> HIDE DEF r
<1>2. Grown
  BY CommitStagedTyped
<1>3. commits'[NewCommit] = r /\ Commit' = Commit \union {NewCommit}
  BY <1>1, CommitsThere DEF NewCommit, Commit
<1> DEFINE H(v) == commits'[head'[v]].anc
<1>4. \A v \in User : H(v) = IF v = u THEN Anc(head[u]) \union {NewCommit} ELSE Anc(head[v])
  BY <1>1, <1>2, <1>3, Functions, OldCommits
<1>5. /\ \A v \in User : /\ commits'[upstream[v]].anc = Anc(upstream[v])
                         /\ NewCommit \notin Anc(upstream[v])
                         /\ NewCommit \notin Anc(head[v])
                         /\ Anc(upstream[v]) \subseteq Commit
      /\ commits'[master].anc = Anc(master) /\ NewCommit \notin Anc(master)
  BY <1>2, OldCommits
<1>6. ASSUME NEW v \in User PROVE SharedOf(v)'
  <2>1. SharedOf(v)
    BY DEF Lineage
  <2>2. PICK m \in Anc(head[v]) \intersect Anc(upstream[v]) :
          Anc(head[v]) \intersect Anc(upstream[v]) \subseteq Anc(m)
    BY <2>1 DEF SharedOf
  <2>3. commits'[m].anc = Anc(m)
    BY <1>2, <1>5, OldCommits
  <2> HIDE DEF H
  <2>4. /\ H(v) \intersect Anc(master) \subseteq Anc(upstream[v])
        /\ H(v) \intersect Anc(upstream[v]) = Anc(head[v]) \intersect Anc(upstream[v])
    BY <1>4, <1>5, <2>1 DEF SharedOf
  <2> QED
    BY <1>1, <1>5, <2>1, <2>2, <2>3, <2>4 DEF SharedOf, Anc, H
<1>7. ASSUME NEW v \in User, NEW w \in User, v # w
      PROVE  H(v) \intersect H(w) \subseteq Anc(master)
  <2> HIDE DEF H
  <2>1. Anc(head[v]) \intersect Anc(head[w]) \subseteq Anc(master)
    BY <1>7 DEF Lineage
  <2> QED
    BY <1>4, <1>5, <1>7, <2>1
<1>8. \A c \in Anc(head[u]) : Anc(c) \subseteq Anc(head[u])
  BY CommitsThere DEF Lineage
<1>9. \A c \in Commit' : \A d \in commits'[c].anc : commits'[d].anc \subseteq commits'[c].anc
  BY <1>1, <1>2, <1>3, <1>8, OldCommits, DescentAfter
<1>10. Lineage'
  BY <1>1, <1>5, <1>6, <1>7, <1>9 DEF Lineage, Anc
<1>11. ASSUME NEW c \in Commit', NEW d \in commits'[c].anc, NEW f \in File,
              commits'[c].tree[f] # commits'[d].tree[f]
       PROVE  \E e \in commits'[c].anc \ commits'[d].anc : f \in commits'[e].touched
  <2>1. CASE c \in Commit
    BY <1>2, <1>11, <2>1, OldCommits DEF Accounted
  <2>2. CASE c = NewCommit
    <3>1. d \in Anc(head[u]) /\ d \in Commit
      BY <1>1, <1>2, <1>3, <1>11, <2>2, OldCommits
    <3>2. commits'[d].anc = Anc(d) /\ commits'[d].tree = TreeOf(d) /\ NewCommit \notin Anc(d)
      BY <1>2, <3>1, OldCommits
    <3>3. CASE r.tree[f] # TreeOf(head[u])[f]
      BY <1>1, <1>3, <2>2, <3>2, <3>3
    <3>4. CASE r.tree[f] = TreeOf(head[u])[f]
      <4>1. PICK e \in Anc(head[u]) \ Anc(d) : f \in commits[e].touched
        BY <1>3, <1>11, <2>2, <3>1, <3>2, <3>4, CommitsThere DEF Accounted
      <4>2. commits'[e].touched = commits[e].touched
        BY <1>2, <4>1, OldCommits
      <4> QED
        BY <1>1, <1>3, <2>2, <3>2, <4>1, <4>2
    <3> QED
      BY <3>3, <3>4
  <2> QED
    BY <1>3, <2>1, <2>2
<1>12. Accounted'
  BY <1>11 DEF Accounted, Anc, TreeOf
<1> QED
  BY <1>10, <1>12

(* The one base of a merge, from which all that is shared descends. *)
LEMMA OneBase ==
  ASSUME LInv, NEW u \in User
  PROVE  \E m \in Anc(head[u]) \intersect Anc(upstream[u]) :
           /\ Anc(head[u]) \intersect Anc(upstream[u]) \subseteq Anc(m)
           /\ MergeBases(head[u], upstream[u]) = {m}
<1> DEFINE common == Anc(head[u]) \intersect Anc(upstream[u])
<1>1. PICK m \in common : common \subseteq Anc(m)
  BY DEF LInv, Lineage, SharedOf
<1>2. common \subseteq Commit /\ Commit \subseteq Nat
  BY CommitsThere, AncOf, Functions DEF LInv
<1>3. \A e \in common \ {m} : m \notin Anc(e)
  <2> TAKE e \in common \ {m}
  <2>1. e \in Anc(m) /\ e \in Commit /\ m \in Commit
    BY <1>1, <1>2
  <2>2. Anc(m) \subseteq 1..m /\ Anc(e) \subseteq 1..e /\ e # m
    BY <2>1 DEF LInv, Ancestry
  <2> QED
    BY <1>2, <2>1, <2>2
<1> HIDE DEF common
<1>4. {b \in common : \A e \in common \ {b} : b \notin Anc(e)} = {m}
  BY <1>1, <1>3
<1> QED
  BY <1>1, <1>4 DEF MergeBases, common

LEMMA MergeCleanLInv ==
  ASSUME LInv, Staging', NEW u \in User, MergeClean(u)
  PROVE  Lineage' /\ Accounted'
<1> USE DEF LInv
<1> DEFINE h == head[u]
           p == upstream[u]
           tree == [f \in File |-> Merged(BaseTree(u)[f], Ours(u)[f], Theirs(u)[f])]
           r == [tree |-> tree,
                 anc |-> Anc(h) \union Anc(p) \union {NewCommit},
                 touched |-> {}]
<1>1. /\ commits' = Append(commits, r)
      /\ head' = [head EXCEPT ![u] = NewCommit]
      /\ UNCHANGED <<master, upstream>>
      /\ Clashing(u) = {}
  BY DEF MergeClean, MergedTo
<1>2. r.anc = (Anc(h) \union Anc(p)) \union {NewCommit} /\ r.tree = tree
  OBVIOUS
<1>3. PICK m \in Anc(h) \intersect Anc(p) :
        /\ Anc(h) \intersect Anc(p) \subseteq Anc(m)
        /\ BaseTree(u) = TreeOf(m)
  BY OneBase DEF BaseTree
<1>4. \A f \in File : /\ tree[f] = Merged(TreeOf(m)[f], TreeOf(h)[f], TreeOf(p)[f])
                      /\ ~Clashes(TreeOf(m)[f], TreeOf(h)[f], TreeOf(p)[f])
  BY <1>1, <1>3 DEF Clashing, Ours, Theirs
<1> HIDE DEF r, tree
<1>5. Grown
  BY MergeCleanTyped
<1>6. commits'[NewCommit] = r /\ Commit' = Commit \union {NewCommit}
  BY <1>1, CommitsThere DEF NewCommit, Commit
<1>7. /\ h \in Commit /\ p \in Commit /\ m \in Commit
      /\ Anc(h) \subseteq Commit /\ Anc(p) \subseteq Commit /\ Anc(p) \subseteq Anc(master)
  <2>1. h \in Commit /\ p \in Commit /\ Anc(h) \subseteq Commit /\ Anc(p) \subseteq Commit
    BY <1>5, OldCommits
  <2>2. p \in Anc(master)
    BY DEF Lineage, SharedOf
  <2> QED
    BY <2>1, <2>2, CommitsThere DEF Lineage
<1> DEFINE H(v) == commits'[head'[v]].anc
<1>8. \A v \in User : H(v) = IF v = u THEN Anc(h) \union Anc(p) \union {NewCommit}
                             ELSE Anc(head[v])
  BY <1>1, <1>2, <1>5, <1>6, Functions, OldCommits
<1>9. /\ \A v \in User : /\ commits'[upstream[v]].anc = Anc(upstream[v])
                         /\ upstream[v] \in Anc(upstream[v])
                         /\ NewCommit \notin Anc(upstream[v])
                         /\ NewCommit \notin Anc(head[v])
                         /\ Anc(upstream[v]) \subseteq Commit
      /\ commits'[master].anc = Anc(master) /\ NewCommit \notin Anc(master)
  BY <1>5, OldCommits
<1> HIDE DEF H
<1>10. ASSUME NEW v \in User PROVE SharedOf(v)'
  <2>1. SharedOf(v)
    BY DEF Lineage
  <2>2. \E k \in H(v) \intersect Anc(upstream[v]) :
          H(v) \intersect Anc(upstream[v]) \subseteq commits'[k].anc
    <3>1. CASE v = u
      <4>1. p \in H(v) \intersect Anc(upstream[v]) /\ commits'[p].anc = Anc(p)
        BY <1>8, <1>9, <3>1
      <4> QED
        BY <3>1, <4>1
    <3>2. CASE v # u
      <4>1. PICK k \in Anc(head[v]) \intersect Anc(upstream[v]) :
              Anc(head[v]) \intersect Anc(upstream[v]) \subseteq Anc(k)
        BY <2>1 DEF SharedOf
      <4>2. commits'[k].anc = Anc(k)
        BY <1>5, <1>9, OldCommits
      <4> QED
        BY <1>8, <3>2, <4>1, <4>2
    <3> QED
      BY <3>1, <3>2
  <2>3. H(v) \intersect Anc(master) \subseteq Anc(upstream[v])
    BY <1>8, <1>9, <2>1 DEF SharedOf
  <2> QED
    BY <1>1, <1>9, <2>1, <2>2, <2>3 DEF SharedOf, Anc, H
<1>11. ASSUME NEW v \in User, NEW w \in User, v # w
       PROVE  H(v) \intersect H(w) \subseteq Anc(master)
  <2>1. Anc(head[v]) \intersect Anc(head[w]) \subseteq Anc(master)
    BY <1>11 DEF Lineage
  <2> QED
    BY <1>7, <1>8, <1>9, <1>11, <2>1
<1>12. \A c \in Anc(h) \union Anc(p) : Anc(c) \subseteq Anc(h) \union Anc(p)
  BY <1>7 DEF Lineage
<1>13. \A c \in Commit' : \A d \in commits'[c].anc : commits'[d].anc \subseteq commits'[c].anc
  BY <1>2, <1>5, <1>6, <1>7, <1>12, DescentAfter
<1>14. Lineage'
  BY <1>1, <1>9, <1>10, <1>11, <1>13 DEF Lineage, Anc, H
<1>15. ASSUME NEW c \in Commit', NEW d \in commits'[c].anc, NEW f \in File,
              commits'[c].tree[f] # commits'[d].tree[f]
       PROVE  \E e \in commits'[c].anc \ commits'[d].anc : f \in commits'[e].touched
  <2>1. CASE c \in Commit
    BY <1>5, <1>15, <2>1, OldCommits DEF Accounted
  <2>2. CASE c = NewCommit
    <3>1. d \in Anc(h) \union Anc(p) /\ d \in Commit
      BY <1>2, <1>6, <1>7, <1>15, <2>2
    <3>2. /\ commits'[c].anc = Anc(h) \union Anc(p) \union {NewCommit}
          /\ commits'[c].tree[f] = tree[f]
          /\ commits'[d].anc = Anc(d) /\ commits'[d].tree[f] = TreeOf(d)[f]
      BY <1>2, <1>5, <1>6, <2>2, <3>1, OldCommits
    <3>3. SUFFICES \E e \in (Anc(h) \union Anc(p)) \ Anc(d) : f \in commits[e].touched
      BY <1>5, <1>7, <3>2, OldCommits
    <3>4. CASE tree[f] = TreeOf(h)[f] /\ d \in Anc(h)
      BY <1>7, <1>15, <3>2, <3>4 DEF Accounted
    <3>5. CASE tree[f] = TreeOf(p)[f] /\ d \in Anc(p)
      BY <1>7, <1>15, <3>2, <3>5 DEF Accounted
    <3>6. CASE tree[f] # TreeOf(h)[f] /\ d \in Anc(h)
      <4>1. TreeOf(p)[f] # TreeOf(m)[f]
        BY <1>4, <3>6 DEF Merged
      <4>2. PICK e \in Anc(p) \ Anc(m) : f \in commits[e].touched
        BY <1>3, <1>7, <4>1 DEF Accounted
      <4>3. Anc(d) \subseteq Anc(h)
        BY <1>7, <3>6 DEF Lineage
      <4> QED
        BY <1>3, <4>2, <4>3
    <3>7. CASE tree[f] # TreeOf(p)[f] /\ d \in Anc(p)
      <4>1. TreeOf(h)[f] # TreeOf(m)[f]
        BY <1>4, <3>7 DEF Merged, Clashes
      <4>2. PICK e \in Anc(h) \ Anc(m) : f \in commits[e].touched
        BY <1>3, <1>7, <4>1 DEF Accounted
      <4>3. Anc(d) \subseteq Anc(p)
        BY <1>7, <3>7 DEF Lineage
      <4> QED
        BY <1>3, <4>2, <4>3
    <3> QED
      BY <3>1, <3>4, <3>5, <3>6, <3>7
  <2> QED
    BY <1>6, <2>1, <2>2
<1>16. Accounted'
  BY <1>15 DEF Accounted, Anc, TreeOf
<1> QED
  BY <1>14, <1>16

LEMMA NextLInv ==
  ASSUME LInv, [Next]_vars
  PROVE  LInv'
<1>1. Typed' /\ Ancestry' /\ Staging'
  BY NextTyped DEF LInv, Typed
<1>2. CASE UNCHANGED vars
  BY <1>1, <1>2, StillLInv DEF vars, clone, LInv
<1>3. ASSUME NEW u \in User,
             \/ StartFileOp(u)
             \/ StartCommit(u) \/ StageFile(u) \/ CommitStaged(u) \/ CommitFails(u)
             \/ Update(u) \/ Apply(u) \/ Crash(u)
      PROVE  LInv'
  <2>1. CASE Apply(u)
    <3>1. UNCHANGED <<commits, master, head, upstream>>
      BY <2>1 DEF Apply, PutFile, DeleteFile, CopyFile, MoveFile, CheckoutFile, RevertFile,
                  ListFiles, FinishCommit, Applying
    <3> QED
      BY <1>1, <3>1, StillLInv DEF LInv
  <2>2. CASE Fetch(u) \/ MergeFastForward(u) \/ MergeClean(u) \/ Push(u) \/ CommitStaged(u)
    BY <1>1, <2>2, FetchLInv, MergeFastForwardLInv, MergeCleanLInv, PushLInv, CommitStagedLInv
       DEF LInv
  <2>3. CASE \/ Reset(u) \/ CleanUp(u) \/ MergeNothing(u) \/ MergeConflicts(u) \/ Rewrite(u)
             \/ ReportConflicts(u) \/ StartFileOp(u) \/ StartCommit(u) \/ StageFile(u)
             \/ CommitFails(u) \/ Crash(u)
    <3>1. UNCHANGED <<commits, master, head, upstream>>
      BY <2>3 DEF Reset, CleanUp, MergeNothing, MergeConflicts, Rewrite, ReportConflicts,
                  StartFileOp, StartCommit, StageFile, CommitFails, Crash, clone
    <3> QED
      BY <1>1, <3>1, StillLInv DEF LInv
  <2> QED
    BY <1>3, <2>1, <2>2, <2>3 DEF Update
<1> QED
  BY <1>2, <1>3 DEF Next

(* The inductive invariant on histories: what a clone and the master share *)
(* has one top, and a commit that differs from an ancestor is accounted    *)
(* for by a commit in between that changed the file.                       *)
THEOREM AlwaysLInv == Spec => []LInv
<1>1. LInv /\ [Next]_vars => LInv'
  BY NextLInv
<1> QED
  BY <1>1, InitLInv, PTL DEF Spec

(* The clone and the master never diverge in a criss-cross: a merge has    *)
(* exactly one base, so its outcome does not depend on a choice.           *)
THEOREM MergeBaseIsUnique == Spec => []UniqueMergeBase
<1>1. ASSUME LInv PROVE UniqueMergeBase
  <2> SUFFICES ASSUME NEW u \in User
               PROVE  /\ Cardinality(MergeBases(head[u], master)) = 1
                      /\ Cardinality(MergeBases(head[u], upstream[u])) = 1
    BY DEF UniqueMergeBase
  <2>1. PICK m : MergeBases(head[u], upstream[u]) = {m}
    BY <1>1, OneBase
  <2>2. SharedOf(u) /\ Anc(upstream[u]) \subseteq Anc(master)
    BY <1>1, CommitsThere DEF LInv, Lineage, SharedOf
  <2>3. Anc(head[u]) \intersect Anc(master) = Anc(head[u]) \intersect Anc(upstream[u])
    BY <2>2 DEF SharedOf
  <2>4. MergeBases(head[u], master) = {m}
    BY <2>1, <2>3 DEF MergeBases
  <2> QED
    BY <2>1, <2>4, FS_Singleton
<1> QED
  BY <1>1, AlwaysLInv, PTL

(* The step of PushesOnlyOwnChanges. *)
PushedOwn ==
  \A f \in File :
    TreeOf(master)[f] # commits'[master'].tree[f]
      => \E c \in commits'[master'].anc \ Anc(master) : f \in commits'[c].touched

LEMMA NextPushedOwn ==
  ASSUME LInv, [Next]_vars
  PROVE  PushedOwn
<1>1. Grown
  BY NextTyped DEF LInv
<1>2. CASE master' = master
  BY <1>1, <1>2, OldCommits DEF PushedOwn, LInv
<1>3. CASE master' # master
  <2>1. PICK u \in User : Push(u)
    <3>1. PICK u \in User : \/ StartFileOp(u)
                            \/ StartCommit(u) \/ StageFile(u) \/ CommitStaged(u) \/ CommitFails(u)
                            \/ Update(u) \/ Apply(u) \/ Crash(u)
      BY <1>3 DEF Next, vars
    <3>2. StartFileOp(u) \/ StartCommit(u) \/ StageFile(u) => master' = master
      BY DEF StartFileOp, StartCommit, StageFile
    <3>8. CommitStaged(u) \/ CommitFails(u) \/ Crash(u) => master' = master
      BY DEF CommitStaged, CommitFails, Crash
    <3>3. PutFile(u) \/ DeleteFile(u) \/ CopyFile(u) \/ MoveFile(u) => master' = master
      BY DEF PutFile, DeleteFile, CopyFile, MoveFile, Applying
    <3>4. CheckoutFile(u) \/ RevertFile(u) \/ ListFiles(u) \/ FinishCommit(u) => master' = master
      BY DEF CheckoutFile, RevertFile, ListFiles, FinishCommit, Applying
    <3>5. Fetch(u) \/ Reset(u) \/ CleanUp(u) \/ Rewrite(u) \/ ReportConflicts(u) => master' = master
      BY DEF Fetch, Reset, CleanUp, Rewrite, ReportConflicts
    <3>6. MergeNothing(u) \/ MergeFastForward(u) => master' = master
      BY DEF MergeNothing, MergeFastForward, MergedTo
    <3>7. MergeClean(u) \/ MergeConflicts(u) => master' = master
      BY DEF MergeClean, MergeConflicts, MergedTo
    <3> QED
      BY <1>3, <3>1, <3>2, <3>3, <3>4, <3>5, <3>6, <3>7, <3>8 DEF Update, Apply
  <2>2. master' = head[u] /\ master \in Anc(head[u]) /\ UNCHANGED commits
    BY <1>3, <2>1 DEF Push
  <2> QED
    BY <2>1, <2>2, CommitsThere DEF PushedOwn, LInv, Accounted, Anc, TreeOf
<1> QED
  BY <1>2, <1>3

(* What a push changes in the master, the pusher changed: no merge undoes  *)
(* or mixes up another user's pushed changes.                              *)
THEOREM PushesAreOwn == Spec => PushesOnlyOwnChanges
<1>1. LInv /\ [Next]_vars => [PushedOwn]_vars
  BY NextPushedOwn
<1>2. Spec => [][PushedOwn]_vars
  BY <1>1, AlwaysLInv, PTL DEF Spec
<1> QED
  BY <1>2 DEF PushesOnlyOwnChanges, PushedOwn

=============================================================================
