------------------------- MODULE ProjectPageProofs -------------------------
(***************************************************************************)
(* Proofs about ProjectPage for any number of teams, projects, files,      *)
(* revisions and requests: the types, that the parts of the page agree,    *)
(* that the selection is in the listing, and, until somebody acts before   *)
(* what was asked for has come, that the list, the listing and the export  *)
(* are about what the page is on and no commit is missed.                  *)
(***************************************************************************)
EXTENDS ProjectPage, TLAPS, FiniteSetTheorems

-----------------------------------------------------------------------------
(* The inductive invariant, in parts. *)

(* The parts of the page are about one project, and one poll goes on.      *)
Agree(s) ==
  /\ s.page.project = s.sel.project
  /\ s.cal = [project |-> s.sel.project, team |-> s.sel.team]
  /\ s.sel.project # None =>
       /\ s.flist.project = s.sel.project
       /\ s.flist.team = s.sel.team
       /\ \E q \in s.polls : q.current /\ q.project = s.sel.project /\ q.team = s.team
  /\ \A q, r \in s.polls : q.current /\ r.current => q = r

(* What is selected is listed. *)
Selected(s) ==
  /\ s.flist.lit \subseteq Chosen(s.flist)
  /\ s.flist.dom # Loading => Chosen(s.flist) \subseteq Listed(s.flist.dom)

(* A revision that is asked for or displayed exists. *)
RevsExist(s) ==
  /\ s.flist.rev <= Newest(s.flist.team, s.flist.project)
  /\ \A m \in s.net : m.kind = "tree" => m.rev <= Newest(m.team, m.project)
  /\ s.flist.dom # Loading =>
       s.flist.dom.n \in 1 .. Newest(s.flist.dom.team, s.flist.dom.project)

(* Beside the listings only one thing is asked for at a time.              *)
OneAsked(s) ==
  \A m, n \in s.net : m.kind # "tree" /\ n.kind # "tree" => m = n

(* What is asked for is about what the page is on. *)
AskedFits(s) ==
  \A m \in s.net :
    /\ m.kind = "list" => /\ m.team = s.team /\ s.list.team = s.team
                          /\ ~s.list.loaded /\ ~s.list.prompt
    /\ m.kind = "info" => m.team = s.sel.team /\ m.project = s.sel.project
    /\ m.kind = "tree" => /\ m.team = s.flist.team /\ m.project = s.flist.project
                          /\ m.rev = s.flist.rev
                          /\ m.auto => m.rev = HEAD
    /\ m.kind = "check" => m.about = Triple(s)
    /\ m.kind = "zip" => m.about = m.checked

(* A list that has come is that of the team. *)
ListFits(s) ==
  s.list.loaded => /\ s.sel.team = s.team /\ s.list.team = s.team /\ ~s.list.prompt
                   /\ s.list.projects \subseteq Exist(s.team)

(* No poll was replaced while its request was under way. *)
PollsFit(s) ==
  \A q \in s.polls : q.current /\ q.team = s.team /\ q.project = s.page.project

(* The revision the page knows of exists, and no poll knows a later one.   *)
RevFits(s) ==
  s.sel.team = s.team /\ s.page.project # None =>
    /\ s.page.rev <= Newest(s.team, s.page.project)
    /\ \A q \in s.polls : q.prev.rev <= s.page.rev

(* Until the page is told the newest revision, what is displayed has it.   *)
InfoFits(s) ==
  \A m \in s.net : m.kind = "info" =>
    /\ s.flist.rev = HEAD
    /\ s.flist.dom # Loading =>
         s.flist.dom.n = Newest(s.flist.dom.team, s.flist.dom.project)

(* A listing that nobody is about to replace is that of the page.          *)
Settled(s) ==
  /\ s.page.project # None
  /\ \A m \in s.net : m.kind # "tree"
  /\ ~s.flist.prompt
  /\ s.flist.rev = HEAD => s.flist.timers = 0

ShownFits(s) ==
  Settled(s) =>
    /\ s.flist.dom.team = s.flist.team
    /\ s.flist.dom.project = s.flist.project
    /\ s.flist.dom.rev = s.flist.rev
    /\ s.sel.team = s.team /\ s.flist.rev = HEAD => s.page.rev <= s.flist.dom.n

Calm(s) == /\ OneAsked(s) /\ AskedFits(s) /\ ListFits(s) /\ PollsFit(s)
           /\ RevFits(s) /\ InfoFits(s) /\ ShownFits(s)

Good(s) == /\ s \in Page
           /\ s.flist.held => s.flist.timers > 0
           /\ Agree(s) /\ Selected(s) /\ RevsExist(s)

PageInv == Good(ui) /\ (~raced => Calm(ui))

IInv == TypeOK /\ PageInv

-----------------------------------------------------------------------------
(* What the operators make of the page, field by field. *)

(* What no signal and no listing changes.                                  *)
SameFrame(r, s) ==
  r.team = s.team /\ r.list = s.list /\ r.sel = s.sel /\ r.offer = s.offer

(* Only the file list and the requests are others. *)
SamePage(r, s) == /\ SameFrame(r, s) /\ r.page = s.page /\ r.cal = s.cal
                  /\ r.polls = s.polls

(* What a refresh leaves alone in the file list.                           *)
SameFiles(f, g) ==
  /\ f.project = g.project /\ f.team = g.team /\ f.rev = g.rev /\ f.timers = g.timers
  /\ f.dom = g.dom /\ f.lit = g.lit /\ f.chosen = g.chosen

LEMMA PageFields ==
  ASSUME NEW s \in Page
  PROVE  /\ s.team \in Teams
         /\ s.list \in [projects : SUBSET Projects, team : TeamsOrNone,
                        loaded : BOOLEAN, prompt : BOOLEAN]
         /\ s.sel \in [project : ProjectsOrNone, team : TeamsOrNone, trans : ProjectsOrNone]
         /\ s.page \in [initted : BOOLEAN, project : ProjectsOrNone, rev : Nat, pane : BOOLEAN]
         /\ s.flist \in FileList
         /\ s.cal \in [project : ProjectsOrNone, team : TeamsOrNone]
         /\ s.last \in ProjectsOrNone
         /\ s.polls \in SUBSET Poll /\ s.net \in SUBSET Request /\ s.offer \in StatusBar
BY DEF Page

LEMMA Nothing == /\ NothingChosen \in [Paths -> Nat]
                 /\ Loading \in [team : TeamsOrNone, project : ProjectsOrNone, rev : Nat,
                                 n : Nat]
BY DEF NothingChosen, Loading, TeamsOrNone, ProjectsOrNone, HEAD

(* The page with another file list. *)
LEMMA ReplacedList ==
  ASSUME NEW s \in Page, NEW f \in FileList, NEW r, r = [s EXCEPT !.flist = f]
  PROVE  r \in Page /\ SamePage(r, s) /\ r.flist = f /\ r.net = s.net
<1>1. r \in Page /\ r.flist = f /\ r.net = s.net
  BY DEF Page
<1>2. SamePage(r, s)
  BY DEF Page, SamePage, SameFrame
<1> QED
  BY <1>1, <1>2

LEMMA Asks ==
  ASSUME NEW s \in Page, NEW m \in Request, NEW r, r = Ask(s, m)
  PROVE  r \in Page /\ SamePage(r, s) /\ r.flist = s.flist /\ r.net = s.net \cup {m}
<1>1. PICK net \in SUBSET Request : net = s.net \cup {m}
  BY PageFields
<1>2. r = [s EXCEPT !.net = net]
  BY <1>1 DEF Ask
<1>3. r \in Page /\ r.flist = s.flist /\ r.net = net
  BY <1>2 DEF Page
<1>4. SamePage(r, s)
  BY <1>2 DEF Page, SamePage, SameFrame
<1> QED
  BY <1>1, <1>3, <1>4

LEMMA Refreshes ==
  ASSUME NEW s \in Page, NEW auto \in BOOLEAN, NEW r, r = Refresh(s, auto)
  PROVE  /\ r \in Page /\ SamePage(r, s) /\ SameFiles(r.flist, s.flist)
         /\ r.flist.held => s.flist.held
         /\ s.flist.project = None => r = s
         /\ s.flist.project # None => /\ r.net = s.net \cup {TreeAsk(s.flist, auto)}
                                      /\ ~r.flist.prompt /\ ~r.flist.held
<1>1. CASE s.flist.project = None
  BY <1>1 DEF Refresh, SamePage, SameFrame, SameFiles
<1>2. CASE s.flist.project # None
  <2>1. PICK f : f = [s.flist EXCEPT !.held = FALSE, !.prompt = FALSE]
    OBVIOUS
  <2>2. f \in FileList /\ SameFiles(f, s.flist) /\ ~f.held /\ ~f.prompt
    BY <2>1, PageFields DEF FileList, SameFiles
  <2>3. PICK m \in Request : m = TreeAsk(s.flist, auto)
    <3>1. /\ s.flist.team \in TeamsOrNone /\ s.flist.project \in Projects
          /\ s.flist.rev \in Nat
      BY <1>2 DEF Page, FileList, ProjectsOrNone
    <3> QED
      BY <3>1 DEF TreeAsk, Request
  <2>4. PICK u : u = [s EXCEPT !.flist = f]
    OBVIOUS
  <2>5. u \in Page /\ SamePage(u, s) /\ u.flist = f /\ u.net = s.net
    BY <2>2, <2>4, ReplacedList
  <2>6. [s EXCEPT !.flist.held = FALSE, !.flist.prompt = FALSE] = u
    BY <2>1, <2>4 DEF Page, FileList
  <2>7. r = Ask(u, m)
    BY <1>2, <2>3, <2>6 DEF Refresh
  <2>8. /\ r \in Page /\ SamePage(r, u) /\ r.flist = f /\ r.net = s.net \cup {m}
    BY <2>5, <2>7, Asks
  <2>9. SamePage(r, s)
    BY <2>5, <2>8 DEF SamePage, SameFrame
  <2> QED
    BY <1>2, <2>2, <2>3, <2>8, <2>9
<1> QED
  BY <1>1, <1>2

LEMMA SelectsNone ==
  ASSUME NEW s \in Page, NEW r, r = SelectNone(s)
  PROVE  /\ r \in Page /\ SamePage(r, s) /\ r.net = s.net
         /\ r.flist \in FileList
         /\ r.flist.project = s.flist.project /\ r.flist.team = s.flist.team
         /\ r.flist.rev = s.flist.rev /\ r.flist.timers = s.flist.timers
         /\ r.flist.held = s.flist.held /\ r.flist.prompt = s.flist.prompt
         /\ r.flist.dom = s.flist.dom
         /\ r.flist.chosen = NothingChosen /\ r.flist.lit = {}
<1>1. PICK f : f = [s.flist EXCEPT !.chosen = NothingChosen, !.lit = {}]
  OBVIOUS
<1>2. f \in FileList
  BY <1>1, Nothing, PageFields DEF FileList
<1>3. /\ f.project = s.flist.project /\ f.team = s.flist.team
      /\ f.rev = s.flist.rev /\ f.timers = s.flist.timers
      /\ f.held = s.flist.held /\ f.prompt = s.flist.prompt
      /\ f.dom = s.flist.dom /\ f.chosen = NothingChosen /\ f.lit = {}
  BY <1>1, PageFields DEF FileList
<1>4. r = [s EXCEPT !.flist = f]
  BY <1>1 DEF SelectNone, Page
<1> QED
  BY <1>2, <1>3, <1>4, ReplacedList

(* Whether UpdateTo replaces the listing by a notice. *)
Replaces(s, p, t, rev, named) ==
  p # s.flist.project \/ t # s.flist.team \/ ~named \/ rev # s.flist.rev

LEMMA Updates ==
  ASSUME NEW s \in Page, NEW p \in Projects, NEW t \in TeamsOrNone, NEW rev \in Nat,
         NEW named \in BOOLEAN, NEW r, r = UpdateTo(s, p, t, rev, named)
  PROVE  /\ r \in Page /\ SamePage(r, s)
         /\ r.net = s.net \cup {[kind |-> "tree", team |-> t, project |-> p,
                                 rev |-> rev, auto |-> FALSE]}
         /\ r.flist.project = p /\ r.flist.team = t /\ r.flist.rev = rev
         /\ r.flist.timers = s.flist.timers
         /\ ~r.flist.held /\ ~r.flist.prompt
         /\ Replaces(s, p, t, rev, named) => r.flist.dom = Loading /\ r.flist.lit = {}
         /\ ~Replaces(s, p, t, rev, named) =>
              /\ r.flist.dom = s.flist.dom /\ r.flist.lit = s.flist.lit
              /\ r.flist.chosen = s.flist.chosen
<1> DEFINE other == p # s.flist.project \/ t # s.flist.team
           replaced == Replaces(s, p, t, rev, named)
<1> s.flist \in FileList
  BY PageFields
<1>0. PICK none : none = SelectNone(s)
  OBVIOUS
<1>1. PICK base \in FileList :
        /\ base = IF other THEN SelectNone(s).flist ELSE s.flist
        /\ ~other => base = s.flist
        /\ base.timers = s.flist.timers /\ base.dom = s.flist.dom
  BY <1>0, SelectsNone
<1>2. PICK new \in FileList :
        /\ new = [base EXCEPT !.project = p, !.team = t, !.rev = rev]
        /\ new.project = p /\ new.team = t /\ new.rev = rev
        /\ new.timers = s.flist.timers /\ new.dom = s.flist.dom
        /\ new.lit = base.lit /\ new.chosen = base.chosen
  <2>1. PICK new : new = [base EXCEPT !.project = p, !.team = t, !.rev = rev]
    OBVIOUS
  <2>2. p \in ProjectsOrNone
    BY DEF ProjectsOrNone
  <2>3. new \in FileList
    BY <2>1, <2>2 DEF FileList
  <2>4. /\ new.project = p /\ new.team = t /\ new.rev = rev
        /\ new.timers = base.timers /\ new.dom = base.dom
        /\ new.lit = base.lit /\ new.chosen = base.chosen
    BY <2>1 DEF FileList
  <2> QED
    BY <1>1, <2>1, <2>3, <2>4
<1>3. PICK clear \in FileList :
        /\ clear = [new EXCEPT !.dom = Loading, !.lit = {}, !.visible = TRUE]
        /\ clear.project = p /\ clear.team = t /\ clear.rev = rev
        /\ clear.timers = s.flist.timers /\ clear.dom = Loading /\ clear.lit = {}
  <2>1. PICK clear : clear = [new EXCEPT !.dom = Loading, !.lit = {}, !.visible = TRUE]
    OBVIOUS
  <2>2. clear \in FileList
    BY <2>1, Nothing DEF FileList
  <2>3. /\ clear.project = new.project /\ clear.team = new.team /\ clear.rev = new.rev
        /\ clear.timers = new.timers /\ clear.dom = Loading /\ clear.lit = {}
    BY <2>1 DEF FileList
  <2> QED
    BY <1>2, <2>1, <2>2, <2>3
<1>4. PICK f \in FileList : f = IF replaced THEN clear ELSE new
  BY <1>2, <1>3
<1>5. PICK u : u = [s EXCEPT !.flist = f]
  OBVIOUS
<1>6. u \in Page /\ SamePage(u, s) /\ u.flist = f /\ u.net = s.net
  BY <1>5, ReplacedList
<1>7. r = Refresh(u, FALSE)
  <2>0. PICK n : n = IF other THEN SelectNone(s).flist ELSE s.flist
    OBVIOUS
  <2>1. other \/ ~named \/ rev # s.flist.rev <=> replaced
    BY DEF Replaces
  <2> HIDE DEF other, replaced
  <2>2. r = Refresh([s EXCEPT !.flist = IF replaced THEN clear ELSE new], FALSE)
    BY <1>1, <1>2, <1>3, <2>1 DEF UpdateTo, other
  <2> QED
    BY <1>4, <1>5, <2>2
<1>8. /\ f.project = p /\ f.team = t /\ f.rev = rev /\ f.timers = s.flist.timers
      /\ replaced => f.dom = Loading /\ f.lit = {}
      /\ ~replaced => /\ f.dom = s.flist.dom /\ f.lit = s.flist.lit
                      /\ f.chosen = s.flist.chosen
  <2>1. ~replaced => base = s.flist
    BY <1>1 DEF Replaces
  <2> HIDE DEF other, replaced
  <2> QED
    BY <1>2, <1>3, <1>4, <2>1
<1>9. TreeAsk(f, FALSE) = [kind |-> "tree", team |-> t, project |-> p, rev |-> rev,
                           auto |-> FALSE]
  BY <1>8 DEF TreeAsk
<1>10. /\ r \in Page /\ SamePage(r, u) /\ SameFiles(r.flist, f)
       /\ r.net = s.net \cup {TreeAsk(f, FALSE)} /\ ~r.flist.prompt /\ ~r.flist.held
  <2>1. u.flist.project # None
    BY <1>6, <1>8, NamesAssumption
  <2>2. PICK auto \in BOOLEAN : auto = FALSE
    OBVIOUS
  <2>3. r = Refresh(u, auto)
    BY <1>7, <2>2
  <2>4. /\ r \in Page /\ SamePage(r, u) /\ SameFiles(r.flist, u.flist)
        /\ r.net = u.net \cup {TreeAsk(u.flist, auto)} /\ ~r.flist.prompt /\ ~r.flist.held
    BY <1>6, <2>1, <2>3, Refreshes
  <2> QED
    BY <1>6, <2>2, <2>4
<1>11. SamePage(r, s)
  BY <1>6, <1>10 DEF SamePage, SameFrame
<1> HIDE DEF other, replaced
<1>12. /\ r.flist.project = p /\ r.flist.team = t /\ r.flist.rev = rev
       /\ r.flist.timers = s.flist.timers
       /\ replaced => r.flist.dom = Loading /\ r.flist.lit = {}
       /\ ~replaced => /\ r.flist.dom = s.flist.dom /\ r.flist.lit = s.flist.lit
                       /\ r.flist.chosen = s.flist.chosen
  BY <1>8, <1>10 DEF SameFiles
<1> QED
  BY <1>9, <1>10, <1>11, <1>12 DEF replaced

(* The polls that a new one does not end. *)
Left(s) == {q \in s.polls : ~q.current \/ q.asked}
Overtaken(q) == [q EXCEPT !.current = FALSE]

LEMMA SetsUpPolling ==
  ASSUME NEW s \in Page, NEW r, r = SetupPolling(s)
  PROVE  /\ r \in Page /\ SameFrame(r, s)
         /\ r.page = s.page /\ r.flist = s.flist /\ r.cal = s.cal /\ r.net = s.net
         /\ s.page.project = None => r.polls = Left(s)
         /\ s.page.project # None =>
              r.polls = {Overtaken(q) : q \in Left(s)} \cup {NewPoll(s.team, s.page.project)}
<1> DEFINE over == {Overtaken(q) : q \in Left(s)}
<1>1. \A q \in Poll : Overtaken(q) \in Poll
  BY DEF Poll, Overtaken
<1>2. Left(s) \in SUBSET Poll /\ over \in SUBSET Poll
  BY <1>1, PageFields DEF Left
<1>3. s.page.project # None => NewPoll(s.team, s.page.project) \in Poll
  BY PageFields DEF NewPoll, Poll, NoAnswer, ProjectsOrNone
<1> HIDE DEF over
<1>4. PICK polls \in SUBSET Poll :
        polls = IF s.page.project = None THEN Left(s)
                ELSE over \cup {NewPoll(s.team, s.page.project)}
  BY <1>2, <1>3
<1>5. r = [s EXCEPT !.polls = polls]
  BY <1>4 DEF SetupPolling, Left, Overtaken, over
<1>6. /\ r \in Page /\ r.polls = polls /\ r.page = s.page /\ r.flist = s.flist
      /\ r.cal = s.cal /\ r.net = s.net
  BY <1>5 DEF Page
<1>7. SameFrame(r, s)
  BY <1>5 DEF Page, SameFrame
<1> QED
  BY <1>4, <1>6, <1>7 DEF over

(* What the page is told when the selector signals, and what it asks for.  *)
LEMMA ProjectChanges ==
  ASSUME NEW s \in Page, NEW p \in ProjectsOrNone, NEW t \in TeamsOrNone,
         NEW r, r = OnProjChange(s, p, t)
  PROVE  /\ r \in Page /\ SameFrame(r, s) /\ r.flist = s.flist /\ r.cal = s.cal
         /\ r.page.project = p /\ r.page.rev = 0
         /\ p = None => r.net = s.net /\ r.polls = Left(s)
         /\ p # None =>
              /\ r.net = s.net \cup {InfoAsk(t, p)}
              /\ r.polls = {Overtaken(q) : q \in Left(s)} \cup {NewPoll(s.team, p)}
<1>1. PICK page : page = [s.page EXCEPT !.project = p, !.rev = 0, !.pane = (p # None)]
  OBVIOUS
<1>2. /\ page \in [initted : BOOLEAN, project : ProjectsOrNone, rev : Nat, pane : BOOLEAN]
      /\ page.project = p /\ page.rev = 0
  BY <1>1, PageFields
<1>3. PICK a : a = [s EXCEPT !.page = page]
  OBVIOUS
<1>4. /\ a \in Page /\ a.page = page /\ a.polls = s.polls /\ a.net = s.net
      /\ a.flist = s.flist /\ a.cal = s.cal
  BY <1>2, <1>3 DEF Page
<1>5. SameFrame(a, s)
  BY <1>3 DEF Page, SameFrame
<1>6. PICK b : b = SetupPolling(a)
  OBVIOUS
<1>7. /\ b \in Page /\ SameFrame(b, s) /\ b.page = page
      /\ b.flist = s.flist /\ b.cal = s.cal /\ b.net = s.net
      /\ p = None => b.polls = Left(s)
      /\ p # None => b.polls = {Overtaken(q) : q \in Left(s)} \cup {NewPoll(s.team, p)}
  <2>1. Left(a) = Left(s) /\ a.page.project = p /\ a.team = s.team
    BY <1>2, <1>4, <1>5 DEF Left, SameFrame
  <2>2. SameFrame(b, a)
    BY <1>4, <1>6, SetsUpPolling
  <2>3. SameFrame(b, s)
    BY <1>5, <2>2 DEF SameFrame
  <2> QED
    BY <1>4, <1>6, <2>1, <2>3, SetsUpPolling
<1>8. r = IF p = None THEN b ELSE Ask(b, InfoAsk(t, p))
  <2>1. [s EXCEPT !.page.project = p, !.page.rev = 0, !.page.pane = (p # None)] = a
    BY <1>1, <1>3 DEF Page
  <2> QED
    BY <1>6, <2>1 DEF OnProjChange
<1>9. CASE p = None
  BY <1>2, <1>7, <1>8, <1>9
<1>10. CASE p # None
  <2>1. PICK m : m = InfoAsk(t, p)
    OBVIOUS
  <2>2. m \in Request
    BY <1>10, <2>1 DEF InfoAsk, Request, ProjectsOrNone
  <2>3. r = Ask(b, m)
    BY <1>8, <1>10, <2>1
  <2>4. r \in Page /\ SamePage(r, b) /\ r.flist = b.flist /\ r.net = s.net \cup {m}
    BY <1>7, <2>2, <2>3, Asks
  <2>5. SameFrame(r, s) /\ r.page = page /\ r.cal = s.cal /\ r.polls = b.polls
    BY <1>7, <2>4 DEF SamePage, SameFrame
  <2> QED
    BY <1>2, <1>7, <1>10, <2>1, <2>4, <2>5
<1> QED
  BY <1>9, <1>10

(* The selector of page s has gone to where it is in r, and has signalled. *)
Signalled(r, s) ==
  LET p == r.sel.project
      t == r.sel.team
  IN /\ r.team = s.team /\ r.list = s.list
     /\ r.page.project = p /\ r.page.rev = 0
     /\ r.cal = [project |-> p, team |-> t]
     /\ r.flist.timers = s.flist.timers
     /\ r.flist.held => s.flist.held
     /\ p = None => /\ r.net = s.net /\ r.polls = Left(s)
                    /\ SameFiles(r.flist, s.flist) /\ r.flist.prompt = s.flist.prompt
     /\ p # None => /\ r.net = s.net \cup {InfoAsk(t, p),
                                           [kind |-> "tree", team |-> t, project |-> p,
                                            rev |-> HEAD, auto |-> FALSE]}
                    /\ r.polls = {Overtaken(q) : q \in Left(s)} \cup {NewPoll(s.team, p)}
                    /\ r.flist.project = p /\ r.flist.team = t /\ r.flist.rev = HEAD
                    /\ r.flist.dom = Loading /\ r.flist.lit = {}

(* The selector goes elsewhere, or stays where it is. *)
Moved(r, s) == Signalled(r, s) /\ r.sel # s.sel
Stayed(r, s) ==
  /\ r.team = s.team /\ r.list = s.list /\ r.page = s.page /\ r.flist = s.flist
  /\ r.cal = s.cal /\ r.polls = s.polls /\ r.net = s.net
  /\ r.sel.project = s.sel.project /\ r.sel.team = s.sel.team

LEMMA Signals ==
  ASSUME NEW s \in Page, NEW r, r = SignalProject(s)
  PROVE  r \in Page /\ Signalled(r, s) /\ r.sel = s.sel /\ r.offer = s.offer
<1>1. PICK p \in ProjectsOrNone, t \in TeamsOrNone : p = s.sel.project /\ t = s.sel.team
  BY PageFields
<1>2. PICK a : a = OnProjChange(s, p, t)
  OBVIOUS
<1>3. /\ a \in Page /\ SameFrame(a, s) /\ a.flist = s.flist /\ a.cal = s.cal
      /\ a.page.project = p /\ a.page.rev = 0
      /\ p = None => a.net = s.net /\ a.polls = Left(s)
      /\ p # None => /\ a.net = s.net \cup {InfoAsk(t, p)}
                     /\ a.polls = {Overtaken(q) : q \in Left(s)} \cup {NewPoll(s.team, p)}
  BY <1>2, ProjectChanges
<1>4. PICK b : b = UpdateList(a, p, t)
  OBVIOUS
<1>5. /\ b \in Page /\ SamePage(b, a)
      /\ b.flist.timers = s.flist.timers /\ (b.flist.held => s.flist.held)
      /\ p = None => b.net = a.net /\ SameFiles(b.flist, s.flist)
                     /\ b.flist.prompt = s.flist.prompt
      /\ p # None => /\ b.net = a.net \cup {[kind |-> "tree", team |-> t, project |-> p,
                                             rev |-> HEAD, auto |-> FALSE]}
                     /\ b.flist.project = p /\ b.flist.team = t /\ b.flist.rev = HEAD
                     /\ b.flist.dom = Loading /\ b.flist.lit = {}
  <2>1. CASE p = None
    <3>1. PICK f : f = [s.flist EXCEPT !.visible = FALSE]
      OBVIOUS
    <3>2. /\ f \in FileList /\ SameFiles(f, s.flist) /\ f.prompt = s.flist.prompt
          /\ f.held = s.flist.held
      BY <3>1, PageFields DEF FileList, SameFiles
    <3>3. b = [a EXCEPT !.flist = f]
      BY <1>3, <1>4, <2>1, <3>1 DEF UpdateList
    <3>4. b \in Page /\ SamePage(b, a) /\ b.flist = f /\ b.net = a.net
      BY <1>3, <3>2, <3>3, ReplacedList
    <3> QED
      BY <2>1, <3>2, <3>4 DEF SameFiles
  <2>2. CASE p # None
    <3>1. p \in Projects /\ HEAD \in Nat
      BY <2>2 DEF ProjectsOrNone, HEAD
    <3>2. PICK named \in BOOLEAN : named = FALSE
      OBVIOUS
    <3>3. b = UpdateTo(a, p, t, HEAD, named)
      BY <1>4, <2>2, <3>2 DEF UpdateList
    <3>4. Replaces(a, p, t, HEAD, named)
      BY <3>2 DEF Replaces
    <3>5. /\ b \in Page /\ SamePage(b, a)
          /\ b.net = a.net \cup {[kind |-> "tree", team |-> t, project |-> p,
                                 rev |-> HEAD, auto |-> FALSE]}
          /\ b.flist.project = p /\ b.flist.team = t /\ b.flist.rev = HEAD
          /\ b.flist.timers = a.flist.timers /\ ~b.flist.held
          /\ b.flist.dom = Loading /\ b.flist.lit = {}
      BY <1>3, <3>1, <3>3, <3>4, Updates
    <3> QED
      BY <1>3, <2>2, <3>5
  <2> QED
    BY <2>1, <2>2
<1>6. PICK cal : cal = [project |-> p, team |-> t]
  OBVIOUS
<1>7. cal \in [project : ProjectsOrNone, team : TeamsOrNone]
  BY <1>6
<1>8. r = [b EXCEPT !.cal = cal]
  BY <1>1, <1>2, <1>4, <1>6 DEF SignalProject, ChangeProj
<1>9. /\ r \in Page /\ r.cal = cal /\ r.flist = b.flist /\ r.net = b.net
      /\ r.page = b.page /\ r.polls = b.polls
  BY <1>5, <1>7, <1>8 DEF Page
<1>10. SameFrame(r, b)
  BY <1>5, <1>8 DEF Page, SameFrame
<1>11. SameFrame(r, s) /\ r.page = a.page /\ r.polls = a.polls
  BY <1>3, <1>5, <1>9, <1>10 DEF SamePage, SameFrame
<1>12. r.sel = s.sel /\ r.offer = s.offer /\ r.team = s.team /\ r.list = s.list
  BY <1>11 DEF SameFrame
<1>13. CASE p = None
  BY <1>1, <1>3, <1>5, <1>6, <1>9, <1>11, <1>12, <1>13 DEF Signalled
<1>14. CASE p # None
  <2>1. r.net = s.net \cup {InfoAsk(t, p), [kind |-> "tree", team |-> t, project |-> p,
                                           rev |-> HEAD, auto |-> FALSE]}
    BY <1>3, <1>5, <1>9, <1>14
  <2> QED
    BY <1>1, <1>3, <1>5, <1>6, <1>9, <1>11, <1>12, <1>14, <2>1 DEF Signalled
<1> QED
  BY <1>13, <1>14

LEMMA DefaultTyped ==
  ASSUME NEW s \in Page
  PROVE  DefaultOf(s) \in ProjectsOrNone
<1>1. s.list.projects \in SUBSET Projects
  BY PageFields
<1>2. Cardinality(s.list.projects) = 1 => s.list.projects # {}
  BY FS_EmptySet
<1> QED
  BY <1>1, <1>2, PageFields DEF DefaultOf, ProjectsOrNone

LEMMA ListChanges ==
  ASSUME NEW s \in Page, NEW t \in TeamsOrNone, NEW r, r = ListChanged(s, t)
  PROVE  r \in Page /\ (Moved(r, s) \/ Stayed(r, s)) /\ r.sel.team = t
<1> DEFINE goes == s.sel.trans \in s.list.projects
           again == \/ s.sel.project = None \/ t # s.sel.team
                    \/ s.sel.project \notin s.list.projects
           went == IF goes THEN s.sel.trans
                   ELSE IF again THEN DefaultOf(s) ELSE s.sel.project
           left == IF goes THEN None ELSE s.sel.trans
           shown == IF went = None THEN NoOffer ELSE s.offer
<1>1. PICK p \in ProjectsOrNone : p = went
  BY DefaultTyped, PageFields DEF ProjectsOrNone
<1>2. PICK trans \in ProjectsOrNone : trans = left
  BY PageFields DEF ProjectsOrNone
<1>3. PICK offer \in StatusBar : offer = shown
  <2>1. NoOffer \in StatusBar
    BY DEF NoOffer, Offer, StatusBar, Triples, HEAD, TeamsOrNone, ProjectsOrNone
  <2> QED
    BY <2>1, PageFields
<1>4. PICK sel : sel = [project |-> p, team |-> t, trans |-> trans]
  OBVIOUS
<1>5. /\ sel \in [project : ProjectsOrNone, team : TeamsOrNone, trans : ProjectsOrNone]
      /\ sel.project = p /\ sel.team = t
  BY <1>4
<1>6. PICK new : new = [s EXCEPT !.sel = sel, !.offer = offer]
  OBVIOUS
<1>7. /\ new \in Page /\ new.sel = sel /\ new.offer = offer
      /\ new.team = s.team /\ new.list = s.list /\ new.page = s.page
      /\ new.flist = s.flist /\ new.cal = s.cal /\ new.polls = s.polls /\ new.net = s.net
  BY <1>5, <1>6 DEF Page
<1>8. r = IF p # s.sel.project \/ t # s.sel.team THEN SignalProject(new) ELSE new
  <2>1. [s EXCEPT !.sel = [project |-> went, team |-> t,
                           trans |-> IF goes THEN None ELSE @.trans],
                  !.offer = IF went = None THEN NoOffer ELSE @] = new
    BY <1>1, <1>2, <1>3, <1>4, <1>6 DEF Page
  <2> QED
    BY <1>1, <2>1 DEF ListChanged
<1> HIDE DEF goes, again, went, left, shown
<1>9. CASE p # s.sel.project \/ t # s.sel.team
  <2>1. r \in Page /\ Signalled(r, new) /\ r.sel = sel
    BY <1>7, <1>8, <1>9, Signals
  <2>2. Signalled(r, s)
    BY <1>7, <2>1 DEF Signalled, Left
  <2> QED
    BY <1>5, <1>9, <2>1, <2>2 DEF Moved
<1>10. CASE ~(p # s.sel.project \/ t # s.sel.team)
  BY <1>5, <1>7, <1>8, <1>10 DEF Stayed
<1> QED
  BY <1>9, <1>10

LEMMA Selects ==
  ASSUME NEW s \in Page, NEW p, NEW r, r = Select(s, p)
  PROVE  r \in Page /\ (Moved(r, s) \/ Stayed(r, s)) /\ r.sel.team = s.sel.team
<1>1. CASE p \in s.list.projects /\ p # s.sel.project
  <2>1. PICK sel : sel = [s.sel EXCEPT !.project = p]
    OBVIOUS
  <2>2. /\ sel \in [project : ProjectsOrNone, team : TeamsOrNone, trans : ProjectsOrNone]
        /\ sel.project = p /\ sel.team = s.sel.team /\ p \in ProjectsOrNone
    BY <1>1, <2>1, PageFields DEF ProjectsOrNone
  <2>3. PICK new : new = [s EXCEPT !.sel = sel]
    OBVIOUS
  <2>4. /\ new \in Page /\ new.sel = sel
        /\ new.team = s.team /\ new.list = s.list /\ new.page = s.page
        /\ new.flist = s.flist /\ new.cal = s.cal /\ new.polls = s.polls /\ new.net = s.net
    BY <2>2, <2>3 DEF Page
  <2>5. PICK u : u = SignalProject(new)
    OBVIOUS
  <2>6. u \in Page /\ Signalled(u, new) /\ u.sel = sel
    BY <2>4, <2>5, Signals
  <2>7. r = [u EXCEPT !.last = p]
    BY <1>1, <2>1, <2>3, <2>5 DEF Select, Page
  <2>8. /\ r \in Page /\ r.sel = sel /\ r.team = u.team /\ r.list = u.list
        /\ r.page = u.page /\ r.flist = u.flist /\ r.cal = u.cal /\ r.polls = u.polls
        /\ r.net = u.net
    BY <2>2, <2>6, <2>7 DEF Page
  <2>9. Signalled(r, s)
    BY <2>4, <2>6, <2>8 DEF Signalled, Left
  <2> QED
    BY <1>1, <2>2, <2>8, <2>9 DEF Moved
<1>2. CASE ~(p \in s.list.projects /\ p # s.sel.project)
  BY <1>2 DEF Select, Stayed
<1> QED
  BY <1>1, <1>2

LEMMA AutoRefreshes ==
  ASSUME NEW s \in Page, NEW r, r = AutoRefresh(s)
  PROVE  /\ r \in Page /\ SamePage(r, s) /\ SameFiles(r.flist, s.flist)
         /\ r.flist.held => s.flist.held
         /\ s.flist.rev = HEAD /\ s.flist.project # None =>
              /\ r.net = s.net \cup {TreeAsk(s.flist, TRUE)}
              /\ ~r.flist.prompt /\ ~r.flist.held
         /\ ~(s.flist.rev = HEAD /\ s.flist.project # None) => r = s
<1>1. PICK auto \in BOOLEAN : auto = TRUE
  OBVIOUS
<1>2. CASE s.flist.rev = HEAD
  <2>1. r = Refresh(s, auto)
    BY <1>1, <1>2 DEF AutoRefresh
  <2> QED
    BY <1>1, <1>2, <2>1, Refreshes
<1>3. CASE s.flist.rev # HEAD
  BY <1>3 DEF AutoRefresh, SamePage, SameFrame, SameFiles
<1> QED
  BY <1>2, <1>3

LEMMA Grabs ==
  ASSUME NEW s \in Page, NEW t \in TeamsOrNone, NEW r, r = GrabList(s, t)
  PROVE  /\ r \in Page
         /\ r.team = s.team /\ r.sel = s.sel /\ r.page = s.page /\ r.flist = s.flist
         /\ r.cal = s.cal /\ r.polls = s.polls
         /\ r.list.team = t /\ ~r.list.loaded /\ ~r.list.prompt
         /\ r.list.projects = s.list.projects
         /\ r.net = s.net \cup {ListAsk(t)}
<1>1. PICK list : list = [s.list EXCEPT !.team = t, !.loaded = FALSE, !.prompt = FALSE]
  OBVIOUS
<1>2. /\ list \in [projects : SUBSET Projects, team : TeamsOrNone,
                   loaded : BOOLEAN, prompt : BOOLEAN]
      /\ list.team = t /\ ~list.loaded /\ ~list.prompt /\ list.projects = s.list.projects
  BY <1>1, PageFields
<1>3. PICK u : u = [s EXCEPT !.list = list]
  OBVIOUS
<1>4. /\ u \in Page /\ u.list = list
      /\ u.team = s.team /\ u.sel = s.sel /\ u.page = s.page /\ u.flist = s.flist
      /\ u.cal = s.cal /\ u.polls = s.polls /\ u.net = s.net
  BY <1>2, <1>3 DEF Page
<1>5. PICK m \in Request : m = ListAsk(t)
  BY DEF ListAsk, Request
<1>6. [s EXCEPT !.list.team = t, !.list.loaded = FALSE, !.list.prompt = FALSE] = u
  BY <1>1, <1>3 DEF Page
<1>7. r = Ask(u, m)
  BY <1>5, <1>6 DEF GrabList
<1>8. r \in Page /\ SamePage(r, u) /\ r.flist = u.flist /\ r.net = u.net \cup {m}
  BY <1>4, <1>7, Asks
<1> QED
  BY <1>2, <1>4, <1>5, <1>8 DEF SamePage, SameFrame

(* SetTeam, from where the team is noted. *)
LEMMA SetsTeam ==
  ASSUME NEW s \in Page, NEW r, r = GrabList(SetupPolling(s), s.team)
  PROVE  /\ r \in Page
         /\ r.team = s.team /\ r.sel = s.sel /\ r.page = s.page /\ r.flist = s.flist
         /\ r.cal = s.cal
         /\ r.list.team = s.team /\ ~r.list.loaded /\ ~r.list.prompt
         /\ r.list.projects = s.list.projects
         /\ r.net = s.net \cup {ListAsk(s.team)}
         /\ s.page.project = None => r.polls = Left(s)
         /\ s.page.project # None =>
              r.polls = {Overtaken(q) : q \in Left(s)} \cup {NewPoll(s.team, s.page.project)}
<1>1. PICK u : u = SetupPolling(s)
  OBVIOUS
<1>2. PICK t \in TeamsOrNone : t = s.team
  BY PageFields DEF TeamsOrNone
<1>3. r = GrabList(u, t)
  BY <1>1, <1>2
<1>4. /\ u \in Page /\ SameFrame(u, s)
      /\ u.page = s.page /\ u.flist = s.flist /\ u.cal = s.cal /\ u.net = s.net
      /\ s.page.project = None => u.polls = Left(s)
      /\ s.page.project # None =>
           u.polls = {Overtaken(q) : q \in Left(s)} \cup {NewPoll(s.team, s.page.project)}
  BY <1>1, SetsUpPolling
<1> HIDE <1>1
<1> USE <1>2
<1>5. /\ r \in Page
      /\ r.team = u.team /\ r.sel = u.sel /\ r.page = u.page /\ r.flist = u.flist
      /\ r.cal = u.cal /\ r.polls = u.polls
      /\ r.list.team = t /\ ~r.list.loaded /\ ~r.list.prompt
      /\ r.list.projects = u.list.projects
      /\ r.net = u.net \cup {ListAsk(t)}
  BY <1>3, <1>4, Grabs
<1> QED
  BY <1>4, <1>5 DEF SameFrame

(* Only the projects in the list are others, and only the revision that the *)
(* page knows of.                                                          *)
SameButProjects(r, s) ==
  /\ r.team = s.team /\ r.sel = s.sel /\ r.page = s.page /\ r.flist = s.flist
  /\ r.cal = s.cal /\ r.polls = s.polls /\ r.net = s.net
  /\ r.list.team = s.list.team /\ r.list.loaded = s.list.loaded
  /\ r.list.prompt = s.list.prompt
SameButRev(r, s) ==
  /\ r.team = s.team /\ r.list = s.list /\ r.sel = s.sel /\ r.flist = s.flist
  /\ r.cal = s.cal /\ r.polls = s.polls /\ r.net = s.net
  /\ r.page.project = s.page.project

WithProjects(s, projects) == [s EXCEPT !.list.projects = projects]
WithRev(s, rev) == [s EXCEPT !.page.rev = rev]

LEMMA Relists ==
  ASSUME NEW s \in Page, NEW projects \in SUBSET Projects,
         NEW r, r = WithProjects(s, projects)
  PROVE  r \in Page /\ SameButProjects(r, s) /\ r.list.projects = projects
<1>1. PICK list : list = [s.list EXCEPT !.projects = projects]
  OBVIOUS
<1>2. /\ list \in [projects : SUBSET Projects, team : TeamsOrNone,
                   loaded : BOOLEAN, prompt : BOOLEAN]
      /\ list.projects = projects /\ list.team = s.list.team
      /\ list.loaded = s.list.loaded /\ list.prompt = s.list.prompt
  BY <1>1, PageFields
<1>3. r = [s EXCEPT !.list = list]
  BY <1>1 DEF Page, WithProjects
<1>4. /\ r \in Page /\ r.list = list
      /\ r.team = s.team /\ r.sel = s.sel /\ r.page = s.page /\ r.flist = s.flist
      /\ r.cal = s.cal /\ r.polls = s.polls /\ r.net = s.net
  BY <1>2, <1>3 DEF Page
<1> QED
  BY <1>2, <1>4 DEF SameButProjects

LEMMA LearnsRev ==
  ASSUME NEW s \in Page, NEW rev \in Nat, NEW r, r = WithRev(s, rev)
  PROVE  r \in Page /\ SameButRev(r, s) /\ r.page.rev = rev
<1>1. PICK page : page = [s.page EXCEPT !.rev = rev]
  OBVIOUS
<1>2. /\ page \in [initted : BOOLEAN, project : ProjectsOrNone, rev : Nat, pane : BOOLEAN]
      /\ page.project = s.page.project /\ page.rev = rev
  BY <1>1, PageFields
<1>3. r = [s EXCEPT !.page = page]
  BY <1>1 DEF Page, WithRev
<1>4. /\ r \in Page /\ r.page = page
      /\ r.team = s.team /\ r.list = s.list /\ r.sel = s.sel /\ r.flist = s.flist
      /\ r.cal = s.cal /\ r.polls = s.polls /\ r.net = s.net
  BY <1>2, <1>3 DEF Page
<1> QED
  BY <1>2, <1>4 DEF SameButRev

(* By way of the page with the new list, and the page that knows the       *)
(* revision.                                                               *)
LEMMA PollChanges ==
  ASSUME NEW s \in Page, NEW q, NEW got \in [projects : SUBSET Projects, rev : Nat],
         NEW r, r = PollChanged(s, q, got)
  PROVE  /\ r \in Page
         /\ \E l, a, b \in Page :
              /\ SameButProjects(l, s)
              /\ l.list.projects \in {s.list.projects, got.projects}
              /\ Moved(a, l) \/ Stayed(a, l)
              /\ SameButRev(b, a)
              /\ b.page.rev = IF a.page.project = None THEN a.page.rev
                              ELSE IF a.page.project = q.project THEN got.rev ELSE 0
              /\ \/ r = b /\ b.page = a.page
                 \/ r = AutoRefresh(b)
<1>0. s.list.projects \in SUBSET Projects
  BY PageFields
<1>1. PICK l \in Page, a \in Page :
        /\ SameButProjects(l, s)
        /\ l.list.projects \in {s.list.projects, got.projects}
        /\ Moved(a, l) \/ Stayed(a, l)
        /\ a = IF Cardinality(got.projects) = Cardinality(s.list.projects) THEN s
               ELSE ListChanged([s EXCEPT !.list.projects = got.projects], s.team)
  <2>1. CASE Cardinality(got.projects) = Cardinality(s.list.projects)
    <3>1. SameButProjects(s, s) /\ Stayed(s, s)
      BY DEF SameButProjects, Stayed
    <3> QED
      BY <2>1, <3>1
  <2>2. CASE Cardinality(got.projects) # Cardinality(s.list.projects)
    <3>1. PICK l : l = WithProjects(s, got.projects)
      OBVIOUS
    <3>2. l \in Page /\ SameButProjects(l, s) /\ l.list.projects = got.projects
      BY <3>1, Relists
    <3>3. PICK t \in TeamsOrNone : t = s.team
      BY PageFields DEF TeamsOrNone
    <3>4. PICK a : a = ListChanged(l, t)
      OBVIOUS
    <3>5. a \in Page /\ (Moved(a, l) \/ Stayed(a, l))
      BY <3>2, <3>4, ListChanges
    <3> QED
      BY <2>2, <3>1, <3>2, <3>3, <3>4, <3>5 DEF WithProjects
  <2> QED
    BY <2>1, <2>2
<1>2. PICK rev \in Nat : rev = IF a.page.project = q.project THEN got.rev ELSE 0
  OBVIOUS
<1>3. r = IF a.page.project = None \/ rev = a.page.rev THEN a
          ELSE AutoRefresh([a EXCEPT !.page.rev = rev])
  BY <1>1, <1>2 DEF PollChanged
<1>4. CASE a.page.project = None \/ rev = a.page.rev
  <2>1. r = a /\ SameButRev(a, a)
    BY <1>3, <1>4 DEF SameButRev
  <2>2. a.page.rev = IF a.page.project = None THEN a.page.rev
                     ELSE IF a.page.project = q.project THEN got.rev ELSE 0
    BY <1>2, <1>4
  <2> QED
    BY <1>1, <2>1, <2>2
<1>5. CASE ~(a.page.project = None \/ rev = a.page.rev)
  <2>1. PICK b : b = WithRev(a, rev)
    OBVIOUS
  <2>2. b \in Page /\ SameButRev(b, a) /\ b.page.rev = rev
    BY <2>1, LearnsRev
  <2>3. r = AutoRefresh(b)
    BY <1>3, <1>5, <2>1 DEF WithRev
  <2>4. r \in Page
    BY <2>2, <2>3, AutoRefreshes
  <2>5. b.page.rev = IF a.page.project = None THEN a.page.rev
                     ELSE IF a.page.project = q.project THEN got.rev ELSE 0
    BY <1>2, <1>5, <2>2
  <2> QED
    BY <1>1, <2>2, <2>3, <2>4, <2>5
<1> QED
  BY <1>4, <1>5

LEMMA Revisions ==
  ASSUME TypeOK, NEW t, NEW p
  PROVE  /\ Newest(t, p) \in Nat
         /\ Newest(t, p) > 0 => t \in Teams /\ p \in Projects
         /\ \A n \in 1 .. Newest(t, p) : repo[t][p][n] \in SUBSET Files
<1>1. CASE t \in Teams /\ p \in Projects
  <2>1. PICK revs \in Seq(SUBSET Files) : revs = repo[t][p]
    BY <1>1 DEF TypeOK
  <2>2. Len(revs) \in Nat /\ \A n \in 1 .. Len(revs) : revs[n] \in SUBSET Files
    OBVIOUS
  <2> QED
    BY <1>1, <2>1, <2>2 DEF Newest
<1>2. CASE ~(t \in Teams /\ p \in Projects)
  BY <1>2 DEF Newest
<1> QED
  BY <1>1, <1>2

(* Beside the selection and the listing, the file list stays as it is.     *)
SameTask(f, g) ==
  /\ f.project = g.project /\ f.team = g.team /\ f.rev = g.rev /\ f.timers = g.timers
  /\ f.held = g.held /\ f.prompt = g.prompt

LEMMA Receives ==
  ASSUME NEW s \in Page, NEW m \in Request, m.kind = "tree", NEW n \in Nat,
         NEW r, r = Received(s, m, n)
  PROVE  LET kept == ({m.project} \X repo[m.team][m.project][n]) \cap Chosen(s.flist)
         IN /\ r \in Page /\ SamePage(r, s) /\ r.net = s.net
            /\ SameTask(r.flist, s.flist)
            /\ r.flist.dom = [team |-> m.team, project |-> m.project, rev |-> m.rev, n |-> n]
            /\ r.flist.lit = kept /\ Chosen(r.flist) = kept
<1> DEFINE kept == ({m.project} \X repo[m.team][m.project][n]) \cap Chosen(s.flist)
<1>1. PICK k \in SUBSET Paths : k = kept
  BY DEF Chosen
<1>2. PICK dom : dom = [team |-> m.team, project |-> m.project, rev |-> m.rev, n |-> n]
  OBVIOUS
<1>3. dom \in [team : TeamsOrNone, project : ProjectsOrNone, rev : Nat, n : Nat]
  BY <1>2 DEF Request, ProjectsOrNone
<1>4. PICK chosen : chosen = [x \in Paths |-> IF x \in k THEN 1 ELSE 0]
  OBVIOUS
<1>5. chosen \in [Paths -> Nat] /\ {x \in Paths : chosen[x] > 0} = k
  BY <1>4
<1>6. PICK robot \in BOOLEAN : robot = (Robot \in repo[m.team][m.project][n])
  <2>1. (Robot \in repo[m.team][m.project][n]) \in BOOLEAN
    OBVIOUS
  <2> QED
    BY <2>1, Zenon
<1>7. PICK f : f = [s.flist EXCEPT !.dom = dom, !.robot = robot, !.chosen = chosen,
                                   !.lit = k, !.visible = TRUE]
  OBVIOUS
<1>8. s.flist \in FileList
  BY PageFields
<1>9. f \in FileList
  BY <1>3, <1>5, <1>7, <1>8 DEF FileList
<1>10. SameTask(f, s.flist) /\ f.dom = dom /\ f.lit = k /\ f.chosen = chosen
  BY <1>7, <1>8 DEF FileList, SameTask
<1>11. r = [s EXCEPT !.flist = f]
  BY <1>1, <1>2, <1>4, <1>6, <1>7 DEF Received
<1>12. r \in Page /\ SamePage(r, s) /\ r.flist = f /\ r.net = s.net
  BY <1>9, <1>11, ReplacedList
<1> HIDE DEF kept
<1>13. Chosen(r.flist) = k
  BY <1>5, <1>10, <1>12 DEF Chosen
<1> QED
  BY <1>1, <1>2, <1>10, <1>12, <1>13 DEF kept

LEMMA Picks ==
  ASSUME NEW s \in Page, NEW xs \in SUBSET Paths, NEW r, r = Pick(s, xs)
  PROVE  /\ r \in Page /\ SamePage(r, s) /\ r.net = s.net
         /\ SameTask(r.flist, s.flist) /\ r.flist.dom = s.flist.dom
         /\ r.flist.lit = s.flist.lit \cup xs
         /\ Chosen(r.flist) = Chosen(s.flist) \cup xs
<1>1. s.flist \in FileList /\ s.flist.chosen \in [Paths -> Nat] /\ s.flist.lit \in SUBSET Paths
  BY PageFields DEF FileList
<1>2. PICK chosen :
        chosen = [x \in Paths |-> s.flist.chosen[x] + IF x \in xs THEN 1 ELSE 0]
  OBVIOUS
<1>3. /\ chosen \in [Paths -> Nat]
      /\ \A x \in Paths : chosen[x] > 0 <=> s.flist.chosen[x] > 0 \/ x \in xs
  BY <1>1, <1>2
<1>4. PICK lit \in SUBSET Paths : lit = s.flist.lit \cup xs
  BY <1>1
<1>5. PICK f : f = [s.flist EXCEPT !.chosen = chosen, !.lit = lit]
  OBVIOUS
<1>6. f \in FileList
  BY <1>1, <1>3, <1>4, <1>5 DEF FileList
<1>7. /\ SameTask(f, s.flist) /\ f.dom = s.flist.dom /\ f.lit = lit /\ f.chosen = chosen
  BY <1>1, <1>5 DEF FileList, SameTask
<1>8. r = [s EXCEPT !.flist = f]
  BY <1>2, <1>4, <1>5, <1>1 DEF Pick, Page, FileList
<1>9. r \in Page /\ SamePage(r, s) /\ r.flist = f /\ r.net = s.net
  BY <1>6, <1>8, ReplacedList
<1>10. Chosen(r.flist) = Chosen(s.flist) \cup xs
  BY <1>3, <1>7, <1>9 DEF Chosen
<1> QED
  BY <1>4, <1>7, <1>9, <1>10

LEMMA Unpicks ==
  ASSUME NEW s \in Page, NEW x \in Paths, s.flist.chosen[x] # 0, NEW r, r = Unpick(s, x)
  PROVE  /\ r \in Page /\ SamePage(r, s) /\ r.net = s.net
         /\ SameTask(r.flist, s.flist) /\ r.flist.dom = s.flist.dom
         /\ r.flist.lit = s.flist.lit \ {x}
         /\ Chosen(s.flist) \ {x} \subseteq Chosen(r.flist)
         /\ Chosen(r.flist) \subseteq Chosen(s.flist)
<1>1. s.flist \in FileList /\ s.flist.chosen \in [Paths -> Nat] /\ s.flist.lit \in SUBSET Paths
  BY PageFields DEF FileList
<1>2. PICK chosen : chosen = [s.flist.chosen EXCEPT ![x] = s.flist.chosen[x] - 1]
  OBVIOUS
<1>3. /\ chosen \in [Paths -> Nat]
      /\ \A y \in Paths : /\ chosen[y] > 0 => s.flist.chosen[y] > 0
                          /\ y # x => chosen[y] = s.flist.chosen[y]
  <2>1. s.flist.chosen[x] - 1 \in Nat /\ s.flist.chosen[x] > 0
    BY <1>1
  <2> QED
    BY <1>1, <1>2, <2>1
<1>4. PICK lit \in SUBSET Paths : lit = s.flist.lit \ {x}
  BY <1>1
<1>5. PICK f : f = [s.flist EXCEPT !.chosen = chosen, !.lit = lit]
  OBVIOUS
<1>6. f \in FileList
  BY <1>1, <1>3, <1>4, <1>5 DEF FileList
<1>7. /\ SameTask(f, s.flist) /\ f.dom = s.flist.dom /\ f.lit = lit /\ f.chosen = chosen
  BY <1>1, <1>5 DEF FileList, SameTask
<1>8. r = [s EXCEPT !.flist = f]
  BY <1>2, <1>4, <1>5, <1>1 DEF Unpick, Page, FileList
<1>9. r \in Page /\ SamePage(r, s) /\ r.flist = f /\ r.net = s.net
  BY <1>6, <1>8, ReplacedList
<1>10. /\ Chosen(s.flist) \ {x} \subseteq Chosen(r.flist)
       /\ Chosen(r.flist) \subseteq Chosen(s.flist)
  BY <1>3, <1>7, <1>9 DEF Chosen
<1> QED
  BY <1>4, <1>7, <1>9, <1>10

LEMMA PicksByPath ==
  ASSUME NEW s \in Page, NEW x \in Paths, NEW r, r = PickByPath(s, x)
  PROVE  /\ r \in Page /\ SamePage(r, s) /\ r.net = s.net
         /\ SameTask(r.flist, s.flist) /\ r.flist.dom = s.flist.dom
         /\ Selected(s) => Selected(r)
<1>1. CASE s.flist.dom = Loading
  <2>1. s.flist \in FileList /\ s.flist.chosen \in [Paths -> Nat]
    BY PageFields DEF FileList
  <2>2. PICK chosen : chosen = [s.flist.chosen EXCEPT ![x] = s.flist.chosen[x] + 1]
    OBVIOUS
  <2>3. /\ chosen \in [Paths -> Nat]
        /\ \A y \in Paths : s.flist.chosen[y] > 0 => chosen[y] > 0
    BY <2>1, <2>2
  <2>4. PICK f : f = [s.flist EXCEPT !.chosen = chosen]
    OBVIOUS
  <2>5. f \in FileList
    BY <2>1, <2>3, <2>4 DEF FileList
  <2>6. /\ SameTask(f, s.flist) /\ f.dom = s.flist.dom /\ f.lit = s.flist.lit
        /\ f.chosen = chosen
    BY <2>1, <2>4 DEF FileList, SameTask
  <2>7. r = [s EXCEPT !.flist = f]
    BY <1>1, <2>1, <2>2, <2>4 DEF PickByPath, Page, FileList
  <2>8. r \in Page /\ SamePage(r, s) /\ r.flist = f /\ r.net = s.net
    BY <2>5, <2>7, ReplacedList
  <2>9. Chosen(s.flist) \subseteq Chosen(r.flist)
    BY <2>3, <2>6, <2>8 DEF Chosen
  <2> QED
    BY <1>1, <2>6, <2>8, <2>9 DEF Selected
<1>2. CASE s.flist.dom # Loading
  <2>1. PICK xs \in SUBSET Paths : xs = {x} \cap Listed(s.flist.dom)
    OBVIOUS
  <2>2. r = Pick(s, xs)
    BY <1>2, <2>1 DEF PickByPath
  <2>3. /\ r \in Page /\ SamePage(r, s) /\ r.net = s.net
        /\ SameTask(r.flist, s.flist) /\ r.flist.dom = s.flist.dom
        /\ r.flist.lit = s.flist.lit \cup xs
        /\ Chosen(r.flist) = Chosen(s.flist) \cup xs
    BY <2>2, Picks
  <2>4. Selected(s) => Selected(r)
    BY <1>2, <2>1, <2>3 DEF Selected
  <2> QED
    BY <2>3, <2>4
<1> QED
  BY <1>1, <1>2

-----------------------------------------------------------------------------
(* What keeps the invariant, by what a step changes of the page. *)

(* The parts of the page that the invariant relates are the same. *)
SameParts(r, s) ==
  /\ r.team = s.team /\ r.page = s.page /\ r.flist = s.flist
  /\ r.cal = s.cal /\ r.polls = s.polls
  /\ r.sel.project = s.sel.project /\ r.sel.team = s.sel.team

Trees(s) == {m \in s.net : m.kind = "tree"}

LEMMA PartsKeepGood ==
  ASSUME NEW s, NEW r \in Page, Good(s), SameParts(r, s), Trees(r) \subseteq Trees(s)
  PROVE  Good(r)
<1>1. Agree(r)
  BY DEF Good, Agree, SameParts
<1>2. Selected(r) /\ (r.flist.held => r.flist.timers > 0)
  BY DEF Good, Selected, SameParts
<1>3. RevsExist(r)
  BY DEF Good, RevsExist, SameParts, Trees
<1> QED
  BY <1>1, <1>2, <1>3 DEF Good

LEMMA PartsKeepCalm ==
  ASSUME NEW s \in Page, NEW r \in Page, Calm(s), SameParts(r, s), Trees(r) = Trees(s),
         \A m \in r.net : m.kind = "info" => m \in s.net,
         OneAsked(r), ListFits(r),
         \A m \in r.net : m.kind \in {"list", "check", "zip"} =>
           /\ m.kind = "list" => /\ m.team = r.team /\ r.list.team = r.team
                                 /\ ~r.list.loaded /\ ~r.list.prompt
           /\ m.kind = "check" => m.about = Triple(r)
           /\ m.kind = "zip" => m.about = m.checked
  PROVE  Calm(r)
<1>1. AskedFits(r)
  BY DEF Calm, AskedFits, SameParts, Trees
<1>2. PollsFit(r) /\ RevFits(r) /\ InfoFits(r)
  BY DEF Calm, PollsFit, RevFits, InfoFits, SameParts
<1>3. ShownFits(r)
  <2>1. Settled(r) => Settled(s)
    BY DEF Settled, Trees, SameParts
  <2> QED
    BY <2>1 DEF Calm, ShownFits, SameParts
<1> QED
  BY <1>1, <1>2, <1>3 DEF Calm

(* An answer that leaves the parts as they are. *)
LEMMA AnswerKeepsCalm ==
  ASSUME NEW s \in Page, NEW r \in Page, NEW m \in s.net, m.kind # "tree", Calm(s),
         SameParts(r, s), r.list = s.list, r.net = s.net \ {m}
  PROVE  Calm(r)
<1>1. Trees(r) = Trees(s)
  BY DEF Trees
<1>2. OneAsked(r) /\ ListFits(r)
  BY DEF Calm, OneAsked, ListFits, SameParts
<1>3. Triple(r) = Triple(s)
  BY DEF Triple, SameParts
<1>4. \A n \in r.net : n.kind \in {"list", "check", "zip"} =>
           /\ n.kind = "list" => /\ n.team = r.team /\ r.list.team = r.team
                                 /\ ~r.list.loaded /\ ~r.list.prompt
           /\ n.kind = "check" => n.about = Triple(r)
           /\ n.kind = "zip" => n.about = n.checked
  BY <1>3 DEF Calm, AskedFits, SameParts
<1> QED
  BY <1>1, <1>2, <1>4, PartsKeepCalm

(* One thing beside listings is asked for, where nothing of the kind was.  *)
LEMMA AskKeepsCalm ==
  ASSUME NEW s \in Page, NEW r \in Page, NEW m, Calm(s), SameParts(r, s), r.list = s.list,
         s.net = Trees(s), r.net = s.net \cup {m},
         \/ m.kind = "create"
         \/ m.kind = "check" /\ m.about = Triple(r)
         \/ m.kind = "zip" /\ m.about = m.checked
  PROVE  Calm(r)
<1>1. Trees(r) = Trees(s)
  BY DEF Trees
<1>2. OneAsked(r) /\ ListFits(r)
  BY DEF Calm, OneAsked, ListFits, SameParts, Trees
<1>3. \A n \in r.net : n = m \/ n.kind = "tree"
  BY DEF Trees
<1> QED
  BY <1>1, <1>2, <1>3, PartsKeepCalm

(* The selection changes, and nothing is asked for. *)
LEMMA SelectionKeeps ==
  ASSUME NEW s, NEW r \in Page, Good(s), SamePage(r, s), r.net = s.net,
         SameTask(r.flist, s.flist), r.flist.dom = s.flist.dom, Selected(s) => Selected(r)
  PROVE  Good(r) /\ (Calm(s) => Calm(r))
<1>1. Agree(r)
  BY DEF Good, Agree, SamePage, SameFrame, SameTask
<1>2. RevsExist(r) /\ (r.flist.held => r.flist.timers > 0)
  BY DEF Good, RevsExist, SameTask
<1>3. ASSUME Calm(s) PROVE Calm(r)
  <2>1. Triple(r) = Triple(s)
    BY DEF Triple, SamePage, SameFrame, SameTask
  <2>2. OneAsked(r) /\ ListFits(r) /\ PollsFit(r) /\ RevFits(r)
    BY <1>3 DEF Calm, OneAsked, ListFits, PollsFit, RevFits, SamePage, SameFrame
  <2>3. AskedFits(r)
    BY <1>3, <2>1 DEF Calm, AskedFits, SamePage, SameFrame, SameTask
  <2>4. InfoFits(r)
    BY <1>3 DEF Calm, InfoFits, SameTask
  <2>5. ShownFits(r)
    <3>1. Settled(r) => Settled(s)
      BY DEF Settled, SamePage, SameTask
    <3> QED
      BY <1>3, <3>1 DEF Calm, ShownFits, SamePage, SameFrame, SameTask
  <2> QED
    BY <2>2, <2>3, <2>4, <2>5 DEF Calm
<1> QED
  BY <1>1, <1>2, <1>3 DEF Good

(* The same listing, whatever timers wait for it. *)
SameListing(f, g) ==
  /\ f.project = g.project /\ f.team = g.team /\ f.rev = g.rev
  /\ f.dom = g.dom /\ f.lit = g.lit /\ f.chosen = g.chosen

(* A refresh: the listing is asked for as it is. *)
LEMMA RefreshKeeps ==
  ASSUME NEW s, NEW r \in Page, Good(s), SamePage(r, s), SameListing(r.flist, s.flist),
         NEW auto \in BOOLEAN, auto => s.flist.rev = HEAD,
         r.net = s.net \cup {TreeAsk(s.flist, auto)}, ~r.flist.held
  PROVE  Good(r) /\ (Calm(s) => Calm(r))
<1> DEFINE tree == TreeAsk(s.flist, auto)
<1>1. /\ tree.kind = "tree" /\ tree.team = s.flist.team /\ tree.project = s.flist.project
      /\ tree.rev = s.flist.rev /\ (tree.auto => tree.rev = HEAD)
  BY DEF TreeAsk
<1> HIDE DEF tree
<1>2. r.net = s.net \cup {tree}
  BY DEF tree
<1>3. Agree(r)
  BY DEF Good, Agree, SamePage, SameFrame, SameListing
<1>4. Selected(r)
  BY DEF Good, Selected, SameListing, Chosen
<1>5. RevsExist(r)
  BY <1>1, <1>2 DEF Good, RevsExist, SameListing
<1>6. ASSUME Calm(s) PROVE Calm(r)
  <2>1. Triple(r) = Triple(s)
    BY DEF Triple, SamePage, SameFrame, SameListing
  <2>2. OneAsked(r)
    BY <1>1, <1>2, <1>6 DEF Calm, OneAsked
  <2>3. ListFits(r) /\ PollsFit(r) /\ RevFits(r)
    BY <1>6 DEF Calm, ListFits, PollsFit, RevFits, SamePage, SameFrame
  <2>4. \A m \in s.net :
          /\ m.kind = "list" => /\ m.team = r.team /\ r.list.team = r.team
                                /\ ~r.list.loaded /\ ~r.list.prompt
          /\ m.kind = "info" => m.team = r.sel.team /\ m.project = r.sel.project
          /\ m.kind = "tree" => /\ m.team = r.flist.team /\ m.project = r.flist.project
                                /\ m.rev = r.flist.rev
                                /\ m.auto => m.rev = HEAD
          /\ m.kind = "check" => m.about = Triple(r)
          /\ m.kind = "zip" => m.about = m.checked
    BY <1>6, <2>1 DEF Calm, AskedFits, SamePage, SameFrame, SameListing
  <2>5. AskedFits(r)
    BY <1>1, <1>2, <2>4 DEF AskedFits, SameListing
  <2>6. InfoFits(r)
    BY <1>1, <1>2, <1>6 DEF Calm, InfoFits, SameListing
  <2>7. ~Settled(r)
    BY <1>1, <1>2 DEF Settled
  <2> QED
    BY <2>2, <2>3, <2>5, <2>6, <2>7 DEF Calm, ShownFits
<1> QED
  BY <1>3, <1>4, <1>5, <1>6 DEF Good

LEMMA PollsLeft ==
  ASSUME NEW s \in Page, NEW p \in Projects,
         \A q, r \in s.polls : q.current /\ r.current => q = r
  PROVE  /\ \A q, r \in Left(s) : q.current /\ r.current => q = r
         /\ LET now == {Overtaken(q) : q \in Left(s)} \cup {NewPoll(s.team, p)}
            IN /\ \A q, r \in now : q.current /\ r.current => q = r
               /\ \E q \in now : q.current /\ q.project = p /\ q.team = s.team
<1>1. \A q \in Left(s) : ~Overtaken(q).current
  BY PageFields DEF Left, Overtaken, Poll
<1>2. /\ NewPoll(s.team, p).current /\ NewPoll(s.team, p).project = p
      /\ NewPoll(s.team, p).team = s.team
  BY DEF NewPoll
<1> QED
  BY <1>1, <1>2 DEF Left

(* The selector goes elsewhere and signals. *)
LEMMA SignalKeepsGood ==
  ASSUME TypeOK, NEW s, NEW r \in Page, Good(s), Signalled(r, s)
  PROVE  Good(r)
<1>1. PICK p \in ProjectsOrNone, t \in TeamsOrNone : p = r.sel.project /\ t = r.sel.team
  BY PageFields
<1>2. /\ r.team = s.team /\ r.page.project = p
      /\ r.cal = [project |-> p, team |-> t]
      /\ r.flist.timers = s.flist.timers /\ (r.flist.held => s.flist.held)
  BY <1>1 DEF Signalled
<1>3. r.flist.held => r.flist.timers > 0
  BY <1>2 DEF Good
<1>4. \A q, x \in s.polls : q.current /\ x.current => q = x
  BY DEF Good, Agree
<1>5. CASE p = None
  <2>1. r.net = s.net /\ r.polls = Left(s) /\ SameFiles(r.flist, s.flist)
    BY <1>1, <1>5 DEF Signalled
  <2>2. Agree(r)
    BY <1>1, <1>2, <1>4, <1>5, <2>1 DEF Agree, Left
  <2>3. Selected(r) /\ RevsExist(r)
    BY <2>1 DEF Good, Selected, RevsExist, SameFiles, Chosen
  <2> QED
    BY <1>3, <2>2, <2>3 DEF Good
<1>6. CASE p # None
  <2> DEFINE tree == [kind |-> "tree", team |-> t, project |-> p, rev |-> HEAD,
                      auto |-> FALSE]
  <2>1. /\ r.net = s.net \cup {InfoAsk(t, p), tree}
        /\ r.polls = {Overtaken(q) : q \in Left(s)} \cup {NewPoll(s.team, p)}
        /\ r.flist.project = p /\ r.flist.team = t /\ r.flist.rev = HEAD
        /\ r.flist.dom = Loading /\ r.flist.lit = {}
    BY <1>1, <1>6 DEF Signalled
  <2>2. /\ \A q, x \in r.polls : q.current /\ x.current => q = x
        /\ \E q \in r.polls : q.current /\ q.project = p /\ q.team = s.team
    <3>1. p \in Projects /\ s \in Page
      BY <1>6 DEF ProjectsOrNone, Good
    <3> QED
      BY <1>4, <2>1, <3>1, PollsLeft
  <2>3. Agree(r)
    BY <1>1, <1>2, <2>1, <2>2 DEF Agree
  <2>4. Selected(r)
    BY <2>1 DEF Selected
  <2>5. RevsExist(r)
    <3>1. InfoAsk(t, p).kind = "info" /\ tree.rev = HEAD
      BY DEF InfoAsk
    <3>2. \A x \in r.net : x.kind = "tree" => x \in s.net \/ x.rev = HEAD
      BY <2>1, <3>1
    <3>3. \A x, y : HEAD <= Newest(x, y)
      BY Revisions DEF HEAD
    <3> QED
      BY <2>1, <3>2, <3>3 DEF Good, RevsExist
  <2> QED
    BY <1>3, <2>3, <2>4, <2>5 DEF Good
<1> QED
  BY <1>5, <1>6

(* It does so while nothing is asked for. *)
LEMMA SignalKeepsCalm ==
  ASSUME TypeOK, NEW s \in Page, NEW r \in Page, Signalled(r, s),
         s.net = {}, \A q \in s.polls : ~q.asked, PollsFit(s), ListFits(r)
  PROVE  Calm(r)
<1>1. PICK p \in ProjectsOrNone, t \in TeamsOrNone : p = r.sel.project /\ t = r.sel.team
  BY PageFields
<1>2. r.team = s.team /\ r.page.project = p /\ r.page.rev = 0
  BY <1>1 DEF Signalled
<1>3. Left(s) = {}
  BY DEF Left, PollsFit
<1>4. CASE p = None
  <2>1. r.net = {} /\ r.polls = {}
    BY <1>1, <1>3, <1>4 DEF Signalled
  <2>2. OneAsked(r) /\ AskedFits(r) /\ PollsFit(r) /\ InfoFits(r)
    BY <2>1 DEF OneAsked, AskedFits, PollsFit, InfoFits
  <2>3. RevFits(r) /\ ShownFits(r)
    BY <1>2, <1>4 DEF RevFits, ShownFits, Settled
  <2> QED
    BY <2>2, <2>3 DEF Calm
<1>5. CASE p # None
  <2>1. PICK tree : tree = [kind |-> "tree", team |-> t, project |-> p, rev |-> HEAD,
                            auto |-> FALSE]
    OBVIOUS
  <2>2. PICK info : info = InfoAsk(t, p)
    OBVIOUS
  <2>3. /\ r.net = {info, tree} /\ r.polls = {NewPoll(s.team, p)}
        /\ r.flist.project = p /\ r.flist.team = t /\ r.flist.rev = HEAD
        /\ r.flist.dom = Loading
    BY <1>1, <1>3, <1>5, <2>1, <2>2 DEF Signalled
  <2>4. /\ info.kind = "info" /\ info.team = t /\ info.project = p
        /\ tree.kind = "tree" /\ tree.team = t /\ tree.project = p /\ tree.rev = HEAD
    BY <2>1, <2>2 DEF InfoAsk
  <2>5. OneAsked(r) /\ AskedFits(r)
    BY <1>1, <2>3, <2>4 DEF OneAsked, AskedFits
  <2>6. InfoFits(r) /\ ShownFits(r)
    BY <2>3, <2>4 DEF InfoFits, ShownFits, Settled
  <2>7. \A q \in r.polls : q.current /\ q.team = s.team /\ q.project = p /\ q.prev.rev = 0
    BY <2>3 DEF NewPoll, NoAnswer
  <2>8. PollsFit(r)
    BY <1>2, <2>7 DEF PollsFit
  <2>9. RevFits(r)
    BY <1>2, <2>7, Revisions DEF RevFits
  <2> QED
    BY <2>5, <2>6, <2>8, <2>9 DEF Calm
<1> QED
  BY <1>4, <1>5

-----------------------------------------------------------------------------
(* The steps. *)

(* The user has waited; nothing was overtaken by a change of project.      *)
Idle(s) == s.net = {} /\ (\A q \in s.polls : ~q.asked) /\ s.list.loaded
InOrder(r, s) == r.sel = s.sel \/ (Trees(s) = {} /\ \A q \in s.polls : ~q.asked)

(* What every step leaves as it should be, the user's habit aside. *)
StepOK == /\ PageInv'
          /\ raced' \in BOOLEAN /\ spent' \in 0 .. MaxEvents
          /\ repo' \in [Teams -> [Projects -> Seq(SUBSET Files)]]

LEMMA Lifts ==
  ASSUME TypeOK, UNCHANGED repo, NEW r, r = ui', Good(r), ~raced' => Calm(r),
         raced' \in BOOLEAN, spent' \in 0 .. MaxEvents
  PROVE  StepOK
<1>1. Good(r)'
  BY DEF Good, Agree, Selected, RevsExist, Listed, Newest
<1>2. Calm(r) => Calm(r)'
  BY DEF Calm, OneAsked, AskedFits, ListFits, PollsFit, RevFits, InfoFits, ShownFits,
         Newest, Exist
<1>3. PageInv'
  BY <1>1, <1>2 DEF PageInv
<1> QED
  BY <1>3 DEF StepOK, TypeOK

(* A step of the user. *)
LEMMA ClickStep ==
  ASSUME IInv, NEW stale \in BOOLEAN, Clicks(stale), UNCHANGED repo, NEW r, r = ui', Good(r),
         Calm(ui) /\ Idle(ui) /\ ~stale => Calm(r)
  PROVE  StepOK
<1>1. spent \in 0 .. MaxEvents /\ MaxEvents \in Nat /\ raced \in BOOLEAN
  BY BoundsAssumption DEF IInv, TypeOK
<1>2. spent' \in 0 .. MaxEvents
  BY <1>1 DEF Clicks
<1>3. raced' \in BOOLEAN /\ (~raced' => ~raced /\ ~stale /\ ~Busy /\ ui.list.loaded)
  BY <1>1 DEF Clicks
<1>4. ~raced' => Calm(ui) /\ Idle(ui) /\ ~stale
  BY <1>3 DEF IInv, PageInv, Idle, Busy
<1> QED
  BY <1>2, <1>3, <1>4, Lifts DEF IInv

(* A step of the network or a timer. *)
LEMMA QuietStep ==
  ASSUME IInv, Unasked, UNCHANGED repo, spent' \in 0 .. MaxEvents, NEW r, r = ui', Good(r),
         Calm(ui) /\ InOrder(r, ui) => Calm(r)
  PROVE  StepOK
<1>1. raced \in BOOLEAN
  BY DEF IInv, TypeOK
<1>2. raced' \in BOOLEAN /\ (~raced' => ~raced /\ InOrder(r, ui))
  BY <1>1 DEF Unasked, Trees, InOrder
<1>3. ~raced' => Calm(r)
  BY <1>2 DEF IInv, PageInv
<1> QED
  BY <1>2, <1>3, Lifts DEF IInv

LEMMA FailStep ==
  ASSUME IInv, NEW hopeless \in BOOLEAN, Fails(hopeless)
  PROVE  spent' \in 0 .. MaxEvents
BY BoundsAssumption DEF IInv, TypeOK, Fails

LEMMA Now == ASSUME IInv PROVE TypeOK /\ ui \in Page /\ Good(ui)
BY DEF IInv, TypeOK, PageInv

LEMMA Answers ==
  ASSUME IInv, NEW m \in ui.net, NEW r, r = Answered(m)
  PROVE  /\ r \in Page /\ SamePage(r, ui) /\ SameParts(r, ui) /\ r.flist = ui.flist
         /\ r.net = ui.net \ {m}
         /\ Good(r) /\ (Calm(ui) /\ m.kind # "tree" => Calm(r))
<1>1. PICK s \in Page : s = ui
  BY Now
<1>2. PICK net \in SUBSET Request : net = s.net \ {m}
  BY <1>1, PageFields
<1>3. r = [s EXCEPT !.net = net]
  BY <1>1, <1>2 DEF Answered
<1>4. /\ r \in Page /\ r.net = net /\ r.team = s.team /\ r.list = s.list /\ r.sel = s.sel
      /\ r.page = s.page /\ r.flist = s.flist /\ r.cal = s.cal /\ r.polls = s.polls
      /\ r.offer = s.offer
  BY <1>3 DEF Page
<1>5. SamePage(r, s) /\ SameParts(r, s)
  BY <1>4 DEF SamePage, SameFrame, SameParts
<1>6. Trees(r) \subseteq Trees(s)
  BY <1>2, <1>4 DEF Trees
<1>7. Good(s)
  BY <1>1, Now
<1>8. Good(r)
  BY <1>4, <1>5, <1>6, <1>7, PartsKeepGood
<1>9. Calm(s) /\ m.kind # "tree" => Calm(r)
  BY <1>1, <1>2, <1>4, <1>5, AnswerKeepsCalm
<1> QED
  BY <1>1, <1>2, <1>4, <1>5, <1>8, <1>9

LEMMA SelectTeamKeeps == ASSUME IInv, NEW t \in Teams, SelectTeam(t) PROVE StepOK
<1>1. PICK s \in Page : s = ui
  BY Now
<1>2. PICK page : page = [s.page EXCEPT !.pane = FALSE, !.initted = TRUE]
  OBVIOUS
<1>3. /\ page \in [initted : BOOLEAN, project : ProjectsOrNone, rev : Nat, pane : BOOLEAN]
      /\ page.project = s.page.project /\ page.rev = s.page.rev
  BY <1>2, PageFields
<1>4. PICK u : u = [s EXCEPT !.team = t, !.page = page]
  OBVIOUS
<1>5. /\ u \in Page /\ u.team = t /\ u.page = page /\ u.list = s.list /\ u.sel = s.sel
      /\ u.flist = s.flist /\ u.cal = s.cal /\ u.polls = s.polls /\ u.net = s.net
  BY <1>3, <1>4 DEF Page
<1>6. PICK r : r = ui'
  OBVIOUS
<1>7. r = GrabList(SetupPolling(u), u.team)
  <2>1. [s EXCEPT !.team = t, !.page.pane = FALSE, !.page.initted = TRUE] = u
    BY <1>2, <1>4 DEF Page
  <2> QED
    BY <1>1, <1>5, <1>6, <2>1 DEF SelectTeam, SetTeam
<1>8. PICK list : list = ListAsk(t)
  OBVIOUS
<1>9. list.kind = "list" /\ list.team = t
  BY <1>8 DEF ListAsk
<1>10. Left(u) = Left(s)
  BY <1>5 DEF Left
<1>11. /\ r \in Page /\ r.team = t /\ r.sel = s.sel /\ r.page = page /\ r.flist = s.flist
       /\ r.cal = s.cal /\ r.list.team = t /\ ~r.list.loaded /\ ~r.list.prompt
       /\ r.net = s.net \cup {list}
       /\ s.page.project = None => r.polls = Left(s)
       /\ s.page.project # None =>
            r.polls = {Overtaken(q) : q \in Left(s)} \cup {NewPoll(t, s.page.project)}
  <2>1. /\ r \in Page
        /\ r.team = u.team /\ r.sel = u.sel /\ r.page = u.page /\ r.flist = u.flist
        /\ r.cal = u.cal
        /\ r.list.team = u.team /\ ~r.list.loaded /\ ~r.list.prompt
        /\ r.net = u.net \cup {ListAsk(u.team)}
        /\ u.page.project = None => r.polls = Left(u)
        /\ u.page.project # None =>
             r.polls = {Overtaken(q) : q \in Left(u)} \cup {NewPoll(u.team, u.page.project)}
    BY <1>5, <1>7, SetsTeam
  <2> QED
    BY <1>3, <1>5, <1>8, <1>10, <2>1
<1>12. Good(s)
  BY <1>1, Now
<1>13. Agree(r)
  <2>1. CASE s.page.project = None
    BY <1>3, <1>11, <1>12, <2>1 DEF Good, Agree, Left
  <2>2. CASE s.page.project # None
    <3>1. s.page.project \in Projects
      BY <2>2, PageFields DEF ProjectsOrNone
    <3>2. \A q, x \in u.polls : q.current /\ x.current => q = x
      BY <1>5, <1>12 DEF Good, Agree
    <3>3. /\ \A q, x \in r.polls : q.current /\ x.current => q = x
          /\ \E q \in r.polls : q.current /\ q.project = s.page.project /\ q.team = t
      BY <1>5, <1>10, <1>11, <2>2, <3>1, <3>2, PollsLeft
    <3> QED
      BY <1>3, <1>11, <1>12, <3>3 DEF Good, Agree
  <2> QED
    BY <2>1, <2>2
<1>14. Selected(r) /\ RevsExist(r) /\ (r.flist.held => r.flist.timers > 0)
  BY <1>9, <1>11, <1>12 DEF Good, Selected, RevsExist
<1>15. Good(r)
  BY <1>11, <1>13, <1>14 DEF Good
<1>16. ASSUME Calm(s), Idle(s) PROVE Calm(r)
  <2>1. Left(s) = {}
    BY <1>16 DEF Calm, PollsFit, Idle, Left
  <2>2. \A q \in r.polls : q.current /\ q.team = t /\ q.project = s.page.project
    BY <1>11, <2>1 DEF NewPoll
  <2>3. r.net = {list} /\ r.sel.team # t
    BY <1>1, <1>11, <1>16 DEF Calm, ListFits, Idle, SelectTeam
  <2>4. OneAsked(r) /\ AskedFits(r) /\ ListFits(r) /\ InfoFits(r)
    BY <1>9, <1>11, <2>3 DEF OneAsked, AskedFits, ListFits, InfoFits
  <2>5. PollsFit(r) /\ RevFits(r)
    BY <1>3, <1>11, <2>2, <2>3 DEF PollsFit, RevFits
  <2>6. ShownFits(r)
    <3>1. Settled(r) => Settled(s)
      BY <1>3, <1>11, <1>16 DEF Settled, Idle
    <3> QED
      BY <1>11, <1>16, <2>3, <3>1 DEF Calm, ShownFits
  <2> QED
    BY <2>4, <2>5, <2>6 DEF Calm
<1>17. FALSE \in BOOLEAN /\ Clicks(FALSE) /\ UNCHANGED repo
  BY DEF SelectTeam
<1> QED
  BY <1>1, <1>6, <1>15, <1>16, <1>17, ClickStep

LEMMA NothingAsked ==
  ASSUME NEW s \in Page, NEW r \in Page, Good(s), SameParts(r, s), r.list = s.list,
         r.net = s.net
  PROVE  Good(r) /\ (Calm(s) => Calm(r))
<1>1. Trees(r) = Trees(s) /\ Triple(r) = Triple(s)
  BY DEF Trees, Triple, SameParts
<1>2. Good(r)
  BY <1>1, PartsKeepGood
<1>3. ASSUME Calm(s) PROVE Calm(r)
  <2>1. OneAsked(r) /\ ListFits(r)
    BY <1>3 DEF Calm, OneAsked, ListFits, SameParts
  <2>2. \A n \in r.net : n.kind \in {"list", "check", "zip"} =>
           /\ n.kind = "list" => /\ n.team = r.team /\ r.list.team = r.team
                                 /\ ~r.list.loaded /\ ~r.list.prompt
           /\ n.kind = "check" => n.about = Triple(r)
           /\ n.kind = "zip" => n.about = n.checked
    BY <1>1, <1>3 DEF Calm, AskedFits, SameParts
  <2> QED
    BY <1>1, <1>3, <2>1, <2>2, PartsKeepCalm
<1> QED
  BY <1>2, <1>3

(* The status bar. *)
LEMMA OffersTyped ==
  /\ NoOffer \in StatusBar
  /\ \A b \in SUBSET {"list", "tree", "export unsaved", "export anyway", "retry check",
                      "retry export"} :
       \A about \in Triples : Offer(b, about, None) \in StatusBar
  /\ \A s \in Page : Triple(s) \in Triples
<1>1. NoOffer \in StatusBar
  BY DEF NoOffer, Offer, StatusBar, Triples, HEAD, TeamsOrNone, ProjectsOrNone
<1>2. \A b \in SUBSET {"list", "tree", "export unsaved", "export anyway", "retry check",
                      "retry export"} :
        \A about \in Triples : Offer(b, about, None) \in StatusBar
  BY DEF Offer, StatusBar
<1>3. \A s \in Page : Triple(s) \in Triples
  BY PageFields DEF Triple, Triples, TeamsOrNone, FileList
<1> QED
  BY <1>1, <1>2, <1>3

LEMMA OfferKeeps ==
  ASSUME NEW s \in Page, NEW o \in StatusBar, NEW r, r = [s EXCEPT !.offer = o]
  PROVE  /\ r \in Page /\ SameParts(r, s) /\ r.sel = s.sel /\ r.list = s.list
         /\ r.net = s.net /\ r.offer = o
         /\ Good(s) => Good(r) /\ (Calm(s) => Calm(r))
<1>1. /\ r \in Page /\ SameParts(r, s) /\ r.sel = s.sel /\ r.list = s.list
      /\ r.net = s.net /\ r.offer = o
  BY DEF Page, SameParts
<1> QED
  BY <1>1, NothingAsked

LEMMA SelectKeeps ==
  ASSUME TypeOK, NEW s, Good(s), NEW p, NEW r, r = Select(s, p)
  PROVE  Good(r) /\ (Calm(s) /\ Idle(s) => Calm(r))
<1>1. s \in Page
  BY DEF Good
<1>2. r \in Page /\ (Moved(r, s) \/ Stayed(r, s)) /\ r.sel.team = s.sel.team
  BY <1>1, Selects
<1>3. CASE Moved(r, s)
  <2>1. Signalled(r, s) /\ r.team = s.team /\ r.list = s.list
    BY <1>3 DEF Moved, Signalled
  <2>2. Calm(s) => PollsFit(s) /\ ListFits(r)
    BY <1>2, <2>1 DEF Calm, ListFits
  <2> QED
    BY <1>1, <1>2, <2>1, <2>2, SignalKeepsGood, SignalKeepsCalm DEF Idle
<1>4. CASE Stayed(r, s)
  <2>1. SameParts(r, s) /\ r.list = s.list /\ r.net = s.net
    BY <1>4 DEF Stayed, SameParts
  <2> QED
    BY <1>1, <1>2, <2>1, NothingAsked
<1> QED
  BY <1>2, <1>3, <1>4

LEMMA SelectProjectKeeps == ASSUME IInv, NEW p, SelectProject(p) PROVE StepOK
<1>1. PICK s \in Page : s = ui
  BY Now
<1>2. PICK o \in StatusBar : o = NoOffer
  BY OffersTyped
<1>3. PICK a : a = [s EXCEPT !.offer = o]
  OBVIOUS
<1>4. /\ a \in Page /\ SameParts(a, s) /\ a.list = s.list /\ a.net = s.net
      /\ Good(a) /\ (Calm(s) => Calm(a))
  BY <1>1, <1>3, Now, OfferKeeps
<1>5. PICK r : r = ui'
  OBVIOUS
<1>6. r = Select(a, p)
  BY <1>1, <1>2, <1>3, <1>5 DEF SelectProject
<1>7. Good(r) /\ (Calm(a) /\ Idle(a) => Calm(r))
  BY <1>4, <1>6, Now, SelectKeeps
<1>8. Idle(s) => Idle(a)
  BY <1>4 DEF Idle, SameParts
<1>9. FALSE \in BOOLEAN /\ Clicks(FALSE) /\ UNCHANGED repo
  BY DEF SelectProject
<1> QED
  BY <1>1, <1>4, <1>5, <1>7, <1>8, <1>9, ClickStep

LEMMA FollowResultKeeps == ASSUME IInv, NEW x \in Paths, FollowResult(x) PROVE StepOK
<1>1. PICK s \in Page : s = ui
  BY Now
<1>2. PICK a : a = Select(s, x[1])
  OBVIOUS
<1>3. Good(a) /\ (Calm(s) /\ Idle(s) => Calm(a))
  BY <1>1, <1>2, Now, SelectKeeps
<1>4. a \in Page
  BY <1>3 DEF Good
<1>5. PICK b : b = SelectNone(a)
  OBVIOUS
<1>6. /\ b \in Page /\ SamePage(b, a) /\ b.net = a.net
      /\ SameTask(b.flist, a.flist) /\ b.flist.dom = a.flist.dom
      /\ b.flist.chosen = NothingChosen /\ b.flist.lit = {}
  BY <1>4, <1>5, SelectsNone DEF SameTask
<1>7. Selected(b)
  BY <1>6 DEF Selected, Chosen, NothingChosen
<1>8. Good(b) /\ (Calm(a) => Calm(b))
  BY <1>3, <1>6, <1>7, SelectionKeeps
<1>9. PICK r : r = ui'
  OBVIOUS
<1>10. r = PickByPath(b, x)
  BY <1>1, <1>2, <1>5, <1>9 DEF FollowResult
<1>11. Good(r) /\ (Calm(b) => Calm(r))
  BY <1>6, <1>8, <1>10, PicksByPath, SelectionKeeps
<1>12. FALSE \in BOOLEAN /\ Clicks(FALSE) /\ UNCHANGED repo
  BY DEF FollowResult
<1> QED
  BY <1>1, <1>3, <1>8, <1>9, <1>11, <1>12, ClickStep

LEMMA GotListKeeps ==
  ASSUME IInv, NEW m \in ui.net, m.kind = "list", GotList(m)
  PROVE  StepOK
<1>1. PICK s \in Page : s = ui
  BY Now
<1>2. PICK a : a = Answered(m)
  OBVIOUS
<1>3. /\ a \in Page /\ SamePage(a, s) /\ SameParts(a, s) /\ a.net = s.net \ {m}
      /\ Good(a) /\ (Calm(s) => Calm(a))
  BY <1>1, <1>2, Answers
<1>4. PICK projects \in SUBSET Projects : projects = Exist(m.team)
  BY DEF Exist
<1>5. PICK list : list = [a.list EXCEPT !.projects = projects, !.loaded = TRUE]
  OBVIOUS
<1>6. /\ list \in [projects : SUBSET Projects, team : TeamsOrNone,
                   loaded : BOOLEAN, prompt : BOOLEAN]
      /\ list.projects = projects /\ list.loaded
      /\ list.team = s.list.team /\ list.prompt = s.list.prompt
  BY <1>3, <1>5, PageFields DEF SamePage, SameFrame
<1>7. PICK l : l = [a EXCEPT !.list = list]
  OBVIOUS
<1>8. /\ l \in Page /\ SameParts(l, a) /\ l.sel = a.sel /\ l.list = list /\ l.net = a.net
      /\ l.polls = a.polls /\ l.team = a.team
  BY <1>3, <1>6, <1>7 DEF Page, SameParts
<1>9. Good(l)
  BY <1>3, <1>8, PartsKeepGood DEF Trees
<1>10. PICK t \in TeamsOrNone : t = s.list.team
  BY PageFields
<1>11. PICK r : r = ui'
  OBVIOUS
<1>12. r = ListChanged(l, t)
  <2>1. [a EXCEPT !.list.projects = projects, !.list.loaded = TRUE] = l
    BY <1>3, <1>5, <1>7 DEF Page
  <2> QED
    BY <1>1, <1>2, <1>4, <1>10, <1>11, <2>1 DEF GotList
<1>13. r \in Page /\ (Moved(r, l) \/ Stayed(r, l)) /\ r.sel.team = t
  BY <1>8, <1>12, ListChanges
<1>14. r.list = list /\ r.team = s.team
  BY <1>3, <1>8, <1>13 DEF Moved, Signalled, Stayed, SamePage, SameFrame
<1>15. Calm(s) => /\ m.team = s.team /\ t = s.team /\ ~s.list.prompt
                  /\ \A n \in l.net : n.kind = "tree"
  BY <1>1, <1>3, <1>8, <1>10 DEF Calm, AskedFits, OneAsked
<1>16. Calm(s) => ListFits(r)
  BY <1>4, <1>6, <1>10, <1>13, <1>14, <1>15 DEF ListFits
<1>17. ASSUME Moved(r, l) PROVE Good(r) /\ (Calm(s) /\ InOrder(r, s) => Calm(r))
  <2>1. Good(r)
    BY <1>9, <1>13, <1>17, Now, SignalKeepsGood DEF Moved
  <2>2. r.sel # s.sel
    BY <1>3, <1>8, <1>17 DEF Moved, SamePage, SameFrame
  <2>3. ASSUME Calm(s), InOrder(r, s) PROVE Calm(r)
    <3>1. Trees(s) = {} /\ \A q \in s.polls : ~q.asked
      BY <2>2, <2>3 DEF InOrder
    <3>2. l.net = {}
      BY <1>3, <1>8, <1>15, <2>3, <3>1 DEF Trees
    <3>3. PollsFit(l) /\ \A q \in l.polls : ~q.asked
      BY <1>3, <1>8, <2>3, <3>1 DEF Calm, PollsFit, SamePage, SameFrame, SameParts
    <3> QED
      BY <1>8, <1>13, <1>16, <1>17, <2>3, <3>2, <3>3, Now, SignalKeepsCalm DEF Moved
  <2> QED
    BY <2>1, <2>3
<1>18. ASSUME Stayed(r, l) PROVE Good(r) /\ (Calm(s) /\ InOrder(r, s) => Calm(r))
  <2>1. SameParts(r, l) /\ r.net = l.net
    BY <1>18 DEF Stayed, SameParts
  <2>2. Good(r)
    BY <1>9, <1>13, <2>1, PartsKeepGood DEF Trees
  <2>3. ASSUME Calm(s) PROVE Calm(r)
    <3>1. SameParts(r, a)
      BY <1>8, <2>1 DEF SameParts
    <3>2. \A n \in r.net : n.kind = "tree" /\ n \in a.net
      BY <1>8, <1>15, <2>1, <2>3
    <3>3. Trees(r) = Trees(a) /\ OneAsked(r)
      BY <1>8, <2>1, <3>2 DEF Trees, OneAsked
    <3> QED
      BY <1>3, <1>13, <1>16, <2>3, <3>1, <3>2, <3>3, PartsKeepCalm
  <2> QED
    BY <2>2, <2>3
<1>19. Good(r) /\ (Calm(s) /\ InOrder(r, s) => Calm(r))
  BY <1>13, <1>17, <1>18
<1>20. Unasked /\ UNCHANGED repo /\ spent' \in 0 .. MaxEvents
  BY Now DEF GotList, TypeOK
<1> QED
  BY <1>1, <1>11, <1>19, <1>20, QuietStep

LEMMA Requests ==
  ASSUME NEW m \in Request
  PROVE  /\ m.kind = "list" => m.team \in TeamsOrNone
         /\ m.kind \in {"info", "tree"} => m.team \in TeamsOrNone /\ m.project \in Projects
         /\ m.kind = "tree" => m.rev \in Nat /\ m.auto \in BOOLEAN
         /\ m.kind = "create" => /\ m.team \in Teams /\ m.name \in Projects
                                 /\ m.from \in ProjectsOrNone
         /\ m.kind \in {"check", "zip"} => m.about \in Triples
         /\ m.kind = "zip" => m.checked \in Triples
BY DEF Request

(* An answer that only changes what the status bar offers. *)
LEMMA AnswerOffers ==
  ASSUME IInv, NEW m \in ui.net, m.kind # "tree", NEW o \in StatusBar,
         ui' = [Answered(m) EXCEPT !.offer = o],
         Unasked, UNCHANGED repo, spent' \in 0 .. MaxEvents
  PROVE  StepOK
<1>1. PICK a : a = Answered(m)
  OBVIOUS
<1>2. a \in Page /\ Good(a) /\ (Calm(ui) => Calm(a))
  BY <1>1, Answers
<1>3. PICK r : r = ui'
  OBVIOUS
<1>4. r = [a EXCEPT !.offer = o]
  BY <1>1, <1>3
<1>5. Good(r) /\ (Calm(a) => Calm(r))
  BY <1>2, <1>4, OfferKeeps
<1> QED
  BY <1>2, <1>3, <1>5, QuietStep

(* The user asks for something beside a listing; s is the page with what   *)
(* the status bar offers by then.                                          *)
LEMMA ClickAsks ==
  ASSUME IInv, NEW stale \in BOOLEAN, Clicks(stale), UNCHANGED repo,
         NEW s \in Page, SameParts(s, ui), s.list = ui.list, s.net = ui.net,
         NEW m \in Request, ui' = Ask(s, m),
         \/ m.kind = "create"
         \/ m.kind = "check" /\ m.about = Triple(s)
         \/ m.kind = "zip" /\ (~stale => m.about = m.checked)
  PROVE  StepOK
<1>1. PICK u \in Page : u = ui
  BY Now
<1>2. Good(s) /\ (Calm(u) => Calm(s))
  BY <1>1, Now, NothingAsked
<1>3. PICK r : r = ui'
  OBVIOUS
<1>4. r \in Page /\ SamePage(r, s) /\ r.flist = s.flist /\ r.net = s.net \cup {m}
  BY <1>3, Asks
<1>5. SameParts(r, s) /\ r.list = s.list /\ Triple(r) = Triple(s)
  BY <1>4 DEF SamePage, SameFrame, SameParts, Triple
<1>6. Good(r)
  BY <1>2, <1>4, <1>5, PartsKeepGood DEF Trees
<1>7. Calm(u) /\ Idle(u) /\ ~stale => Calm(r)
  <2>1. Idle(u) => s.net = Trees(s)
    BY <1>1 DEF Idle, Trees
  <2> QED
    BY <1>2, <1>4, <1>5, <2>1, AskKeepsCalm
<1> QED
  BY <1>1, <1>3, <1>6, <1>7, ClickStep

(* The user does what only changes what the status bar offers. *)
LEMMA ClickOffers ==
  ASSUME IInv, NEW stale \in BOOLEAN, Clicks(stale), UNCHANGED repo,
         NEW s \in Page, SameParts(s, ui), s.list = ui.list, s.net = ui.net,
         NEW o \in StatusBar, ui' = [s EXCEPT !.offer = o]
  PROVE  StepOK
<1>1. PICK u \in Page : u = ui
  BY Now
<1>2. Good(s) /\ (Calm(u) => Calm(s))
  BY <1>1, Now, NothingAsked
<1>3. PICK r : r = ui'
  OBVIOUS
<1>4. Good(r) /\ (Calm(s) => Calm(r))
  BY <1>2, <1>3, OfferKeeps
<1> QED
  BY <1>1, <1>2, <1>3, <1>4, ClickStep

(* A button was pressed: the status bar is cleared. *)
LEMMA Pressed ==
  ASSUME IInv, NEW s, s = [ui EXCEPT !.offer = NoOffer]
  PROVE  /\ s \in Page /\ SameParts(s, ui) /\ s.list = ui.list /\ s.net = ui.net
         /\ Triple(s) = Triple(ui) /\ s.team = ui.team /\ s.page = ui.page
<1>1. PICK u \in Page : u = ui
  BY Now
<1>2. PICK o \in StatusBar : o = NoOffer
  BY OffersTyped
<1>3. PICK r : r = [u EXCEPT !.offer = o]
  OBVIOUS
<1>4. r \in Page /\ SameParts(r, u) /\ r.list = u.list /\ r.net = u.net
  BY <1>3, OfferKeeps
<1>5. s = r
  BY <1>1, <1>2, <1>3
<1>6. Triple(s) = Triple(u) /\ s.team = u.team /\ s.page = u.page
  BY <1>4, <1>5 DEF SameParts, Triple
<1> QED
  BY <1>1, <1>4, <1>5, <1>6

LEMMA HandleExportKeeps ==
  ASSUME IInv, NEW stale \in BOOLEAN, Clicks(stale), UNCHANGED repo,
         NEW s \in Page, SameParts(s, ui), s.list = ui.list, s.net = ui.net,
         NEW unsaved \in BOOLEAN, ui' = HandleExport(s, unsaved)
  PROVE  StepOK
<1>1. PICK triple \in Triples : triple = Triple(s)
  BY OffersTyped
<1>2. CASE unsaved
  <2>1. PICK o \in StatusBar : o = Offer({"export unsaved"}, triple, None)
    BY OffersTyped
  <2>2. ui' = [s EXCEPT !.offer = o]
    BY <1>1, <1>2, <2>1 DEF HandleExport
  <2> QED
    BY <2>2, ClickOffers
<1>3. CASE ~unsaved
  <2>1. PICK m \in Request : m = CheckAsk(triple)
    BY DEF CheckAsk, Request
  <2>2. m.kind = "check" /\ m.about = Triple(s)
    BY <1>1, <2>1 DEF CheckAsk
  <2>3. ui' = Ask(s, m)
    BY <1>1, <1>3, <2>1 DEF HandleExport
  <2> QED
    BY <2>2, <2>3, ClickAsks
<1> QED
  BY <1>2, <1>3

LEMMA ClickExportKeeps ==
  ASSUME IInv, NEW unsaved \in BOOLEAN, ClickExport(unsaved)
  PROVE  StepOK
<1>1. PICK s \in Page : s = ui
  BY Now
<1>2. SameParts(s, ui) /\ s.list = ui.list /\ s.net = ui.net
  BY <1>1 DEF SameParts
<1>3. PICK stale \in BOOLEAN : stale = FALSE
  OBVIOUS
<1>4. Clicks(stale) /\ UNCHANGED repo /\ ui' = HandleExport(s, unsaved)
  BY <1>1, <1>3 DEF ClickExport
<1> QED
  BY <1>2, <1>4, HandleExportKeeps

LEMMA PressExportKeeps ==
  ASSUME IInv, NEW b, PressExport(b)
  PROVE  StepOK
<1>1. PICK s : s = [ui EXCEPT !.offer = NoOffer]
  OBVIOUS
<1>2. /\ s \in Page /\ SameParts(s, ui) /\ s.list = ui.list /\ s.net = ui.net
      /\ Triple(s) = Triple(ui)
  BY <1>1, Pressed
<1>3. PICK stale \in BOOLEAN : stale = (ui.offer.about # Triple(ui))
  <2>1. (ui.offer.about # Triple(ui)) \in BOOLEAN
    OBVIOUS
  <2> QED
    BY <2>1, Zenon
<1>4. Clicks(stale) /\ UNCHANGED repo
  BY <1>3 DEF PressExport
<1>5. CASE b \in {"export anyway", "retry export"} /\ ui' = ExportZip(s, ui.offer.about)
  <2>1. PICK o \in StatusBar : o = ui.offer
    BY Now, PageFields
  <2>2. b \in o.buttons
    BY <2>1 DEF PressExport
  <2>3. PICK checked \in Triples : checked = o.about
    BY <1>5, <2>2 DEF StatusBar
  <2>4. PICK triple \in Triples : triple = Triple(s)
    BY <1>2, OffersTyped
  <2>5. PICK m \in Request : m = ZipAsk(triple, checked)
    BY DEF ZipAsk, Request
  <2>6. m.kind = "zip" /\ m.about = triple /\ m.checked = checked
    BY <2>5 DEF ZipAsk
  <2>7. ~stale => m.about = m.checked
    BY <1>2, <1>3, <2>1, <2>3, <2>4, <2>6
  <2>8. ui' = Ask(s, m)
    BY <1>5, <2>1, <2>3, <2>4, <2>5 DEF ExportZip
  <2> QED
    BY <1>2, <1>4, <2>6, <2>7, <2>8, ClickAsks
<1>6. CASE \E unsaved \in BOOLEAN : ui' = HandleExport(s, unsaved)
  BY <1>2, <1>4, <1>6, HandleExportKeeps
<1> QED
  BY <1>1, <1>5, <1>6 DEF PressExport

(* Asking the server to create a project named name, or to copy one to it. *)
LEMMA CreateKeeps ==
  ASSUME IInv, NEW stale \in BOOLEAN, Clicks(stale), UNCHANGED repo,
         NEW s \in Page, SameParts(s, ui), s.list = ui.list, s.net = ui.net,
         NEW name \in Projects, NEW copies \in BOOLEAN, ui' = Create(s, name, copies)
  PROVE  StepOK
<1>1. PICK from \in ProjectsOrNone : from = IF copies THEN s.page.project ELSE None
  BY PageFields DEF ProjectsOrNone
<1>2. PICK m : m = CreateAsk(s.team, name, from)
  OBVIOUS
<1>3. m \in Request /\ m.kind = "create"
  BY <1>2, PageFields DEF CreateAsk, Request
<1>4. ui' = Ask(s, m)
  BY <1>1, <1>2 DEF Create
<1> QED
  BY <1>3, <1>4, ClickAsks

LEMMA ClickCreateKeeps ==
  ASSUME IInv, NEW p \in Projects, NEW copies \in BOOLEAN, ClickCreate(p, copies)
  PROVE  StepOK
<1>1. PICK s \in Page : s = ui
  BY Now
<1>2. SameParts(s, ui) /\ s.list = ui.list /\ s.net = ui.net
  BY <1>1 DEF SameParts
<1>3. PICK stale \in BOOLEAN : stale = FALSE
  OBVIOUS
<1>4. Clicks(stale) /\ UNCHANGED repo /\ ui' = Create(s, p, copies)
  BY <1>1, <1>3 DEF ClickCreate
<1> QED
  BY <1>2, <1>4, CreateKeeps

(* The buttons that create and copy again name a project. *)
LEMMA ButtonNames ==
  ASSUME NEW o \in StatusBar, "create" \in o.buttons \/ "copy" \in o.buttons
  PROVE  o.name \in Projects
BY DEF StatusBar

LEMMA PressCreateKeeps ==
  ASSUME IInv, PressCreate \/ PressCopy
  PROVE  StepOK
<1>1. PICK s : s = [ui EXCEPT !.offer = NoOffer]
  OBVIOUS
<1>2. s \in Page /\ SameParts(s, ui) /\ s.list = ui.list /\ s.net = ui.net
  BY <1>1, Pressed
<1>3. PICK o \in StatusBar : o = ui.offer
  BY Now, PageFields
<1>4. PICK name \in Projects : name = o.name
  BY <1>3, ButtonNames DEF PressCreate, PressCopy
<1>5. PICK stale \in BOOLEAN, copies \in BOOLEAN :
        Clicks(stale) /\ UNCHANGED repo /\ ui' = Create(s, name, copies)
  <2>1. CASE PressCreate
    <3>1. PICK stale \in BOOLEAN : stale = (ui.offer.about # <<ui.team>>)
      <4>1. (ui.offer.about # <<ui.team>>) \in BOOLEAN
        OBVIOUS
      <4> QED
        BY <4>1, Zenon
    <3>2. PICK copies \in BOOLEAN : copies = FALSE
      OBVIOUS
    <3>3. Clicks(stale) /\ UNCHANGED repo /\ ui' = Create(s, name, copies)
      BY <1>1, <1>3, <1>4, <2>1, <3>1, <3>2 DEF PressCreate
    <3> QED
      BY <3>3
  <2>2. CASE PressCopy
    <3>1. PICK stale \in BOOLEAN : stale = (ui.offer.about # <<ui.team, ui.page.project>>)
      <4>1. (ui.offer.about # <<ui.team, ui.page.project>>) \in BOOLEAN
        OBVIOUS
      <4> QED
        BY <4>1, Zenon
    <3>2. PICK copies \in BOOLEAN : copies = TRUE
      OBVIOUS
    <3>3. Clicks(stale) /\ UNCHANGED repo /\ ui' = Create(s, name, copies)
      BY <1>1, <1>3, <1>4, <2>2, <3>1, <3>2 DEF PressCopy
    <3> QED
      BY <3>3
  <2> QED
    BY <2>1, <2>2
<1> QED
  BY <1>2, <1>5, CreateKeeps

LEMMA ChecksKeep ==
  ASSUME IInv, NEW m \in ui.net, m.kind = "check", CheckFindsErrors(m) \/ CheckFails(m)
  PROVE  StepOK
<1>1. PICK about \in Triples : about = m.about
  BY Now, PageFields, Requests
<1>2. CASE CheckFindsErrors(m)
  <2>1. PICK o \in StatusBar : o = Offer({"export anyway"}, about, None)
    BY OffersTyped
  <2>2. /\ ui' = [Answered(m) EXCEPT !.offer = o]
        /\ Unasked /\ UNCHANGED repo /\ spent' \in 0 .. MaxEvents
    BY <1>1, <1>2, <2>1, Now DEF CheckFindsErrors, TypeOK
  <2> QED
    BY <2>2, AnswerOffers
<1>3. CASE CheckFails(m)
  <2>1. PICK o \in StatusBar : o = Offer({"retry check", "export anyway"}, about, None)
    BY OffersTyped
  <2>2. /\ ui' = [Answered(m) EXCEPT !.offer = o] /\ Unasked /\ UNCHANGED repo
    BY <1>1, <1>3, <2>1 DEF CheckFails
  <2>3. spent' \in 0 .. MaxEvents
    BY <1>3, FailStep DEF CheckFails
  <2> QED
    BY <2>2, <2>3, AnswerOffers
<1> QED
  BY <1>2, <1>3

LEMMA ZipsKeep ==
  ASSUME IInv, NEW m \in ui.net, m.kind = "zip", GotZip(m) \/ FailZip(m)
  PROVE  StepOK
<1>1. PICK checked \in Triples : checked = m.checked
  BY Now, PageFields, Requests
<1>2. CASE GotZip(m)
  <2>1. PICK o \in StatusBar : o = NoOffer
    BY OffersTyped
  <2>2. /\ ui' = [Answered(m) EXCEPT !.offer = o]
        /\ Unasked /\ UNCHANGED repo /\ spent' \in 0 .. MaxEvents
    BY <1>2, <2>1, Now DEF GotZip, TypeOK
  <2> QED
    BY <2>2, AnswerOffers
<1>3. CASE FailZip(m)
  <2>1. PICK o \in StatusBar : o = Offer({"retry export"}, checked, None)
    BY OffersTyped
  <2>2. /\ ui' = [Answered(m) EXCEPT !.offer = o] /\ Unasked /\ UNCHANGED repo
    BY <1>1, <1>3, <2>1 DEF FailZip
  <2>3. spent' \in 0 .. MaxEvents
    BY <1>3, FailStep DEF FailZip
  <2> QED
    BY <2>2, <2>3, AnswerOffers
<1> QED
  BY <1>2, <1>3

(* The check has passed: what is exported is what was checked, for what is *)
(* checked is what the page is on.                                         *)
LEMMA CheckPassesKeeps ==
  ASSUME IInv, NEW m \in ui.net, m.kind = "check", CheckPasses(m)
  PROVE  StepOK
<1>1. PICK s \in Page : s = ui
  BY Now
<1>2. PICK a : a = Answered(m)
  OBVIOUS
<1>3. /\ a \in Page /\ SamePage(a, s) /\ SameParts(a, s) /\ a.flist = s.flist
      /\ a.net = s.net \ {m} /\ Good(a) /\ (Calm(s) => Calm(a))
  BY <1>1, <1>2, Answers
<1>4. PICK triple \in Triples, checked \in Triples : triple = Triple(a) /\ checked = m.about
  BY <1>3, Now, PageFields, Requests, OffersTyped
<1>5. PICK zip \in Request : zip = ZipAsk(triple, checked)
  BY DEF ZipAsk, Request
<1>6. zip.kind = "zip" /\ zip.about = triple /\ zip.checked = checked
  BY <1>5 DEF ZipAsk
<1>7. PICK r : r = ui'
  OBVIOUS
<1>8. r = Ask(a, zip)
  BY <1>2, <1>4, <1>5, <1>7 DEF CheckPasses, ExportZip
<1>9. /\ r \in Page /\ SameParts(r, a) /\ r.list = a.list /\ r.net = a.net \cup {zip}
  BY <1>3, <1>8, Asks DEF SamePage, SameFrame, SameParts
<1>10. Good(r)
  BY <1>3, <1>6, <1>9, PartsKeepGood DEF Trees
<1>11. Calm(s) => Calm(r)
  <2>1. Calm(s) => a.net = Trees(a)
    BY <1>1, <1>3 DEF Calm, OneAsked, Trees
  <2>2. Calm(s) => triple = checked
    BY <1>1, <1>3, <1>4 DEF Calm, AskedFits, Triple, SameParts
  <2> QED
    BY <1>3, <1>6, <1>9, <2>1, <2>2, AskKeepsCalm
<1>12. Unasked /\ UNCHANGED repo /\ spent' \in 0 .. MaxEvents
  BY Now DEF CheckPasses, TypeOK
<1> QED
  BY <1>1, <1>7, <1>10, <1>11, <1>12, QuietStep

LEMMA FailInfoKeeps ==
  ASSUME IInv, NEW m \in ui.net, m.kind = "info", FailInfo(m)
  PROVE  StepOK
<1>1. PICK r : r = ui'
  OBVIOUS
<1>2. r = Answered(m) /\ Unasked /\ UNCHANGED repo
  BY <1>1 DEF FailInfo
<1>3. Good(r) /\ (Calm(ui) => Calm(r))
  BY <1>2, Answers
<1>4. PICK hopeless \in BOOLEAN : hopeless = ~Answerable(m)
  <2>1. (~Answerable(m)) \in BOOLEAN
    OBVIOUS
  <2> QED
    BY <2>1, Zenon
<1>5. spent' \in 0 .. MaxEvents
  BY <1>4, FailStep DEF FailInfo
<1> QED
  BY <1>1, <1>2, <1>3, <1>5, QuietStep

LEMMA FailListKeeps ==
  ASSUME IInv, NEW m \in ui.net, m.kind = "list", FailList(m)
  PROVE  StepOK
<1>1. PICK s \in Page : s = ui
  BY Now
<1>2. PICK a : a = Answered(m)
  OBVIOUS
<1>3. /\ a \in Page /\ SamePage(a, s) /\ SameParts(a, s) /\ a.net = s.net \ {m}
      /\ Good(a) /\ (Calm(s) => Calm(a))
  BY <1>1, <1>2, Answers
<1>4. PICK list : list = [a.list EXCEPT !.prompt = TRUE]
  OBVIOUS
<1>5. /\ list \in [projects : SUBSET Projects, team : TeamsOrNone,
                   loaded : BOOLEAN, prompt : BOOLEAN]
      /\ list.loaded = s.list.loaded
  BY <1>3, <1>4, PageFields DEF SamePage, SameFrame
<1>6. PICK o \in StatusBar : o = Offer({"list"}, Triple(ui), None)
  BY <1>1, OffersTyped
<1>7. PICK r : r = [a EXCEPT !.list = list, !.offer = o]
  OBVIOUS
<1>8. r \in Page /\ SameParts(r, a) /\ r.list = list /\ r.net = a.net
  BY <1>3, <1>5, <1>7 DEF Page, SameParts
<1>9. r = ui'
  <2>1. [a EXCEPT !.list.prompt = TRUE, !.offer = o] = r
    BY <1>3, <1>4, <1>7 DEF Page
  <2> QED
    BY <1>2, <1>6, <2>1 DEF FailList
<1>10. Good(r)
  BY <1>3, <1>8, PartsKeepGood DEF Trees
<1>11. ASSUME Calm(s) PROVE Calm(r)
  <2>1. ~r.list.loaded /\ \A n \in r.net : n.kind = "tree"
    BY <1>1, <1>3, <1>5, <1>8, <1>11 DEF Calm, AskedFits, OneAsked
  <2>2. OneAsked(r) /\ ListFits(r) /\ Trees(r) = Trees(a)
    BY <1>8, <2>1 DEF OneAsked, ListFits, Trees
  <2> QED
    BY <1>3, <1>8, <1>11, <2>1, <2>2, PartsKeepCalm
<1>12. PICK hopeless \in BOOLEAN : hopeless = (m.team = None)
  <2>1. (m.team = None) \in BOOLEAN
    OBVIOUS
  <2> QED
    BY <2>1, Zenon
<1>13. Unasked /\ UNCHANGED repo /\ spent' \in 0 .. MaxEvents
  BY <1>12, FailStep DEF FailList
<1> QED
  BY <1>1, <1>9, <1>10, <1>11, <1>13, QuietStep

(* Whoever waits for the list is not offered to ask for it again. *)
LEMMA PressListRetryKeeps == ASSUME IInv, PressListRetry PROVE StepOK
<1>1. PICK s : s = [ui EXCEPT !.offer = NoOffer]
  OBVIOUS
<1>2. /\ s \in Page /\ SameParts(s, ui) /\ s.list = ui.list /\ s.net = ui.net
  BY <1>1, Pressed
<1>3. Good(s)
  BY <1>2, Now, NothingAsked
<1>4. PICK r : r = ui'
  OBVIOUS
<1>5. PICK t \in TeamsOrNone : t = None
  BY DEF TeamsOrNone
<1>6. r = GrabList(s, t)
  BY <1>1, <1>4, <1>5 DEF PressListRetry
<1>7. /\ r \in Page /\ r.team = s.team /\ r.sel = s.sel /\ r.page = s.page
      /\ r.flist = s.flist /\ r.cal = s.cal /\ r.polls = s.polls
      /\ r.net = s.net \cup {ListAsk(t)}
  BY <1>2, <1>6, Grabs
<1>8. SameParts(r, s) /\ Trees(r) \subseteq Trees(s)
  BY <1>7 DEF SameParts, Trees, ListAsk
<1>9. Good(r)
  BY <1>3, <1>7, <1>8, PartsKeepGood
<1>10. ~(Calm(ui) /\ Idle(ui))
  BY DEF PressListRetry, Calm, ListFits, Idle
<1>11. FALSE \in BOOLEAN /\ Clicks(FALSE) /\ UNCHANGED repo
  BY DEF PressListRetry
<1> QED
  BY <1>4, <1>9, <1>10, <1>11, ClickStep

(* The page learns the newest revision, which what is displayed has.       *)
LEMMA GotInfoKeeps ==
  ASSUME IInv, NEW m \in ui.net, m.kind = "info", GotInfo(m)
  PROVE  StepOK
<1>1. PICK s \in Page : s = ui
  BY Now
<1>2. PICK a : a = Answered(m)
  OBVIOUS
<1>3. /\ a \in Page /\ SamePage(a, s) /\ SameParts(a, s) /\ a.flist = s.flist
      /\ a.net = s.net \ {m} /\ Good(a) /\ (Calm(s) => Calm(a))
  BY <1>1, <1>2, Answers
<1>4. PICK rev \in Nat : rev = Newest(m.team, m.project)
  BY Now, Revisions
<1>5. PICK r : r = ui'
  OBVIOUS
<1>6. r = WithRev(a, rev)
  BY <1>2, <1>4, <1>5 DEF GotInfo, WithRev
<1>7. r \in Page /\ SameButRev(r, a) /\ r.page.rev = rev
  BY <1>3, <1>6, LearnsRev
<1>8. Good(r)
  BY <1>3, <1>7 DEF SameButRev, Good, Agree, Selected, RevsExist
<1>9. ASSUME Calm(s) PROVE Calm(r)
  <2>1. m.team = s.sel.team /\ m.project = s.sel.project /\ \A n \in r.net : n.kind = "tree"
    BY <1>1, <1>3, <1>7, <1>9 DEF Calm, AskedFits, OneAsked, SameButRev
  <2>2. /\ r.team = s.team /\ r.list = s.list /\ r.sel = s.sel /\ r.flist = s.flist
        /\ r.polls = s.polls /\ r.page.project = s.sel.project /\ r.net \subseteq s.net
    BY <1>1, <1>3, <1>7, Now DEF SameButRev, SamePage, SameFrame, Good, Agree
  <2>3. OneAsked(r) /\ InfoFits(r) /\ AskedFits(r)
    BY <1>9, <2>1, <2>2 DEF Calm, OneAsked, InfoFits, AskedFits
  <2>4. ListFits(r) /\ PollsFit(r)
    BY <1>1, <1>9, <2>2, Now DEF Calm, ListFits, PollsFit, Good, Agree
  <2>5. s.page.project = s.sel.project
    BY <1>1, Now DEF Good, Agree
  <2>6. RevFits(r)
    <3> SUFFICES ASSUME r.sel.team = r.team, r.page.project # None
                 PROVE  /\ r.page.rev <= Newest(r.team, r.page.project)
                        /\ \A q \in r.polls : q.prev.rev <= r.page.rev
      BY DEF RevFits
    <3>1. rev = Newest(s.team, s.page.project)
      BY <1>4, <2>1, <2>2, <2>5
    <3>2. s.page.rev <= rev /\ \A q \in s.polls : q.prev.rev <= s.page.rev
      BY <1>9, <2>2, <2>5, <3>1 DEF Calm, RevFits
    <3>3. s.page.rev \in Nat /\ \A q \in s.polls : q.prev.rev \in Nat
      BY PageFields DEF Poll
    <3> QED
      BY <1>7, <2>2, <2>5, <3>1, <3>2, <3>3
  <2>7. ShownFits(r)
    <3> SUFFICES ASSUME Settled(r)
                 PROVE  /\ r.flist.dom.team = r.flist.team
                        /\ r.flist.dom.project = r.flist.project
                        /\ r.flist.dom.rev = r.flist.rev
                        /\ r.sel.team = r.team /\ r.flist.rev = HEAD =>
                             r.page.rev <= r.flist.dom.n
      BY DEF ShownFits
    <3>1. Settled(s)
      BY <1>1, <1>3, <1>7, <2>2, <2>5 DEF Settled, SameButRev
    <3>2. /\ s.flist.dom.team = s.flist.team /\ s.flist.dom.project = s.flist.project
          /\ s.flist.dom.rev = s.flist.rev
      BY <1>9, <3>1 DEF Calm, ShownFits
    <3>3. s.flist.project = s.sel.project /\ s.flist.team = s.sel.team
      BY <1>1, <2>5, <3>1, Now DEF Good, Agree, Settled
    <3>4. s.flist.dom # Loading
      BY <2>5, <3>1, <3>2, <3>3 DEF Loading, Settled
    <3>5. s.flist.dom.n = rev
      BY <1>1, <1>4, <1>9, <2>1, <3>2, <3>3, <3>4 DEF Calm, InfoFits
    <3> QED
      BY <1>7, <2>2, <3>2, <3>5
  <2> QED
    BY <2>3, <2>4, <2>6, <2>7 DEF Calm
<1>10. Unasked /\ UNCHANGED repo /\ spent' \in 0 .. MaxEvents
  BY Now DEF GotInfo, TypeOK
<1> QED
  BY <1>1, <1>5, <1>8, <1>9, <1>10, QuietStep

(* A click that only changes the selection. *)
LEMMA ClickSelects ==
  ASSUME IInv, Clicks(FALSE), UNCHANGED repo, NEW r, r = ui',
         r \in Page, SamePage(r, ui), r.net = ui.net, SameTask(r.flist, ui.flist),
         r.flist.dom = ui.flist.dom, Selected(ui) => Selected(r)
  PROVE  StepOK
<1>1. Good(r) /\ (Calm(ui) => Calm(r))
  BY Now, SelectionKeeps
<1>2. FALSE \in BOOLEAN
  OBVIOUS
<1> QED
  BY <1>1, <1>2, ClickStep

LEMMA ClickFileKeeps == ASSUME IInv, NEW x \in Paths, ClickFile(x) PROVE StepOK
<1>1. PICK s \in Page : s = ui
  BY Now
<1>2. PICK r : r = ui'
  OBVIOUS
<1>3. x \in Listed(s.flist.dom) /\ Clicks(FALSE) /\ UNCHANGED repo
  BY <1>1 DEF ClickFile
<1>4. /\ r \in Page /\ SamePage(r, s) /\ r.net = s.net /\ SameTask(r.flist, s.flist)
      /\ r.flist.dom = s.flist.dom /\ (Selected(s) => Selected(r))
  <2>1. CASE s.flist.chosen[x] = 0
    <3>1. PICK xs \in SUBSET Paths : xs = {x}
      OBVIOUS
    <3>2. r = Pick(s, xs)
      BY <1>1, <1>2, <2>1, <3>1 DEF ClickFile
    <3>3. /\ r \in Page /\ SamePage(r, s) /\ r.net = s.net
          /\ SameTask(r.flist, s.flist) /\ r.flist.dom = s.flist.dom
          /\ r.flist.lit = s.flist.lit \cup xs
          /\ Chosen(r.flist) = Chosen(s.flist) \cup xs
      BY <3>2, Picks
    <3> QED
      BY <1>3, <3>1, <3>3 DEF Selected
  <2>2. CASE s.flist.chosen[x] # 0
    <3>1. r = Unpick(s, x)
      BY <1>1, <1>2, <2>2 DEF ClickFile
    <3>2. /\ r \in Page /\ SamePage(r, s) /\ r.net = s.net
          /\ SameTask(r.flist, s.flist) /\ r.flist.dom = s.flist.dom
          /\ r.flist.lit = s.flist.lit \ {x}
          /\ Chosen(s.flist) \ {x} \subseteq Chosen(r.flist)
          /\ Chosen(r.flist) \subseteq Chosen(s.flist)
      BY <2>2, <3>1, Unpicks
    <3> QED
      BY <3>2 DEF Selected
  <2> QED
    BY <2>1, <2>2
<1> QED
  BY <1>1, <1>2, <1>3, <1>4, ClickSelects

LEMMA ListedPaths ==
  ASSUME TypeOK, NEW s, Good(s)
  PROVE  Listed(s.flist.dom) \in SUBSET Paths
<1>1. PICK d : d = s.flist.dom
  OBVIOUS
<1>2. CASE d.n = 0
  BY <1>1, <1>2 DEF Listed
<1>3. CASE d.n # 0
  <2>1. d.n \in 1 .. Newest(d.team, d.project)
    BY <1>1, <1>3 DEF Good, RevsExist, Loading
  <2>2. d.project \in Projects /\ repo[d.team][d.project][d.n] \in SUBSET Files
    BY <2>1, Revisions
  <2> QED
    BY <1>1, <1>3, <2>2 DEF Listed, Paths
<1> QED
  BY <1>2, <1>3

LEMMA ClickSelectKeeps ==
  ASSUME IInv, ClickSelectAll \/ ClickSelectNone
  PROVE  StepOK
<1>1. PICK s \in Page : s = ui
  BY Now
<1>2. PICK r : r = ui'
  OBVIOUS
<1>3. Clicks(FALSE) /\ UNCHANGED repo
  BY DEF ClickSelectAll, ClickSelectNone
<1>4. /\ r \in Page /\ SamePage(r, s) /\ r.net = s.net /\ SameTask(r.flist, s.flist)
      /\ r.flist.dom = s.flist.dom /\ (Selected(s) => Selected(r))
  <2>1. CASE ClickSelectAll
    <3>1. PICK xs \in SUBSET Paths : xs = Listed(s.flist.dom)
      BY <1>1, Now, ListedPaths
    <3>2. r = Pick(s, xs)
      BY <1>1, <1>2, <2>1, <3>1 DEF ClickSelectAll
    <3>3. /\ r \in Page /\ SamePage(r, s) /\ r.net = s.net
          /\ SameTask(r.flist, s.flist) /\ r.flist.dom = s.flist.dom
          /\ r.flist.lit = s.flist.lit \cup xs
          /\ Chosen(r.flist) = Chosen(s.flist) \cup xs
      BY <3>2, Picks
    <3> QED
      BY <3>1, <3>3 DEF Selected
  <2>2. CASE ClickSelectNone
    <3>1. r = SelectNone(s)
      BY <1>1, <1>2, <2>2 DEF ClickSelectNone
    <3>2. /\ r \in Page /\ SamePage(r, s) /\ r.net = s.net
          /\ SameTask(r.flist, s.flist) /\ r.flist.dom = s.flist.dom
          /\ r.flist.chosen = NothingChosen /\ r.flist.lit = {}
      BY <3>1, SelectsNone DEF SameTask
    <3> QED
      BY <3>2 DEF Selected, Chosen, NothingChosen
  <2> QED
    BY <2>1, <2>2
<1> QED
  BY <1>1, <1>2, <1>3, <1>4, ClickSelects

LEMMA PickDayKeeps == ASSUME IInv, PickDay PROVE StepOK
<1>1. PICK s \in Page : s = ui
  BY Now
<1>2. PICK r : r = ui'
  OBVIOUS
<1>3. Clicks(FALSE) /\ UNCHANGED repo
  BY DEF PickDay
<1>4. PICK f : f = [s.flist EXCEPT !.visible = FALSE]
  OBVIOUS
<1>5. /\ f \in FileList /\ SameTask(f, s.flist) /\ f.dom = s.flist.dom
      /\ f.lit = s.flist.lit /\ f.chosen = s.flist.chosen
  BY <1>4, PageFields DEF FileList, SameTask
<1>6. r = [s EXCEPT !.flist = f]
  BY <1>1, <1>2, <1>4 DEF PickDay
<1>7. r \in Page /\ SamePage(r, s) /\ r.net = s.net /\ r.flist = f
  BY <1>5, <1>6, ReplacedList
<1>8. Selected(s) => Selected(r)
  BY <1>5, <1>7 DEF Selected, Chosen
<1> QED
  BY <1>1, <1>2, <1>3, <1>5, <1>7, <1>8, ClickSelects

LEMMA RefreshStays ==
  ASSUME NEW s \in Page, Good(s), NEW auto \in BOOLEAN, auto => s.flist.rev = HEAD,
         NEW r, r = Refresh(s, auto)
  PROVE  Good(r) /\ (Calm(s) => Calm(r))
<1>1. /\ r \in Page /\ SamePage(r, s) /\ SameFiles(r.flist, s.flist)
      /\ s.flist.project = None => r = s
      /\ s.flist.project # None => r.net = s.net \cup {TreeAsk(s.flist, auto)} /\ ~r.flist.held
  BY Refreshes
<1>2. SameListing(r.flist, s.flist)
  BY <1>1 DEF SameFiles, SameListing
<1> QED
  BY <1>1, <1>2, RefreshKeeps

LEMMA CommitAnsweredKeeps == ASSUME IInv, CommitAnswered PROVE StepOK
<1>1. PICK s \in Page : s = ui
  BY Now
<1>2. PICK auto \in BOOLEAN : auto = FALSE
  OBVIOUS
<1>3. PICK r : r = ui'
  OBVIOUS
<1>4. r = Refresh(s, auto) /\ Clicks(FALSE) /\ UNCHANGED repo
  BY <1>1, <1>2, <1>3 DEF CommitAnswered
<1>5. Good(r) /\ (Calm(s) => Calm(r))
  BY <1>1, <1>2, <1>4, Now, RefreshStays
<1>6. FALSE \in BOOLEAN
  OBVIOUS
<1> QED
  BY <1>1, <1>3, <1>4, <1>5, <1>6, ClickStep

LEMMA PressTreeRetryKeeps == ASSUME IInv, PressTreeRetry PROVE StepOK
<1>1. PICK s : s = [ui EXCEPT !.offer = NoOffer]
  OBVIOUS
<1>2. /\ s \in Page /\ SameParts(s, ui) /\ s.list = ui.list /\ s.net = ui.net
  BY <1>1, Pressed
<1>3. Good(s) /\ (Calm(ui) => Calm(s))
  BY <1>2, Now, NothingAsked
<1>4. PICK auto \in BOOLEAN : auto = FALSE
  OBVIOUS
<1>5. PICK r : r = ui'
  OBVIOUS
<1>6. r = Refresh(s, auto) /\ Clicks(FALSE) /\ UNCHANGED repo
  BY <1>1, <1>4, <1>5 DEF PressTreeRetry
<1>7. Good(r) /\ (Calm(s) => Calm(r))
  BY <1>2, <1>3, <1>4, <1>6, RefreshStays
<1>8. FALSE \in BOOLEAN
  OBVIOUS
<1> QED
  BY <1>3, <1>5, <1>6, <1>7, <1>8, ClickStep

(* Another revision is asked for: the listing it replaces is gone.         *)
LEMMA ChangeRevKeeps == ASSUME IInv, NEW rev, ChangeRev(rev) PROVE StepOK
<1>1. PICK s \in Page : s = ui
  BY Now
<1>2. Good(s)
  BY <1>1, Now
<1>3. /\ s.sel.project # None
      /\ s.flist.project = s.sel.project /\ s.flist.team = s.sel.team
      /\ s.cal.project = s.sel.project /\ s.cal.team = s.sel.team
  BY <1>1, <1>2 DEF ChangeRev, Good, Agree
<1>4. PICK p \in Projects, t \in TeamsOrNone : p = s.flist.project /\ t = s.flist.team
  BY <1>3, PageFields DEF ProjectsOrNone
<1>5. rev \in Nat /\ rev <= Newest(t, p)
  BY <1>1, <1>3, <1>4, Now, Revisions DEF ChangeRev, HEAD
<1>6. PICK named \in BOOLEAN : named = TRUE
  OBVIOUS
<1>7. PICK r : r = ui'
  OBVIOUS
<1>8. r = UpdateTo(s, p, t, rev, named) /\ Clicks(FALSE) /\ UNCHANGED repo
  BY <1>1, <1>4, <1>6, <1>7 DEF ChangeRev
<1>9. PICK tree : tree = [kind |-> "tree", team |-> t, project |-> p, rev |-> rev,
                          auto |-> FALSE]
  OBVIOUS
<1>10. /\ tree.kind = "tree" /\ tree.team = t /\ tree.project = p /\ tree.rev = rev
       /\ ~tree.auto
  BY <1>9
<1>11. /\ r \in Page /\ SamePage(r, s) /\ r.net = s.net \cup {tree}
       /\ r.flist.project = p /\ r.flist.team = t /\ r.flist.rev = rev /\ ~r.flist.held
       /\ \/ r.flist.dom = Loading /\ r.flist.lit = {}
          \/ /\ r.flist.dom = s.flist.dom /\ r.flist.lit = s.flist.lit
             /\ r.flist.chosen = s.flist.chosen
  <2> HIDE DEF Replaces
  <2> QED
    BY <1>5, <1>8, <1>9, Updates
<1>12. Good(r)
  <2>1. Agree(r)
    BY <1>2, <1>3, <1>4, <1>11 DEF Good, Agree, SamePage, SameFrame
  <2>2. Selected(r)
    BY <1>2, <1>11 DEF Good, Selected, Chosen
  <2>3. RevsExist(r)
    BY <1>2, <1>5, <1>10, <1>11 DEF Good, RevsExist
  <2> QED
    BY <1>11, <2>1, <2>2, <2>3 DEF Good
<1>13. ASSUME Calm(s), Idle(s) PROVE Calm(r)
  <2>1. r.net = {tree}
    BY <1>11, <1>13 DEF Idle
  <2>2. OneAsked(r) /\ AskedFits(r) /\ InfoFits(r) /\ ~Settled(r)
    BY <1>10, <1>11, <2>1 DEF OneAsked, AskedFits, InfoFits, Settled
  <2>3. ListFits(r) /\ PollsFit(r) /\ RevFits(r)
    BY <1>11, <1>13 DEF Calm, ListFits, PollsFit, RevFits, SamePage, SameFrame
  <2> QED
    BY <2>2, <2>3 DEF Calm, ShownFits
<1>14. FALSE \in BOOLEAN
  OBVIOUS
<1> QED
  BY <1>1, <1>7, <1>8, <1>12, <1>13, <1>14, ClickStep

(* The listing that was asked for has come. *)
LEMMA GotTreeKeeps ==
  ASSUME IInv, NEW m \in ui.net, m.kind = "tree", GotTree(m)
  PROVE  StepOK
<1>1. PICK s \in Page : s = ui
  BY Now
<1>2. PICK a : a = Answered(m)
  OBVIOUS
<1>3. /\ a \in Page /\ SamePage(a, s) /\ a.flist = s.flist /\ a.net = s.net \ {m}
      /\ Good(a)
  BY <1>1, <1>2, Answers
<1>4. m \in Request /\ Newest(m.team, m.project) \in Nat /\ m.rev \in Nat
  BY Now, PageFields, Requests, Revisions
<1>5. Newest(m.team, m.project) > 0 /\ m.rev <= Newest(m.team, m.project)
  BY Now DEF GotTree, Answerable, Good, RevsExist
<1>6. PICK n \in 1 .. Newest(m.team, m.project) :
        n = IF m.rev = HEAD THEN Newest(m.team, m.project) ELSE m.rev
  BY <1>4, <1>5 DEF HEAD
<1>7. n \in Nat /\ n # 0
  BY <1>6
<1>8. PICK r : r = ui'
  OBVIOUS
<1>9. r = Received(a, m, n)
  BY <1>2, <1>6, <1>8 DEF GotTree
<1>10. PICK kept : kept = ({m.project} \X repo[m.team][m.project][n]) \cap Chosen(a.flist)
  OBVIOUS
<1>11. PICK dom : dom = [team |-> m.team, project |-> m.project, rev |-> m.rev, n |-> n]
  OBVIOUS
<1>12. /\ dom.team = m.team /\ dom.project = m.project /\ dom.rev = m.rev /\ dom.n = n
       /\ Listed(dom) = {m.project} \X repo[m.team][m.project][n]
  BY <1>7, <1>11 DEF Listed
<1>13. /\ r \in Page /\ SamePage(r, s) /\ r.net = s.net \ {m}
       /\ SameTask(r.flist, s.flist) /\ r.flist.dom = dom
       /\ r.flist.lit = kept /\ Chosen(r.flist) = kept
  <2>1. /\ r \in Page /\ SamePage(r, a) /\ r.net = a.net
        /\ SameTask(r.flist, a.flist) /\ r.flist.dom = dom
        /\ r.flist.lit = kept /\ Chosen(r.flist) = kept
    BY <1>3, <1>4, <1>7, <1>9, <1>10, <1>11, Receives
  <2> QED
    BY <1>3, <2>1 DEF SamePage, SameFrame
<1>14. Good(r)
  <2>1. Agree(r)
    BY <1>1, <1>13, Now DEF Good, Agree, SamePage, SameFrame, SameTask
  <2>2. Selected(r)
    BY <1>10, <1>12, <1>13 DEF Selected
  <2>3. RevsExist(r) /\ (r.flist.held => r.flist.timers > 0)
    BY <1>1, <1>6, <1>12, <1>13, Now DEF Good, RevsExist, SameTask
  <2> QED
    BY <1>13, <2>1, <2>2, <2>3 DEF Good
<1>15. ASSUME Calm(s) PROVE Calm(r)
  <2>1. /\ r.team = s.team /\ r.list = s.list /\ r.sel = s.sel /\ r.page = s.page
        /\ r.polls = s.polls /\ r.flist.team = s.flist.team
        /\ r.flist.project = s.flist.project /\ r.flist.rev = s.flist.rev
    BY <1>13 DEF SamePage, SameFrame, SameTask
  <2>2. Triple(r) = Triple(s)
    BY <2>1 DEF Triple
  <2>3. OneAsked(r) /\ AskedFits(r) /\ ListFits(r) /\ PollsFit(r) /\ RevFits(r)
    BY <1>13, <1>15, <2>1, <2>2
    DEF Calm, OneAsked, AskedFits, ListFits, PollsFit, RevFits
  <2>4. m.team = s.flist.team /\ m.project = s.flist.project /\ m.rev = s.flist.rev
    BY <1>1, <1>15 DEF Calm, AskedFits
  <2>5. s.flist.rev = HEAD => n = Newest(m.team, m.project)
    BY <1>6, <2>4
  <2>6. InfoFits(r)
    BY <1>12, <1>13, <1>15, <2>1, <2>5 DEF Calm, InfoFits
  <2>7. ShownFits(r)
    <3>1. s.page.project # None =>
            s.flist.project = s.page.project /\ s.flist.team = s.sel.team
      BY <1>1, Now DEF Good, Agree
    <3>2. s.page.project # None /\ s.sel.team = s.team /\ s.flist.rev = HEAD => s.page.rev <= n
      BY <1>15, <2>4, <2>5, <3>1 DEF Calm, RevFits
    <3> QED
      BY <1>12, <1>13, <2>1, <2>4, <3>2 DEF ShownFits, Settled
  <2> QED
    BY <2>3, <2>6, <2>7 DEF Calm
<1>16. Unasked /\ UNCHANGED repo /\ spent' \in 0 .. MaxEvents
  BY Now DEF GotTree, TypeOK
<1> QED
  BY <1>1, <1>8, <1>14, <1>15, <1>16, QuietStep

(* Nothing more is asked for, and the listing stays as it is. *)
LEMMA WaitKeeps ==
  ASSUME NEW s, NEW r \in Page, Good(s), SamePage(r, s), SameListing(r.flist, s.flist),
         r.net \subseteq s.net, r.flist.held => r.flist.timers > 0
  PROVE  Good(r) /\ (Calm(s) /\ (Settled(r) => Settled(s)) => Calm(r))
<1>1. Agree(r)
  BY DEF Good, Agree, SamePage, SameFrame, SameListing
<1>2. Selected(r) /\ RevsExist(r)
  BY DEF Good, Selected, RevsExist, SameListing, Chosen
<1>3. ASSUME Calm(s), Settled(r) => Settled(s) PROVE Calm(r)
  <2>1. Triple(r) = Triple(s)
    BY DEF Triple, SamePage, SameFrame, SameListing
  <2>2. OneAsked(r) /\ ListFits(r) /\ PollsFit(r) /\ RevFits(r)
    BY <1>3 DEF Calm, OneAsked, ListFits, PollsFit, RevFits, SamePage, SameFrame
  <2>3. AskedFits(r)
    BY <1>3, <2>1 DEF Calm, AskedFits, SamePage, SameFrame, SameListing
  <2>4. InfoFits(r)
    BY <1>3 DEF Calm, InfoFits, SameListing
  <2>5. ShownFits(r)
    BY <1>3 DEF Calm, ShownFits, SamePage, SameFrame, SameListing
  <2> QED
    BY <2>2, <2>3, <2>4, <2>5 DEF Calm
<1> QED
  BY <1>1, <1>2, <1>3 DEF Good

(* A listing that does not come is waited for, or the user is asked.       *)
LEMMA FailTreeKeeps ==
  ASSUME IInv, NEW m \in ui.net, m.kind = "tree", FailTree(m)
  PROVE  StepOK
<1>1. PICK s \in Page : s = ui
  BY Now
<1>2. PICK a : a = Answered(m)
  OBVIOUS
<1>3. /\ a \in Page /\ SamePage(a, s) /\ a.flist = s.flist /\ a.net = s.net \ {m}
      /\ Good(a)
  BY <1>1, <1>2, Answers
<1>4. Good(s)
  BY <1>1, Now
<1>5. /\ s.flist \in FileList /\ s.flist.timers \in Nat /\ s.flist.held \in BOOLEAN
      /\ s.flist.held => s.flist.timers > 0
  BY <1>4, PageFields, BoundsAssumption DEF FileList, Good
<1>6. PICK r : r = ui'
  OBVIOUS
<1>7. r.flist.timers <= MaxTimers
  BY <1>6 DEF FailTree
<1>8. Good(r) /\ (Calm(s) => Calm(r))
  <2>1. CASE ~m.auto
    <3>1. PICK f : f = [s.flist EXCEPT !.prompt = TRUE]
      OBVIOUS
    <3>2. /\ f \in FileList /\ SameListing(f, s.flist) /\ f.prompt
          /\ f.timers = s.flist.timers /\ f.held = s.flist.held
      BY <1>5, <3>1 DEF FileList, SameListing
    <3>3. PICK u : u = [a EXCEPT !.flist = f]
      OBVIOUS
    <3>4. u \in Page /\ SamePage(u, a) /\ u.flist = f /\ u.net = a.net
      BY <1>3, <3>2, <3>3, ReplacedList
    <3>5. SamePage(u, s) /\ u.net \subseteq s.net
      BY <1>3, <3>4 DEF SamePage, SameFrame
    <3>6. Good(u) /\ (Calm(s) => Calm(u))
      BY <1>4, <1>5, <3>2, <3>4, <3>5, WaitKeeps DEF Settled
    <3>7. PICK o \in StatusBar : o = Offer({"tree"}, Triple(a), None)
      BY <1>3, OffersTyped
    <3>8. r = [u EXCEPT !.offer = o]
      <4>1. [a EXCEPT !.flist.prompt = TRUE, !.offer = o] = [u EXCEPT !.offer = o]
        BY <1>3, <3>1, <3>3 DEF Page
      <4> QED
        BY <1>2, <1>6, <2>1, <3>7, <4>1 DEF FailTree
    <3> QED
      BY <3>4, <3>6, <3>8, OfferKeeps
  <2>2. CASE m.auto
    <3>1. PICK k \in Nat, held \in BOOLEAN :
            r = [a EXCEPT !.flist.timers = k, !.flist.held = held]
            /\ (held => k > 0)
            /\ (s.flist.rev = HEAD => k > 0)
      <4>1. CASE s.flist.rev # HEAD
        <5>1. PICK k \in Nat : k = s.flist.timers - IF s.flist.held THEN 1 ELSE 0
          BY <1>5
        <5>2. PICK held \in BOOLEAN : held = FALSE
          OBVIOUS
        <5>3. r = [a EXCEPT !.flist.timers = k, !.flist.held = held]
          BY <1>2, <1>3, <1>6, <2>2, <4>1, <5>1, <5>2 DEF FailTree
        <5> QED
          BY <4>1, <5>2, <5>3
      <4>2. CASE s.flist.rev = HEAD
        <5>1. PICK k \in Nat : k = s.flist.timers + IF s.flist.held THEN 0 ELSE 1
          BY <1>5
        <5>2. PICK held \in BOOLEAN : held = TRUE
          OBVIOUS
        <5>3. r = [a EXCEPT !.flist.timers = k, !.flist.held = held]
          BY <1>2, <1>3, <1>6, <2>2, <4>2, <5>1, <5>2 DEF FailTree
        <5>4. k > 0
          BY <1>5, <5>1
        <5> QED
          BY <5>3, <5>4
      <4> QED
        BY <4>1, <4>2
    <3>2. PICK f : f = [s.flist EXCEPT !.timers = k, !.held = held]
      OBVIOUS
    <3>3. r = [a EXCEPT !.flist = f]
      BY <1>3, <3>1, <3>2 DEF Page
    <3>4. r.flist = f /\ f.timers = k /\ f.held = held
      BY <1>3, <1>5, <3>2, <3>3 DEF Page, FileList
    <3>5. k \in 0 .. MaxTimers
      BY <1>7, <3>4, BoundsAssumption
    <3>6. f \in FileList /\ SameListing(f, s.flist)
      BY <1>5, <3>2, <3>5 DEF FileList, SameListing
    <3>7. r \in Page /\ SamePage(r, a) /\ r.net = a.net
      BY <1>3, <3>3, <3>6, ReplacedList
    <3>8. SamePage(r, s) /\ r.net \subseteq s.net
      BY <1>3, <3>7 DEF SamePage, SameFrame
    <3>9. Calm(s) => s.flist.rev = HEAD
      BY <1>1, <2>2 DEF Calm, AskedFits
    <3>10. Settled(r) => s.flist.rev # HEAD
      BY <3>1, <3>4, <3>6 DEF Settled, SameListing
    <3>11. SameListing(r.flist, s.flist) /\ (r.flist.held => r.flist.timers > 0)
      BY <3>1, <3>4, <3>6
    <3>12. Good(r) /\ (Calm(s) /\ (Settled(r) => Settled(s)) => Calm(r))
      BY <1>4, <3>7, <3>8, <3>11, WaitKeeps
    <3> QED
      BY <3>9, <3>10, <3>12
  <2> QED
    BY <2>1, <2>2
<1>9. PICK hopeless \in BOOLEAN : hopeless = ~Answerable(m)
  <2>1. (~Answerable(m)) \in BOOLEAN
    OBVIOUS
  <2> QED
    BY <2>1, Zenon
<1>10. Unasked /\ UNCHANGED repo /\ spent' \in 0 .. MaxEvents
  BY <1>9, FailStep DEF FailTree
<1> QED
  BY <1>1, <1>6, <1>8, <1>10, QuietStep

(* A timer has run out. *)
LEMMA TimerEndsKeeps == ASSUME IInv, NEW held \in BOOLEAN, TimerEnds(held) PROVE StepOK
<1>1. PICK s \in Page : s = ui
  BY Now
<1>2. Good(s)
  BY <1>1, Now
<1>3. /\ s.flist \in FileList /\ s.flist.timers \in 0 .. MaxTimers
      /\ s.flist.timers \in Nat /\ s.flist.held \in BOOLEAN
  BY PageFields, BoundsAssumption DEF FileList
<1>4. PICK k \in 0 .. MaxTimers : k = s.flist.timers - 1
  BY <1>1, <1>3, BoundsAssumption DEF TimerEnds
<1>5. PICK holds \in BOOLEAN : holds = (s.flist.held /\ ~held)
  <2>1. (s.flist.held /\ ~held) \in BOOLEAN
    OBVIOUS
  <2> QED
    BY <2>1, Zenon
<1>6. ASSUME holds PROVE k > 0
  <2>1. s.flist.held /\ ~held
    BY <1>5, <1>6, Zenon
  <2>2. s.flist.timers > 1
    BY <1>1, <2>1 DEF TimerEnds
  <2> QED
    BY <1>3, <1>4, <2>2
<1>7. PICK f : f = [s.flist EXCEPT !.timers = k, !.held = holds]
  OBVIOUS
<1>8. /\ f \in FileList /\ SameListing(f, s.flist) /\ f.timers = k /\ f.held = holds
      /\ f.prompt = s.flist.prompt
  BY <1>3, <1>7 DEF FileList, SameListing
<1>9. PICK u : u = [s EXCEPT !.flist = f]
  OBVIOUS
<1>10. u \in Page /\ SamePage(u, s) /\ u.flist = f /\ u.net = s.net
  BY <1>8, <1>9, ReplacedList
<1>11. PICK r : r = ui'
  OBVIOUS
<1>12. r = AutoRefresh(u)
  <2>1. [s EXCEPT !.flist.timers = @ - 1, !.flist.held = @ /\ ~held] = u
    BY <1>3, <1>4, <1>5, <1>7, <1>9 DEF Page
  <2> QED
    BY <1>1, <1>11, <2>1 DEF TimerEnds
<1>13. Good(r) /\ (Calm(s) => Calm(r))
  <2>1. CASE f.rev = HEAD /\ f.project # None
    <3>1. PICK auto \in BOOLEAN : auto = TRUE
      OBVIOUS
    <3>2. /\ r \in Page /\ SamePage(r, u) /\ SameFiles(r.flist, f)
          /\ r.net = s.net \cup {TreeAsk(f, auto)} /\ ~r.flist.held
      BY <1>10, <1>12, <2>1, <3>1, AutoRefreshes
    <3>3. SamePage(r, s) /\ SameListing(r.flist, s.flist) /\ s.flist.rev = HEAD
      BY <1>8, <1>10, <2>1, <3>2 DEF SamePage, SameFrame, SameFiles, SameListing
    <3>4. TreeAsk(f, auto) = TreeAsk(s.flist, auto)
      BY <1>8 DEF TreeAsk, SameListing
    <3> QED
      BY <1>2, <3>2, <3>3, <3>4, RefreshKeeps
  <2>2. CASE ~(f.rev = HEAD /\ f.project # None)
    <3>1. r = u
      BY <1>10, <1>12, <2>2, AutoRefreshes
    <3>2. s.page.project # None => s.flist.project # None
      BY <1>2 DEF Good, Agree
    <3>3. Settled(r) => Settled(s)
      BY <1>8, <1>10, <2>2, <3>1, <3>2 DEF Settled, SamePage, SameListing
    <3> QED
      BY <1>2, <1>6, <1>8, <1>10, <3>1, <3>3, WaitKeeps
  <2> QED
    BY <2>1, <2>2
<1>14. Unasked /\ UNCHANGED repo /\ spent' \in 0 .. MaxEvents
  BY Now DEF TimerEnds, TypeOK
<1> QED
  BY <1>1, <1>11, <1>13, <1>14, QuietStep

(* One poll is noted with what it has been told. *)
WithPoll(s, old, new) == [s EXCEPT !.polls = (s.polls \ {old}) \cup {new}]

LEMMA PollEdited ==
  ASSUME NEW s \in Page, Good(s), NEW old, NEW new \in Poll,
         old \in s.polls \/ ~new.current,
         new.current = old.current, new.team = old.team, new.project = old.project,
         NEW r, r = WithPoll(s, old, new)
  PROVE  /\ Good(r) /\ r.sel = s.sel
         /\ Calm(s) /\ old \in s.polls
              /\ (s.page.project # None /\ s.sel.team = s.team => new.prev.rev <= s.page.rev)
            => Calm(r)
<1>1. PICK polls \in SUBSET Poll : polls = (s.polls \ {old}) \cup {new}
  BY PageFields
<1>2. r = [s EXCEPT !.polls = polls]
  BY <1>1 DEF WithPoll
<1>3. /\ r \in Page /\ r.polls = polls /\ r.team = s.team /\ r.list = s.list /\ r.sel = s.sel
      /\ r.page = s.page /\ r.flist = s.flist /\ r.cal = s.cal /\ r.net = s.net
  BY <1>2 DEF Page
<1>4. Agree(r)
  <2>1. \A q, x \in polls : q.current /\ x.current => q = x
    BY <1>1 DEF Good, Agree
  <2>2. s.sel.project # None =>
          \E q \in polls : q.current /\ q.project = s.sel.project /\ q.team = s.team
    <3> SUFFICES ASSUME s.sel.project # None
                 PROVE  \E q \in polls : q.current /\ q.project = s.sel.project
                                         /\ q.team = s.team
      OBVIOUS
    <3>1. PICK q \in s.polls : q.current /\ q.project = s.sel.project /\ q.team = s.team
      BY DEF Good, Agree
    <3>2. CASE q = old
      BY <1>1, <3>1, <3>2
    <3>3. CASE q # old
      BY <1>1, <3>1, <3>3
    <3> QED
      BY <3>2, <3>3
  <2> QED
    BY <1>3, <2>1, <2>2 DEF Good, Agree
<1>5. Good(r)
  BY <1>3, <1>4 DEF Good, Selected, RevsExist
<1>6. ASSUME Calm(s), old \in s.polls,
             s.page.project # None /\ s.sel.team = s.team => new.prev.rev <= s.page.rev
      PROVE  Calm(r)
  <2>1. OneAsked(r) /\ AskedFits(r) /\ ListFits(r) /\ InfoFits(r)
    BY <1>3, <1>6 DEF Calm, OneAsked, AskedFits, ListFits, InfoFits, Triple
  <2>2. PollsFit(r) /\ RevFits(r)
    BY <1>1, <1>3, <1>6 DEF Calm, PollsFit, RevFits
  <2>3. ShownFits(r)
    BY <1>3, <1>6 DEF Calm, ShownFits, Settled
  <2> QED
    BY <2>1, <2>2, <2>3 DEF Calm
<1> QED
  BY <1>3, <1>5, <1>6

LEMMA PollWaitsKeeps ==
  ASSUME IInv, NEW q \in ui.polls, PollAsks(q) \/ PollFails(q)
  PROVE  StepOK
<1>1. PICK s \in Page : s = ui
  BY Now
<1>2. q \in Poll
  BY <1>1, PageFields
<1>3. PICK asked \in BOOLEAN : ui' = [ui EXCEPT !.polls = (@ \ {q})
                                        \cup {[q EXCEPT !.asked = asked]}]
  BY DEF PollAsks, PollFails
<1>4. PICK new : new = [q EXCEPT !.asked = asked]
  OBVIOUS
<1>5. /\ new \in Poll /\ new.current = q.current /\ new.team = q.team
      /\ new.project = q.project /\ new.prev = q.prev
  BY <1>2, <1>4 DEF Poll
<1>6. PICK r : r = ui'
  OBVIOUS
<1>7. r = WithPoll(s, q, new)
  BY <1>1, <1>3, <1>4, <1>6 DEF WithPoll
<1>8. Calm(s) /\ s.page.project # None /\ s.sel.team = s.team => new.prev.rev <= s.page.rev
  BY <1>1, <1>5 DEF Calm, RevFits
<1>9. Good(r) /\ (Calm(s) => Calm(r))
  BY <1>1, <1>5, <1>7, <1>8, Now, PollEdited
<1>10. Unasked /\ UNCHANGED repo /\ spent' \in 0 .. MaxEvents
  BY Now DEF PollAsks, PollFails, TypeOK
<1> QED
  BY <1>1, <1>6, <1>9, <1>10, QuietStep

(* The answer to a poll is taken. Where the selector stays, the page knows *)
(* the newest revision from now on, and has asked for its listing.         *)
LEMMA PollChangedKeeps ==
  ASSUME TypeOK, NEW s, Good(s), NEW q, NEW got \in [projects : SUBSET Projects, rev : Nat],
         NEW r, r = PollChanged(s, q, got)
  PROVE  /\ Good(r)
         /\ /\ Calm(s) /\ r.sel = s.sel /\ q \in s.polls
            /\ got.projects = Exist(q.team) /\ got.rev = Newest(q.team, q.project)
            => /\ Calm(r) /\ r.polls = s.polls /\ r.page.project = s.page.project
               /\ s.page.project # None => r.page.rev = got.rev
<1>1. s \in Page
  BY DEF Good
<1>2. PICK l \in Page, a \in Page, b \in Page :
        /\ SameButProjects(l, s)
        /\ l.list.projects \in {s.list.projects, got.projects}
        /\ Moved(a, l) \/ Stayed(a, l)
        /\ SameButRev(b, a)
        /\ b.page.rev = IF a.page.project = None THEN a.page.rev
                        ELSE IF a.page.project = q.project THEN got.rev ELSE 0
        /\ \/ r = b /\ b.page = a.page
           \/ r = AutoRefresh(b)
  BY <1>1, PollChanges
<1>3. Good(l)
  <2>1. SameParts(l, s) /\ Trees(l) \subseteq Trees(s)
    BY <1>2 DEF SameButProjects, SameParts, Trees
  <2> QED
    BY <1>2, <2>1, PartsKeepGood
<1>4. Good(a)
  <2>1. CASE Moved(a, l)
    BY <1>2, <1>3, <2>1, SignalKeepsGood DEF Moved
  <2>2. CASE Stayed(a, l)
    <3>1. SameParts(a, l) /\ Trees(a) \subseteq Trees(l)
      BY <2>2 DEF Stayed, SameParts, Trees
    <3> QED
      BY <1>2, <1>3, <3>1, PartsKeepGood
  <2> QED
    BY <1>2, <2>1, <2>2
<1>5. Good(b)
  BY <1>2, <1>4 DEF SameButRev, Good, Agree, Selected, RevsExist
<1>6. PICK auto \in BOOLEAN : auto = TRUE
  OBVIOUS
<1>7. Good(r)
  <2>1. CASE r = b
    BY <1>5, <2>1
  <2>2. CASE r = AutoRefresh(b)
    <3>1. CASE b.flist.rev = HEAD
      <4>1. r = Refresh(b, auto)
        BY <1>6, <2>2, <3>1 DEF AutoRefresh
      <4> QED
        BY <1>2, <1>5, <3>1, <4>1, RefreshStays
    <3>2. CASE b.flist.rev # HEAD
      BY <1>5, <2>2, <3>2 DEF AutoRefresh
    <3> QED
      BY <3>1, <3>2
  <2> QED
    BY <1>2, <2>1, <2>2
<1>8. r \in Page
  BY <1>7 DEF Good
<1>9. /\ SamePage(r, b) /\ SameFiles(r.flist, b.flist)
      /\ \/ r = b /\ (b.page = a.page \/ ~(b.flist.rev = HEAD /\ b.flist.project # None))
         \/ r.net = b.net \cup {TreeAsk(b.flist, TRUE)}
  <2>1. CASE r = b /\ b.page = a.page
    BY <2>1 DEF SamePage, SameFrame, SameFiles
  <2>2. CASE r = AutoRefresh(b)
    BY <1>2, <2>2, AutoRefreshes
  <2> QED
    BY <1>2, <2>1, <2>2
<1>10. ASSUME Calm(s), r.sel = s.sel, q \in s.polls,
              got.projects = Exist(q.team), got.rev = Newest(q.team, q.project)
       PROVE  /\ Calm(r) /\ r.polls = s.polls /\ r.page.project = s.page.project
              /\ s.page.project # None => r.page.rev = got.rev
  <2>1. r.sel = a.sel /\ l.sel = s.sel
    BY <1>2, <1>9 DEF SameButRev, SameButProjects, SamePage, SameFrame
  <2>2. Stayed(a, l)
    BY <1>2, <1>10, <2>1 DEF Moved
  <2>3. /\ b.team = s.team /\ b.sel.project = s.sel.project /\ b.sel.team = s.sel.team
        /\ b.flist = s.flist /\ b.cal = s.cal /\ b.polls = s.polls /\ b.net = s.net
        /\ b.page.project = s.page.project /\ a.page = s.page
        /\ b.list = l.list /\ l.list.team = s.list.team /\ l.list.loaded = s.list.loaded
        /\ l.list.prompt = s.list.prompt
    BY <1>2, <2>2 DEF SameButRev, SameButProjects, Stayed
  <2>4. /\ r.team = s.team /\ r.list = l.list /\ r.cal = s.cal /\ r.polls = s.polls
        /\ r.page = b.page /\ SameFiles(r.flist, s.flist)
    BY <1>9, <2>3 DEF SamePage, SameFrame
  <2>5. /\ \/ r.net = s.net /\ r.flist = s.flist
              /\ (r.page = s.page \/ ~(s.flist.rev = HEAD /\ s.flist.project # None))
           \/ r.net = s.net \cup {TreeAsk(s.flist, TRUE)}
    BY <1>9, <2>3, <2>4
  <2>6. q.team = s.team /\ q.project = s.page.project
    BY <1>10 DEF Calm, PollsFit
  <2>7. s.page.project # None => r.page.rev = Newest(s.team, s.page.project)
    BY <1>2, <1>10, <2>3, <2>4, <2>6
  <2>8. Triple(r) = Triple(s)
    BY <2>3, <2>4 DEF Triple, SameFiles
  <2> DEFINE tree == TreeAsk(s.flist, TRUE)
  <2>9. /\ tree.kind = "tree" /\ tree.team = s.flist.team /\ tree.project = s.flist.project
        /\ tree.rev = s.flist.rev
    BY DEF TreeAsk
  <2>10. s.net \subseteq r.net /\ r.net \subseteq s.net \cup {tree}
    BY <2>5
  <2>11. r.net = s.net \cup {tree} => s.flist.rev = HEAD
    <3>1. CASE r = b
      <4>1. s.net \cup {tree} = s.net => tree \in s.net
        OBVIOUS
      <4>2. tree.auto
        BY DEF TreeAsk
      <4> HIDE DEF tree
      <4> QED
        BY <1>10, <2>3, <2>9, <3>1, <4>1, <4>2 DEF Calm, AskedFits
    <3>2. CASE r # b
      BY <1>2, <2>3, <3>2 DEF AutoRefresh
    <3> QED
      BY <3>1, <3>2
  <2> HIDE DEF tree
  <2>12. OneAsked(r)
    BY <1>10, <2>9, <2>10 DEF Calm, OneAsked
  <2>13. AskedFits(r)
    <3>1. \A m \in s.net :
          /\ m.kind = "list" => /\ m.team = r.team /\ r.list.team = r.team
                                /\ ~r.list.loaded /\ ~r.list.prompt
          /\ m.kind = "info" => m.team = r.sel.team /\ m.project = r.sel.project
          /\ m.kind = "tree" => /\ m.team = r.flist.team /\ m.project = r.flist.project
                                /\ m.rev = r.flist.rev
                                /\ m.auto => m.rev = HEAD
          /\ m.kind = "check" => m.about = Triple(r)
          /\ m.kind = "zip" => m.about = m.checked
      BY <1>10, <2>3, <2>4, <2>8 DEF Calm, AskedFits, SameFiles
    <3>2. tree \in r.net =>
            /\ tree.team = r.flist.team /\ tree.project = r.flist.project
            /\ tree.rev = r.flist.rev
            /\ tree.auto => tree.rev = HEAD
      <4>1. tree \in r.net /\ tree \notin s.net => r.net = s.net \cup {tree}
        BY <2>10
      <4> QED
        BY <2>4, <2>9, <2>11, <3>1, <4>1 DEF SameFiles
    <3> QED
      BY <2>9, <2>10, <3>1, <3>2 DEF AskedFits
  <2>14. ListFits(r)
    BY <1>2, <1>10, <2>3, <2>4, <2>6 DEF Calm, ListFits
  <2>15. PollsFit(r)
    BY <1>10, <2>3, <2>4 DEF Calm, PollsFit
  <2>16. RevFits(r)
    <3> SUFFICES ASSUME r.sel.team = r.team, r.page.project # None
                 PROVE  /\ r.page.rev <= Newest(r.team, r.page.project)
                        /\ \A x \in r.polls : x.prev.rev <= r.page.rev
      BY DEF RevFits
    <3>1. r.page.project = s.page.project
      BY <2>3, <2>4
    <3>2. r.page.rev = Newest(s.team, s.page.project)
      BY <2>7, <3>1
    <3>3. s.page.rev <= r.page.rev /\ \A x \in s.polls : x.prev.rev <= s.page.rev
      BY <1>10, <2>4, <3>1, <3>2 DEF Calm, RevFits
    <3>4. s.page.rev \in Nat /\ r.page.rev \in Nat /\ \A x \in s.polls : x.prev.rev \in Nat
      BY <1>1, <1>8, PageFields DEF Poll
    <3> QED
      BY <2>4, <3>1, <3>2, <3>3, <3>4
  <2>17. InfoFits(r)
    BY <1>10, <2>4, <2>9, <2>10 DEF Calm, InfoFits, SameFiles
  <2>18. ShownFits(r)
    <3>1. CASE tree \in r.net
      BY <2>9, <3>1 DEF ShownFits, Settled
    <3>2. CASE tree \notin r.net
      <4>1. /\ r.net = s.net /\ r.flist = s.flist
            /\ (r.page = s.page \/ ~(s.flist.rev = HEAD /\ s.flist.project # None))
        BY <2>5, <3>2 DEF tree
      <4>2. r.page.project # None => s.flist.project # None
        BY <2>3, <2>4 DEF Good, Agree
      <4>3. Settled(r) => Settled(s)
        BY <2>3, <2>4, <4>1 DEF Settled
      <4>4. Settled(r) /\ r.flist.rev = HEAD => r.page = s.page
        BY <4>1, <4>2 DEF Settled
      <4> QED
        BY <1>10, <2>4, <4>1, <4>3, <4>4 DEF Calm, ShownFits
    <3> QED
      BY <3>1, <3>2
  <2> QED
    BY <1>10, <2>3, <2>4, <2>6, <2>7, <2>12, <2>13, <2>14, <2>15, <2>16, <2>17, <2>18 DEF Calm
<1> QED
  BY <1>7, <1>10

LEMMA PollAnswersKeeps ==
  ASSUME IInv, NEW q \in ui.polls, PollAnswers(q)
  PROVE  StepOK
<1>1. PICK s \in Page : s = ui
  BY Now
<1>2. q \in Poll /\ q \in s.polls
  BY <1>1, PageFields
<1>3. Good(s) /\ TypeOK
  BY <1>1, Now
<1>4. PICK got \in [projects : SUBSET Projects, rev : Nat] :
        got = [projects |-> Exist(q.team), rev |-> Newest(q.team, q.project)]
  <2>1. Exist(q.team) \in SUBSET Projects /\ Newest(q.team, q.project) \in Nat
    BY <1>3, Revisions DEF Exist
  <2> QED
    BY <2>1
<1>5. got.projects = Exist(q.team) /\ got.rev = Newest(q.team, q.project)
  BY <1>4
<1>6. PICK u : u = IF got = q.prev THEN s ELSE PollChanged(s, q, got)
  OBVIOUS
<1>7. /\ Good(u)
      /\ Calm(s) /\ u.sel = s.sel
         => /\ Calm(u) /\ u.polls = s.polls /\ u.page.project = s.page.project
            /\ s.page.project # None /\ u.sel.team = u.team => got.rev <= u.page.rev
  <2>1. CASE got = q.prev
    BY <1>2, <1>3, <1>6, <2>1 DEF Calm, RevFits
  <2>2. CASE got # q.prev
    <3>1. u = PollChanged(s, q, got)
      BY <1>6, <2>2
    <3>2. Good(u)
      BY <1>3, <3>1, PollChangedKeeps
    <3>3. Calm(s) /\ u.sel = s.sel
          => /\ Calm(u) /\ u.polls = s.polls /\ u.page.project = s.page.project
             /\ s.page.project # None => u.page.rev = got.rev
      BY <1>2, <1>3, <1>5, <3>1, PollChangedKeeps
    <3>4. got.rev <= got.rev
      OBVIOUS
    <3> QED
      BY <3>2, <3>3, <3>4
  <2> QED
    BY <2>1, <2>2
<1>8. u \in Page
  BY <1>7 DEF Good
<1>9. PICK now \in Poll :
        /\ now = IF q \in u.polls THEN q ELSE [q EXCEPT !.current = FALSE]
        /\ now \in u.polls \/ ~now.current
        /\ q \in u.polls => now = q
  <2>1. CASE q \in u.polls
    BY <1>2, <2>1
  <2>2. CASE q \notin u.polls
    <3>1. PICK now : now = [q EXCEPT !.current = FALSE]
      OBVIOUS
    <3>2. now \in Poll /\ ~now.current
      BY <1>2, <3>1 DEF Poll
    <3> QED
      BY <2>2, <3>1, <3>2
  <2> QED
    BY <2>1, <2>2
<1>10. PICK new : new = [now EXCEPT !.asked = FALSE, !.prev = got]
  OBVIOUS
<1>11. /\ new \in Poll /\ new.current = now.current /\ new.team = now.team
       /\ new.project = now.project /\ new.prev = got
  BY <1>9, <1>10 DEF Poll
<1>12. PICK r : r = ui'
  OBVIOUS
<1>13. r = WithPoll(u, now, new)
  BY <1>1, <1>4, <1>6, <1>9, <1>10, <1>12 DEF PollAnswers, WithPoll
<1>14. /\ Good(r) /\ r.sel = u.sel
       /\ Calm(u) /\ now \in u.polls
            /\ (u.page.project # None /\ u.sel.team = u.team => new.prev.rev <= u.page.rev)
          => Calm(r)
  <2>1. Good(u) /\ (now \in u.polls \/ ~new.current)
    BY <1>7, <1>9, <1>11
  <2>2. new \in Poll /\ new.current = now.current /\ new.team = now.team
        /\ new.project = now.project
    BY <1>11
  <2> QED
    BY <1>8, <1>13, <2>1, <2>2, PollEdited
<1>15. Calm(s) /\ InOrder(r, s) => Calm(r)
  <2>1. q.asked
    BY DEF PollAnswers
  <2>2. InOrder(r, s) => u.sel = s.sel
    BY <1>2, <1>14, <2>1 DEF InOrder
  <2> QED
    BY <1>2, <1>7, <1>9, <1>11, <1>14, <2>2
<1>16. Unasked /\ UNCHANGED repo /\ spent' \in 0 .. MaxEvents
  BY <1>3 DEF PollAnswers, TypeOK
<1> QED
  BY <1>1, <1>12, <1>14, <1>15, <1>16, QuietStep

-----------------------------------------------------------------------------
(* The steps in which the server's projects grow: revisions are added, and *)
(* none is changed.                                                        *)

Grown == \A t \in Teams, p \in Projects :
           /\ Len(repo[t][p]) <= Len(repo'[t][p])
           /\ \A n \in 1 .. Len(repo[t][p]) : repo'[t][p][n] = repo[t][p][n]

LEMMA GrownRevisions ==
  ASSUME TypeOK, Grown, repo' \in [Teams -> [Projects -> Seq(SUBSET Files)]]
  PROVE  /\ \A t, p : Newest(t, p) \in Nat /\ Newest(t, p)' \in Nat
         /\ \A t, p : Newest(t, p) <= Newest(t, p)'
         /\ \A t \in Teams : Exist(t) \subseteq Exist(t)'
         /\ \A d : d.n \in 1 .. Newest(d.team, d.project) => Listed(d)' = Listed(d)
<1>1. \A t, p : Newest(t, p) \in Nat /\ Newest(t, p)' \in Nat
  <2> TAKE t, p
  <2>1. CASE t \in Teams /\ p \in Projects
    <3>1. PICK a \in Seq(SUBSET Files), b \in Seq(SUBSET Files) :
            a = repo[t][p] /\ b = repo'[t][p]
      BY <2>1 DEF TypeOK
    <3>2. Len(a) \in Nat /\ Len(b) \in Nat
      OBVIOUS
    <3> QED
      BY <2>1, <3>1, <3>2 DEF Newest
  <2>2. CASE ~(t \in Teams /\ p \in Projects)
    BY <2>2 DEF Newest
  <2> QED
    BY <2>1, <2>2
<1>2. \A t, p : Newest(t, p) <= Newest(t, p)'
  BY <1>1 DEF Newest, Grown
<1>3. \A t \in Teams : Exist(t) \subseteq Exist(t)'
  <2> SUFFICES ASSUME NEW t \in Teams, NEW p \in Projects, repo[t][p] # <<>>
               PROVE  repo'[t][p] # <<>>
    BY DEF Exist
  <2>1. PICK a \in Seq(SUBSET Files), b \in Seq(SUBSET Files) :
          a = repo[t][p] /\ b = repo'[t][p]
    BY DEF TypeOK
  <2>2. Len(a) <= Len(b)
    BY <2>1 DEF Grown
  <2>3. a # <<>>
    BY <2>1
  <2>4. b # <<>>
    BY <2>2, <2>3
  <2> QED
    BY <2>1, <2>4
<1>4. ASSUME NEW d, d.n \in 1 .. Newest(d.team, d.project) PROVE Listed(d)' = Listed(d)
  <2>1. d.team \in Teams /\ d.project \in Projects
    BY <1>4, Revisions
  <2>2. repo'[d.team][d.project][d.n] = repo[d.team][d.project][d.n]
    BY <1>4, <2>1 DEF Grown, Newest
  <2> QED
    BY <2>2 DEF Listed
<1> QED
  BY <1>1, <1>2, <1>3, <1>4

LEMMA GrowKeepsGood ==
  ASSUME TypeOK, Grown, repo' \in [Teams -> [Projects -> Seq(SUBSET Files)]],
         NEW s, Good(s)
  PROVE  Good(s)'
<1>1. s \in Page /\ s.flist \in FileList
  BY PageFields DEF Good
<1>2. Agree(s)'
  BY DEF Good, Agree
<1>3. Selected(s)'
  <2>1. s.flist.lit \subseteq Chosen(s.flist)'
    BY DEF Good, Selected, Chosen
  <2>2. s.flist.dom # Loading => Listed(s.flist.dom)' = Listed(s.flist.dom)
    BY GrownRevisions DEF Good, RevsExist
  <2> QED
    BY <2>1, <2>2 DEF Good, Selected, Chosen
<1>4. RevsExist(s)'
  <2>1. s.flist.rev \in Nat /\ \A m \in s.net : m.kind = "tree" => m.rev \in Nat
    BY <1>1, PageFields, Requests DEF FileList
  <2>2. s.flist.rev <= Newest(s.flist.team, s.flist.project)'
    BY <2>1, GrownRevisions DEF Good, RevsExist
  <2>3. \A m \in s.net : m.kind = "tree" => m.rev <= Newest(m.team, m.project)'
    <3> TAKE m \in s.net
    <3>1. CASE m.kind = "tree"
      <4>1. m.rev <= Newest(m.team, m.project) /\ m.rev \in Nat
        BY <2>1, <3>1 DEF Good, RevsExist
      <4> QED
        BY <4>1, GrownRevisions
    <3> QED
      BY <3>1
  <2>4. s.flist.dom # Loading =>
          s.flist.dom.n \in 1 .. Newest(s.flist.dom.team, s.flist.dom.project)'
    BY GrownRevisions DEF Good, RevsExist
  <2> QED
    BY <2>2, <2>3, <2>4 DEF RevsExist
<1> QED
  BY <1>1, <1>2, <1>3, <1>4 DEF Good

LEMMA GrowKeepsCalm ==
  ASSUME TypeOK, Grown, repo' \in [Teams -> [Projects -> Seq(SUBSET Files)]],
         NEW s \in Page, Calm(s), \A m \in s.net : m.kind # "info"
  PROVE  Calm(s)'
<1>1. OneAsked(s)' /\ AskedFits(s)' /\ PollsFit(s)' /\ ShownFits(s)'
  BY DEF Calm, OneAsked, AskedFits, PollsFit, ShownFits
<1>2. InfoFits(s)'
  BY DEF InfoFits
<1>3. ListFits(s)'
  <2>1. Exist(s.team) \subseteq Exist(s.team)'
    BY PageFields, GrownRevisions
  <2> QED
    BY <2>1 DEF Calm, ListFits
<1>4. RevFits(s)'
  <2>1. s.page.rev \in Nat
    BY PageFields
  <2>2. /\ Newest(s.team, s.page.project) <= Newest(s.team, s.page.project)'
        /\ Newest(s.team, s.page.project) \in Nat /\ Newest(s.team, s.page.project)' \in Nat
    BY GrownRevisions
  <2> QED
    BY <2>1, <2>2 DEF Calm, RevFits
<1> QED
  BY <1>1, <1>2, <1>3, <1>4 DEF Calm

(* Whoever has waited for everything does not wait for what is the newest  *)
(* revision while it grows.                                                *)
LEMMA RepoStep ==
  ASSUME IInv, Grown, repo' \in [Teams -> [Projects -> Seq(SUBSET Files)]],
         NEW r, r = ui', Good(r),
         ~raced' => Calm(r) /\ \A m \in r.net : m.kind # "info",
         raced' \in BOOLEAN, spent' \in 0 .. MaxEvents
  PROVE  StepOK
<1>1. r \in Page /\ TypeOK
  BY Now DEF Good
<1>2. Good(r)'
  BY <1>1, GrowKeepsGood
<1>3. ~raced' => Calm(r)'
  BY <1>1, GrowKeepsCalm
<1>4. PageInv'
  BY <1>2, <1>3 DEF PageInv
<1> QED
  BY <1>4 DEF StepOK

LEMMA RevisionsAdded ==
  ASSUME TypeOK, NEW t \in Teams, NEW p \in Projects, NEW revs \in Seq(SUBSET Files),
         Len(repo[t][p]) <= Len(revs),
         \A n \in 1 .. Len(repo[t][p]) : revs[n] = repo[t][p][n],
         repo' = [repo EXCEPT ![t][p] = revs]
  PROVE  Grown /\ repo' \in [Teams -> [Projects -> Seq(SUBSET Files)]]
<1>1. repo \in [Teams -> [Projects -> Seq(SUBSET Files)]]
  BY DEF TypeOK
<1>2. repo' \in [Teams -> [Projects -> Seq(SUBSET Files)]]
  BY <1>1
<1>3. ASSUME NEW u \in Teams, NEW q \in Projects
      PROVE  repo'[u][q] = IF u = t /\ q = p THEN revs ELSE repo[u][q]
  BY <1>1
<1>4. \A u \in Teams, q \in Projects : Len(repo[u][q]) \in Nat
  BY <1>1
<1> QED
  BY <1>2, <1>3, <1>4 DEF Grown

LEMMA CommitKeeps ==
  ASSUME IInv, NEW t \in Teams, NEW p \in Projects, NEW f \in Files, Commit(t, p, f)
  PROVE  StepOK
<1>1. TypeOK /\ ui \in Page /\ Good(ui)
  BY Now
<1>2. PICK old \in Seq(SUBSET Files) : old = repo[t][p]
  BY <1>1 DEF TypeOK
<1>3. Len(old) \in 1 .. Len(old)
  BY <1>2 DEF Commit
<1>4. PICK files \in SUBSET Files :
        files = IF f \in old[Len(old)] THEN old[Len(old)] \ {f} ELSE old[Len(old)] \cup {f}
  <2>1. old[Len(old)] \in SUBSET Files
    BY <1>3
  <2> QED
    BY <2>1
<1>5. PICK revs : revs = Append(old, files)
  OBVIOUS
<1>6. /\ revs \in Seq(SUBSET Files) /\ Len(old) <= Len(revs)
      /\ \A n \in 1 .. Len(old) : revs[n] = old[n]
  BY <1>5
<1>7. repo' = [repo EXCEPT ![t][p] = revs]
  BY <1>2, <1>4, <1>5 DEF Commit, Newest
<1>8. Grown /\ repo' \in [Teams -> [Projects -> Seq(SUBSET Files)]]
  BY <1>1, <1>2, <1>6, <1>7, RevisionsAdded
<1>9. PICK r : r = ui'
  OBVIOUS
<1>10. r = ui /\ Others
  BY <1>9 DEF Commit
<1>11. spent' \in 0 .. MaxEvents /\ raced' \in BOOLEAN
  BY <1>1, <1>10, BoundsAssumption DEF Others, TypeOK
<1>12. ~raced' => Calm(r) /\ r.net = {}
  BY <1>10 DEF Others, Busy, IInv, PageInv
<1> QED
  BY <1>1, <1>8, <1>9, <1>10, <1>11, <1>12, RepoStep

LEMMA OtherCreatesKeeps ==
  ASSUME IInv, NEW t \in Teams, NEW p \in Projects, OtherCreates(t, p)
  PROVE  StepOK
<1>1. TypeOK /\ ui \in Page /\ Good(ui)
  BY Now
<1>2. PICK revs : revs = <<{}>>
  OBVIOUS
<1>3. revs \in Seq(SUBSET Files) /\ Len(revs) = 1
  BY <1>2
<1>4. repo[t][p] = <<>> /\ repo' = [repo EXCEPT ![t][p] = revs]
  BY <1>2 DEF OtherCreates
<1>5. Grown /\ repo' \in [Teams -> [Projects -> Seq(SUBSET Files)]]
  <2>1. Len(repo[t][p]) = 0
    BY <1>4
  <2>2. Len(repo[t][p]) <= Len(revs) /\ \A n \in 1 .. Len(repo[t][p]) : revs[n] = repo[t][p][n]
    BY <1>3, <2>1
  <2> QED
    BY <1>1, <1>3, <1>4, <2>2, RevisionsAdded
<1>6. PICK r : r = ui'
  OBVIOUS
<1>7. r = ui /\ Others
  BY <1>6 DEF OtherCreates
<1>8. spent' \in 0 .. MaxEvents /\ raced' \in BOOLEAN
  BY <1>1, <1>7, BoundsAssumption DEF Others, TypeOK
<1>9. ~raced' => Calm(r) /\ r.net = {}
  BY <1>7 DEF Others, Busy, IInv, PageInv
<1> QED
  BY <1>1, <1>5, <1>6, <1>7, <1>8, <1>9, RepoStep

LEMMA CreatedGrows ==
  ASSUME IInv, NEW m \in ui.net, m.kind = "create", repo' = Created(m) \/ repo' = repo
  PROVE  Grown /\ repo' \in [Teams -> [Projects -> Seq(SUBSET Files)]]
<1>1. /\ TypeOK
      /\ m.team \in Teams /\ m.name \in Projects /\ m.from \in ProjectsOrNone
  BY Now, PageFields, Requests
<1>2. CASE repo' = repo
  <2>1. repo \in [Teams -> [Projects -> Seq(SUBSET Files)]]
    BY <1>1 DEF TypeOK
  <2>2. \A t \in Teams, p \in Projects : Len(repo[t][p]) \in Nat
    BY <2>1
  <2> QED
    BY <1>2, <2>1, <2>2 DEF Grown
<1>3. CASE repo' = Created(m)
  <2>1. PICK old \in Seq(SUBSET Files) : old = repo[m.team][m.name]
    BY <1>1 DEF TypeOK
  <2>2. PICK revs \in Seq(SUBSET Files) :
          revs = IF old # <<>> THEN old
                 ELSE IF m.from = None THEN <<{}>> ELSE repo[m.team][m.from]
    <3>1. <<{}>> \in Seq(SUBSET Files)
      OBVIOUS
    <3>2. m.from # None => repo[m.team][m.from] \in Seq(SUBSET Files)
      BY <1>1 DEF TypeOK, ProjectsOrNone
    <3> QED
      BY <3>1, <3>2
  <2>3. Len(old) <= Len(revs) /\ \A n \in 1 .. Len(old) : revs[n] = old[n]
    BY <2>2
  <2>4. repo' = [repo EXCEPT ![m.team][m.name] = revs]
    BY <1>3, <2>1, <2>2 DEF Created
  <2> QED
    BY <1>1, <2>1, <2>3, <2>4, RevisionsAdded
<1> QED
  BY <1>2, <1>3

LEMMA GotCreateKeeps ==
  ASSUME IInv, NEW m \in ui.net, m.kind = "create", NEW focus \in BOOLEAN, GotCreate(m, focus)
  PROVE  StepOK
<1>1. PICK s \in Page : s = ui
  BY Now
<1>2. PICK a : a = Answered(m)
  OBVIOUS
<1>3. /\ a \in Page /\ SamePage(a, s) /\ SameParts(a, s) /\ a.net = s.net \ {m}
      /\ Good(a) /\ (Calm(s) => Calm(a))
  BY <1>1, <1>2, Answers
<1>4. Grown /\ repo' \in [Teams -> [Projects -> Seq(SUBSET Files)]]
  BY CreatedGrows DEF GotCreate
<1>5. PICK r : r = ui'
  OBVIOUS
<1>6. Calm(s) => \A n \in a.net : n.kind = "tree"
  BY <1>1, <1>3 DEF Calm, OneAsked
<1>7. Good(r) /\ (Calm(s) => Calm(r) /\ \A n \in r.net : n.kind # "info")
  <2>1. CASE ~focus
    <3>1. r = a
      BY <1>2, <1>5, <2>1 DEF GotCreate
    <3> QED
      BY <1>3, <1>6, <3>1
  <2>2. CASE focus
    <3>1. PICK sel : sel = [a.sel EXCEPT !.trans = m.name]
      OBVIOUS
    <3>2. m.name \in ProjectsOrNone
      BY <1>1, PageFields, Requests DEF ProjectsOrNone
    <3>3. /\ sel \in [project : ProjectsOrNone, team : TeamsOrNone, trans : ProjectsOrNone]
          /\ sel.project = a.sel.project /\ sel.team = a.sel.team
      BY <1>3, <3>1, <3>2, PageFields
    <3>4. PICK u : u = [a EXCEPT !.sel = sel]
      OBVIOUS
    <3>5. u \in Page /\ SameParts(u, a) /\ u.net = a.net
      BY <1>3, <3>3, <3>4 DEF Page, SameParts
    <3>6. Good(u)
      BY <1>3, <3>5, PartsKeepGood DEF Trees
    <3>7. PICK t \in TeamsOrNone : t = s.team
      BY PageFields DEF TeamsOrNone
    <3>8. r = GrabList(u, t)
      <4>1. [a EXCEPT !.sel.trans = m.name] = u
        BY <1>3, <3>1, <3>4 DEF Page
      <4> QED
        BY <1>1, <1>2, <1>5, <2>2, <3>7, <4>1 DEF GotCreate
    <3>9. PICK list : list = ListAsk(t)
      OBVIOUS
    <3>10. list.kind = "list" /\ list.team = t
      BY <3>9 DEF ListAsk
    <3>11. /\ r \in Page
           /\ r.team = u.team /\ r.sel = u.sel /\ r.page = u.page /\ r.flist = u.flist
           /\ r.cal = u.cal /\ r.polls = u.polls
           /\ r.list.team = t /\ ~r.list.loaded /\ ~r.list.prompt
           /\ r.net = u.net \cup {list}
      BY <3>5, <3>8, <3>9, Grabs
    <3>12. SameParts(r, u) /\ SameParts(r, a) /\ r.team = t
      BY <1>3, <3>5, <3>7, <3>11 DEF SameParts
    <3>13. Trees(r) = Trees(a)
      BY <3>5, <3>10, <3>11 DEF Trees
    <3>14. Good(r)
      BY <1>3, <3>11, <3>12, <3>13, PartsKeepGood
    <3>15. ASSUME Calm(s) PROVE Calm(r) /\ \A n \in r.net : n.kind # "info"
      <4>1. \A n \in r.net : n = list \/ (n.kind = "tree" /\ n \in a.net)
        BY <1>6, <3>5, <3>11, <3>15
      <4>2. OneAsked(r) /\ ListFits(r)
        BY <3>11, <4>1 DEF OneAsked, ListFits
      <4>3. \A n \in r.net : n.kind \in {"list", "check", "zip"} =>
              /\ n.kind = "list" => /\ n.team = r.team /\ r.list.team = r.team
                                    /\ ~r.list.loaded /\ ~r.list.prompt
              /\ n.kind = "check" => n.about = Triple(r)
              /\ n.kind = "zip" => n.about = n.checked
        BY <3>10, <3>11, <3>12, <4>1
      <4>4. \A n \in r.net : n.kind # "info"
        BY <3>10, <4>1
      <4>5. Calm(a)
        BY <1>3, <3>15
      <4>6. Calm(r)
        BY <1>3, <3>11, <3>12, <3>13, <4>2, <4>3, <4>4, <4>5, PartsKeepCalm
      <4> QED
        BY <4>4, <4>6
    <3> QED
      BY <3>14, <3>15
  <2> QED
    BY <2>1, <2>2
<1>8. spent' \in 0 .. MaxEvents /\ raced' \in BOOLEAN /\ (~raced' => Calm(s))
  BY <1>1, Now DEF GotCreate, Unasked, TypeOK, IInv, PageInv
<1> QED
  BY <1>4, <1>5, <1>7, <1>8, RepoStep

LEMMA FailCreateKeeps ==
  ASSUME IInv, NEW m \in ui.net, m.kind = "create", NEW done \in BOOLEAN, FailCreate(m, done)
  PROVE  StepOK
<1>1. PICK s \in Page : s = ui
  BY Now
<1>2. PICK a : a = Answered(m)
  OBVIOUS
<1>3. /\ a \in Page /\ a.net = s.net \ {m} /\ Good(a) /\ (Calm(s) => Calm(a))
  BY <1>1, <1>2, Answers
<1>4. Grown /\ repo' \in [Teams -> [Projects -> Seq(SUBSET Files)]]
  BY CreatedGrows DEF FailCreate
<1>5. PICK b : b = IF m.from = None THEN "create" ELSE "copy"
  OBVIOUS
<1>6. PICK about \in Seq(TeamsOrNone \cup ProjectsOrNone) :
        about = IF m.from = None THEN <<m.team>> ELSE <<m.team, m.from>>
  <2>1. PICK x \in TeamsOrNone \cup ProjectsOrNone, y \in TeamsOrNone \cup ProjectsOrNone :
          x = m.team /\ y = m.from
    BY <1>1, PageFields, Requests DEF TeamsOrNone
  <2>2. /\ <<x>> \in Seq(TeamsOrNone \cup ProjectsOrNone)
        /\ <<x, y>> \in Seq(TeamsOrNone \cup ProjectsOrNone)
    OBVIOUS
  <2> QED
    BY <2>1, <2>2
<1>7. PICK name \in Projects : name = m.name
  BY <1>1, PageFields, Requests
<1>8. PICK o : o = Offer({b}, about, name)
  OBVIOUS
<1>9. o \in StatusBar
  <2>1. {b} \in {{"create"}, {"copy"}}
    BY <1>5
  <2> QED
    BY <1>8, <2>1 DEF Offer, StatusBar
<1>10. PICK r : r = ui'
  OBVIOUS
<1>11. r = [a EXCEPT !.offer = o]
  BY <1>2, <1>5, <1>6, <1>7, <1>8, <1>10 DEF FailCreate
<1>12. Good(r) /\ (Calm(a) => Calm(r)) /\ r.net = a.net
  BY <1>3, <1>9, <1>11, OfferKeeps
<1>13. Calm(s) => \A n \in r.net : n.kind # "info"
  BY <1>1, <1>3, <1>12 DEF Calm, OneAsked
<1>14. PICK hopeless \in BOOLEAN : hopeless = ~Creatable(m)
  <2>1. (~Creatable(m)) \in BOOLEAN
    OBVIOUS
  <2> QED
    BY <2>1, Zenon
<1>15. spent' \in 0 .. MaxEvents
  BY <1>14, FailStep DEF FailCreate
<1>16. raced' \in BOOLEAN /\ (~raced' => Calm(s))
  BY <1>1, Now DEF FailCreate, Unasked, TypeOK, IInv, PageInv
<1> QED
  BY <1>3, <1>4, <1>10, <1>12, <1>13, <1>15, <1>16, RepoStep

-----------------------------------------------------------------------------
(* The page as it is loaded, and every step. *)

LEMMA InitIInv == Init => IInv
<1> SUFFICES ASSUME Init PROVE IInv
  OBVIOUS
<1>1. PICK t \in Teams : ui = SetTeam(Blank, t)
  BY DEF Init
<1>2. PICK u : u = [Blank EXCEPT !.team = t, !.page.pane = FALSE, !.page.initted = TRUE]
  OBVIOUS
<1>3. /\ u.team = t /\ u.sel.project = None /\ u.sel.team = None
      /\ u.page.project = None /\ u.page.rev = 0
      /\ u.flist.rev = HEAD /\ u.flist.timers = 0 /\ ~u.flist.held
      /\ u.flist.dom = Loading /\ u.flist.lit = {}
      /\ u.cal.project = None /\ u.cal.team = None /\ u.polls = {} /\ u.net = {}
      /\ u.cal = [project |-> None, team |-> None]
  BY <1>2 DEF Blank
<1>4. u \in Page
  <2>1. NoOffer \in StatusBar
    BY OffersTyped
  <2>2. PICK f : f = [project |-> None, team |-> None, rev |-> HEAD, robot |-> FALSE,
                      chosen |-> NothingChosen, timers |-> 0, held |-> FALSE,
                      prompt |-> FALSE, dom |-> Loading, lit |-> {}, visible |-> FALSE]
    OBVIOUS
  <2>3. 0 \in 0 .. MaxTimers /\ HEAD \in Nat /\ None \in TeamsOrNone /\ None \in ProjectsOrNone
    BY BoundsAssumption DEF HEAD, TeamsOrNone, ProjectsOrNone
  <2>4. f \in FileList
    BY <2>2, <2>3, Nothing DEF FileList
  <2>5. u = [team  |-> t,
             list  |-> [projects |-> {}, team |-> None, loaded |-> FALSE, prompt |-> FALSE],
             sel   |-> [project |-> None, team |-> None, trans |-> None],
             page  |-> [initted |-> TRUE, project |-> None, rev |-> 0, pane |-> FALSE],
             flist |-> f,
             cal   |-> [project |-> None, team |-> None],
             last  |-> None,
             polls |-> {},
             net   |-> {},
             offer |-> NoOffer]
    BY <1>2, <2>2 DEF Blank
  <2> QED
    BY <2>1, <2>3, <2>4, <2>5 DEF Page
<1>5. PICK r : r = ui
  OBVIOUS
<1>6. r = GrabList(SetupPolling(u), u.team)
  BY <1>1, <1>2, <1>3, <1>5 DEF SetTeam
<1>7. /\ r \in Page /\ r.team = t /\ r.sel = u.sel /\ r.page = u.page /\ r.flist = u.flist
      /\ r.cal = u.cal /\ r.list.team = t /\ ~r.list.loaded /\ ~r.list.prompt
      /\ r.net = {ListAsk(t)} /\ r.polls = {}
  <2>1. Left(u) = {}
    BY <1>3 DEF Left
  <2>2. /\ r \in Page
        /\ r.team = u.team /\ r.sel = u.sel /\ r.page = u.page /\ r.flist = u.flist
        /\ r.cal = u.cal
        /\ r.list.team = u.team /\ ~r.list.loaded /\ ~r.list.prompt
        /\ r.net = u.net \cup {ListAsk(u.team)}
        /\ u.page.project = None => r.polls = Left(u)
    BY <1>4, <1>6, SetsTeam
  <2> QED
    BY <1>3, <2>1, <2>2
<1>8. PICK list : list = ListAsk(t)
  OBVIOUS
<1>9. list.kind = "list" /\ list.team = t /\ r.net = {list}
  BY <1>7, <1>8 DEF ListAsk
<1>10. TypeOK
  <2>1. repo \in [Teams -> [Projects -> Seq(SUBSET Files)]]
    BY NamesAssumption DEF Init
  <2>2. raced \in BOOLEAN /\ habit \in Habits /\ spent \in 0 .. MaxEvents
    <3>1. raced = FALSE /\ habit = "none" /\ spent = 0
      BY DEF Init
    <3>2. habit \in Habits /\ spent \in 0 .. MaxEvents
      BY <3>1, BoundsAssumption DEF Habits
    <3> QED
      BY <3>1, <3>2
  <2>3. ui \in Page /\ ~ui.flist.held
    BY <1>3, <1>5, <1>7
  <2> QED
    BY <2>1, <2>2, <2>3 DEF TypeOK
<1>11. Agree(r) /\ Selected(r)
  BY <1>3, <1>7 DEF Agree, Selected
<1>12. RevsExist(r)
  <2>1. HEAD <= Newest(r.flist.team, r.flist.project)
    BY <1>10, Revisions DEF HEAD
  <2> QED
    BY <1>3, <1>7, <1>9, <2>1 DEF RevsExist
<1>13. Good(r)
  BY <1>3, <1>7, <1>11, <1>12 DEF Good
<1>14. OneAsked(r) /\ AskedFits(r) /\ ListFits(r) /\ PollsFit(r) /\ InfoFits(r)
  BY <1>7, <1>9 DEF OneAsked, AskedFits, ListFits, PollsFit, InfoFits
<1>15. RevFits(r) /\ ShownFits(r)
  BY <1>3, <1>7 DEF RevFits, ShownFits, Settled
<1>16. PageInv
  BY <1>5, <1>13, <1>14, <1>15 DEF PageInv, Calm
<1> QED
  BY <1>10, <1>16 DEF IInv

(* The user's habit is the first thing done beside choosing.               *)
LEMMA HabitTyped ==
  ASSUME IInv, Next
  PROVE  habit' \in Habits
<1>1. habit \in Habits
  BY DEF IInv, TypeOK
<1>2. \A h \in {"files", "projects", "exports"} : Habit(h) => habit' \in Habits
  BY DEF Habit, Habits
<1>3. CASE User
  <2>1. CASE UNCHANGED habit
    BY <1>1, <2>1
  <2>2. CASE Habit("files") \/ Habit("projects") \/ Habit("exports")
    BY <1>2, <2>2
  <2> QED
    BY <1>3, <2>1, <2>2 DEF User
<1>4. Unasked \/ Others => UNCHANGED habit
  BY DEF Unasked, Others
<1>5. World => Others
  BY DEF World, Commit, OtherCreates
<1>6. GetLists \/ GetTrees \/ GetInfos \/ GetCreated \/ GetChecks \/ GetZips => Unasked
  BY DEF GetLists, GetTrees, GetInfos, GetCreated, GetChecks, GetZips, GotList, FailList,
         GotTree, FailTree, GotInfo, FailInfo, GotCreate, FailCreate, CheckPasses,
         CheckFindsErrors, CheckFails, GotZip, FailZip
<1>7. Timers \/ (\E q \in ui.polls : Polling(q)) => Unasked
  BY DEF Timers, TimerEnds, Polling, PollAsks, PollAnswers, PollFails
<1> QED
  BY <1>1, <1>3, <1>4, <1>5, <1>6, <1>7 DEF Next

LEMMA UserKeeps == ASSUME IInv, User PROVE StepOK
<1>1. CASE \E t \in Teams : SelectTeam(t)
  BY <1>1, SelectTeamKeeps
<1>2. CASE \E p \in Projects : SelectProject(p)
  BY <1>2, SelectProjectKeeps
<1>3. CASE PressListRetry \/ PressTreeRetry
  BY <1>3, PressListRetryKeeps, PressTreeRetryKeeps
<1>4. CASE ManagesFiles
  BY <1>4, FollowResultKeeps, ClickFileKeeps, ClickSelectKeeps, CommitAnsweredKeeps
  DEF ManagesFiles
<1>5. CASE CreatesProjects
  BY <1>5, ClickCreateKeeps, PressCreateKeeps DEF CreatesProjects
<1>6. CASE ReadsHistory
  BY <1>6, PickDayKeeps, ChangeRevKeeps DEF ReadsHistory
<1>7. CASE Exports
  BY <1>7, ClickExportKeeps, PressExportKeeps DEF Exports
<1> QED
  BY <1>1, <1>2, <1>3, <1>4, <1>5, <1>6, <1>7 DEF User

LEMMA AnswersKeep ==
  ASSUME IInv, GetLists \/ GetTrees \/ GetInfos \/ GetCreated \/ GetChecks \/ GetZips
  PROVE  StepOK
<1>1. CASE GetLists
  BY <1>1, GotListKeeps, FailListKeeps DEF GetLists, Waiting
<1>2. CASE GetTrees
  BY <1>2, GotTreeKeeps, FailTreeKeeps DEF GetTrees, Waiting
<1>3. CASE GetInfos
  BY <1>3, GotInfoKeeps, FailInfoKeeps DEF GetInfos, Waiting
<1>4. CASE GetCreated
  BY <1>4, GotCreateKeeps, FailCreateKeeps DEF GetCreated, Waiting
<1>5. CASE GetChecks
  BY <1>5, CheckPassesKeeps, ChecksKeep DEF GetChecks, Waiting
<1>6. CASE GetZips
  BY <1>6, ZipsKeep DEF GetZips, Waiting
<1> QED
  BY <1>1, <1>2, <1>3, <1>4, <1>5, <1>6

LEMMA StepKeeps == ASSUME IInv, Next PROVE StepOK
<1>1. CASE User
  BY <1>1, UserKeeps
<1>2. CASE World
  BY <1>2, CommitKeeps, OtherCreatesKeeps DEF World
<1>3. CASE GetLists \/ GetTrees \/ GetInfos \/ GetCreated \/ GetChecks \/ GetZips
  BY <1>3, AnswersKeep
<1>4. CASE Timers
  BY <1>4, TimerEndsKeeps DEF Timers
<1>5. CASE \E q \in ui.polls : Polling(q)
  BY <1>5, PollWaitsKeeps, PollAnswersKeeps DEF Polling
<1> QED
  BY <1>1, <1>2, <1>3, <1>4, <1>5 DEF Next

(* Every step keeps the invariant. *)
LEMMA NextKeeps == IInv /\ [Next]_vars => IInv'
<1> SUFFICES ASSUME IInv, [Next]_vars PROVE IInv'
  OBVIOUS
<1>1. CASE Next
  <2>1. StepOK /\ habit' \in Habits
    BY <1>1, StepKeeps, HabitTyped
  <2>2. TypeOK'
    BY <2>1 DEF StepOK, PageInv, Good, TypeOK
  <2> QED
    BY <2>1, <2>2 DEF StepOK, IInv
<1>2. CASE UNCHANGED vars
  <2>1. /\ UNCHANGED repo /\ UNCHANGED ui /\ UNCHANGED habit /\ UNCHANGED spent
        /\ UNCHANGED raced
    BY <1>2 DEF vars
  <2>2. PICK r : r = ui'
    OBVIOUS
  <2>3. Good(r) /\ (~raced' => Calm(r)) /\ TypeOK
    BY <2>1, <2>2 DEF IInv, PageInv
  <2>4. raced' \in BOOLEAN /\ spent' \in 0 .. MaxEvents /\ habit' \in Habits
    BY <2>1 DEF IInv, TypeOK
  <2>5. StepOK
    BY <2>1, <2>2, <2>3, <2>4, Lifts
  <2>6. TypeOK'
    BY <2>4, <2>5 DEF StepOK, PageInv, Good, TypeOK
  <2> QED
    BY <2>5, <2>6 DEF StepOK, IInv
<1> QED
  BY <1>1, <1>2

(* The inductive invariant holds whatever the user does, whatever order    *)
(* the answers come in, and whatever fails.                                *)
THEOREM AlwaysIInv == Spec => []IInv
<1> QED
  BY InitIInv, NextKeeps, PTL DEF Spec

(* The fields of the page have their types: no handler puts a team where a *)
(* project is expected, selects what is no path, or counts below zero.     *)
THEOREM TypesHold == Spec => []TypeOK
<1>1. IInv => TypeOK
  BY DEF IInv
<1> QED
  BY <1>1, AlwaysIInv, PTL

(* The page, the selector, the file list, the calendar and the poll are    *)
(* about the same project (projpage.js:68-101).                            *)
THEOREM PartsAgree == Spec => []Agreement
<1>1. IInv => Agreement
  <2> SUFFICES ASSUME IInv PROVE Agreement
    OBVIOUS
  <2>1. Good(ui)
    BY Now
  <2> DEFINE going == {q \in ui.polls : q.current}
  <2>2. Cardinality(going) <= 1
    <3>1. CASE going = {}
      BY <3>1, FS_EmptySet
    <3>2. CASE going # {}
      <4>1. PICK q : q \in going
        BY <3>2
      <4>2. going = {q}
        BY <2>1, <4>1 DEF Good, Agree
      <4> HIDE DEF going
      <4> QED
        BY <4>2, FS_Singleton
    <3> QED
      BY <3>1, <3>2
  <2> QED
    BY <2>1, <2>2 DEF Good, Agree, Agreement
<1> QED
  BY <1>1, AlwaysIInv, PTL

(* Every selected path is an entry of the listing that is displayed, and   *)
(* what is highlighted is selected (projfilelist.js:159-174).              *)
THEOREM SelectionIsListed == Spec => []SelectionListed
<1>1. IInv => SelectionListed
  BY Now DEF Good, Selected, SelectionListed
<1> QED
  BY <1>1, AlwaysIInv, PTL

(* Unless somebody acted too early, the listing that is displayed is that  *)
(* of the project, team and revision the page is on, and has the revision  *)
(* the page knows of (projfilelist.js:53-82, projpage.js:166).             *)
THEOREM ShowsListing == Spec => []ListingShown
<1>1. IInv => ListingShown
  <2> SUFFICES ASSUME IInv, ~raced, ui.sel.team = ui.team, ui.page.project # None,
                      ~ui.flist.prompt, ui.flist.timers = 0, Waiting("tree") = {}
               PROVE  /\ <<ui.flist.dom.team, ui.flist.dom.project, ui.flist.dom.rev>>
                           = <<ui.sel.team, ui.sel.project, ui.flist.rev>>
                      /\ ui.flist.rev = HEAD => ui.flist.dom.n >= ui.page.rev
    BY DEF ListingShown
  <2>1. Settled(ui)
    BY DEF Settled, Waiting
  <2>2. /\ ui.flist.dom.team = ui.flist.team /\ ui.flist.dom.project = ui.flist.project
        /\ ui.flist.dom.rev = ui.flist.rev
        /\ ui.flist.rev = HEAD => ui.page.rev <= ui.flist.dom.n
    BY <2>1 DEF IInv, PageInv, Calm, ShownFits
  <2>3. ui.flist.team = ui.sel.team /\ ui.flist.project = ui.sel.project
    BY Now DEF Good, Agree
  <2>4. ui.page.rev \in Nat /\ ui.flist.dom.n \in Nat
    BY Now, PageFields DEF FileList
  <2> QED
    BY <2>2, <2>3, <2>4
<1> QED
  BY <1>1, AlwaysIInv, PTL

(* Unless somebody acted too early, a list of projects that is loaded is   *)
(* that of the selected team (projlist.js:52-57, projselect.js:134-199).   *)
THEOREM ListIsCurrent == Spec => []ListCurrent
<1>1. IInv => ListCurrent
  BY DEF IInv, PageInv, Calm, ListFits, ListCurrent
<1> QED
  BY <1>1, AlwaysIInv, PTL

(* No commit is missed: once the poll knows the newest revision and no     *)
(* listing is on its way, that revision is displayed (projpage.js:151-173, *)
(* projfilelist.js:84-107).                                                *)
THEOREM MissesNoCommit == Spec => []NoCommitMissed
<1>1. IInv => NoCommitMissed
  <2> SUFFICES ASSUME IInv, ~raced, ui.sel.team = ui.team, ui.page.project # None,
                      ui.flist.rev = HEAD, ~ui.flist.prompt, ui.flist.timers = 0,
                      Waiting("tree") = {},
                      NEW q \in ui.polls, q.prev.rev = Newest(ui.team, ui.page.project)
               PROVE  ui.flist.dom.n = Newest(ui.team, ui.page.project)
    BY DEF NoCommitMissed
  <2>1. Settled(ui)
    BY DEF Settled, Waiting
  <2>2. /\ ui.flist.dom.team = ui.flist.team /\ ui.flist.dom.project = ui.flist.project
        /\ ui.page.rev <= ui.flist.dom.n
    BY <2>1 DEF IInv, PageInv, Calm, ShownFits
  <2>3. /\ ui.flist.team = ui.sel.team /\ ui.flist.project = ui.sel.project
        /\ ui.page.project = ui.sel.project
    BY Now DEF Good, Agree
  <2>4. ui.flist.dom # Loading
    BY <2>2, <2>3 DEF Loading
  <2>5. ui.flist.dom.n <= Newest(ui.team, ui.page.project)
    BY <2>2, <2>3, <2>4, Now DEF Good, RevsExist
  <2>6. Newest(ui.team, ui.page.project) <= ui.page.rev
    BY DEF IInv, PageInv, Calm, RevFits
  <2>7. /\ ui.page.rev \in Nat /\ ui.flist.dom.n \in Nat
        /\ Newest(ui.team, ui.page.project) \in Nat
    BY Now, PageFields, Revisions DEF FileList
  <2> QED
    BY <2>2, <2>5, <2>6, <2>7
<1> QED
  BY <1>1, AlwaysIInv, PTL

=============================================================================
