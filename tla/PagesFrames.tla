----------------------------- MODULE PagesFrames -----------------------------
(***************************************************************************)
(* Proofs about Pages for any number of teams, files, projects, tabs and   *)
(* requests: what the handlers of each page leave alone. The browser is    *)
(* one window that a hundred handlers change, and each page's property is  *)
(* about a few parts of it; here are the parts, tabs, requests and offers  *)
(* that are a page's own, and the tab bar that every handler leaves in     *)
(* order. After them, what the operators of the operations on files and of *)
(* the search make of their pages.                                         *)
(***************************************************************************)
EXTENDS Pages, TLAPS, FiniteSetTheorems, SequenceTheorems

-----------------------------------------------------------------------------
(* The window and its tab bar. *)

Parts == {"loaded", "tabs", "cur", "shown", "team", "net", "offer", "edit", "pane",
          "log", "drawn", "menu", "about", "search", "settings", "errors", "commits",
          "diff", "cal", "admin", "status", "reviews", "texts", "ops", "dlg", "disk"}

IsRecord(m, fields) == m = [x \in fields |-> m[x]]

(* Tabs that may be open before there is a team.                           *)
FarTabs == {"shortcuts", "projects", "settings", "admin"}

LogFields == {"file", "nth", "history", "offset", "pages", "user", "chosen", "ro", "failed"}
Logged(g) == /\ IsRecord(g, LogTabs)
             /\ \A t \in LogTabs : IsRecord(g[t], LogFields) /\ g[t].file \in Files \cup {None}

(* The marks in the tab of a file in whose entry n errors are listed: none *)
(* or those, and none before there is a text; unless it was cleared while  *)
(* marks waited for its text.                                              *)
FileFields == {"nth", "loaded", "dirty", "rev", "text", "marks", "todo", "late"}
Rightly(e, n) ==
    /\ e.nth > 0
    /\ ~e.loaded => e.marks = 0
    /\ e.late \/ (e.marks \in {0, n} /\ (~e.loaded => e.todo \in {0, n}))
Tab(w, f, e) == /\ IsRecord(e, FileFields) /\ e.nth \in Nat
                /\ IsOpen(w, f) => Rightly(e, w.errors.listed[f])

ErrorFields == {"gen", "known", "listed", "nulls", "folded", "nth"}
Checked(e) == /\ IsRecord(e, ErrorFields) /\ e.nth \in Nat
              /\ IsRecord(e.known, Files) /\ IsRecord(e.listed, Files)

Marked(w) == /\ Checked(w.errors) /\ IsRecord(w.edit, Files)
             /\ \A f \in Files : Tab(w, f, w.edit[f])

(* No tab is in the bar twice, those of a team are there only beside that  *)
(* of its projects, a log that is open, or drawn, is of a file, and the    *)
(* tabs of files are marked rightly.                                       *)
Base(w) ==
    /\ IsRecord(w, Parts) /\ w.tabs \in Seq(Tabs) /\ IsInjective(w.tabs) /\ Logged(w.log)
    /\ \A t \in Tabs \ FarTabs : IsOpen(w, t) => IsOpen(w, "projects")
    /\ \A t \in LogTabs : IsOpen(w, t) \/ w.drawn.owner = t => w.log[t].file \in Files
    /\ Marked(w)

(* The tab in front is open and takes the focus, and there is one if any   *)
(* does; its root is displayed and no other.                               *)
Fronted(w) ==
    /\ w.cur \in Tabs \cup {None, "gone"}
    /\ w.cur \in Tabs => IsOpen(w, w.cur) /\ CanFocus(w.cur)
    /\ \A t \in Tabs : IsOpen(w, t) /\ CanFocus(t) => w.cur \in Tabs
    /\ w.shown = {Root(t) : t \in Tabs \cap {w.cur}}

(* A button that shows the errors is offered only while their tab is open. *)
View(w) == w.offer.kind = "view errors" => IsOpen(w, "errors")

Whole(w) == Base(w) /\ Fronted(w) /\ View(w)

-----------------------------------------------------------------------------
(* What a handler touches. *)

(* The operations on files, those that make one at a place, and the places.*)
Ops == {"mv", "cp", "mkdir", "del", "co"}
Placing == {"mv", "cp", "mkdir"}
Paths == Dirs \X Names

(* Requests that handlers change and send again have all their fields.     *)
Formed(m) ==
    /\ m.kind = "file" => IsRecord(m, {"kind", "file", "nth", "rev"})
    /\ m.kind = "checkout" => IsRecord(m, {"kind", "tab", "nth", "team", "file", "rev"})
    /\ m.kind \in {"files", "commit"} =>
          /\ IsRecord(m, {"kind", "op", "team", "project", "srcs", "place", "seen"})
          /\ m.op \in Ops
          /\ m.srcs \in SUBSET Paths /\ (m.op \in Placing => m.place \in Paths)
    /\ m.kind = "project" => IsRecord(m, {"kind", "team", "project"})
    /\ m.kind = "lint" => m.nth \in Nat \ {0}

(* So have those that a button would send again; and what it would close   *)
(* is a file.                                                              *)
Again(o) ==
    /\ o.kind = "load" => o.about.kind = "file" /\ Formed(o.about)
    /\ o.kind = "lint" => o.about.kind = "lint" /\ Formed(o.about)
    /\ o.kind = "again" => o.about.kind \in OpKinds /\ Formed(o.about)
    /\ o.kind = "close" => o.about \in Files

(* Of the window w there became r by changes to the parts xs, by tabs ts   *)
(* that were opened, requests of kinds ks that were made or answered, and  *)
(* buttons about os that were offered; the rest is as it was. Tabs are     *)
(* closed only where xs has the bar, and only those of ts or, where xs     *)
(* shuts them, others too; that of the projects never is.                  *)
Shuts(t, xs, ts) == t \in ts \/ ("shut" \in xs /\ t # "errors") \/ "shut all" \in xs

Frames(r, w, xs, ts, ks, os) ==
    /\ \A x \in Parts \ (xs \cup {"net", "offer", "tabs"}) : r[x] = w[x]
    /\ \A t \in Tabs : IsOpen(r, t) => IsOpen(w, t) \/ t \in ts
    /\ IsOpen(w, "projects") => IsOpen(r, "projects")
    /\ \A t \in Tabs : IsOpen(w, t) => IsOpen(r, t) \/ ("tabs" \in xs /\ Shuts(t, xs, ts))
    /\ \A m \in r.net : m \in w.net \/ (m.kind \in ks /\ Formed(m))
    /\ \A m \in w.net : m \in r.net \/ m.kind \in ks
    /\ r.offer = w.offer \/ (r.offer.kind \in os /\ Again(r.offer))

Touches(r, w, xs, ts, ks, os) == Whole(r) /\ Frames(r, w, xs, ts, ks, os)

LEMMA Facts ==
  /\ "projects" \in Tabs /\ "errors" \in Tabs /\ LogTabs \subseteq Tabs /\ Files \subseteq Tabs
  /\ PageTabs \subseteq Tabs /\ "shortcuts" \in Tabs
  /\ "gone" \notin Tabs /\ None \notin Tabs /\ CanFocus("projects")
  /\ \A t \in Files \cup PageTabs : CanFocus(t) /\ t # "projects"
  /\ \A t \in Files : t \notin LogTabs /\ t \notin PageTabs /\ t \notin FarTabs /\ Root(t) = "edit"
  /\ \A t \in PageTabs : t \notin Files
  /\ \A t \in LogTabs : t \in PageTabs /\ t \notin FarTabs /\ Root(t) = "log"
BY FilesAssumption DEF Tabs, PageTabs, LogTabs, CanFocus, FarTabs, Root

LEMMA FramesNothing ==
  ASSUME NEW w, NEW xs, NEW ts, NEW ks, NEW os
  PROVE  Frames(w, w, xs, ts, ks, os)
BY DEF Frames

LEMMA FramesAlong ==
  ASSUME NEW w, NEW r, NEW s, NEW xs, NEW ts, NEW ks, NEW os,
         Frames(r, w, xs, ts, ks, os), Frames(s, r, xs, ts, ks, os)
  PROVE  Frames(s, w, xs, ts, ks, os)
BY Facts DEF Frames

LEMMA TouchesNothing ==
  ASSUME NEW w, Whole(w), NEW xs, NEW ts, NEW ks, NEW os
  PROVE  Touches(w, w, xs, ts, ks, os)
BY FramesNothing DEF Touches

LEMMA TouchesAlong ==
  ASSUME NEW w, NEW r, NEW s, NEW xs, NEW ts, NEW ks, NEW os,
         Touches(r, w, xs, ts, ks, os), Touches(s, r, xs, ts, ks, os)
  PROVE  Touches(s, w, xs, ts, ks, os)
BY FramesAlong DEF Touches

LEMMA TouchesMore ==
  ASSUME NEW w, NEW r, NEW xs, NEW ts, NEW ks, NEW os,
         NEW xs2, NEW ts2, NEW ks2, NEW os2,
         Touches(r, w, xs, ts, ks, os),
         xs \subseteq xs2, ts \subseteq ts2, ks \subseteq ks2, os \subseteq os2
  PROVE  Touches(r, w, xs2, ts2, ks2, os2)
<1>1. \A t : Shuts(t, xs, ts) => Shuts(t, xs2, ts2)
  BY DEF Shuts
<1> QED
  BY <1>1 DEF Touches, Frames

(* Marks stay right where files and errors stay and no file is opened.     *)
LEMMA MarkedStays ==
  ASSUME NEW w, Marked(w), NEW r, r.edit = w.edit, r.errors = w.errors,
         \A f \in Files : IsOpen(r, f) => IsOpen(w, f)
  PROVE  Marked(r)
<1>1. \A f \in Files : Tab(r, f, r.edit[f])
  BY DEF Marked, Tab
<1> QED
  BY <1>1 DEF Marked

(* The window stays in order as long as its bar, its files, its logs and   *)
(* what it offers stay.                                                    *)
LEMMA BarStays ==
  ASSUME NEW w, NEW r, IsRecord(r, Parts), r.tabs = w.tabs, r.cur = w.cur, r.shown = w.shown,
         r.offer = w.offer, r.edit = w.edit, r.errors = w.errors
  PROVE  /\ \A t : IsOpen(r, t) <=> IsOpen(w, t)
         /\ Base(w) /\ r.log = w.log /\ r.drawn.owner = w.drawn.owner => Base(r)
         /\ Fronted(w) => Fronted(r)
         /\ View(w) => View(r)
<1>1. \A t : IsOpen(r, t) <=> IsOpen(w, t)
  BY DEF IsOpen
<1>2. Base(w) /\ r.log = w.log /\ r.drawn.owner = w.drawn.owner => Base(r)
  BY <1>1, MarkedStays DEF Base
<1>3. Fronted(w) => Fronted(r)
  BY <1>1 DEF Fronted
<1>4. View(w) => View(r)
  BY <1>1 DEF View
<1> QED
  BY <1>1, <1>2, <1>3, <1>4

(* Parts of which more is said than whether they change.                   *)
BarParts == {"net", "offer", "tabs", "cur", "shown", "drawn", "log"}
FreeParts == Parts \ (BarParts \cup {"edit", "errors"})

(* One part is replaced. *)
LEMMA TouchesPart ==
  ASSUME NEW w, Whole(w), NEW a \in FreeParts, NEW v, NEW r,
         r = [w EXCEPT ![a] = v], NEW xs, a \in xs, NEW ts, NEW ks, NEW os
  PROVE  Touches(r, w, xs, ts, ks, os)
<1>1. \A x \in Parts \ {a} : r[x] = w[x]
  BY DEF Whole, Base, IsRecord
<1>2. /\ IsRecord(r, Parts) /\ r.tabs = w.tabs /\ r.net = w.net /\ r.offer = w.offer
      /\ r.cur = w.cur /\ r.shown = w.shown /\ r.drawn = w.drawn /\ r.log = w.log
      /\ r.edit = w.edit /\ r.errors = w.errors
  BY DEF Whole, Base, IsRecord, Parts, BarParts, FreeParts
<1>3. Whole(r) /\ \A t : IsOpen(r, t) <=> IsOpen(w, t)
  BY <1>2, BarStays DEF Whole
<1> QED
  BY <1>1, <1>2, <1>3 DEF Touches, Frames

(* The list of log entries is drawn anew, of the same log, of one that is  *)
(* of a file, or of none.                                                  *)
LEMMA TouchesDrawn ==
  ASSUME NEW w, Whole(w), NEW v, NEW r, r = [w EXCEPT !.drawn = v],
         NEW xs, "drawn" \in xs, NEW ts, NEW ks, NEW os,
         v.owner = w.drawn.owner \/ (v.owner \in LogTabs => w.log[v.owner].file \in Files)
  PROVE  Touches(r, w, xs, ts, ks, os)
<1>1. \A x \in Parts \ {"drawn"} : r[x] = w[x]
  BY DEF Whole, Base, IsRecord
<1>2. /\ IsRecord(r, Parts) /\ r.tabs = w.tabs /\ r.net = w.net /\ r.offer = w.offer
      /\ r.cur = w.cur /\ r.shown = w.shown /\ r.drawn = v /\ r.log = w.log
      /\ r.edit = w.edit /\ r.errors = w.errors
  BY DEF Whole, Base, IsRecord, Parts
<1>3. Fronted(r) /\ View(r) /\ \A t : IsOpen(r, t) <=> IsOpen(w, t)
  BY <1>2, BarStays DEF Whole
<1>4. Base(r)
  BY <1>2, <1>3, MarkedStays DEF Base, Whole
<1> QED
  BY <1>1, <1>2, <1>3, <1>4 DEF Touches, Frames, Whole

(* The logs change, and none loses its file. *)
LEMMA TouchesLog ==
  ASSUME NEW w, Whole(w), NEW v, NEW r, r = [w EXCEPT !.log = v],
         NEW xs, "log" \in xs, NEW ts, NEW ks, NEW os, Logged(v),
         \A t \in LogTabs : w.log[t].file \in Files => v[t].file \in Files
  PROVE  Touches(r, w, xs, ts, ks, os)
<1>1. \A x \in Parts \ {"log"} : r[x] = w[x]
  BY DEF Whole, Base, IsRecord
<1>2. /\ IsRecord(r, Parts) /\ r.tabs = w.tabs /\ r.net = w.net /\ r.offer = w.offer
      /\ r.cur = w.cur /\ r.shown = w.shown /\ r.drawn = w.drawn /\ r.log = v
      /\ r.edit = w.edit /\ r.errors = w.errors
  BY DEF Whole, Base, IsRecord, Parts
<1>3. Fronted(r) /\ View(r) /\ \A t : IsOpen(r, t) <=> IsOpen(w, t)
  BY <1>2, BarStays DEF Whole
<1>4. Base(r)
  BY <1>2, <1>3, MarkedStays DEF Base, Whole
<1> QED
  BY <1>1, <1>2, <1>3, <1>4 DEF Touches, Frames, Whole

(* Files and errors change, and the marks are right. *)
LEMMA TouchesMarks ==
  ASSUME NEW w, Whole(w), NEW r, IsRecord(r, Parts), Marked(r),
         \A x \in Parts \ {"edit", "errors"} : r[x] = w[x],
         NEW xs, "edit" \in xs, "errors" \in xs \/ r.errors = w.errors,
         NEW ts, NEW ks, NEW os
  PROVE  Touches(r, w, xs, ts, ks, os)
<1>1. /\ r.tabs = w.tabs /\ r.net = w.net /\ r.offer = w.offer
      /\ r.cur = w.cur /\ r.shown = w.shown /\ r.drawn = w.drawn /\ r.log = w.log
  BY DEF Parts
<1>2. \A t : IsOpen(r, t) <=> IsOpen(w, t)
  BY <1>1 DEF IsOpen
<1>3. Base(r) /\ Fronted(r) /\ View(r)
  BY <1>1, <1>2 DEF Base, Fronted, View, Whole
<1> QED
  BY <1>1, <1>2, <1>3 DEF Touches, Frames, Whole

LEMMA AskTouches ==
  ASSUME NEW w, Whole(w), NEW m, Formed(m), NEW xs, NEW ts, NEW ks, m.kind \in ks, NEW os
  PROVE  Touches(Ask(w, m), w, xs, ts, ks, os)
<1> DEFINE r == Ask(w, m)
<1>1. /\ IsRecord(r, Parts) /\ r.tabs = w.tabs /\ r.net = w.net \cup {m}
      /\ \A x \in Parts \ {"net"} : r[x] = w[x]
  BY DEF Whole, Base, IsRecord, Parts, Ask
<1>2. /\ r.cur = w.cur /\ r.shown = w.shown /\ r.offer = w.offer /\ r.drawn = w.drawn
      /\ r.log = w.log /\ r.edit = w.edit /\ r.errors = w.errors
  BY <1>1 DEF Parts
<1> HIDE DEF r
<1>3. Whole(r) /\ \A t : IsOpen(r, t) <=> IsOpen(w, t)
  BY <1>1, <1>2, BarStays DEF Whole
<1>4. Touches(r, w, xs, ts, ks, os)
  BY <1>1, <1>2, <1>3 DEF Touches, Frames
<1> QED
  BY <1>4 DEF r

LEMMA OfferTouches ==
  ASSUME NEW w, Whole(w), NEW kind, NEW about, NEW xs, NEW ts, NEW ks, NEW os, kind \in os,
         Again([kind |-> kind, about |-> about]), kind = "view errors" => IsOpen(w, "errors")
  PROVE  Touches(Offer(w, kind, about), w, xs, ts, ks, os)
<1> DEFINE r == Offer(w, kind, about)
           o == [kind |-> kind, about |-> about]
<1>1. /\ IsRecord(r, Parts) /\ r.tabs = w.tabs /\ r.net = w.net /\ r.offer = o
      /\ \A x \in Parts \ {"offer"} : r[x] = w[x]
  BY DEF Whole, Base, IsRecord, Parts, Offer
<1>2. /\ r.cur = w.cur /\ r.shown = w.shown /\ r.drawn = w.drawn /\ r.log = w.log
      /\ r.edit = w.edit /\ r.errors = w.errors
  BY <1>1 DEF Parts
<1>3. o.kind = kind /\ Again(o)
  OBVIOUS
<1> HIDE DEF r, o
<1>4. \A t : IsOpen(r, t) <=> IsOpen(w, t)
  BY <1>1 DEF IsOpen
<1>5. Base(r) /\ Fronted(r)
  BY <1>1, <1>2, <1>4, MarkedStays DEF Base, Fronted, Whole
<1>6. View(r)
  BY <1>1, <1>3, <1>4 DEF View
<1>7. Touches(r, w, xs, ts, ks, os)
  BY <1>1, <1>3, <1>4, <1>5, <1>6 DEF Touches, Frames, Whole
<1> QED
  BY <1>7 DEF r

LEMMA SayTouches ==
  ASSUME NEW w, Whole(w), NEW xs, NEW ts, NEW ks, NEW os, "none" \in os
  PROVE  Touches(Say(w), w, xs, ts, ks, os)
<1>1. Say(w) = Offer(w, "none", None)
  BY DEF Say, Offer, NoOffer
<1>2. Again([kind |-> "none", about |-> None])
  BY DEF Again
<1> QED
  BY <1>1, <1>2, OfferTouches

-----------------------------------------------------------------------------
(* Folds. What the step of a fold keeps, as Touches of the window from     *)
(* which it starts, the fold keeps.                                        *)

(* The element that a fold over a set takes next. *)
AnyOf(s) == CHOOSE x \in s : TRUE

(* The tabs to keep stay open. *)
Holds(c, u) == /\ Touches(u, c.from, c.xs, c.ts, c.ks, c.os)
               /\ \A t \in c.keep : IsOpen(u, t)

CloseEach(c, i, u) == IF c.tabs[i] \in Files \ c.kept THEN CloseFile(u, c.tabs[i], c.override)
                      ELSE u
Closing == INSTANCE FoldInduction WITH Step <- CloseEach, Pick <- Max, Keeps <- Holds

LEMMA AnyIsIn == \A S : \A s \in SUBSET S : s # {} => AnyOf(s) \in s
BY DEF AnyOf

LEMMA LastIsIn ==
  ASSUME NEW n \in Nat
  PROVE  \A s \in SUBSET (1 .. n) : s # {} => Max(s) \in s
<1> SUFFICES ASSUME NEW s \in SUBSET (1 .. n), s # {} PROVE Max(s) \in s
  OBVIOUS
<1> DEFINE before == {y \in Nat : n - y \in s}
<1>1. PICK a \in s : TRUE
  OBVIOUS
<1>2. n - a \in Nat /\ n - (n - a) = a
  BY <1>1
<1>3. before \in SUBSET Nat /\ before # {}
  BY <1>1, <1>2
<1>4. PICK y \in before : \A z \in before : y <= z
  BY <1>3, Closing!LeastNumber
<1>5. ASSUME NEW z \in s PROVE n - y >= z
  <2>1. n - z \in Nat /\ n - (n - z) = z
    OBVIOUS
  <2>2. n - z \in before
    BY <2>1
  <2>3. y <= n - z
    BY <1>4, <2>2
  <2> QED
    BY <2>1, <2>3, <1>4
<1>6. n - y \in s
  BY <1>4
<1> QED
  BY <1>5, <1>6 DEF Max

-----------------------------------------------------------------------------
(* The tab bar, and what comes with the focus. *)

(* A tab is added behind the others. *)
LEMMA Appended ==
  ASSUME NEW s \in Seq(Tabs), NEW t \in Tabs
  PROVE  /\ Append(s, t) \in Seq(Tabs)
         /\ \A u : Contains(Append(s, t), u) <=> Contains(s, u) \/ u = t
         /\ IsInjective(s) /\ ~Contains(s, t) => IsInjective(Append(s, t))
<1>1. /\ Append(s, t) \in Seq(Tabs) /\ Len(Append(s, t)) = Len(s) + 1 /\ Len(s) \in Nat
      /\ Append(s, t)[Len(s) + 1] = t
      /\ \A i \in 1 .. Len(s) : Append(s, t)[i] = s[i]
  OBVIOUS
<1>2. DOMAIN Append(s, t) = 1 .. Len(s) + 1 /\ DOMAIN s = 1 .. Len(s)
  BY <1>1
<1>3. \A u : Contains(Append(s, t), u) <=> Contains(s, u) \/ u = t
  BY <1>1 DEF Contains
<1>4. ASSUME IsInjective(s), ~Contains(s, t) PROVE IsInjective(Append(s, t))
  BY <1>1, <1>2, <1>4 DEF IsInjective, Contains
<1> QED
  BY <1>1, <1>3, <1>4

(* What may be added: a tab that is not there, one of a team's only beside *)
(* its projects, a log only of a file, and that of a file marked rightly.  *)
Addable(w, t) ==
    /\ t \in Tabs /\ ~IsOpen(w, t)
    /\ t \in FarTabs \/ IsOpen(w, "projects")
    /\ t \in LogTabs => w.log[t].file \in Files
    /\ t \in Files => Rightly(w.edit[t], w.errors.listed[t])

LEMMA AddTabBase ==
  ASSUME NEW w, Whole(w), NEW t, Addable(w, t), NEW xs, NEW ts, t \in ts, NEW ks, NEW os
  PROVE  /\ Base(AddTab(w, t)) /\ View(AddTab(w, t))
         /\ Frames(AddTab(w, t), w, xs, ts, ks, os)
         /\ AddTab(w, t).cur = w.cur /\ AddTab(w, t).shown = w.shown
         /\ \A u : IsOpen(AddTab(w, t), u) <=> IsOpen(w, u) \/ u = t
<1> DEFINE r == AddTab(w, t)
<1>1. /\ IsRecord(r, Parts) /\ r.tabs = Append(w.tabs, t) /\ r.net = w.net /\ r.offer = w.offer
      /\ \A x \in Parts \ {"tabs"} : r[x] = w[x]
  BY DEF Whole, Base, IsRecord, Parts, AddTab
<1>2. /\ r.cur = w.cur /\ r.shown = w.shown /\ r.drawn = w.drawn /\ r.log = w.log
      /\ r.edit = w.edit /\ r.errors = w.errors
  BY <1>1 DEF Parts
<1> HIDE DEF r
<1>3. r.tabs \in Seq(Tabs) /\ IsInjective(r.tabs) /\ \A u : IsOpen(r, u) <=> IsOpen(w, u) \/ u = t
  BY <1>1, Appended DEF Whole, Base, IsOpen, Addable
<1>7. Marked(r)
  <2>1. \A f \in Files : Tab(r, f, r.edit[f])
    BY <1>2, <1>3 DEF Whole, Base, Marked, Tab, Addable
  <2> QED
    BY <1>2, <2>1 DEF Whole, Base, Marked
<1>4. Base(r)
  BY <1>1, <1>2, <1>3, <1>7 DEF Whole, Base, Addable
<1>5. View(r)
  BY <1>1, <1>3 DEF Whole, View
<1>6. Frames(r, w, xs, ts, ks, os)
  BY <1>1, <1>3 DEF Frames
<1> QED
  BY <1>2, <1>3, <1>4, <1>5, <1>6 DEF r

(* A tab is added while there is one in front, if it takes the focus.      *)
LEMMA AddTabTouches ==
  ASSUME NEW w, Whole(w), NEW t, Addable(w, t), w.cur \in Tabs \/ ~CanFocus(t),
         NEW xs, NEW ts, t \in ts, NEW ks, NEW os
  PROVE  Touches(AddTab(w, t), w, xs, ts, ks, os)
<1> DEFINE r == AddTab(w, t)
<1>1. /\ Base(r) /\ View(r) /\ Frames(r, w, xs, ts, ks, os)
      /\ r.cur = w.cur /\ r.shown = w.shown
      /\ \A u : IsOpen(r, u) <=> IsOpen(w, u) \/ u = t
  BY AddTabBase
<1> HIDE DEF r
<1>2. Fronted(r)
  BY <1>1 DEF Fronted, Whole
<1> QED
  BY <1>1, <1>2 DEF Touches, Whole, r

(* Of the projects' tab, there is always one in front. *)
LEMMA SomeFront ==
  ASSUME NEW w, Whole(w), IsOpen(w, "projects") PROVE w.cur \in Tabs
BY Facts DEF Whole, Fronted

FocusParts == {"cur", "shown", "pane", "drawn"}

(* What a tab does when it gets the focus concerns the pane, and the list  *)
(* of log entries.                                                         *)
Draws(r, w) ==
    /\ Base(r)
    /\ \A x \in Parts \ {"pane", "drawn", "net"} : r[x] = w[x]
    /\ w.net \subseteq r.net /\ \A m \in r.net : m \in w.net \/ m.kind = "revisions"

LEMMA GetRevisionsDraws ==
  ASSUME NEW w, Base(w), NEW f PROVE Draws(GetRevisions(w, f), w)
<1> DEFINE m == [kind |-> "revisions", file |-> f, team |-> w.team]
           r == Ask(w, m)
<1>1. /\ IsRecord(r, Parts) /\ r.net = w.net \cup {m} /\ m.kind = "revisions"
      /\ \A x \in Parts \ {"net"} : r[x] = w[x]
  BY DEF Base, IsRecord, Parts, Ask
<1>2. /\ r.tabs = w.tabs /\ r.log = w.log /\ r.drawn = w.drawn
      /\ r.edit = w.edit /\ r.errors = w.errors
  BY <1>1 DEF Parts
<1>3. GetRevisions(w, f) = r \/ GetRevisions(w, f) = w
  BY DEF GetRevisions
<1> HIDE DEF r, m
<1>4. Draws(r, w)
  BY <1>1, <1>2, MarkedStays DEF Draws, Base, IsOpen
<1> QED
  BY <1>3, <1>4 DEF Draws

LEMMA ShowContentsDraws ==
  ASSUME NEW w, Base(w), NEW f PROVE Draws(ShowContents(w, f), w)
<1> DEFINE v == [session |-> f, name |-> <<f, w.edit[f].rev>>, history |-> None]
           r == [w EXCEPT !.pane = v]
<1>1. IsRecord(r, Parts) /\ \A x \in Parts \ {"pane"} : r[x] = w[x]
  BY DEF Base, IsRecord, Parts
<1>2. /\ r.tabs = w.tabs /\ r.log = w.log /\ r.drawn = w.drawn /\ r.net = w.net
      /\ r.edit = w.edit /\ r.errors = w.errors
  BY <1>1 DEF Parts
<1>3. ShowContents(w, f) = GetRevisions(r, f)
  BY DEF ShowContents
<1> HIDE DEF r
<1>4. Base(r)
  BY <1>1, <1>2, MarkedStays DEF Base, IsOpen
<1>5. Draws(GetRevisions(r, f), r)
  BY <1>4, GetRevisionsDraws
<1> QED
  BY <1>1, <1>2, <1>3, <1>5 DEF Draws

LEMMA GotFocusDraws ==
  ASSUME NEW w, Base(w), NEW t, IsOpen(w, t) PROVE Draws(GotFocus(w, t), w)
<1>1. ASSUME t \in LogTabs PROVE Draws(DrawLog(w, t), w)
  <2> DEFINE v == [owner |-> t, entries |-> w.log[t].history, page |-> w.log[t].offset,
                   of |-> w.log[t].pages, picked |-> None]
             r == [w EXCEPT !.drawn = v]
  <2>1. IsRecord(r, Parts) /\ \A x \in Parts \ {"drawn"} : r[x] = w[x]
    BY DEF Base, IsRecord, Parts
  <2>2. /\ r.tabs = w.tabs /\ r.log = w.log /\ r.drawn.owner = t /\ r.net = w.net
        /\ r.edit = w.edit /\ r.errors = w.errors
    BY <2>1 DEF Parts, Base, IsRecord
  <2>3. DrawLog(w, t) = r
    BY DEF DrawLog
  <2> HIDE DEF r
  <2>4. Base(r)
    BY <2>1, <2>2, MarkedStays DEF Base, IsOpen
  <2> QED
    BY <2>1, <2>2, <2>3, <2>4 DEF Draws
<1>2. Draws(w, w)
  BY DEF Draws
<1> QED
  BY <1>1, <1>2, ShowContentsDraws DEF GotFocus

LEMMA DrawsFrames ==
  ASSUME NEW w, NEW r, Draws(r, w),
         NEW xs, {"pane", "drawn"} \subseteq xs, NEW ts, NEW ks, "revisions" \in ks, NEW os
  PROVE  /\ Frames(r, w, xs, ts, ks, os) /\ r.offer = w.offer
         /\ Fronted(w) => Fronted(r)
         /\ View(w) => View(r)
<1>1. /\ r.offer = w.offer /\ r.tabs = w.tabs /\ r.cur = w.cur /\ r.shown = w.shown
      /\ r.edit = w.edit /\ r.errors = w.errors /\ IsRecord(r, Parts)
  BY DEF Draws, Parts, Base
<1>2. \A t : IsOpen(r, t) <=> IsOpen(w, t)
  BY <1>1 DEF IsOpen
<1>3. Frames(r, w, xs, ts, ks, os)
  BY <1>1, <1>2 DEF Frames, Draws, Formed
<1> QED
  BY <1>1, <1>3, BarStays

LEMMA ShowContentsTouches ==
  ASSUME NEW w, Whole(w), NEW f,
         NEW xs, FocusParts \subseteq xs, NEW ts, NEW ks, "revisions" \in ks, NEW os
  PROVE  Touches(ShowContents(w, f), w, xs, ts, ks, os)
BY ShowContentsDraws, DrawsFrames DEF Whole, Touches, FocusParts, Draws

(* The tab t, which is open, comes to the front in place of one whose root *)
(* alone is displayed, if any is; that one may be closed already.          *)
LEMMA Turned ==
  ASSUME NEW w, Base(w), NEW t \in Tabs, IsOpen(w, t), CanFocus(t), t # w.cur,
         w.shown \ {Root(w.cur)} = {},
         NEW xs, FocusParts \subseteq xs, NEW ts, NEW ks, "revisions" \in ks, NEW os
  PROVE  /\ Base(SwitchTo(w, t)) /\ Fronted(SwitchTo(w, t))
         /\ Frames(SwitchTo(w, t), w, xs, ts, ks, os)
         /\ SwitchTo(w, t).offer = w.offer
         /\ \A u : IsOpen(SwitchTo(w, t), u) <=> IsOpen(w, u)
<1> DEFINE v == (w.shown \ {Root(w.cur)}) \cup {Root(t)}
           r == [w EXCEPT !.cur = t, !.shown = (@ \ {Root(w.cur)}) \cup {Root(t)}]
           s == GotFocus(r, t)
<1>1. /\ IsRecord(r, Parts) /\ r.cur = t /\ r.shown = v
      /\ \A x \in Parts \ {"cur", "shown"} : r[x] = w[x]
  BY DEF Base, IsRecord, Parts
<1>2. r.shown = {Root(t)}
  BY <1>1
<1>3. /\ r.tabs = w.tabs /\ r.net = w.net /\ r.offer = w.offer /\ r.drawn = w.drawn
      /\ r.log = w.log /\ r.edit = w.edit /\ r.errors = w.errors
  BY <1>1 DEF Parts
<1>4. SwitchTo(w, t) = s
  BY DEF SwitchTo
<1> HIDE DEF r, v
<1>5. \A u : IsOpen(r, u) <=> IsOpen(w, u)
  BY <1>3 DEF IsOpen
<1>6. Base(r)
  BY <1>1, <1>3, <1>5, MarkedStays DEF Base
<1>7. Fronted(r)
  BY <1>1, <1>2, <1>5 DEF Fronted
<1>8. Frames(r, w, xs, ts, ks, os)
  BY <1>1, <1>3, <1>5 DEF Frames, FocusParts
<1>9. Draws(s, r)
  BY <1>5, <1>6, GotFocusDraws
<1> HIDE DEF s
<1>10. Base(s) /\ Fronted(s) /\ s.offer = r.offer /\ Frames(s, r, xs, ts, ks, os)
  BY <1>7, <1>9, DrawsFrames DEF FocusParts, Draws
<1>11. \A u : IsOpen(s, u) <=> IsOpen(r, u)
  BY <1>9 DEF Draws, IsOpen, Parts
<1> QED
  BY <1>3, <1>4, <1>5, <1>8, <1>10, <1>11, FramesAlong

(* What is displayed beside the root of the tab in front: nothing. *)
LEMMA OneShown ==
  ASSUME NEW w, Fronted(w) PROVE w.shown \ {Root(w.cur)} = {}
BY DEF Fronted

LEMMA SwitchTouches ==
  ASSUME NEW w, Whole(w), NEW t \in Tabs, IsOpen(w, t) \/ ~CanFocus(t),
         NEW xs, FocusParts \subseteq xs, NEW ts, NEW ks, "revisions" \in ks, NEW os
  PROVE  Touches(SwitchTo(w, t), w, xs, ts, ks, os)
<1>1. CASE ~CanFocus(t) \/ t = w.cur
  BY <1>1, TouchesNothing DEF SwitchTo
<1>2. CASE CanFocus(t) /\ t # w.cur
  <2> DEFINE s == SwitchTo(w, t)
  <2>1. /\ Base(s) /\ Fronted(s) /\ Frames(s, w, xs, ts, ks, os) /\ s.offer = w.offer
        /\ \A u : IsOpen(s, u) <=> IsOpen(w, u)
    BY <1>2, OneShown, Turned DEF Whole
  <2> HIDE DEF s
  <2> QED
    BY <2>1 DEF Whole, View, Touches, s
<1> QED
  BY <1>1, <1>2

(* A tab is opened. *)
LEMMA OpenTabTouches ==
  ASSUME NEW w, Whole(w), NEW t, Addable(w, t), CanFocus(t),
         NEW xs, FocusParts \subseteq xs, NEW ts, t \in ts, NEW ks, "revisions" \in ks, NEW os
  PROVE  /\ Touches(SwitchTo(AddTab(w, t), t), w, xs, ts, ks, os)
         /\ IsOpen(SwitchTo(AddTab(w, t), t), t)
<1> DEFINE r == AddTab(w, t)
           s == SwitchTo(r, t)
<1>1. /\ Base(r) /\ View(r) /\ Frames(r, w, xs, ts, ks, os)
      /\ r.cur = w.cur /\ r.shown = w.shown /\ IsOpen(r, t)
  BY AddTabBase
<1> HIDE DEF r
<1>2. t \in Tabs /\ t # w.cur
  BY DEF Addable, Whole, Fronted
<1>3. /\ Base(s) /\ Fronted(s) /\ Frames(s, r, xs, ts, ks, os) /\ s.offer = r.offer
      /\ \A u : IsOpen(s, u) <=> IsOpen(r, u)
  BY <1>1, <1>2, OneShown, Turned DEF Whole
<1> HIDE DEF s
<1>4. View(s)
  BY <1>1, <1>3 DEF View
<1> QED
  BY <1>1, <1>3, <1>4, FramesAlong DEF Touches, Whole, r, s

(* The rest of the sequence s without its i-th element, if it has one.     *)
LEMMA Removed ==
  ASSUME NEW S, NEW s \in Seq(S), NEW i \in 0 .. Len(s)
  PROVE  /\ RemoveAt(s, i) \in Seq(S)
         /\ Len(RemoveAt(s, i)) = IF i = 0 THEN Len(s) ELSE Len(s) - 1
         /\ \A j \in 1 .. Len(RemoveAt(s, i)) :
               RemoveAt(s, i)[j] = IF i = 0 \/ j < i THEN s[j] ELSE s[j + 1]
<1> DEFINE a == SubSeq(s, 1, i - 1)
           b == SubSeq(s, i + 1, Len(s))
<1>1. /\ a \in Seq(S) /\ Len(a) = IF i = 0 THEN 0 ELSE i - 1
      /\ \A j \in 1 .. i - 1 : a[j] = s[j]
  BY SubSeqProperties
<1>2. /\ b \in Seq(S) /\ Len(b) = Len(s) - i
      /\ \A j \in 1 .. Len(s) - i : b[j] = s[j + i]
  BY SubSeqProperties
<1>3. RemoveAt(s, i) = a \o b
  BY DEF RemoveAt
<1> HIDE DEF a, b
<1>4. /\ a \o b \in Seq(S) /\ Len(a \o b) = Len(a) + Len(b)
      /\ \A j \in 1 .. Len(a) + Len(b) : (a \o b)[j] = IF j <= Len(a) THEN a[j] ELSE b[j - Len(a)]
  BY <1>1, <1>2, ConcatProperties
<1>5. CASE i = 0
  BY <1>1, <1>2, <1>3, <1>4, <1>5
<1>6. CASE i > 0
  <2>1. Len(a) = i - 1 /\ Len(a \o b) = Len(s) - 1 /\ i \in Nat /\ Len(s) \in Nat
    BY <1>1, <1>2, <1>4, <1>6
  <2>2. ASSUME NEW j \in 1 .. Len(a \o b)
        PROVE  (a \o b)[j] = IF j < i THEN s[j] ELSE s[j + 1]
    <3>1. CASE j < i
      BY <1>1, <1>4, <2>1, <3>1
    <3>2. CASE j >= i
      <4>1. (a \o b)[j] = b[j - (i - 1)] /\ j - (i - 1) \in 1 .. Len(s) - i
        BY <1>2, <1>4, <2>1, <3>2
      <4>2. b[j - (i - 1)] = s[(j - (i - 1)) + i]
        BY <1>2, <4>1
      <4> QED
        BY <2>1, <3>2, <4>1, <4>2
    <3> QED
      BY <2>1, <3>1, <3>2
  <2> QED
    BY <1>3, <1>4, <1>6, <2>1, <2>2
<1> QED
  BY <1>5, <1>6

(* Where a tab is in the bar, 0 if it is not there. *)
Index(s, t) == SelectInSeq(s, LAMBDA u : u = t)

LEMMA Found ==
  ASSUME NEW s \in Seq(Tabs), NEW t
  PROVE  /\ Index(s, t) \in 0 .. Len(s)
         /\ Index(s, t) > 0 => s[Index(s, t)] = t
         /\ Index(s, t) = 0 => \A j \in 1 .. Len(s) : s[j] # t
<1> DEFINE I == {i \in 1 .. Len(s) : s[i] = t}
<1>1. Index(s, t) = IF I # {} THEN Min(I) ELSE 0
  BY DEF SelectInSeq, Index
<1>2. CASE I = {}
  BY <1>1, <1>2
<1>3. CASE I # {}
  <2>1. I \in SUBSET Nat
    OBVIOUS
  <2>2. PICK x \in I : \A y \in I : x <= y
    BY <1>3, <2>1, Closing!LeastNumber
  <2>3. Min(I) \in I
    BY <2>2 DEF Min
  <2> QED
    BY <1>1, <1>3, <2>3
<1> QED
  BY <1>2, <1>3

(* The bar without a tab has all the others. *)
LEMMA Without ==
  ASSUME NEW s \in Seq(Tabs), IsInjective(s), NEW t, NEW rest, rest = RemoveAt(s, Index(s, t))
  PROVE  /\ rest \in Seq(Tabs) /\ IsInjective(rest)
         /\ \A u : Contains(rest, u) <=> Contains(s, u) /\ u # t
<1> DEFINE i == Index(s, t)
<1>1. i \in 0 .. Len(s) /\ (i > 0 => s[i] = t) /\ (i = 0 => \A j \in 1 .. Len(s) : s[j] # t)
  BY Found
<1> HIDE DEF i
<1>2. /\ rest \in Seq(Tabs)
      /\ Len(rest) = IF i = 0 THEN Len(s) ELSE Len(s) - 1
      /\ \A j \in 1 .. Len(rest) : rest[j] = IF i = 0 \/ j < i THEN s[j] ELSE s[j + 1]
  BY <1>1, Removed DEF i
<1>3. DOMAIN s = 1 .. Len(s) /\ DOMAIN rest = 1 .. Len(rest) /\ Len(s) \in Nat
  BY <1>2
<1>4. \A j, k \in 1 .. Len(s) : s[j] = s[k] => j = k
  BY <1>3 DEF IsInjective
<1>9. ASSUME i > 0, NEW j \in 1 .. Len(rest)
      PROVE  /\ j < i => j \in 1 .. Len(s) /\ rest[j] = s[j]
             /\ ~(j < i) => j + 1 \in 1 .. Len(s) /\ rest[j] = s[j + 1]
  <2>0. i # 0 /\ i \in 0 .. Len(s) /\ Len(s) \in Nat
    BY <1>1, <1>3, <1>9
  <2>1. Len(rest) = Len(s) - 1 /\ i \in 1 .. Len(s) /\ Len(s) \in Nat
    BY <1>2, <2>0
  <2>2. rest[j] = IF j < i THEN s[j] ELSE s[j + 1]
    BY <1>2, <1>9
  <2>3. j \in Int /\ 1 <= j /\ j <= Len(s) - 1
    BY <2>1
  <2> HIDE DEF i
  <2> QED
    BY <2>1, <2>2, <2>3
<1>5. IsInjective(rest)
  <2> SUFFICES ASSUME NEW j \in 1 .. Len(rest), NEW k \in 1 .. Len(rest), rest[j] = rest[k]
               PROVE  j = k
    BY <1>3 DEF IsInjective
  <2>1. CASE i = 0
    BY <1>2, <1>4, <2>1
  <2>2. CASE i > 0
    <3> DEFINE a == IF j < i THEN j ELSE j + 1
               b == IF k < i THEN k ELSE k + 1
    <3>1. a \in 1 .. Len(s) /\ b \in 1 .. Len(s) /\ rest[j] = s[a] /\ rest[k] = s[b]
      BY <1>9, <2>2
    <3>2. a = b
      BY <1>4, <3>1
    <3> QED
      BY <1>1, <3>2
  <2> QED
    BY <1>1, <2>1, <2>2
<1>6. ASSUME NEW j \in 1 .. Len(rest)
      PROVE  rest[j] # t /\ \E k \in 1 .. Len(s) : s[k] = rest[j]
  <2>1. CASE i = 0
    BY <1>1, <1>2, <2>1
  <2>2. CASE i > 0
    <3> DEFINE a == IF j < i THEN j ELSE j + 1
    <3>1. a \in 1 .. Len(s) /\ rest[j] = s[a] /\ a # i /\ i \in 1 .. Len(s)
      BY <1>1, <1>3, <1>9, <2>2
    <3> QED
      BY <1>1, <1>4, <2>2, <3>1
  <2> QED
    BY <1>1, <2>1, <2>2
<1>7. ASSUME NEW k \in 1 .. Len(s), s[k] # t PROVE \E j \in 1 .. Len(rest) : rest[j] = s[k]
  <2>1. CASE i = 0
    BY <1>2, <2>1
  <2>2. CASE i > 0
    <3>1. k # i
      BY <1>1, <1>7, <2>2
    <3>9. i # 0 /\ i \in 0 .. Len(s) /\ Len(s) \in Nat
      BY <1>1, <1>3, <2>2
    <3>0. Len(rest) = Len(s) - 1 /\ i \in 1 .. Len(s) /\ Len(s) \in Nat
      BY <1>2, <3>9
    <3>2. CASE k < i
      <4>1. k \in 1 .. Len(rest)
        BY <3>0, <3>2
      <4> QED
        BY <1>9, <2>2, <3>2, <4>1
    <3>3. CASE k > i
      <4>1. k - 1 \in 1 .. Len(rest) /\ ~(k - 1 < i) /\ (k - 1) + 1 = k
        BY <3>0, <3>3
      <4> QED
        BY <1>9, <2>2, <4>1
    <3> QED
      BY <1>1, <1>3, <3>1, <3>2, <3>3
  <2> QED
    BY <1>1, <2>1, <2>2
<1>8. \A u : Contains(rest, u) <=> Contains(s, u) /\ u # t
  BY <1>6, <1>7 DEF Contains
<1> QED
  BY <1>2, <1>5, <1>8

ClosingParts == FocusParts \cup {"tabs"}

(* A tab is closed, whose root may be hidden already, as it must be where  *)
(* no other takes its place.                                               *)
Closable(w, t) ==
    /\ Base(w) /\ t \in Tabs \ {"projects"}
    /\ w.cur \in Tabs \cup {None, "gone"}
    /\ w.cur \in Tabs => IsOpen(w, w.cur) /\ CanFocus(w.cur)
    /\ \A u \in Tabs : IsOpen(w, u) /\ CanFocus(u) => w.cur \in Tabs
    /\ IF t = w.cur THEN w.shown \subseteq {Root(t)} /\ (t \in FarTabs => w.shown = {})
       ELSE w.shown = {Root(u) : u \in Tabs \cap {w.cur}}

LEMMA RemoveTabBase ==
  ASSUME NEW w, NEW t, Closable(w, t),
         NEW xs, ClosingParts \subseteq xs, NEW ts, Shuts(t, xs, ts), NEW ks, "revisions" \in ks, NEW os
  PROVE  /\ Base(RemoveTab(w, t)) /\ Fronted(RemoveTab(w, t))
         /\ Frames(RemoveTab(w, t), w, xs, ts, ks, os)
         /\ RemoveTab(w, t).offer = w.offer
         /\ \A u : IsOpen(RemoveTab(w, t), u) <=> IsOpen(w, u) /\ u # t
<1> DEFINE P(r) == /\ Base(r) /\ Fronted(r) /\ Frames(r, w, xs, ts, ks, os) /\ r.offer = w.offer
                   /\ \A u : IsOpen(r, u) <=> IsOpen(w, u) /\ u # t
           i == SelectInSeq(w.tabs, LAMBDA u : u = t)
           rest == RemoveAt(w.tabs, i)
           start == IF i > 1 THEN i - 1 ELSE 1
           left == {j \in 1 .. start : j <= Len(rest) /\ CanFocus(rest[j])}
           right == {j \in start .. Len(rest) : CanFocus(rest[j])}
           gone == [w EXCEPT !.tabs = rest]
<1>1. i = Index(w.tabs, t)
  BY DEF Index, SelectInSeq
<1> HIDE DEF i
<1>2. i \in 0 .. Len(w.tabs) /\ Len(w.tabs) \in Nat
  BY <1>1, Found DEF Closable, Base
<1>3. /\ rest \in Seq(Tabs) /\ IsInjective(rest)
      /\ \A u : Contains(rest, u) <=> Contains(w.tabs, u) /\ u # t
  BY <1>1, Without DEF Closable, Base
<1>4. RemoveTab(w, t) = IF t # w.cur THEN gone
                        ELSE IF left # {} THEN SwitchTo(gone, rest[Max(left)])
                        ELSE IF right # {} THEN SwitchTo(gone, rest[Min(right)])
                        ELSE [gone EXCEPT !.cur = "gone"]
  BY DEF RemoveTab, rest, i
<1> HIDE DEF rest
<1>5. /\ IsRecord(gone, Parts) /\ gone.tabs = rest /\ gone.net = w.net /\ gone.offer = w.offer
      /\ gone.cur = w.cur /\ gone.shown = w.shown /\ gone.drawn = w.drawn /\ gone.log = w.log
      /\ gone.edit = w.edit /\ gone.errors = w.errors
      /\ \A x \in Parts \ {"tabs"} : gone[x] = w[x]
  BY DEF Closable, Base, IsRecord, Parts
<1>6. \A u : IsOpen(gone, u) <=> IsOpen(w, u) /\ u # t
  BY <1>3, <1>5 DEF IsOpen
<1>7. Base(gone)
  BY <1>3, <1>5, <1>6, MarkedStays DEF Closable, Base
<1>8. Frames(gone, w, xs, ts, ks, os)
  BY <1>5, <1>6 DEF Frames, ClosingParts, Closable
<1> HIDE DEF gone
<1>9. ASSUME t # w.cur PROVE P(RemoveTab(w, t))
  <2>1. Fronted(gone)
    BY <1>5, <1>6, <1>9 DEF Closable, Fronted
  <2> QED
    BY <1>4, <1>5, <1>6, <1>7, <1>8, <1>9, <2>1
<1>10. ASSUME t = w.cur, NEW j \in 1 .. Len(rest), CanFocus(rest[j])
       PROVE  P(SwitchTo(gone, rest[j]))
  <2> DEFINE u == rest[j]
  <2>0. u \in Tabs /\ Contains(rest, u)
    BY <1>3 DEF Contains
  <2>1. u \in Tabs /\ IsOpen(gone, u) /\ u # t
    BY <1>3, <1>5, <2>0 DEF IsOpen
  <2>2. gone.shown \ {Root(gone.cur)} = {}
    BY <1>5, <1>10 DEF Closable
  <2> DEFINE s == SwitchTo(gone, u)
  <2>3. /\ Base(s) /\ Fronted(s) /\ Frames(s, gone, xs, ts, ks, os) /\ s.offer = gone.offer
        /\ \A x : IsOpen(s, x) <=> IsOpen(gone, x)
    <3> HIDE DEF u
    <3>1. CanFocus(u) /\ u # gone.cur /\ FocusParts \subseteq xs
      BY <1>5, <1>10, <2>1 DEF u, ClosingParts
    <3> QED
      BY <1>7, <2>1, <2>2, <3>1, Turned
  <2> HIDE DEF s
  <2>4. P(s)
    BY <1>5, <1>6, <1>8, <2>3, FramesAlong
  <2> QED
    BY <2>4 DEF s
<1>11. ASSUME t = w.cur, left # {} PROVE P(RemoveTab(w, t))
  <2>1. left \in SUBSET (1 .. Len(rest)) /\ Len(rest) \in Nat
    BY <1>3
  <2>2. Max(left) \in left
    BY <1>11, <2>1, LastIsIn
  <2>3. Max(left) \in 1 .. Len(rest) /\ CanFocus(rest[Max(left)])
    BY <2>1, <2>2
  <2> HIDE DEF left, P
  <2> QED
    BY <1>4, <1>10, <1>11, <2>3
<1>12. ASSUME t = w.cur, left = {}, right # {} PROVE P(RemoveTab(w, t))
  <2>1. right \in SUBSET (1 .. Len(rest)) /\ right \in SUBSET Nat
    BY <1>2, <1>3
  <2>2. PICK x \in right : \A y \in right : x <= y
    BY <1>12, <2>1, Closing!LeastNumber
  <2>3. Min(right) \in right
    BY <2>2 DEF Min
  <2>4. Min(right) \in 1 .. Len(rest) /\ CanFocus(rest[Min(right)])
    BY <2>1, <2>3
  <2> HIDE DEF left, right, P
  <2> QED
    BY <1>4, <1>10, <1>12, <2>4
<1>13. ASSUME t = w.cur, left = {}, right = {} PROVE P(RemoveTab(w, t))
  <2> DEFINE s == [gone EXCEPT !.cur = "gone"]
  <2>1. \A j \in 1 .. Len(rest) : ~CanFocus(rest[j])
    BY <1>2, <1>3, <1>13
  <2>2. RemoveTab(w, t) = s
    BY <1>4, <1>13
  <2>3. /\ IsRecord(s, Parts) /\ s.cur = "gone" /\ \A x \in Parts \ {"cur"} : s[x] = gone[x]
    BY <1>7 DEF Base, IsRecord, Parts
  <2>4. /\ s.tabs = gone.tabs /\ s.shown = gone.shown /\ s.offer = gone.offer /\ s.net = gone.net
        /\ s.drawn = gone.drawn /\ s.log = gone.log /\ s.edit = gone.edit /\ s.errors = gone.errors
    BY <2>3 DEF Parts
  <2> HIDE DEF s, left, right, start
  <2>5. \A u : IsOpen(s, u) <=> IsOpen(gone, u)
    BY <2>4 DEF IsOpen
  <2>6. \A u \in Tabs : IsOpen(s, u) => ~CanFocus(u)
    BY <1>3, <1>5, <2>1, <2>5 DEF IsOpen, Contains
  <2>7. ~IsOpen(w, "projects")
    BY <1>6, <2>5, <2>6, Facts DEF Closable
  <2>8. t \in FarTabs
    <3>1. IsOpen(w, t)
      BY <1>13 DEF Closable
    <3> QED
      BY <2>7, <3>1 DEF Closable, Base
  <2>9. s.shown = {}
    BY <1>5, <1>13, <2>4, <2>8 DEF Closable
  <2>10. Fronted(s)
    BY <2>3, <2>6, <2>9, Facts DEF Fronted
  <2>11. Base(s)
    BY <1>7, <2>3, <2>4, <2>5, MarkedStays DEF Base
  <2>12. Frames(s, gone, xs, ts, ks, os)
    BY <2>3, <2>4, <2>5 DEF Frames, ClosingParts, FocusParts
  <2> QED
    BY <1>5, <1>6, <1>8, <2>2, <2>4, <2>5, <2>10, <2>11, <2>12, FramesAlong
<1> HIDE DEF P, left, right, gone, start
<1>14. P(RemoveTab(w, t))
  BY <1>9, <1>11, <1>12, <1>13
<1> QED
  BY <1>14 DEF P

(* A tab other than the few that may be without projects, and than that of *)
(* errors, is closed.                                                      *)
LEMMA RemoveTouches ==
  ASSUME NEW w, Whole(w), NEW t \in Tabs \ FarTabs, t # "errors",
         NEW xs, ClosingParts \subseteq xs, NEW ts, Shuts(t, xs, ts), NEW ks, "revisions" \in ks, NEW os
  PROVE  /\ Touches(RemoveTab(w, t), w, xs, ts, ks, os)
         /\ \A u : IsOpen(RemoveTab(w, t), u) <=> IsOpen(w, u) /\ u # t
<1> DEFINE r == RemoveTab(w, t)
<1>1. Closable(w, t)
  BY DEF Whole, Fronted, Closable, FarTabs
<1>2. /\ Base(r) /\ Fronted(r) /\ Frames(r, w, xs, ts, ks, os) /\ r.offer = w.offer
      /\ \A u : IsOpen(r, u) <=> IsOpen(w, u) /\ u # t
  BY <1>1, RemoveTabBase
<1> HIDE DEF r
<1>3. View(r)
  BY <1>2 DEF Whole, View
<1> QED
  BY <1>2, <1>3 DEF Touches, Whole, r

(* A page hides its root before it closes its tab. *)
LEMMA CloseTouches ==
  ASSUME NEW w, Whole(w), NEW t \in PageTabs \ LogTabs, t # "errors",
         NEW xs, ClosingParts \subseteq xs, NEW ts, Shuts(t, xs, ts), NEW ks, "revisions" \in ks, NEW os
  PROVE  /\ Touches(RemoveTab(Blur(w, t), t), w, xs, ts, ks, os)
         /\ \A u : IsOpen(RemoveTab(Blur(w, t), t), u) <=> IsOpen(w, u) /\ u # t
<1> DEFINE b == Blur(w, t)
           r == RemoveTab(b, t)
<1>1. IsRecord(b, Parts) /\ b.shown = w.shown \ {Root(t)} /\ \A x \in Parts \ {"shown"} : b[x] = w[x]
  BY DEF Whole, Base, IsRecord, Parts, Blur
<1>2. /\ b.tabs = w.tabs /\ b.cur = w.cur /\ b.net = w.net /\ b.offer = w.offer
      /\ b.drawn = w.drawn /\ b.log = w.log /\ b.edit = w.edit /\ b.errors = w.errors
  BY <1>1 DEF Parts
<1> HIDE DEF b
<1>3. \A u : IsOpen(b, u) <=> IsOpen(w, u)
  BY <1>2 DEF IsOpen
<1>4. Base(b)
  BY <1>1, <1>2, <1>3, MarkedStays DEF Whole, Base
<1>5. Root(t) = t /\ t \in Tabs \ {"projects"} /\ \A u \in Tabs : Root(u) = t => u = t
  BY Facts DEF Root, PageTabs, LogTabs
<1>6. Closable(b, t)
  BY <1>1, <1>2, <1>3, <1>4, <1>5 DEF Whole, Fronted, Closable
<1>7. /\ Base(r) /\ Fronted(r) /\ Frames(r, b, xs, ts, ks, os) /\ r.offer = b.offer
      /\ \A u : IsOpen(r, u) <=> IsOpen(b, u) /\ u # t
  BY <1>6, RemoveTabBase
<1>8. Frames(b, w, xs, ts, ks, os)
  BY <1>1, <1>2, <1>3 DEF Frames, ClosingParts, FocusParts
<1> HIDE DEF r
<1>9. View(r)
  BY <1>2, <1>3, <1>7 DEF Whole, View
<1>10. Frames(r, w, xs, ts, ks, os)
  BY <1>7, <1>8, FramesAlong
<1> QED
  BY <1>3, <1>7, <1>9, <1>10 DEF Touches, Whole, r, b

-----------------------------------------------------------------------------
(* The shell: the bar, the pane and the tabs of files. *)

ShellParts == {"cur", "shown", "pane", "drawn", "edit"}
ShellKinds == {"file", "revisions"}
ShellOffers == {"none", "close", "close all", "revision"}
Shell0(r, w) == Touches(r, w, ShellParts, Files, ShellKinds, ShellOffers)

(* The same where tabs may be closed. *)
Closed0(r, w) == Touches(r, w, ShellParts \cup {"tabs"}, Files, ShellKinds, ShellOffers)

LEMMA ShellNothing == ASSUME NEW w, Whole(w) PROVE Shell0(w, w) /\ Closed0(w, w)
BY TouchesNothing DEF Shell0, Closed0

LEMMA ShellWhole == ASSUME NEW w, NEW r, Shell0(r, w) \/ Closed0(r, w) PROVE Whole(r)
BY DEF Shell0, Closed0, Touches

LEMMA ShellAlong ==
  ASSUME NEW w, NEW r, NEW s, Shell0(r, w), Shell0(s, r)
  PROVE  Shell0(s, w)
BY TouchesAlong DEF Shell0

LEMMA ShellCloses == ASSUME NEW w, NEW r, Shell0(r, w) PROVE Closed0(r, w)
<1>1. ShellParts \subseteq ShellParts \cup {"tabs"}
  OBVIOUS
<1> QED
  BY <1>1, TouchesMore DEF Shell0, Closed0

LEMMA ClosedAlong ==
  ASSUME NEW w, NEW r, NEW s, Closed0(r, w), Closed0(s, r)
  PROVE  Closed0(s, w)
BY TouchesAlong DEF Closed0

(* Tabs that are open stay so. *)
LEMMA ShellOpen ==
  ASSUME NEW w, NEW r, Shell0(r, w), NEW t \in Tabs, IsOpen(w, t)
  PROVE  IsOpen(r, t)
BY DEF Shell0, Touches, Frames, ShellParts

LEMMA ShellSay == ASSUME NEW w, Whole(w) PROVE Shell0(Say(w), w)
BY SayTouches DEF Shell0, ShellOffers

LEMMA ShellOffer ==
  ASSUME NEW w, Whole(w), NEW kind \in {"close", "close all", "revision"}, NEW about,
         kind = "close" => about \in Files
  PROVE  Shell0(Offer(w, kind, about), w)
<1>1. Again([kind |-> kind, about |-> about])
  BY DEF Again
<1> QED
  BY <1>1, OfferTouches DEF Shell0, ShellOffers

LEMMA ShellAsk ==
  ASSUME NEW w, Whole(w), NEW m, Formed(m), m.kind \in ShellKinds
  PROVE  Shell0(Ask(w, m), w)
BY AskTouches DEF Shell0

LEMMA ShellPane == ASSUME NEW w, Whole(w), NEW v PROVE Shell0([w EXCEPT !.pane = v], w)
BY TouchesPart DEF Shell0, ShellParts, Parts, BarParts, FreeParts

LEMMA ShellContents == ASSUME NEW w, Whole(w), NEW f PROVE Shell0(ShowContents(w, f), w)
BY ShowContentsTouches DEF Shell0, ShellParts, FocusParts, ShellKinds

LEMMA ShellSwitch ==
  ASSUME NEW w, Whole(w), NEW t \in Tabs, IsOpen(w, t) PROVE Shell0(SwitchTo(w, t), w)
BY SwitchTouches DEF Shell0, ShellParts, FocusParts, ShellKinds

LEMMA KeysTouch ==
  ASSUME NEW w, Whole(w) PROVE Shell0(NextTab(w), w) /\ Shell0(PrevTab(w), w)
<1> DEFINE right == {j \in Place(w) + 1 .. Len(w.tabs) : CanFocus(w.tabs[j])}
           left == {j \in 1 .. Place(w) - 1 : CanFocus(w.tabs[j])}
<1>1. Place(w) \in 0 .. Len(w.tabs) /\ Len(w.tabs) \in Nat /\ w.tabs \in Seq(Tabs)
  <2>1. Place(w) = Index(w.tabs, w.cur)
    BY DEF Place, Index, SelectInSeq
  <2> QED
    BY <2>1, Found DEF Whole, Base
<1>2. \A j \in 1 .. Len(w.tabs) : Shell0(SwitchTo(w, w.tabs[j]), w)
  BY <1>1, ShellSwitch DEF IsOpen, Contains
<1>3. right # {} => Min(right) \in 1 .. Len(w.tabs)
  <2> SUFFICES ASSUME right # {} PROVE Min(right) \in 1 .. Len(w.tabs)
    OBVIOUS
  <2>1. right \in SUBSET (1 .. Len(w.tabs)) /\ right \in SUBSET Nat
    BY <1>1
  <2>2. PICK x \in right : \A y \in right : x <= y
    BY <2>1, Closing!LeastNumber
  <2>3. Min(right) \in right
    BY <2>2 DEF Min
  <2> QED
    BY <2>1, <2>3
<1>4. left # {} => Max(left) \in 1 .. Len(w.tabs)
  <2>1. left \in SUBSET (1 .. Len(w.tabs))
    BY <1>1
  <2>2. \A s \in SUBSET (1 .. Len(w.tabs)) : s # {} => Max(s) \in s
    BY <1>1, LastIsIn
  <2> HIDE DEF left
  <2> QED
    BY <2>1, <2>2
<1>5. Shell0(w, w)
  BY ShellNothing
<1>6. /\ NextTab(w) = IF Place(w) = 0 \/ right = {} THEN w ELSE SwitchTo(w, w.tabs[Min(right)])
      /\ PrevTab(w) = IF left = {} THEN w ELSE SwitchTo(w, w.tabs[Max(left)])
  BY DEF NextTab, PrevTab
<1> HIDE DEF left, right
<1> QED
  BY <1>2, <1>3, <1>4, <1>5, <1>6

LEMMA LoadContentsTouches ==
  ASSUME NEW w, Whole(w), NEW f PROVE Shell0(LoadContents(w, f), w)
<1> DEFINE m == [kind |-> "file", file |-> f, nth |-> w.edit[f].nth, rev |-> w.edit[f].rev]
<1>1. Formed(m) /\ m.kind \in ShellKinds
  BY DEF Formed, ShellKinds, IsRecord
<1> QED
  BY <1>1, ShellAsk DEF LoadContents

(* The tabs of files change, and their marks are right. *)
LEMMA EditTouches ==
  ASSUME NEW w, Whole(w), NEW v, IsRecord(v, Files), \A f \in Files : Tab(w, f, v[f])
  PROVE  Shell0([w EXCEPT !.edit = v], w)
<1> DEFINE r == [w EXCEPT !.edit = v]
<1>1. IsRecord(r, Parts) /\ r.edit = v /\ \A x \in Parts \ {"edit"} : r[x] = w[x]
  BY DEF Whole, Base, IsRecord, Parts
<1>2. r.tabs = w.tabs /\ r.errors = w.errors
  BY <1>1 DEF Parts
<1> HIDE DEF r
<1>3. Marked(r)
  <2>1. \A f \in Files : Tab(r, f, r.edit[f])
    BY <1>1, <1>2 DEF Tab, IsOpen
  <2> QED
    BY <1>1, <1>2, <2>1 DEF Marked, Whole, Base
<1>4. Shell0(r, w)
  BY <1>1, <1>2, <1>3, TouchesMarks DEF Shell0, ShellParts
<1> QED
  BY <1>4 DEF r

(* The tab of one file becomes another. *)
LEMMA TabTouches ==
  ASSUME NEW w, Whole(w), NEW f, NEW e, f \in Files => Tab(w, f, e)
  PROVE  Shell0([w EXCEPT !.edit = [w.edit EXCEPT ![f] = e]], w)
<1> DEFINE v == [w.edit EXCEPT ![f] = e]
<1>1. IsRecord(w.edit, Files) /\ \A g \in Files : Tab(w, g, w.edit[g])
  BY DEF Whole, Base, Marked
<1>2. IsRecord(v, Files) /\ \A g \in Files : v[g] = IF g = f THEN e ELSE w.edit[g]
  BY <1>1 DEF IsRecord
<1> HIDE DEF v
<1>3. \A g \in Files : Tab(w, g, v[g])
  BY <1>1, <1>2
<1>4. Shell0([w EXCEPT !.edit = v], w)
  BY <1>2, <1>3, EditTouches
<1> QED
  BY <1>4 DEF v

(* What has nothing to do with marks changes. *)
LEMMA TabField ==
  ASSUME NEW w, Whole(w), NEW f, NEW n \in {"dirty", "rev", "text"}, NEW x
  PROVE  Shell0([w EXCEPT !.edit = [w.edit EXCEPT ![f] = [w.edit[f] EXCEPT ![n] = x]]], w)
<1> DEFINE e == [w.edit[f] EXCEPT ![n] = x]
<1>1. ASSUME f \in Files PROVE Tab(w, f, e)
  <2>1. Tab(w, f, w.edit[f])
    BY <1>1 DEF Whole, Base, Marked
  <2>2. IsRecord(e, FileFields) /\ \A y \in FileFields \ {n} : e[y] = w.edit[f][y]
    BY <2>1 DEF Tab, IsRecord
  <2> HIDE DEF e
  <2>3. /\ e.nth = w.edit[f].nth /\ e.loaded = w.edit[f].loaded /\ e.marks = w.edit[f].marks
        /\ e.todo = w.edit[f].todo /\ e.late = w.edit[f].late
    BY <2>2 DEF FileFields
  <2> QED
    BY <2>1, <2>2, <2>3 DEF Tab, Rightly
<1> HIDE DEF e
<1>2. Shell0([w EXCEPT !.edit = [w.edit EXCEPT ![f] = e]], w)
  BY <1>1, TabTouches
<1> QED
  BY <1>2 DEF e

LEMMA OpenRevisionTouches ==
  ASSUME NEW w, Whole(w), NEW f, NEW rev PROVE Shell0(OpenRevision(w, f, rev), w)
<1> DEFINE r == [w EXCEPT !.edit = [w.edit EXCEPT ![f] = [w.edit[f] EXCEPT !.rev = rev]]]
<1>1. Shell0(r, w)
  BY TabField
<1>5. [w EXCEPT !.edit[f].rev = rev] = r
  OBVIOUS
<1> HIDE DEF r
<1>2. Shell0(Say(r), w)
  BY <1>1, ShellWhole, ShellSay, ShellAlong
<1>3. Shell0(LoadContents(Say(r), f), w)
  BY <1>2, ShellWhole, LoadContentsTouches, ShellAlong
<1>4. Shell0(Offer(w, "revision", <<f, rev>>), w)
  BY ShellOffer
<1>6. OpenRevision(w, f, rev) = IF w.edit[f].dirty THEN Offer(w, "revision", <<f, rev>>)
                                ELSE LoadContents(Say(r), f)
  BY <1>5 DEF OpenRevision
<1> QED
  BY <1>3, <1>4, <1>6

LEMMA EditFileTouches ==
  ASSUME NEW w, Whole(w), IsOpen(w, "projects"), NEW f \in Files, NEW rev
  PROVE  Shell0(EditFile(w, f, rev), w)
<1> DEFINE new == [NoFile EXCEPT !.nth = w.edit[f].nth + 1,
                                 !.rev = IF rev = None THEN HEAD ELSE rev]
           v == [w.edit EXCEPT ![f] = new]
           a == [w EXCEPT !.edit = v]
           b == AddTab(a, f)
           c == LoadContents(b, f)
<1>1. ASSUME IsOpen(w, f)
      PROVE  Shell0(SwitchTo(w, f), w) /\ Shell0(OpenRevision(SwitchTo(w, f), f, rev), w)
  <2>1. Shell0(SwitchTo(w, f), w)
    BY <1>1, ShellSwitch, Facts
  <2> QED
    BY <2>1, ShellWhole, OpenRevisionTouches, ShellAlong
<1>2. ASSUME ~IsOpen(w, f)
      PROVE  /\ Shell0(a, w) /\ Whole(a)
             /\ a.tabs = w.tabs /\ Rightly(a.edit[f], a.errors.listed[f])
  <2>1. w.edit[f].nth \in Nat /\ IsRecord(w.edit, Files)
    BY DEF Whole, Base, Marked, Tab
  <2>2. IsRecord(new, FileFields) /\ new.nth \in Nat /\ \A n : Rightly(new, n)
    <3>1. IsRecord(NoFile, FileFields)
      BY DEF NoFile, IsRecord, FileFields
    <3>2. /\ IsRecord(new, FileFields) /\ new.nth = w.edit[f].nth + 1
          /\ new.loaded = NoFile.loaded /\ new.marks = NoFile.marks /\ new.todo = NoFile.todo
      BY <3>1 DEF IsRecord, FileFields
    <3>3. ~NoFile.loaded /\ NoFile.marks = 0 /\ NoFile.todo = 0
      BY DEF NoFile
    <3> HIDE DEF new
    <3>4. ~new.loaded
      BY <3>2, <3>3, Zenon
    <3> QED
      BY <2>1, <3>2, <3>3, <3>4 DEF Rightly
  <2>3. v[f] = new /\ a.tabs = w.tabs /\ a.edit = v
    BY <2>1 DEF IsRecord, Whole, Base, Parts
  <2> HIDE DEF new
  <2>4. Shell0(a, w)
    BY <1>2, <2>2, TabTouches DEF Tab
  <2> QED
    BY <2>2, <2>3, <2>4, ShellWhole
<1>3. ASSUME ~IsOpen(w, f) PROVE Shell0(b, w) /\ IsOpen(b, f)
  <2>0. Shell0(a, w) /\ Whole(a) /\ a.tabs = w.tabs /\ Rightly(a.edit[f], a.errors.listed[f])
    BY <1>2, <1>3
  <2> HIDE DEF a
  <2>1. IsOpen(a, "projects") /\ a.cur \in Tabs
    BY <2>0, ShellOpen, SomeFront, Facts
  <2>3. Addable(a, f)
    BY <1>3, <2>0, <2>1, Facts DEF Addable, IsOpen
  <2>4. Shell0(b, a)
    BY <2>0, <2>1, <2>3, AddTabTouches DEF Shell0
  <2>5. IsOpen(b, f)
    BY <2>0, <2>3, AddTabBase
  <2> QED
    BY <2>0, <2>4, <2>5, ShellAlong
<1>4. ASSUME ~IsOpen(w, f) PROVE Shell0(SwitchTo(c, f), w)
  <2>1. Whole(b) /\ Shell0(c, b) /\ f \in Tabs
    BY <1>3, <1>4, ShellWhole, LoadContentsTouches, Facts
  <2>2. Shell0(c, w) /\ IsOpen(c, f) /\ Whole(c)
    BY <1>3, <1>4, <2>1, ShellAlong, ShellOpen, ShellWhole
  <2> HIDE DEF c
  <2> QED
    BY <2>1, <2>2, ShellSwitch, ShellAlong
<1>5. a = [w EXCEPT !.edit[f] = new]
  OBVIOUS
<1>6. EditFile(w, f, rev) =
        IF IsOpen(w, f)
        THEN IF rev = None THEN SwitchTo(w, f) ELSE OpenRevision(SwitchTo(w, f), f, rev)
        ELSE SwitchTo(c, f)
  BY <1>5 DEF EditFile
<1> HIDE DEF c
<1> QED
  BY <1>1, <1>4, <1>6

(* A text comes: what waited for it is marked. *)
LEMMA ReceiveContentsTouches ==
  ASSUME NEW w, Whole(w), NEW m PROVE Shell0(ReceiveContents(w, m), w)
<1> DEFINE f == m.file
           p == [session |-> None, name |-> <<m.file, m.rev>>, history |-> None]
           e == [w.edit[f] EXCEPT !.loaded = TRUE, !.dirty = FALSE, !.text = m.rev]
           a == [w EXCEPT !.edit = [w.edit EXCEPT ![f] = e]]
           shown == ShowContents(a, f)
           e2 == [shown.edit[f] EXCEPT !.marks = shown.edit[f].todo]
           b == [shown EXCEPT !.edit = [shown.edit EXCEPT ![f] = e2]]
           q == [w EXCEPT !.pane = p]
           n == [kind |-> "revisions", file |-> f, team |-> w.team]
<1>1. Shell0(Ask(q, n), w)
  <2>1. Shell0(q, w)
    BY ShellPane
  <2>2. Formed(n) /\ n.kind \in ShellKinds
    BY DEF Formed, OpKinds, ShellKinds
  <2> HIDE DEF q, n
  <2>3. Shell0(Ask(q, n), q)
    BY <2>1, <2>2, ShellWhole, ShellAsk
  <2> QED
    BY <2>1, <2>3, ShellAlong
<1>2. ASSUME f \in Files
      PROVE  /\ IsRecord(w.edit[f], FileFields) /\ w.edit[f].nth \in Nat
             /\ IsRecord(e, FileFields) /\ e.loaded /\ e.nth = w.edit[f].nth
             /\ e.marks = w.edit[f].marks /\ e.todo = w.edit[f].todo /\ e.late = w.edit[f].late
             /\ IsOpen(w, f) => Rightly(w.edit[f], w.errors.listed[f])
  <2>1. Tab(w, f, w.edit[f])
    BY <1>2 DEF Whole, Base, Marked
  <2> QED
    BY <2>1 DEF Tab, IsRecord, FileFields
<1>3. Shell0(a, w)
  <2> HIDE DEF e
  <2>1. f \in Files => Tab(w, f, e)
    BY <1>2 DEF Tab, Rightly
  <2> QED
    BY <2>1, TabTouches
<1>4. Whole(a) /\ a.errors = w.errors /\ a.tabs = w.tabs /\ (f \in Files => a.edit[f] = e)
  <2>1. IsRecord(w.edit, Files) /\ IsRecord(w, Parts)
    BY DEF Whole, Base, Marked
  <2> HIDE DEF e
  <2>2. a.errors = w.errors /\ a.tabs = w.tabs /\ (f \in Files => a.edit[f] = e)
    BY <2>1 DEF IsRecord, Parts
  <2> HIDE DEF a
  <2> QED
    BY <1>3, <2>2, ShellWhole
<1> HIDE DEF a
<1>5. /\ Shell0(shown, w) /\ Whole(shown) /\ shown.errors = w.errors /\ shown.tabs = w.tabs
      /\ f \in Files => shown.edit[f] = e
  <2>1. Draws(shown, a)
    BY <1>4, ShowContentsDraws DEF Whole
  <2>2. shown.errors = a.errors /\ shown.tabs = a.tabs /\ shown.edit = a.edit
    BY <2>1 DEF Draws, Parts
  <2>3. Shell0(shown, a)
    BY <1>4, ShellContents
  <2> HIDE DEF shown, e
  <2> QED
    BY <1>3, <1>4, <2>2, <2>3, ShellAlong, ShellWhole
<1>6. ASSUME ~w.edit[f].loaded PROVE Shell0(b, w)
  <2> HIDE DEF shown
  <2>1. ASSUME f \in Files PROVE Tab(shown, f, e2)
    <3>1. shown.edit[f] = e
      BY <1>5, <2>1
    <3>2. IsRecord(e2, FileFields) /\ e2.marks = e.todo /\ e2.loaded /\ e2.nth = e.nth
          /\ e2.late = e.late
      BY <1>2, <2>1, <3>1 DEF IsRecord, FileFields
    <3> HIDE DEF e, e2
    <3>3. IsOpen(shown, f) => IsOpen(w, f)
      BY <1>5 DEF IsOpen
    <3> QED
      BY <1>2, <1>5, <1>6, <2>1, <3>2, <3>3 DEF Tab, Rightly
  <2> HIDE DEF e2
  <2>2. Shell0(b, shown)
    BY <1>5, <2>1, TabTouches
  <2> QED
    BY <1>5, <2>2, ShellAlong
<1>7. \/ ReceiveContents(w, m) = Ask(q, n)
      \/ ReceiveContents(w, m) = shown
      \/ ~w.edit[f].loaded /\ ReceiveContents(w, m) = b
  <2>1. a = [w EXCEPT !.edit[m.file] =
                  [@ EXCEPT !.loaded = TRUE, !.dirty = FALSE, !.text = m.rev]]
    BY DEF a
  <2>2. b = [shown EXCEPT !.edit[m.file].marks = shown.edit[m.file].todo]
    OBVIOUS
  <2> HIDE DEF b, e, e2
  <2> QED
    BY <2>1, <2>2 DEF ReceiveContents
<1> HIDE DEF b, e, e2, shown, q, n
<1> QED
  BY <1>1, <1>5, <1>6, <1>7

(* A file that may be closed without a question is, and no other tab.      *)
LEMMA FileClosed ==
  ASSUME NEW w, Whole(w), NEW f \in Files, NEW override, override \/ ~w.edit[f].dirty,
         NEW xs, ClosingParts \subseteq xs, NEW ts, f \in ts, NEW ks, "revisions" \in ks,
         NEW os, "none" \in os
  PROVE  /\ Touches(CloseFile(w, f, override), w, xs, ts, ks, os)
         /\ \A t : IsOpen(CloseFile(w, f, override), t) <=> IsOpen(w, t) /\ t # f
<1> DEFINE r == RemoveTab(w, f)
<1>1. f \in Tabs \ FarTabs /\ f # "errors" /\ Shuts(f, xs, ts)
  BY Facts DEF PageTabs, Shuts
<1>2. Touches(r, w, xs, ts, ks, os) /\ \A t : IsOpen(r, t) <=> IsOpen(w, t) /\ t # f
  BY <1>1, RemoveTouches
<1>3. CloseFile(w, f, override) = Say(r)
  BY DEF CloseFile
<1> HIDE DEF r
<1>4. Touches(Say(r), r, xs, ts, ks, os)
  BY <1>2, SayTouches DEF Touches
<1>5. Say(r).tabs = r.tabs
  BY <1>2 DEF Touches, Whole, Base, IsRecord, Parts, Say
<1> QED
  BY <1>2, <1>3, <1>4, <1>5, TouchesAlong DEF IsOpen

LEMMA CloseFileTouches ==
  ASSUME NEW w, Whole(w), NEW f \in Files, NEW override, override \/ IsOpen(w, f)
  PROVE  Closed0(CloseFile(w, f, override), w)
<1>1. CASE override \/ ~w.edit[f].dirty
  <2>1. ClosingParts \subseteq ShellParts \cup {"tabs"} /\ "revisions" \in ShellKinds
        /\ "none" \in ShellOffers
    BY DEF ClosingParts, FocusParts, ShellParts, ShellKinds, ShellOffers
  <2> QED
    BY <1>1, <2>1, FileClosed, Zenon DEF Closed0
<1>2. CASE ~override /\ w.edit[f].dirty
  <2>1. Shell0(SwitchTo(w, f), w)
    BY <1>2, ShellSwitch, Facts
  <2>2. Shell0(Offer(SwitchTo(w, f), "close", f), w)
    BY <2>1, ShellWhole, ShellOffer, ShellAlong
  <2> QED
    BY <1>2, <2>2, ShellCloses DEF CloseFile
<1> QED
  BY <1>1, <1>2

(* Marking and clearing concern one tab, and make it right for what is     *)
(* listed of the file, or for nothing.                                     *)
LEMMA MarksAre ==
  ASSUME NEW u, IsRecord(u, Parts), IsRecord(u.edit, Files),
         \A g \in Files : IsRecord(u.edit[g], FileFields),
         NEW f, NEW n,
         NEW r, r = MarkErrors(u, f, n) \/ (n = 0 /\ r = ClearErrors(u, f))
  PROVE  /\ IsRecord(r, Parts) /\ \A x \in Parts \ {"edit"} : r[x] = u[x]
         /\ IsRecord(r.edit, Files) /\ \A g \in Files \ {f} : r.edit[g] = u.edit[g]
         /\ f \in Files => IsRecord(r.edit[f], FileFields) /\ r.edit[f].nth = u.edit[f].nth
         /\ \A o : f \in Files /\ IsOpen(u, f) /\ Rightly(u.edit[f], o) => Rightly(r.edit[f], n)
<1>1. ASSUME NEW e, r = [u EXCEPT !.edit[f] = e],
             f \in Files => IsRecord(e, FileFields) /\ e.nth = u.edit[f].nth,
             \A o : f \in Files /\ IsOpen(u, f) /\ Rightly(u.edit[f], o) => Rightly(e, n)
      PROVE  /\ IsRecord(r, Parts) /\ \A x \in Parts \ {"edit"} : r[x] = u[x]
             /\ IsRecord(r.edit, Files) /\ \A g \in Files \ {f} : r.edit[g] = u.edit[g]
             /\ f \in Files => IsRecord(r.edit[f], FileFields) /\ r.edit[f].nth = u.edit[f].nth
             /\ \A o : f \in Files /\ IsOpen(u, f) /\ Rightly(u.edit[f], o) => Rightly(r.edit[f], n)
  <2>1. IsRecord(r, Parts) /\ r.edit = [u.edit EXCEPT ![f] = e]
        /\ \A x \in Parts \ {"edit"} : r[x] = u[x]
    BY <1>1 DEF IsRecord, Parts
  <2>2. /\ IsRecord(r.edit, Files) /\ \A g \in Files \ {f} : r.edit[g] = u.edit[g]
        /\ f \in Files => r.edit[f] = e
    BY <2>1 DEF IsRecord
  <2> QED
    BY <1>1, <2>1, <2>2
<1>2. CASE r = u /\ (f \in Files => ~IsOpen(u, f))
  BY <1>2
<1>3. CASE IsOpen(u, f) /\ u.edit[f].loaded
           /\ r = [u EXCEPT !.edit[f] = [@ EXCEPT !.marks = n, !.late = FALSE]]
  <2> DEFINE e == [u.edit[f] EXCEPT !.marks = n, !.late = FALSE]
  <2>1. ASSUME f \in Files
        PROVE  /\ IsRecord(e, FileFields) /\ e.nth = u.edit[f].nth
               /\ e.marks = n /\ e.loaded = u.edit[f].loaded
    BY <2>1 DEF IsRecord, FileFields
  <2>2. r = [u EXCEPT !.edit[f] = e]
    BY <1>3
  <2> HIDE DEF e
  <2>3. \A o : f \in Files /\ IsOpen(u, f) /\ Rightly(u.edit[f], o) => Rightly(e, n)
    BY <1>3, <2>1 DEF Rightly
  <2> QED
    BY <1>1, <2>1, <2>2, <2>3
<1>4. CASE IsOpen(u, f) /\ ~u.edit[f].loaded
           /\ r = [u EXCEPT !.edit[f] = [@ EXCEPT !.todo = n, !.late = FALSE]]
  <2> DEFINE e == [u.edit[f] EXCEPT !.todo = n, !.late = FALSE]
  <2>1. ASSUME f \in Files
        PROVE  /\ IsRecord(e, FileFields) /\ e.nth = u.edit[f].nth
               /\ e.todo = n /\ e.loaded = u.edit[f].loaded /\ e.marks = u.edit[f].marks
    BY <2>1 DEF IsRecord, FileFields
  <2>2. r = [u EXCEPT !.edit[f] = e]
    BY <1>4
  <2> HIDE DEF e
  <2>3. \A o : f \in Files /\ IsOpen(u, f) /\ Rightly(u.edit[f], o) => Rightly(e, n)
    BY <1>4, <2>1 DEF Rightly
  <2> QED
    BY <1>1, <2>1, <2>2, <2>3
<1>5. CASE n = 0 /\ r = [u EXCEPT !.edit[f] = [@ EXCEPT !.marks = 0,
                            !.late = u.edit[f].late \/ (~u.edit[f].loaded /\ u.edit[f].todo # 0)]]
  <2> DEFINE l == u.edit[f].late \/ (~u.edit[f].loaded /\ u.edit[f].todo # 0)
             e == [u.edit[f] EXCEPT !.marks = 0, !.late = l]
  <2>1. ASSUME f \in Files
        PROVE  /\ IsRecord(e, FileFields) /\ e.nth = u.edit[f].nth
               /\ e.marks = 0 /\ e.loaded = u.edit[f].loaded /\ e.todo = u.edit[f].todo
               /\ e.late = l
    <3> HIDE DEF l
    <3> QED
      BY <2>1 DEF IsRecord, FileFields
  <2>2. r = [u EXCEPT !.edit[f] = e]
    BY <1>5
  <2> HIDE DEF e
  <2>3. \A o : f \in Files /\ IsOpen(u, f) /\ Rightly(u.edit[f], o) => Rightly(e, n)
    <3> SUFFICES ASSUME NEW o, f \in Files, Rightly(u.edit[f], o) PROVE Rightly(e, n)
      OBVIOUS
    <3>1. e.nth > 0 /\ e.marks = 0
      BY <2>1 DEF Rightly
    <3>2. e.late \/ (~e.loaded => e.todo = 0)
      BY <2>1
    <3> QED
      BY <1>5, <3>1, <3>2 DEF Rightly
  <2> QED
    BY <1>1, <2>1, <2>2, <2>3
<1> QED
  BY <1>2, <1>3, <1>4, <1>5 DEF MarkErrors, ClearErrors

LEMMA MarksTouch ==
  ASSUME NEW w, Whole(w), NEW f
  PROVE  Shell0(MarkErrors(w, f, w.errors.listed[f]), w)
<1> DEFINE r == MarkErrors(w, f, w.errors.listed[f])
<1>1. /\ IsRecord(w, Parts) /\ IsRecord(w.edit, Files) /\ Checked(w.errors)
      /\ \A g \in Files : Tab(w, g, w.edit[g])
  BY DEF Whole, Base, Marked
<1>2. \A g \in Files : IsRecord(w.edit[g], FileFields)
  BY <1>1 DEF Tab
<1>3. /\ IsRecord(r, Parts) /\ \A x \in Parts \ {"edit"} : r[x] = w[x]
      /\ IsRecord(r.edit, Files) /\ \A g \in Files \ {f} : r.edit[g] = w.edit[g]
      /\ f \in Files => IsRecord(r.edit[f], FileFields) /\ r.edit[f].nth = w.edit[f].nth
      /\ \A o : f \in Files /\ IsOpen(w, f) /\ Rightly(w.edit[f], o)
                => Rightly(r.edit[f], w.errors.listed[f])
  BY <1>1, <1>2, MarksAre
<1> HIDE DEF r
<1>4. r.tabs = w.tabs /\ r.errors = w.errors
  BY <1>3 DEF Parts
<1>5. \A g \in Files : Tab(r, g, r.edit[g])
  BY <1>1, <1>3, <1>4 DEF Tab, IsOpen
<1>6. Marked(r)
  BY <1>1, <1>3, <1>4, <1>5 DEF Marked
<1>7. Shell0(r, w)
  BY <1>3, <1>4, <1>6, TouchesMarks DEF Shell0, ShellParts
<1> QED
  BY <1>7 DEF r

LEMMA CloseFilesTouches ==
  ASSUME NEW w, Whole(w), NEW override \in BOOLEAN PROVE Closed0(CloseFiles(w, override), w)
<1> DEFINE kept == IF override THEN {} ELSE Modified(w)
           c == [from |-> w, xs |-> ClosingParts, ts |-> Files, ks |-> ShellKinds,
                 os |-> ShellOffers, keep |-> kept,
                 tabs |-> w.tabs, kept |-> kept, override |-> override]
           S == DOMAIN w.tabs
           Body(it) == [s \in SUBSET S |->
                          IF s = {} THEN w
                          ELSE IF w.tabs[Max(s)] \in Files \ kept
                               THEN CloseFile(it[s \ {Max(s)}], w.tabs[Max(s)], override)
                               ELSE it[s \ {Max(s)}]]
           close(u, t) == IF t \in Files \ kept THEN CloseFile(u, t, override) ELSE u
           closed == FoldLeft(close, w, w.tabs)
<1>0. kept \subseteq Files /\ \A f \in kept : IsOpen(w, f)
  BY DEF Modified, OpenFiles
<1>1. S = 1 .. Len(w.tabs) /\ Len(w.tabs) \in Nat
  BY DEF Whole, Base
<1>2. IsFiniteSet(S) /\ \A s \in SUBSET S : s # {} => Max(s) \in s
  <2> DEFINE n == Len(w.tabs)
  <2>1. n \in Nat
    BY <1>1
  <2> HIDE DEF n
  <2>2. \A s \in SUBSET (1 .. n) : s # {} => Max(s) \in s
    BY <2>1, LastIsIn
  <2>3. IsFiniteSet(1 .. n)
    BY <2>1, FS_Interval
  <2> HIDE DEF S
  <2> QED
    BY <1>1, <2>2, <2>3 DEF n
<1>3. Holds(c, w)
  BY <1>0, TouchesNothing DEF Holds
<1>13. \A t \in Files \ kept : IsOpen(w, t) => override \/ ~w.edit[t].dirty
  BY DEF Modified, OpenFiles
<1>14. ASSUME NEW f \in Files \ kept, IsOpen(w, f), NEW u,
              Touches(u, w, ClosingParts, Files, ShellKinds, ShellOffers),
              \A t \in kept : IsOpen(u, t)
       PROVE  /\ Touches(CloseFile(u, f, override), w, ClosingParts, Files, ShellKinds, ShellOffers)
              /\ \A t \in kept : IsOpen(CloseFile(u, f, override), t)
  <2> DEFINE r == CloseFile(u, f, override)
  <2>1. u.edit = w.edit /\ Whole(u)
    BY <1>14 DEF Touches, Frames, ClosingParts, FocusParts, Parts
  <2>2. override \/ ~u.edit[f].dirty
    BY <1>13, <1>14, <2>1
  <2>3. /\ Touches(r, u, ClosingParts, Files, ShellKinds, ShellOffers)
        /\ \A t : IsOpen(r, t) <=> IsOpen(u, t) /\ t # f
    <3>1. "revisions" \in ShellKinds /\ "none" \in ShellOffers
          /\ ClosingParts \subseteq ClosingParts /\ f \in Files
      BY DEF ShellKinds, ShellOffers
    <3> QED
      BY <2>1, <2>2, <3>1, FileClosed, Zenon
  <2> HIDE DEF r
  <2> QED
    BY <1>14, <2>3, TouchesAlong DEF r
<1> HIDE DEF kept
<1>4. \A i \in S : \A u : Holds(c, u) => Holds(c, CloseEach(c, i, u))
  <2> SUFFICES ASSUME NEW i \in S, NEW u, Holds(c, u)
               PROVE  Holds(c, CloseEach(c, i, u))
    OBVIOUS
  <2>1. /\ Touches(u, w, ClosingParts, Files, ShellKinds, ShellOffers)
        /\ \A t \in kept : IsOpen(u, t)
    BY DEF Holds
  <2>2. IsOpen(w, w.tabs[i])
    BY <1>1 DEF IsOpen, Contains
  <2>3. CloseEach(c, i, u) = IF w.tabs[i] \in Files \ kept THEN CloseFile(u, w.tabs[i], override)
                             ELSE u
    BY DEF CloseEach
  <2> DEFINE r == CloseEach(c, i, u)
  <2>4. /\ Touches(r, w, ClosingParts, Files, ShellKinds, ShellOffers)
        /\ \A t \in kept : IsOpen(r, t)
    <3> HIDE DEF r
    <3>1. r = IF w.tabs[i] \in Files \ kept THEN CloseFile(u, w.tabs[i], override) ELSE u
      BY <2>3 DEF r
    <3> QED
      BY <1>14, <2>1, <2>2, <3>1
  <2> QED
    BY <2>4 DEF Holds
<1>5. \A i \in S : \A u : CloseEach(c, i, u) = IF w.tabs[i] \in Files \ kept
                                                THEN CloseFile(u, w.tabs[i], override) ELSE u
  BY DEF CloseEach
<1>15. \A u : Holds(c, u) => /\ Touches(u, w, ClosingParts, Files, ShellKinds, ShellOffers)
                            /\ \A t \in kept : IsOpen(u, t)
  BY DEF Holds
<1> HIDE DEF c, S
<1>6. /\ \E it : Closing!Iterates(it, c, w, S)
      /\ \A it : Closing!Iterates(it, c, w, S) => Holds(c, it[S])
  BY <1>2, <1>3, <1>4, Closing!Iteration DEF Closing!IsFiniteSet, IsFiniteSet
<1>7. \A it : Closing!Iterates(it, c, w, S) <=> it = Body(it)
  <2>1. \A s \in SUBSET S : s # {} => Max(s) \in s
    BY <1>2
  <2> QED
    BY <1>5, <2>1 DEF Closing!Iterates
<1> HIDE DEF Body
<1>8. (CHOOSE it : it = Body(it)) = Body(CHOOSE it : it = Body(it))
  BY <1>6, <1>7, Zenon
<1>9. closed = (CHOOSE it : it = Body(it))[S]
  BY Zenon DEF FoldLeft, MapThenFoldSet, Body, S
<1>10. /\ Touches(closed, w, ClosingParts, Files, ShellKinds, ShellOffers)
       /\ \A t \in kept : IsOpen(closed, t)
  BY <1>6, <1>7, <1>8, <1>9, <1>15
<1> HIDE DEF closed
<1>11. Closed0(closed, w)
  <2>1. ClosingParts \subseteq ShellParts \cup {"tabs"}
    BY DEF ClosingParts, FocusParts, ShellParts
  <2> QED
    BY <1>10, <2>1, TouchesMore DEF Closed0
<1>12. /\ \A f \in kept : Closed0(CloseFile(closed, f, FALSE), w)
       /\ Closed0(Offer(closed, "close all", None), w)
  <2>1. \A f \in kept : Closed0(CloseFile(closed, f, FALSE), w)
    BY <1>0, <1>10, <1>11, ShellWhole, CloseFileTouches, ClosedAlong
  <2>2. Closed0(Offer(closed, "close all", None), closed)
    BY <1>11, ShellWhole, ShellOffer, ShellCloses
  <2> QED
    BY <1>11, <2>1, <2>2, ClosedAlong
<1>16. CloseFiles(w, override) =
         IF kept = {} THEN closed
         ELSE IF Cardinality(kept) = 1 THEN CloseFile(closed, CHOOSE f \in kept : TRUE, FALSE)
         ELSE Offer(closed, "close all", None)
  BY DEF CloseFiles, closed, kept
<1> QED
  BY <1>11, <1>12, <1>16

-----------------------------------------------------------------------------
(* The pages. With what it does to its own parts, a page may do anything   *)
(* to the shell's.                                                         *)

PartsOf(x) ==
    CASE x = "menu" -> {"menu", "about"}
      [] x = "file" -> {"tabs"}
      [] x = "search" -> {"search"}
      [] x = "settings" -> {"settings"}
      [] x = "errors" -> {"errors", "tabs"}
      [] x = "view" -> {"errors"}
      [] x = "logs" -> {"log", "commits"}
      [] x = "diff" -> {"log", "diff"}
      [] x = "calendar" -> {"cal"}
      [] x = "admin" -> {"admin", "reviews"}
      [] x = "status" -> {"status", "texts"}
      [] x = "files" -> {"ops", "dlg", "disk", "tabs"}
      [] x = "bar" -> {"search", "errors", "diff", "tabs", "shut", "shut all"}
      [] x = "closing" -> {"search", "diff", "tabs", "shut"}
      [] x = "others" -> {"errors", "diff", "tabs"}
      [] x = "team" -> {"search", "errors", "diff", "team", "ops", "cal", "settings", "loaded",
                       "tabs", "shut", "shut all"}
      [] OTHER -> {}

TabsOf(x) ==
    CASE x = "search" -> {"search"}
      [] x = "settings" -> {"settings"}
      [] x \in {"errors", "view"} -> {"errors"}
      [] x = "logs" -> LogTabs
      [] x = "diff" -> {"diff"}
      [] x = "admin" -> {"admin"}
      [] x = "status" -> {"review"}
      [] x = "team" -> {"shortcuts", "projects"}
      [] x = "projects" -> {"projects"}
      [] x = "others" -> PageTabs \ {"search"}
      [] OTHER -> {}

AsksOf(x) ==
    CASE x = "menu" -> {"about"}
      [] x = "search" -> SearchKinds
      [] x = "settings" -> {"put"}
      [] x \in {"errors", "view"} -> {"lint"}
      [] x = "logs" -> LogKinds
      [] x = "diff" -> {"diff"}
      [] x = "calendar" -> {"dates"}
      [] x = "admin" -> AdminKinds \cup {"verdict"}
      [] x = "status" -> StatusKinds
      [] x = "files" -> OpKinds \cup DialogKinds
      [] x = "team" -> {"put"}
      [] x = "start" -> {"user"}
      [] OTHER -> {}

OffersOf(x) ==
    CASE x = "file" -> {"load"}
      [] x = "settings" -> {"put"}
      [] x \in {"errors", "view"} -> {"view errors", "lint"}
      [] x = "logs" -> {"revert", "revert again", "history"}
      [] x = "diff" -> {"diff"}
      [] x = "files" -> {"delete", "again", "plist"}
      [] x = "start" -> {"user"}
      [] OTHER -> {}

Page(x, r, w) == Touches(r, w, ShellParts \cup PartsOf(x), Files \cup TabsOf(x),
                         ShellKinds \cup AsksOf(x), ShellOffers \cup OffersOf(x))
Shutting(x, t) == Shuts(t, ShellParts \cup PartsOf(x), Files \cup TabsOf(x))

(* The page of errors is open exactly while it lists some, and lists those *)
(* that the model knows.                                                   *)
Paired(w) == IsOpen(w, "errors") <=> Entries(w) # {}
Learnt(w) == \A f \in Entries(w) : w.errors.listed[f] = w.errors.known[f]
Trued(r, w) == (Paired(w) => Paired(r)) /\ (Learnt(w) => Learnt(r))

(* The search: its results are files and projects, and what it asked for   *)
(* is of a team's; one that goes on is of the page that is open.           *)
SearchFields == {"query", "nth", "local", "cancelled", "async", "results", "lost", "cleared"}
Seeks(m) == m.kind \in SearchKinds
Placed(r) ==
    LET s == r.search
    IN /\ IsRecord(s, SearchFields)
       /\ \A e \in DOMAIN s.results : e.item \in Files \cup Projects
       /\ \A m \in r.net : Seeks(m) => m.team \in Teams /\ m.project \in Projects /\ r.team \in Teams
       /\ IsOpen(r, "search") => r.team \in Teams
       /\ ~s.cleared => IsOpen(r, "search") /\ ~s.cancelled

(* A search whose answers are to come can be cancelled, or was; it was     *)
(* when the page is not open.                                              *)
Hushed(r) ==
    /\ (\E m \in r.net : Seeks(m)) => r.search.async \/ r.search.cancelled
    /\ ~IsOpen(r, "search") => /\ r.search.results = EmptyBag
                               /\ \A m \in r.net : Seeks(m) => r.search.cancelled

(* What was asked for is of the team and the query of now, once for each   *)
(* project and provider; the results there are of the query, once each,    *)
(* and none of what is still to come, and there are those of what has come.*)
Sought(r, k, p) == \E m \in r.net : Seeks(m) /\ m.kind = k /\ m.project = p
AskedFor(r, s) ==
    \A m \in r.net : Seeks(m) =>
       /\ m.team = r.team /\ m.query = s.query /\ m.project \in Listed(r)
       /\ \A n \in r.net : Seeks(n) /\ n.kind = m.kind /\ n.project = m.project => n = m
Come(r, k, x) == \A p \in Listed(r) : x \in Trees[r.team][p] => ~Sought(r, k, p)
Unmixed(r, s) ==
    \A e \in DOMAIN s.results :
       /\ e.query = s.query /\ s.results[e] = 1
       /\ e.section = "contents" /\ e.item \notin s.local => Come(r, "contents", e.item)
       /\ e.section = "names" => Come(r, "names", e.item)
Missing(r, s, k, p) == Sought(r, k, p) \/ <<k, p>> \in s.lost
Lists(s, section, xs) == \A x \in xs : Result(section, x, s.query) \in DOMAIN s.results
Full(r, s) ==
    \A p \in Listed(r) :
       /\ Lists(s, "projects", {x \in {p} : s.query \in Named[x]})
       /\ Missing(r, s, "names", p)
          \/ Lists(s, "names", {f \in Trees[r.team][p] : s.query \in Named[f]})
       /\ Missing(r, s, "contents", p)
          \/ Lists(s, "contents", {f \in Trees[r.team][p] \ s.local : s.query \in Words[f]})
Searched(r) == AskedFor(r, r.search) /\ Unmixed(r, r.search) /\ Full(r, r.search)

SearchIn(r, rc) == /\ Placed(r)
                   /\ (Teamless => rc = {}) => Hushed(r)
                   /\ rc = {} /\ ~r.search.cleared => Searched(r)
Seeking(r, w) == \A rc : SearchIn(w, rc) => SearchIn(r, rc)

(* What the steps of the folds keep. *)

(* The entries of the files S get n errors, none of them if n is 0.        *)
Enters(r, u, S, n) ==
    /\ r.tabs = u.tabs /\ r.errors.known = u.errors.known
    /\ \A g \in Files : r.errors.listed[g] = IF g \in S THEN n ELSE u.errors.listed[g]
InEntries(c, u) == Page(c.page, u, c.from) /\ Enters(u, c.base, c.done, c.n)

RemoveEach(c, f, u) == RemoveEntry(u, f)
Removing == INSTANCE FoldInduction WITH Step <- RemoveEach, Pick <- AnyOf, Keeps <- InEntries

ListEach(c, f, u) == ListFile(u, f, c.n)
Listing == INSTANCE FoldInduction WITH Step <- ListEach, Pick <- AnyOf, Keeps <- InEntries

InChecks(c, u) == Page(c.page, u, c.from) /\ Enters(u, c.base, {}, 0)
CheckEach(c, f, u) == Check(u, f, c.opts)
Checking == INSTANCE FoldInduction WITH Step <- CheckEach, Pick <- AnyOf, Keeps <- InChecks

VisitEach(c, k, u) == IF k <= Len(u.tabs) /\ CanClose(u.tabs[k]) THEN ClosePage(u, u.tabs[k])
                      ELSE u
InClosing(c, u) == Page(c.page, u, c.from) /\ Trued(u, c.base) /\ Seeking(u, c.base)
Visiting == INSTANCE FoldInduction WITH Step <- VisitEach, Pick <- Max, Keeps <- InClosing

LEMMA PageWhole == ASSUME NEW x, NEW w, NEW r, Page(x, r, w) PROVE Whole(r)
BY DEF Page, Touches

LEMMA PageNothing == ASSUME NEW x, NEW w, Whole(w) PROVE Page(x, w, w)
BY TouchesNothing DEF Page

LEMMA PageAlong ==
  ASSUME NEW x, NEW w, NEW r, NEW s, Page(x, r, w), Page(x, s, r)
  PROVE  Page(x, s, w)
BY TouchesAlong DEF Page

LEMMA PageShell == ASSUME NEW x, NEW w, NEW r, Shell0(r, w) PROVE Page(x, r, w)
<1>1. /\ ShellParts \subseteq ShellParts \cup PartsOf(x) /\ Files \subseteq Files \cup TabsOf(x)
      /\ ShellKinds \subseteq ShellKinds \cup AsksOf(x)
      /\ ShellOffers \subseteq ShellOffers \cup OffersOf(x)
  OBVIOUS
<1> QED
  BY <1>1, TouchesMore DEF Page, Shell0

LEMMA PageCloses ==
  ASSUME NEW x, "tabs" \in PartsOf(x), NEW w, NEW r, Closed0(r, w) PROVE Page(x, r, w)
<1>1. /\ ShellParts \cup {"tabs"} \subseteq ShellParts \cup PartsOf(x)
      /\ Files \subseteq Files \cup TabsOf(x)
      /\ ShellKinds \subseteq ShellKinds \cup AsksOf(x)
      /\ ShellOffers \subseteq ShellOffers \cup OffersOf(x)
  OBVIOUS
<1> QED
  BY <1>1, TouchesMore DEF Page, Closed0

(* The team's projects stay in the bar, and any tab does where the page    *)
(* closes none.                                                            *)
LEMMA PageOpen ==
  ASSUME NEW x, NEW w, NEW r, Page(x, r, w)
  PROVE  /\ IsOpen(w, "projects") => IsOpen(r, "projects")
         /\ "tabs" \notin PartsOf(x) => \A t \in Tabs : IsOpen(w, t) => IsOpen(r, t)
BY DEF Page, Touches, Frames, ShellParts

(* A tab of the team in front: its projects are there.                     *)
LEMMA TeamsTab ==
  ASSUME NEW w, Whole(w), w.cur = "projects" \/ w.cur \in Tabs \ FarTabs
  PROVE  IsOpen(w, "projects")
BY Facts DEF Whole, Base, Fronted

(* One change after others. *)
LEMMA ThenPart ==
  ASSUME NEW x, NEW w, NEW u, Page(x, u, w), NEW a \in FreeParts,
         a \in ShellParts \cup PartsOf(x), NEW v, NEW r, r = [u EXCEPT ![a] = v]
  PROVE  Page(x, r, w)
<1>1. Page(x, r, u)
  BY PageWhole, TouchesPart DEF Page
<1> QED
  BY <1>1, PageAlong

LEMMA ThenDrawn ==
  ASSUME NEW x, NEW w, NEW u, Page(x, u, w), NEW v, NEW r, r = [u EXCEPT !.drawn = v],
         v.owner = u.drawn.owner \/ (v.owner \in LogTabs => u.log[v.owner].file \in Files)
  PROVE  Page(x, r, w)
<1>1. Whole(u) /\ "drawn" \in ShellParts \cup PartsOf(x)
  BY PageWhole DEF ShellParts
<1>2. Page(x, r, u)
  BY <1>1, TouchesDrawn DEF Page
<1> QED
  BY <1>2, PageAlong

LEMMA ThenLog ==
  ASSUME NEW x, "log" \in PartsOf(x), NEW w, NEW u, Page(x, u, w),
         NEW v, NEW r, r = [u EXCEPT !.log = v], Logged(v),
         \A t \in LogTabs : u.log[t].file \in Files => v[t].file \in Files
  PROVE  Page(x, r, w)
<1>1. Whole(u) /\ "log" \in ShellParts \cup PartsOf(x)
  BY PageWhole
<1>2. Page(x, r, u)
  BY <1>1, TouchesLog DEF Page
<1> QED
  BY <1>2, PageAlong

LEMMA ThenShell ==
  ASSUME NEW x, NEW w, NEW u, Page(x, u, w), NEW r, Shell0(r, u)
  PROVE  Page(x, r, w)
BY PageShell, PageAlong

LEMMA ThenCloses ==
  ASSUME NEW x, "tabs" \in PartsOf(x), NEW w, NEW u, Page(x, u, w), NEW r, Closed0(r, u)
  PROVE  Page(x, r, w)
BY PageCloses, PageAlong

LEMMA ThenAsk ==
  ASSUME NEW x, NEW w, NEW u, Page(x, u, w), NEW m, Formed(m), m.kind \in ShellKinds \cup AsksOf(x)
  PROVE  Page(x, Ask(u, m), w)
<1>1. Page(x, Ask(u, m), u)
  BY PageWhole, AskTouches DEF Page
<1> QED
  BY <1>1, PageAlong

LEMMA ThenSay == ASSUME NEW x, NEW w, NEW u, Page(x, u, w) PROVE Page(x, Say(u), w)
<1>1. Page(x, Say(u), u)
  BY PageWhole, SayTouches DEF Page, ShellOffers
<1> QED
  BY <1>1, PageAlong

LEMMA ThenUnprompt ==
  ASSUME NEW x, NEW w, NEW u, Page(x, u, w), NEW kind PROVE Page(x, Unprompt(u, kind), w)
BY ThenSay DEF Unprompt

LEMMA ThenOffer ==
  ASSUME NEW x, NEW w, NEW u, Page(x, u, w), NEW kind, NEW about,
         kind \in ShellOffers \cup OffersOf(x), Again([kind |-> kind, about |-> about]),
         kind = "view errors" => IsOpen(u, "errors")
  PROVE  Page(x, Offer(u, kind, about), w)
<1>1. Page(x, Offer(u, kind, about), u)
  BY PageWhole, OfferTouches DEF Page
<1> QED
  BY <1>1, PageAlong

LEMMA ThenAddTab ==
  ASSUME NEW x, NEW w, NEW u, Page(x, u, w), NEW t \in Files \cup TabsOf(x), Addable(u, t),
         u.cur \in Tabs \/ ~CanFocus(t)
  PROVE  Page(x, AddTab(u, t), w)
<1>1. Page(x, AddTab(u, t), u)
  BY PageWhole, AddTabTouches DEF Page
<1> QED
  BY <1>1, PageAlong

LEMMA ThenOpenTab ==
  ASSUME NEW x, NEW w, NEW u, Page(x, u, w), NEW t \in Files \cup TabsOf(x), Addable(u, t),
         CanFocus(t)
  PROVE  Page(x, SwitchTo(AddTab(u, t), t), w) /\ IsOpen(SwitchTo(AddTab(u, t), t), t)
<1>1. /\ Whole(u) /\ FocusParts \subseteq ShellParts \cup PartsOf(x)
      /\ "revisions" \in ShellKinds \cup AsksOf(x)
  BY PageWhole DEF FocusParts, ShellParts, ShellKinds
<1>2. Page(x, SwitchTo(AddTab(u, t), t), u) /\ IsOpen(SwitchTo(AddTab(u, t), t), t)
  BY <1>1, OpenTabTouches DEF Page
<1> QED
  BY <1>2, PageAlong

LEMMA ThenSwitch ==
  ASSUME NEW x, NEW w, NEW u, Page(x, u, w), NEW t \in Tabs, IsOpen(u, t)
  PROVE  Page(x, SwitchTo(u, t), w)
BY PageWhole, ShellSwitch, ThenShell

LEMMA ThenEditFile ==
  ASSUME NEW x, NEW w, NEW u, Page(x, u, w), IsOpen(u, "projects"), NEW f \in Files, NEW rev
  PROVE  Page(x, EditFile(u, f, rev), w)
BY PageWhole, EditFileTouches, ThenShell

(* A tab of a page is closed as it closes itself. *)
LEMMA ThenClose ==
  ASSUME NEW x, "tabs" \in PartsOf(x), NEW w, NEW u, Page(x, u, w),
         NEW t \in PageTabs \ LogTabs, t # "errors", Shutting(x, t)
  PROVE  Page(x, RemoveTab(Blur(u, t), t), w)
<1>1. /\ Whole(u) /\ ClosingParts \subseteq ShellParts \cup PartsOf(x)
      /\ "revisions" \in ShellKinds \cup AsksOf(x)
  BY PageWhole DEF ClosingParts, FocusParts, ShellParts, ShellKinds
<1>2. Page(x, RemoveTab(Blur(u, t), t), u)
  BY <1>1, CloseTouches DEF Page, Shutting
<1> QED
  BY <1>2, PageAlong

(* A request of the page is answered. *)
LEMMA PageAnswered ==
  ASSUME NEW x, Whole(win), NEW m \in win.net, m.kind \in ShellKinds \cup AsksOf(x)
  PROVE  Page(x, Answered(m), win)
<1> DEFINE r == Answered(m)
<1>1. /\ IsRecord(r, Parts) /\ r.tabs = win.tabs /\ r.net = win.net \ {m}
      /\ \A y \in Parts \ {"net"} : r[y] = win[y]
  BY DEF Whole, Base, IsRecord, Parts, Answered
<1>2. /\ r.cur = win.cur /\ r.shown = win.shown /\ r.offer = win.offer /\ r.drawn = win.drawn
      /\ r.log = win.log /\ r.edit = win.edit /\ r.errors = win.errors
  BY <1>1 DEF Parts
<1> HIDE DEF r
<1>3. Whole(r) /\ \A t : IsOpen(r, t) <=> IsOpen(win, t)
  BY <1>1, <1>2, BarStays DEF Whole
<1>4. Page(x, r, win)
  BY <1>1, <1>2, <1>3 DEF Page, Touches, Frames
<1> QED
  BY <1>4 DEF r

LEMMA MenuTouches ==
  ASSUME Whole(win), MenuSteps PROVE Page("menu", win', win)
<1> DEFINE P(r) == Page("menu", r, win)
<1>1. P(win)
  BY PageNothing
<1>2. \A u, v : P(u) => P([u EXCEPT !.menu = v]) /\ P([u EXCEPT !.about = v])
  BY ThenPart DEF PartsOf, Parts, BarParts, FreeParts
<1>3. \A u : P(u) => P(HideBox(u))
  <2> SUFFICES ASSUME NEW u, P(u) PROVE P(HideBox(u))
    OBVIOUS
  <2> DEFINE a == [u EXCEPT !.menu = [u.menu EXCEPT !.visible = FALSE]]
             b == [a EXCEPT !.menu = [a.menu EXCEPT !.inside = FALSE]]
  <2>1. P(a)
    BY <1>2
  <2>2. P(b)
    BY <1>2, <2>1
  <2>3. HideBox(u) = b
    BY DEF HideBox
  <2> QED
    BY <2>2, <2>3
<1>4. P(ShowBox(win))
  <2> DEFINE a == [win EXCEPT !.menu = [win.menu EXCEPT !.visible = TRUE]]
             b == [a EXCEPT !.menu = [a.menu EXCEPT !.held = TRUE]]
             c == [b EXCEPT !.menu = [b.menu EXCEPT !.loose = @ + IF win.menu.held THEN 1 ELSE 0]]
  <2>1. P(a)
    BY <1>1, <1>2
  <2>2. P(b)
    BY <1>2, <2>1
  <2>3. P(c)
    BY <1>2, <2>2
  <2>4. ShowBox(win) = c
    BY DEF ShowBox
  <2> QED
    BY <2>3, <2>4
<1>5. P([win EXCEPT !.menu.inside = TRUE, !.menu.held = FALSE])
  <2> DEFINE a == [win EXCEPT !.menu = [win.menu EXCEPT !.inside = TRUE]]
             b == [a EXCEPT !.menu = [a.menu EXCEPT !.held = FALSE]]
  <2>1. P(a)
    BY <1>1, <1>2
  <2>2. P(b)
    BY <1>2, <2>1
  <2> QED
    BY <2>2
<1> DEFINE shown == [HideBox(win) EXCEPT !.about.visible = TRUE]
<1>0. P([win EXCEPT !.about.visible = FALSE])
  BY <1>1, <1>2
<1>6. P(shown) /\ P(Ask(shown, [kind |-> "about"]))
  <2> DEFINE m == [kind |-> "about"]
  <2>1. P(shown)
    BY <1>1, <1>2, <1>3
  <2>2. Formed(m) /\ m.kind \in AsksOf("menu")
    BY DEF Formed, AsksOf
  <2> HIDE DEF shown, m
  <2>3. P(Ask(shown, m))
    BY <2>1, <2>2, ThenAsk
  <2> QED
    BY <2>1, <2>3 DEF m
<1>7. ASSUME NEW m \in Waiting({"about"})
      PROVE  P(Answered(m)) /\ P([Answered(m) EXCEPT !.about.got = TRUE])
  <2>1. P(Answered(m))
    BY PageAnswered DEF Waiting, AsksOf
  <2> QED
    BY <1>2, <2>1
<1> HIDE DEF P, shown
<1>8. ToggleMenu => P(win')
  BY <1>1, <1>3, <1>4 DEF ToggleMenu
<1>9. EnterMenu => P(win')
  BY <1>5 DEF EnterMenu
<1>10. LeaveMenu => P(win')
  BY <1>1, <1>3 DEF LeaveMenu
<1>11. MenuTimer => P(win')
  BY <1>1, <1>2, <1>3 DEF MenuTimer
<1>12. ShowAbout => P(win')
  BY <1>6 DEF ShowAbout, shown
<1>13. HideAbout => P(win')
  BY <1>0 DEF HideAbout
<1>14. ASSUME NEW m \in Waiting({"about"})
       PROVE  (GotAbout(m) => P(win')) /\ (FailAbout(m) => P(win'))
  BY <1>7 DEF GotAbout, FailAbout
<1> QED
  BY <1>8, <1>9, <1>10, <1>11, <1>12, <1>13, <1>14 DEF MenuSteps, P

(* What is open and edited, and read again.                                *)
LEMMA FilesTouch ==
  ASSUME Whole(win), \A m \in win.net : Formed(m), Again(win.offer), FileSteps
  PROVE  Page("file", win', win)
<1> DEFINE P(r) == Page("file", r, win)
<1>1. P(win) /\ P(Unbuttoned)
  BY PageNothing, ThenSay DEF Unbuttoned
<1>2. win.cur = "projects" => \A f \in Files : P(EditFile(win, f, None))
  BY <1>1, TeamsTab, ThenEditFile
<1>4. \A f : P([win EXCEPT !.edit[f].dirty = TRUE])
  <2> SUFFICES ASSUME NEW f PROVE P([win EXCEPT !.edit[f].dirty = TRUE])
    OBVIOUS
  <2>1. P([win EXCEPT !.edit = [win.edit EXCEPT ![f] = [win.edit[f] EXCEPT !.dirty = TRUE]]])
    BY <1>1, TabField, ThenShell
  <2> QED
    BY <2>1
<1>5. ASSUME NEW m \in Waiting({"file"}) PROVE P(ReceiveContents(Answered(m), m))
  <2>1. P(Answered(m))
    BY PageAnswered DEF Waiting, ShellKinds
  <2> QED
    BY <2>1, PageWhole, ReceiveContentsTouches, ThenShell
<1>6. ASSUME NEW m \in Waiting({"file"}), FailFile(m) PROVE P(win')
  <2> DEFINE v == [Answered(m).edit EXCEPT ![m.file] =
                     [Answered(m).edit[m.file] EXCEPT !.text = None]]
  <2>1. P(Answered(m))
    BY PageAnswered DEF Waiting, ShellKinds
  <2>2. P([Answered(m) EXCEPT !.edit = v])
    BY <2>1, PageWhole, TabField, ThenShell
  <2>3. Again([kind |-> "load", about |-> m]) /\ "load" \in OffersOf("file")
    BY DEF Again, Waiting, OffersOf
  <2>4. P(Offer(Answered(m), "load", m)) /\ P(Offer([Answered(m) EXCEPT !.edit = v], "load", m))
    BY <2>1, <2>2, <2>3, ThenOffer
  <2> QED
    BY <1>6, <2>4 DEF FailFile
<1>7. ASSUME PressLoad PROVE P(win')
  <2> DEFINE a == win.offer.about
             m == [a EXCEPT !.rev = IF a.nth = win.edit[a.file].nth THEN win.edit[a.file].rev ELSE @]
  <2>1. a.kind = "file" /\ Formed(a)
    BY <1>7 DEF PressLoad, Pressed, Again
  <2>2. IsRecord(m, {"kind", "file", "nth", "rev"}) /\ m.kind = "file"
    BY <2>1 DEF Formed, IsRecord
  <2>3. Formed(m) /\ m.kind \in ShellKinds
    BY <2>2 DEF Formed, ShellKinds
  <2>4. win' = Ask(Unbuttoned, m)
    BY <1>7 DEF PressLoad
  <2> HIDE DEF m
  <2> QED
    BY <1>1, <2>3, <2>4, ThenAsk
<1>8. ASSUME PressClose PROVE P(win')
  <2>1. Closed0(CloseFile(Unbuttoned, win.offer.about, TRUE), Unbuttoned)
    BY <1>1, <1>8, PageWhole, CloseFileTouches DEF PressClose, Pressed, Again
  <2> QED
    BY <1>1, <1>8, <2>1, ThenCloses DEF PressClose, PartsOf
<1>9. ASSUME PressCloseAll PROVE P(win')
  <2>1. Closed0(CloseFiles(Unbuttoned, TRUE), Unbuttoned)
    BY <1>1, PageWhole, CloseFilesTouches
  <2> QED
    BY <1>1, <1>9, <2>1, ThenCloses DEF PressCloseAll, PartsOf
<1>10. ASSUME PressRevision PROVE P(win')
  <2> DEFINE f == win.offer.about[1]
             v == [Unbuttoned.edit EXCEPT ![f] =
                     [Unbuttoned.edit[f] EXCEPT !.rev = win.offer.about[2]]]
             r == [Unbuttoned EXCEPT !.edit = v]
  <2>1. P(r)
    BY <1>1, PageWhole, TabField, ThenShell
  <2>2. Shell0(LoadContents(r, f), r)
    BY <2>1, PageWhole, LoadContentsTouches
  <2>3. win' = LoadContents(r, f)
    BY <1>10 DEF PressRevision
  <2> HIDE DEF r, f
  <2> QED
    BY <2>1, <2>2, <2>3, ThenShell
<1> HIDE DEF P
<1>11. ASSUME NEW f \in Files, OpensFile(f) \/ Type(f) PROVE P(win')
  BY <1>2, <1>4, <1>11 DEF OpensFile, Type
<1>12. ASSUME NEW m \in Waiting({"file"}), GotFile(m) PROVE P(win')
  BY <1>5, <1>12 DEF GotFile
<1> QED
  BY <1>6, <1>7, <1>8, <1>9, <1>10, <1>11, <1>12 DEF FileSteps, P

(* Searches. *)
LEMMA SearchOperators ==
  ASSUME NEW x, "search" \in PartsOf(x), NEW w, NEW u, Page(x, u, w)
  PROVE  /\ Page(x, ClearResults(u), w) /\ Page(x, CancelSearches(u), w)
         /\ \A section, xs, q : Page(x, AddResults(u, section, xs, q), w)
<1> DEFINE P(r) == Page(x, r, w)
<1>1. \A r, v : P(r) => P([r EXCEPT !.search = v])
  BY ThenPart DEF Parts, BarParts, FreeParts
<1>2. P(ClearResults(u))
  <2> DEFINE a == [u EXCEPT !.search = [u.search EXCEPT !.results = EmptyBag]]
             b == [a EXCEPT !.search = [a.search EXCEPT !.cleared = TRUE]]
  <2>1. P(a)
    BY <1>1
  <2>2. P(b)
    BY <1>1, <2>1
  <2> QED
    BY <2>2 DEF ClearResults
<1>3. P(CancelSearches(u))
  BY <1>1 DEF CancelSearches
<1>4. \A section, xs, q : P(AddResults(u, section, xs, q))
  BY <1>1 DEF AddResults
<1> QED
  BY <1>2, <1>3, <1>4

(* The page is hidden before or after its results are cleared. *)
Stopped(s) ==
    LET clear == [[s EXCEPT !.results = EmptyBag] EXCEPT !.cleared = TRUE]
    IN IF ~clear.async THEN clear
       ELSE [clear EXCEPT !.cancelled = TRUE, !.async = FALSE, !.query = None, !.local = {}]

LEMMA StoppedIs ==
  ASSUME NEW s, IsRecord(s, SearchFields)
  PROVE  /\ IsRecord(Stopped(s), SearchFields) /\ Stopped(s).results = EmptyBag
         /\ Stopped(s).cleared /\ (s.async \/ s.cancelled => Stopped(s).cancelled)
<1> DEFINE clear == [[s EXCEPT !.results = EmptyBag] EXCEPT !.cleared = TRUE]
           v == [clear EXCEPT !.cancelled = TRUE, !.async = FALSE, !.query = None, !.local = {}]
<1>1. /\ IsRecord(clear, SearchFields) /\ clear.results = EmptyBag /\ clear.cleared
      /\ clear.async = s.async /\ clear.cancelled = s.cancelled
  BY DEF IsRecord, SearchFields
<1> HIDE DEF clear
<1>2. IsRecord(v, SearchFields) /\ v.results = clear.results /\ v.cleared = clear.cleared
      /\ v.cancelled = TRUE
  BY <1>1 DEF IsRecord, SearchFields
<1> HIDE DEF v
<1>3. Stopped(s) = IF ~clear.async THEN clear ELSE v
  BY DEF Stopped, clear, v
<1> QED
  BY <1>1, <1>2, <1>3

LEMMA CloseSearchIs ==
  ASSUME NEW u, IsRecord(u, Parts)
  PROVE  CloseSearch(u) = RemoveTab(Blur([u EXCEPT !.search = Stopped(u.search)], "search"), "search")
<1> DEFINE clear == [[u.search EXCEPT !.results = EmptyBag] EXCEPT !.cleared = TRUE]
           v == IF ~clear.async THEN clear
                ELSE [clear EXCEPT !.cancelled = TRUE, !.async = FALSE, !.query = None, !.local = {}]
           c == [u EXCEPT !.search = v]
<1>3. \A r : IsRecord(r, Parts) /\ r.search = u.search
               => CancelSearches(ClearResults(r)) = [r EXCEPT !.search = v]
  <2> SUFFICES ASSUME NEW r, IsRecord(r, Parts), r.search = u.search
               PROVE  CancelSearches(ClearResults(r)) = [r EXCEPT !.search = v]
    OBVIOUS
  <2>1. ClearResults(r) = [r EXCEPT !.search = clear]
    BY DEF ClearResults, IsRecord, Parts
  <2> DEFINE s == [r EXCEPT !.search = clear]
  <2>2. s.search = clear
    BY DEF IsRecord, Parts
  <2> HIDE DEF clear
  <2>3. CancelSearches(s) = [r EXCEPT !.search = v]
    BY <2>2 DEF CancelSearches
  <2> QED
    BY <2>1, <2>3
<1>4. IsRecord(Blur(u, "search"), Parts) /\ Blur(u, "search").search = u.search
  BY DEF Blur, IsRecord, Parts
<1>0. v = Stopped(u.search)
  BY DEF Stopped
<1> HIDE DEF v
<1>5. [Blur(u, "search") EXCEPT !.search = v] = Blur(c, "search")
  BY DEF Blur, IsRecord, Parts
<1> QED
  BY <1>0, <1>3, <1>4, <1>5 DEF CloseSearch

LEMMA CloseSearchTouches ==
  ASSUME NEW x, {"search", "tabs"} \subseteq PartsOf(x), Shutting(x, "search"),
         NEW w, NEW u, Page(x, u, w)
  PROVE  Page(x, CloseSearch(u), w)
<1> DEFINE c == [u EXCEPT !.search = Stopped(u.search)]
<1>1. Page(x, c, w)
  BY ThenPart DEF Parts, BarParts, FreeParts
<1>2. IsRecord(u, Parts)
  BY PageWhole DEF Whole, Base
<1>6. CloseSearch(u) = RemoveTab(Blur(c, "search"), "search")
  BY <1>2, CloseSearchIs
<1>7. "search" \in PageTabs \ LogTabs /\ "search" # "errors"
  BY DEF PageTabs, LogTabs
<1> HIDE DEF c
<1> QED
  BY <1>1, <1>6, <1>7, ThenClose

(* What leaves the search alone. *)
SameSearch(r, w) ==
    /\ r.search = w.search /\ r.team = w.team /\ (IsOpen(r, "search") <=> IsOpen(w, "search"))
    /\ \A m : Seeks(m) => (m \in r.net <=> m \in w.net)

LEMMA SeekingAlong ==
  /\ \A w : Seeking(w, w)
  /\ \A w, r, s : Seeking(r, w) /\ Seeking(s, r) => Seeking(s, w)
BY DEF Seeking

LEMMA SameSearched ==
  ASSUME NEW r, NEW w, SameSearch(r, w)
  PROVE  /\ Placed(w) => Placed(r)
         /\ Hushed(w) => Hushed(r)
         /\ Searched(w) => Searched(r)
<1>1. Placed(w) => Placed(r)
  BY DEF SameSearch, Placed
<1>2. Hushed(w) => Hushed(r)
  BY DEF SameSearch, Hushed
<1>3. /\ Listed(r) = Listed(w)
      /\ \A k, p : Sought(r, k, p) <=> Sought(w, k, p)
  BY DEF SameSearch, Listed, Sought
<1>4. \A s : /\ AskedFor(w, s) => AskedFor(r, s)
             /\ Unmixed(w, s) => Unmixed(r, s)
             /\ Full(w, s) => Full(r, s)
  <2> TAKE s
  <2>1. AskedFor(w, s) => AskedFor(r, s)
    BY <1>3 DEF SameSearch, AskedFor
  <2>2. \A k, x : Come(w, k, x) => Come(r, k, x)
    BY <1>3 DEF SameSearch, Come
  <2>3. Unmixed(w, s) => Unmixed(r, s)
    BY <2>2 DEF Unmixed
  <2>4. \A k, p : Missing(r, s, k, p) <=> Missing(w, s, k, p)
    BY <1>3 DEF Missing
  <2>5. Full(w, s) => Full(r, s)
    BY <1>3, <2>4 DEF SameSearch, Full
  <2> QED
    BY <2>1, <2>3, <2>5
<1> QED
  BY <1>1, <1>2, <1>4 DEF SameSearch, Searched

LEMMA SameSeeks == ASSUME NEW r, NEW w, SameSearch(r, w) PROVE Seeking(r, w)
<1>1. r.search = w.search
  BY DEF SameSearch
<1> QED
  BY <1>1, SameSearched DEF Seeking, SearchIn

(* Pages that have nothing of the search. *)
Aloof(x) == /\ {"search", "team"} \cap (ShellParts \cup PartsOf(x)) = {}
            /\ SearchKinds \cap (ShellKinds \cup AsksOf(x)) = {}
            /\ "search" \notin TabsOf(x) /\ ~Shutting(x, "search")

LEMMA AloofSame ==
  ASSUME NEW x, Aloof(x), NEW r, NEW w, Page(x, r, w) PROVE SameSearch(r, w)
<1>1. "search" \in Tabs \ Files /\ {"search", "team"} \subseteq Parts \ {"net", "offer", "tabs"}
  BY Facts DEF PageTabs, Parts
<1>2. r.search = w.search /\ r.team = w.team
  BY <1>1 DEF Page, Touches, Frames, Aloof
<1>3. IsOpen(r, "search") <=> IsOpen(w, "search")
  BY <1>1 DEF Page, Touches, Frames, Aloof, Shutting
<1>4. \A m : Seeks(m) => (m \in r.net <=> m \in w.net)
  BY DEF Page, Touches, Frames, Aloof, Seeks
<1> QED
  BY <1>2, <1>3, <1>4 DEF SameSearch

LEMMA AloofSeeks ==
  ASSUME NEW x, Aloof(x), NEW r, NEW w, Page(x, r, w) PROVE Seeking(r, w)
BY AloofSame, SameSeeks

LEMMA ClosedSeeks == ASSUME NEW r, NEW w, Closed0(r, w) PROVE SameSearch(r, w) /\ Seeking(r, w)
<1>1. Aloof("file") /\ "tabs" \in PartsOf("file")
  BY Facts DEF Aloof, PartsOf, TabsOf, AsksOf, ShellParts, ShellKinds, SearchKinds, Shutting,
     Shuts, PageTabs
<1> QED
  BY <1>1, PageCloses, AloofSame, SameSeeks

(* A page that is closed has cancelled what it asked for. *)
LEMMA CloseSearchSeeks ==
  ASSUME NEW u, Whole(u) PROVE Seeking(CloseSearch(u), u)
<1> DEFINE v == Stopped(u.search)
           c == [u EXCEPT !.search = v]
           r == RemoveTab(Blur(c, "search"), "search")
<1>1. CloseSearch(u) = r
  BY CloseSearchIs DEF Whole, Base
<1> HIDE DEF v
<1>2. Whole(c)
  <2>1. "search" \in FreeParts /\ "search" \in ShellParts \cup PartsOf("search")
    BY DEF PartsOf, Parts, BarParts, FreeParts
  <2>2. Page("search", c, u)
    BY <2>1, PageNothing, ThenPart
  <2> QED
    BY <2>2, PageWhole
<1>3. /\ c.search = v /\ c.team = u.team /\ c.net = u.net
      /\ \A t : IsOpen(c, t) <=> IsOpen(u, t)
  BY DEF Whole, Base, IsRecord, Parts, IsOpen
<1> HIDE DEF c
<1>4. /\ Touches(r, c, ClosingParts, {"search"}, {"revisions"}, {})
      /\ ~IsOpen(r, "search")
  <2>1. "search" \in PageTabs \ LogTabs /\ "search" # "errors"
        /\ Shuts("search", ClosingParts, {"search"})
    BY DEF PageTabs, LogTabs, Shuts
  <2> QED
    BY <1>2, <2>1, CloseTouches
<1> HIDE DEF r
<1>5. r.search = c.search /\ r.team = c.team
  BY <1>4 DEF Touches, Frames, Parts, ClosingParts, FocusParts
<1>6. \A m : Seeks(m) => (m \in r.net <=> m \in u.net)
  BY <1>3, <1>4 DEF Touches, Frames, Seeks, SearchKinds
<1>7. r.search = v /\ r.team = u.team
  BY <1>3, <1>5
<1>8. ASSUME Placed(u)
      PROVE  /\ IsRecord(v, SearchFields) /\ v.results = EmptyBag /\ v.cleared
             /\ u.search.async \/ u.search.cancelled => v.cancelled
  BY <1>8, StoppedIs DEF Placed, v
<1>9. ASSUME Placed(u) PROVE Placed(r)
  <2>1. DOMAIN v.results = {}
    BY <1>8, <1>9 DEF EmptyBag, SetToBag
  <2> QED
    BY <1>4, <1>6, <1>7, <1>8, <1>9, <2>1 DEF Placed
<1>10. ASSUME Placed(u), Hushed(u) PROVE Hushed(r)
  BY <1>4, <1>6, <1>7, <1>8, <1>10 DEF Hushed
<1>11. Seeking(r, u)
  BY <1>7, <1>8, <1>9, <1>10 DEF Seeking, SearchIn
<1> QED
  BY <1>1, <1>11

LEMMA SearchForTouches ==
  ASSUME Whole(win), NEW q PROVE Page("search", SearchFor(win, q), win)
<1> DEFINE P(r) == Page("search", r, win)
           clear == ClearResults(CancelSearches(win))
           v == [clear.search EXCEPT !.query = q, !.nth = win.search.nth + 1, !.lost = {},
                                     !.cancelled = FALSE, !.cleared = FALSE,
                                     !.async = Listed(win) # {},
                                     !.local = OpenFiles(win)]
           new == [clear EXCEPT !.search = v]
           more == {SearchAsk(new, a[1], a[2], FALSE) : a \in {"contents", "names"} \X Listed(win)}
           asked == [new EXCEPT !.net = @ \cup more]
           local == AddResults(asked, "contents", {f \in OpenFiles(win) : Matches(win, f, q)}, q)
<1>1. "search" \in PartsOf("search")
  BY DEF PartsOf
<1>2. P(clear)
  BY <1>1, PageNothing, SearchOperators
<1>3. P(new)
  <2> HIDE DEF clear, v
  <2> QED
    BY <1>1, <1>2, ThenPart DEF Parts, BarParts, FreeParts
<1>4. \A m \in more : m.kind \in AsksOf("search") /\ Formed(m)
  <2> HIDE DEF new
  <2> SUFFICES ASSUME NEW m \in more PROVE m.kind \in AsksOf("search") /\ Formed(m)
    OBVIOUS
  <2>1. PICK a \in {"contents", "names"} \X Listed(win) : m = SearchAsk(new, a[1], a[2], FALSE)
    OBVIOUS
  <2>2. m.kind \in {"contents", "names"}
    BY <2>1 DEF SearchAsk
  <2> QED
    BY <2>2 DEF AsksOf, SearchKinds, Formed, OpKinds
<1>5. P(asked)
  <2> HIDE DEF new, more
  <2>1. Whole(new)
    BY <1>3, PageWhole
  <2>2. /\ IsRecord(asked, Parts) /\ asked.tabs = new.tabs /\ asked.net = new.net \cup more
        /\ \A y \in Parts \ {"net"} : asked[y] = new[y]
    BY <2>1 DEF Whole, Base, IsRecord, Parts
  <2>3. /\ asked.cur = new.cur /\ asked.shown = new.shown /\ asked.offer = new.offer
        /\ asked.drawn = new.drawn /\ asked.log = new.log
        /\ asked.edit = new.edit /\ asked.errors = new.errors
    BY <2>2 DEF Parts
  <2> HIDE DEF asked
  <2>4. Whole(asked) /\ \A t : IsOpen(asked, t) <=> IsOpen(new, t)
    BY <2>1, <2>2, <2>3, BarStays DEF Whole
  <2>5. Page("search", asked, new)
    BY <1>4, <2>2, <2>3, <2>4 DEF Page, Touches, Frames
  <2> QED
    BY <1>3, <2>5, PageAlong
<1>6. P(local)
  <2> HIDE DEF asked
  <2> QED
    BY <1>1, <1>5, SearchOperators
<1>7. P(AddResults(local, "projects", {p \in Listed(win) : q \in Named[p]}, q))
  <2> HIDE DEF local
  <2> QED
    BY <1>1, <1>6, SearchOperators
<1>8. SearchFor(win, q) = AddResults(local, "projects", {p \in Listed(win) : q \in Named[p]}, q)
  BY Zenon DEF SearchFor
<1> HIDE DEF local
<1> QED
  BY <1>7, <1>8

LEMMA SearchTouches ==
  ASSUME Whole(win), win.team # None => IsOpen(win, "projects"), SearchSteps
  PROVE  Page("search", win', win)
<1> DEFINE P(r) == Page("search", r, win)
<1>1. P(win) /\ "search" \in PartsOf("search")
  BY PageNothing DEF PartsOf
<1>2. P(ClearResults(win))
  BY <1>1, SearchOperators
<1>3. P(OpenSearch(win))
  <2> DEFINE a == AddTab(win, "search")
             b == ClearResults(a)
  <2>1. P(Say(win))
    BY <1>1, ThenSay
  <2>2. ASSUME ~IsOpen(win, "search"), win.team # None PROVE P(SwitchTo(b, "search"))
    <3>1. Addable(win, "search") /\ win.cur \in Tabs
      BY <2>2, SomeFront, Facts DEF Addable, Tabs, PageTabs, LogTabs
    <3>2. P(a) /\ IsOpen(a, "search")
      BY <1>1, <3>1, ThenAddTab, AddTabBase DEF TabsOf
    <3> HIDE DEF a
    <3>3. P(b) /\ Page("search", b, a)
      <4>1. Page("search", a, a)
        BY <3>2, PageWhole, PageNothing
      <4> QED
        BY <1>1, <3>2, <4>1, SearchOperators
    <3>4. IsOpen(b, "search") /\ "search" \in Tabs
      BY <3>2, <3>3, PageOpen DEF PartsOf, Tabs, PageTabs
    <3> HIDE DEF b
    <3> QED
      BY <3>3, <3>4, ThenSwitch
  <2> QED
    BY <1>1, <2>1, <2>2 DEF OpenSearch
<1>4. win.cur = "search" => \A f \in Files : P(EditFile(win, f, None))
  <2>1. "search" \in Tabs \ FarTabs
    BY DEF Tabs, PageTabs, FarTabs
  <2> QED
    BY <1>1, <2>1, TeamsTab, ThenEditFile
<1>5. ASSUME NEW m \in Waiting(SearchKinds)
      PROVE  /\ P(Answered(m)) /\ P(TakesMatches(Answered(m), m)) /\ P(TakesNames(Answered(m), m))
             /\ P([Answered(m) EXCEPT !.search.lost = @ \cup {<<m.kind, m.project>>}])
             /\ P(Ask(Answered(m), [SearchAsk(win, m.kind, m.project, TRUE) EXCEPT !.nth = m.nth]))
  <2> DEFINE a == [SearchAsk(win, m.kind, m.project, TRUE) EXCEPT !.nth = m.nth]
             v == [Answered(m).search EXCEPT !.lost = @ \cup {<<m.kind, m.project>>}]
  <2>1. P(Answered(m))
    BY PageAnswered DEF Waiting, AsksOf
  <2>2. P(TakesMatches(Answered(m), m)) /\ P(TakesNames(Answered(m), m))
    BY <1>1, <2>1, SearchOperators DEF TakesMatches, TakesNames
  <2>3. P([Answered(m) EXCEPT !.search = v])
    BY <1>1, <2>1, ThenPart DEF Parts, BarParts, FreeParts
  <2>4. Formed(a) /\ a.kind \in AsksOf("search")
    BY DEF Waiting, SearchAsk, AsksOf, SearchKinds, Formed, OpKinds
  <2>5. P(Ask(Answered(m), a))
    <3> HIDE DEF a
    <3> QED
      BY <2>1, <2>4, ThenAsk
  <2> QED
    BY <2>1, <2>2, <2>3, <2>5
<1> HIDE DEF P
<1>6. ASSUME NEW q, Searches(q) PROVE P(win')
  BY <1>6, SearchForTouches DEF Searches, P
<1>7. ASSUME ClearsSearch \/ ShowsSearch PROVE P(win')
  BY <1>2, <1>3, <1>7 DEF ClearsSearch, ShowsSearch
<1>8. ASSUME NEW f \in Files, FollowsResult(f) PROVE P(win')
  BY <1>4, <1>8 DEF FollowsResult
<1>9. ASSUME NEW m \in Waiting(SearchKinds), GotResults(m) \/ FailResults(m) PROVE P(win')
  BY <1>5, <1>9 DEF GotResults, FailResults
<1> QED
  BY <1>6, <1>7, <1>8, <1>9 DEF SearchSteps, P

(* The user's settings. *)
LEMMA PutTouches ==
  ASSUME NEW x, "put" \in AsksOf(x), NEW w, NEW u, Page(x, u, w), NEW loud
  PROVE  Page(x, Put(u, loud), w)
<1> DEFINE m == [kind |-> "put", settings |-> u.settings.mine, loud |-> loud]
<1>1. Formed(m) /\ m.kind = "put"
  BY DEF Formed, OpKinds
<1> HIDE DEF m
<1>2. Page(x, Ask(u, m), w)
  BY <1>1, ThenAsk
<1> QED
  BY <1>2 DEF Put, m

LEMMA SetSettingsTouches ==
  ASSUME NEW x, "settings" \in PartsOf(x), "put" \in AsksOf(x), NEW w, NEW u, Page(x, u, w),
         NEW new, NEW names, NEW loud
  PROVE  Page(x, SetSettings(u, new, names, loud), w)
<1> DEFINE set == [n \in DOMAIN u.settings.mine |->
                      IF n \in names THEN new[n] ELSE u.settings.mine[n]]
           v == [u.settings EXCEPT !.mine = set]
           r == [u EXCEPT !.settings = v]
<1>1. Page(x, r, w)
  BY ThenPart DEF Parts, BarParts, FreeParts
<1>2. Page(x, Put(r, loud), w)
  <2> HIDE DEF r
  <2> QED
    BY <1>1, PutTouches
<1>3. Page(x, Say(u), w)
  BY ThenSay
<1>4. SetSettings(u, new, names, loud) =
        IF set # u.settings.mine THEN Put(r, loud) ELSE IF loud THEN Say(u) ELSE u
  BY DEF SetSettings
<1> HIDE DEF r, set
<1> QED
  BY <1>2, <1>3, <1>4

LEMMA SettingsTouch ==
  ASSUME Whole(win), SettingsSteps \/ SettingsAnswers PROVE Page("settings", win', win)
<1> DEFINE P(r) == Page("settings", r, win)
<1>1. /\ P(win) /\ P(Unbuttoned) /\ "settings" \in PartsOf("settings") /\ "put" \in AsksOf("settings")
      /\ "settings" \in TabsOf("settings") /\ "settings" \in Tabs
  BY PageNothing, ThenSay DEF PartsOf, AsksOf, TabsOf, Unbuttoned, Tabs, PageTabs
<1>2. \A u, v : P(u) => P([u EXCEPT !.settings = v])
  BY <1>1, ThenPart DEF Parts, BarParts, FreeParts
<1>3. P(OpenSettings(win))
  <2> DEFINE mine == win.settings.mine
             form == [mine EXCEPT !.teamload = Shown(mine.teamload, Teams),
                                  !.projload = Shown(mine.projload, Listed(win))]
             a == [win EXCEPT !.settings = [win.settings EXCEPT !.form = form]]
             b == [a EXCEPT !.settings = [a.settings EXCEPT !.enabled = Enabled(form)]]
  <2>1. P(b)
    <3>1. P(a)
      BY <1>1, <1>2
    <3> HIDE DEF form, a
    <3> QED
      BY <1>2, <3>1
  <2>2. OpenSettings(win) = IF IsOpen(win, "settings") THEN SwitchTo(win, "settings")
                            ELSE SwitchTo(AddTab(b, "settings"), "settings")
    BY DEF OpenSettings
  <2>3. b.tabs = win.tabs
    BY DEF Whole, Base, IsRecord, Parts
  <2> HIDE DEF b
  <2>4. ASSUME IsOpen(win, "settings") PROVE P(SwitchTo(win, "settings"))
    BY <1>1, <2>4, ThenSwitch
  <2>5. ASSUME ~IsOpen(win, "settings") PROVE P(SwitchTo(AddTab(b, "settings"), "settings"))
    <3>1. Addable(b, "settings") /\ CanFocus("settings")
      BY <1>1, <2>3, <2>5, Facts DEF Addable, IsOpen, FarTabs, LogTabs, CanFocus, PageTabs
    <3> QED
      BY <1>1, <2>1, <3>1, ThenOpenTab
  <2> QED
    BY <2>2, <2>4, <2>5
<1>4. ASSUME NEW n, NEW value, FillsForm(n, value) PROVE P(win')
  <2> DEFINE form == [win.settings.form EXCEPT ![n] = value]
             a == [win EXCEPT !.settings = [win.settings EXCEPT !.form = form]]
             b == [a EXCEPT !.settings = [a.settings EXCEPT !.enabled = Enabled(form)]]
  <2>1. P(b)
    <3>1. P(a)
      BY <1>1, <1>2
    <3> HIDE DEF form, a
    <3> QED
      BY <1>2, <3>1
  <2>2. win' = b
    BY <1>4, Zenon DEF FillsForm
  <2> QED
    BY <2>1, <2>2
<1>5. SavesSettings => P(win')
  BY <1>1, SetSettingsTouches DEF SavesSettings
<1>6. PressPut => P(win')
  BY <1>1, PutTouches DEF PressPut
<1>7. ASSUME NEW m \in Waiting({"put"})
      PROVE  /\ GotPut(m) => P(win')
             /\ \A stored : FailPut(m, stored) => P(win')
  <2> DEFINE a == Answered(m)
             b == [a EXCEPT !.settings = [a.settings EXCEPT !.server = m.settings]]
             c == [b EXCEPT !.settings = [b.settings EXCEPT !.failed = FALSE]]
             d == [a EXCEPT !.settings = [a.settings EXCEPT !.failed = TRUE]]
             e(stored) == [d EXCEPT !.settings = [d.settings EXCEPT !.server = IF stored THEN m.settings
                                                                ELSE a.settings.server]]
  <2>1. P(a)
    BY PageAnswered DEF Waiting, AsksOf
  <2> HIDE DEF a
  <2>2. P(b) /\ P(d)
    BY <1>2, <2>1
  <2>3. P(c) /\ \A stored : P(e(stored))
    <3> HIDE DEF b, d
    <3> QED
      BY <1>2, <2>2
  <2>4. GotPut(m) => win' = IF m.loud THEN Say(c) ELSE c
    BY DEF GotPut, a
  <2>5. \A stored : FailPut(m, stored) => win' = IF m.loud THEN Offer(e(stored), "put", None) ELSE e(stored)
    BY DEF FailPut, a
  <2>6. "put" \in OffersOf("settings") /\ Again([kind |-> "put", about |-> None])
    BY DEF OffersOf, Again
  <2> HIDE DEF c, e
  <2>7. P(Say(c)) /\ \A stored : P(Offer(e(stored), "put", None))
    BY <2>3, <2>6, ThenSay, ThenOffer
  <2> QED
    BY <2>3, <2>4, <2>5, <2>7
<1> HIDE DEF P
<1>8. ShowsSettings => P(win')
  BY <1>3 DEF ShowsSettings
<1> QED
  BY <1>4, <1>5, <1>6, <1>7, <1>8 DEF SettingsSteps, SettingsAnswers, P

(* Checks for errors. What is folded over sets of files keeps what one     *)
(* step keeps.                                                             *)
Errs(x) == "errors" \in PartsOf(x) /\ "lint" \in AsksOf(x)

(* What is known, folded or numbered changes, not what is listed. *)
LEMMA ThenErrors ==
  ASSUME NEW x, "errors" \in PartsOf(x), NEW w, NEW u, Page(x, u, w), NEW v, Checked(v),
         v.listed = u.errors.listed, NEW r, r = [u EXCEPT !.errors = v]
  PROVE  Page(x, r, w)
<1>1. Whole(u) /\ Marked(u) /\ IsRecord(u, Parts)
  BY PageWhole DEF Whole, Base
<1>2. /\ IsRecord(r, Parts) /\ r.errors = v /\ r.edit = u.edit /\ r.tabs = u.tabs
      /\ \A y \in Parts \ {"edit", "errors"} : r[y] = u[y]
  BY <1>1 DEF IsRecord, Parts
<1>3. Marked(r)
  <2>1. \A f \in Files : Tab(r, f, r.edit[f])
    BY <1>1, <1>2 DEF Marked, Tab, IsOpen
  <2> QED
    BY <1>1, <1>2, <2>1 DEF Marked
<1>4. Page(x, r, u)
  BY <1>1, <1>2, <1>3, TouchesMarks DEF Page, ShellParts
<1> QED
  BY <1>4, PageAlong

LEMMA ThenErrorsField ==
  ASSUME NEW x, "errors" \in PartsOf(x), NEW w, NEW u, Page(x, u, w),
         NEW n \in ErrorFields \ {"listed"}, NEW y,
         n = "nth" => y \in Nat, n = "known" => IsRecord(y, Files)
  PROVE  Page(x, [u EXCEPT !.errors = [u.errors EXCEPT ![n] = y]], w)
<1> DEFINE v == [u.errors EXCEPT ![n] = y]
<1>1. Checked(u.errors)
  BY PageWhole DEF Whole, Base, Marked
<1>2. /\ IsRecord(v, ErrorFields) /\ v[n] = y
      /\ \A z \in ErrorFields \ {n} : v[z] = u.errors[z]
  BY <1>1 DEF Checked, IsRecord
<1> HIDE DEF v
<1>3. Checked(v) /\ v.listed = u.errors.listed
  BY <1>1, <1>2 DEF Checked, ErrorFields
<1>4. Page(x, [u EXCEPT !.errors = v], w)
  BY <1>3, ThenErrors
<1> QED
  BY <1>4 DEF v

EntryIs(d, u, f, n) ==
    /\ IsRecord(d, Parts) /\ \A y \in Parts \ {"errors"} : d[y] = u[y]
    /\ Checked(d.errors) /\ d.errors.known = u.errors.known
    /\ \A g \in Files : d.errors.listed[g] = IF g = f THEN n ELSE u.errors.listed[g]

(* An entry and the marks of its file change together. *)
LEMMA EntryTouches ==
  ASSUME NEW x, "errors" \in PartsOf(x), NEW w, NEW u, Page(x, u, w), NEW f, NEW n, NEW d,
         EntryIs(d, u, f, n),
         NEW r, r = MarkErrors(d, f, n) \/ (n = 0 /\ r = ClearErrors(d, f))
  PROVE  Page(x, r, w) /\ Enters(r, u, {f}, n)
<1>1. /\ Whole(u) /\ IsRecord(u.edit, Files) /\ \A g \in Files : Tab(u, g, u.edit[g])
  BY PageWhole DEF Whole, Base, Marked
<1>0. /\ IsRecord(d, Parts) /\ \A y \in Parts \ {"errors"} : d[y] = u[y]
      /\ Checked(d.errors) /\ d.errors.known = u.errors.known
      /\ \A g \in Files : d.errors.listed[g] = IF g = f THEN n ELSE u.errors.listed[g]
  BY DEF EntryIs
<1>2. d.edit = u.edit /\ d.tabs = u.tabs
  BY <1>0 DEF Parts
<1>3. \A g \in Files : IsRecord(d.edit[g], FileFields)
  BY <1>1, <1>2 DEF Tab
<1>4. /\ IsRecord(r, Parts) /\ \A y \in Parts \ {"edit"} : r[y] = d[y]
      /\ IsRecord(r.edit, Files) /\ \A g \in Files \ {f} : r.edit[g] = d.edit[g]
      /\ f \in Files => IsRecord(r.edit[f], FileFields) /\ r.edit[f].nth = d.edit[f].nth
      /\ \A o : f \in Files /\ IsOpen(d, f) /\ Rightly(d.edit[f], o) => Rightly(r.edit[f], n)
  BY <1>0, <1>1, <1>2, <1>3, MarksAre
<1>5. r.tabs = u.tabs /\ r.errors = d.errors
  BY <1>2, <1>4 DEF Parts
<1>6. \A g \in Files : Tab(r, g, r.edit[g])
  BY <1>0, <1>1, <1>2, <1>4, <1>5 DEF Tab, IsOpen
<1>7. Marked(r)
  BY <1>0, <1>4, <1>5, <1>6 DEF Marked
<1>8. \A y \in Parts \ {"edit", "errors"} : r[y] = u[y]
  BY <1>0, <1>4
<1>9. Page(x, r, u)
  BY <1>1, <1>4, <1>7, <1>8, TouchesMarks DEF Page, ShellParts
<1> QED
  BY <1>0, <1>5, <1>9, PageAlong DEF Enters

SetEntry(u, f, n, nulls, folded) ==
    [u EXCEPT !.errors.listed[f] = n, !.errors.nulls = nulls, !.errors.folded = folded]

LEMMA EntrySet ==
  ASSUME NEW u, Whole(u), NEW f, NEW n, NEW v1, NEW v2, NEW d, d = SetEntry(u, f, n, v1, v2)
  PROVE  EntryIs(d, u, f, n)
<1> DEFINE l == [u.errors.listed EXCEPT ![f] = n]
           e == [u.errors EXCEPT !.listed = l, !.nulls = v1, !.folded = v2]
<1>1. IsRecord(u, Parts) /\ Checked(u.errors)
  BY DEF Whole, Base, Marked
<1>2. d = [u EXCEPT !.errors = e]
  BY DEF SetEntry
<1>3. IsRecord(l, Files) /\ \A g \in Files : l[g] = IF g = f THEN n ELSE u.errors.listed[g]
  BY <1>1 DEF Checked, IsRecord
<1> HIDE DEF l
<1>4. IsRecord(e, ErrorFields) /\ e.listed = l /\ e.known = u.errors.known /\ e.nth = u.errors.nth
  BY <1>1 DEF Checked, IsRecord, ErrorFields
<1> HIDE DEF e
<1>5. IsRecord(d, Parts) /\ d.errors = e /\ \A y \in Parts \ {"errors"} : d[y] = u[y]
  BY <1>1, <1>2 DEF IsRecord, Parts
<1> QED
  BY <1>1, <1>3, <1>4, <1>5 DEF Checked, EntryIs

LEMMA RemoveEntryTouches ==
  ASSUME NEW x, "errors" \in PartsOf(x), NEW w, NEW u, Page(x, u, w), NEW f
  PROVE  Page(x, RemoveEntry(u, f), w) /\ Enters(RemoveEntry(u, f), u, {f}, 0)
<1> DEFINE d == [u EXCEPT !.errors.listed[f] = 0, !.errors.nulls = @ \cup {f},
                          !.errors.folded = @ \ {f}]
           r == ClearErrors(d, f)
<1>1. RemoveEntry(u, f) = IF f \notin Entries(u) THEN u ELSE r
  BY DEF RemoveEntry
<1>2. PICK v1, v2 : d = SetEntry(u, f, 0, v1, v2)
  BY DEF SetEntry
<1>w. Whole(u)
  BY PageWhole
<1> HIDE DEF d
<1>3. EntryIs(d, u, f, 0)
  BY ONLY <1>2, <1>w, EntrySet, Zenon
<1>4. Page(x, r, w) /\ Enters(r, u, {f}, 0)
  BY <1>3, EntryTouches
<1>5. f \notin Entries(u) => Enters(u, u, {f}, 0)
  BY DEF Entries, Enters
<1> HIDE DEF r
<1> QED
  BY <1>1, <1>4, <1>5

LEMMA ListFileTouches ==
  ASSUME NEW x, "errors" \in PartsOf(x), NEW w, NEW u, Page(x, u, w), NEW f, NEW n
  PROVE  Page(x, ListFile(u, f, n), w) /\ Enters(ListFile(u, f, n), u, {f}, n)
<1> DEFINE d == [u EXCEPT !.errors.listed[f] = n, !.errors.nulls = @ \ {f},
                          !.errors.folded = @ \ {f}]
           r == MarkErrors(d, f, n)
<1>1. ListFile(u, f, n) = r
  BY DEF ListFile
<1>2. PICK v1, v2 : d = SetEntry(u, f, n, v1, v2)
  BY DEF SetEntry
<1>w. Whole(u)
  BY PageWhole
<1> HIDE DEF d
<1>3. EntryIs(d, u, f, n)
  BY ONLY <1>2, <1>w, EntrySet, Zenon
<1>4. Page(x, r, w) /\ Enters(r, u, {f}, n)
  BY <1>3, EntryTouches
<1> QED
  BY <1>1, <1>4

LEMMA CheckTouches ==
  ASSUME NEW x, Errs(x), NEW w, NEW u, Page(x, u, w), NEW f, NEW opts
  PROVE  Page(x, Check(u, f, opts), w) /\ Enters(Check(u, f, opts), u, {}, 0)
<1> DEFINE a == [u EXCEPT !.errors = [u.errors EXCEPT !.nth = u.errors.nth + 1]]
           m == [kind |-> "lint", file |-> f, opts |-> opts, gen |-> u.errors.gen,
                 nth |-> u.errors.nth + 1]
<1>0. u.errors.nth + 1 \in Nat /\ u.errors.nth + 1 # 0
  <2>1. u.errors.nth \in Nat
    BY PageWhole DEF Whole, Base, Marked, Checked
  <2> QED
    BY <2>1
<1>1. Page(x, a, w)
  <2>1. "errors" \in PartsOf(x) /\ "nth" \in ErrorFields \ {"listed"}
    BY DEF ErrorFields, Errs
  <2> QED
    BY <1>0, <2>1, ThenErrorsField
<1>2. Formed(m) /\ m.kind = "lint"
  BY <1>0 DEF Formed
<1>3. Check(u, f, opts) = Ask(a, m)
  BY DEF Check
<1>4. /\ IsRecord(a, Parts) /\ a.tabs = u.tabs /\ a.errors.known = u.errors.known
      /\ a.errors.listed = u.errors.listed
  <2>1. IsRecord(u, Parts) /\ IsRecord(u.errors, ErrorFields)
    BY PageWhole DEF Whole, Base, Marked, Checked
  <2> QED
    BY <2>1 DEF IsRecord, Parts, ErrorFields
<1> HIDE DEF a, m
<1>5. Ask(a, m).tabs = a.tabs /\ Ask(a, m).errors = a.errors
  BY <1>4 DEF Ask, IsRecord, Parts
<1>6. Enters(Ask(a, m), u, {}, 0)
  BY <1>4, <1>5 DEF Enters
<1> QED
  BY <1>1, <1>2, <1>3, <1>6, ThenAsk DEF Errs

RemoveAll(v, S) == FoldSet(LAMBDA f, r : RemoveEntry(r, f), v, S)

LEMMA RemoveEntriesTouch ==
  ASSUME NEW x, "errors" \in PartsOf(x), NEW w, NEW u, Page(x, u, w), NEW S, IsFiniteSet(S)
  PROVE  Page(x, RemoveAll(u, S), w) /\ Enters(RemoveAll(u, S), u, S, 0)
<1> DEFINE c == [n |-> 0]
           at == [s \in SUBSET S |-> [page |-> x, from |-> w, base |-> u, n |-> 0, done |-> s]]
           Body(it) == [s \in SUBSET S |-> IF s = {} THEN u
                                           ELSE RemoveEntry(it[s \ {AnyOf(s)}], AnyOf(s))]
           all == RemoveAll(u, S)
<1>1. \A s \in SUBSET S : s # {} => AnyOf(s) \in s
  BY AnyIsIn
<1>2. \A f, v : RemoveEach(c, f, v) = RemoveEntry(v, f)
  BY DEF RemoveEach
<1>3. \A s \in SUBSET S : \A v : InEntries(at[s], v) <=> Page(x, v, w) /\ Enters(v, u, s, 0)
  BY DEF InEntries
<1> HIDE DEF at
<1>4. InEntries(at[{}], u)
  BY <1>3 DEF Enters
<1>5. \A s \in SUBSET S : s # {} =>
         \A v : InEntries(at[s \ {AnyOf(s)}], v) => InEntries(at[s], RemoveEach(c, AnyOf(s), v))
  <2> SUFFICES ASSUME NEW s \in SUBSET S, s # {}, NEW v, InEntries(at[s \ {AnyOf(s)}], v)
               PROVE  InEntries(at[s], RemoveEach(c, AnyOf(s), v))
    OBVIOUS
  <2> DEFINE f == AnyOf(s)
             r == RemoveEntry(v, f)
  <2>1. f \in s /\ s \ {f} \in SUBSET S
    BY <1>1
  <2> HIDE DEF f
  <2>2. Page(x, v, w) /\ Enters(v, u, s \ {f}, 0)
    BY <1>3, <2>1 DEF f
  <2>3. Page(x, r, w) /\ Enters(r, v, {f}, 0)
    BY <2>2, RemoveEntryTouches
  <2> HIDE DEF r
  <2>4. Enters(r, u, s, 0)
    BY <2>1, <2>2, <2>3 DEF Enters
  <2> QED
    BY <1>2, <1>3, <2>3, <2>4 DEF f, r
<1> HIDE DEF c
<1>6. /\ \E it : Removing!Iterates(it, c, u, S)
      /\ \A it : Removing!Iterates(it, c, u, S) => InEntries(at[S], it[S])
  BY <1>1, <1>4, <1>5, Removing!IterationAt DEF Removing!IsFiniteSet, IsFiniteSet
<1>7. \A it : Removing!Iterates(it, c, u, S) <=> it = Body(it)
  BY <1>2 DEF Removing!Iterates
<1> HIDE DEF Body
<1>8. (CHOOSE it : it = Body(it)) = Body(CHOOSE it : it = Body(it))
  BY <1>6, <1>7, Zenon
<1>9. all = (CHOOSE it : it = Body(it))[S]
  BY Zenon DEF RemoveAll, FoldSet, MapThenFoldSet, Body, AnyOf
<1> HIDE DEF all
<1>10. Page(x, all, w) /\ Enters(all, u, S, 0)
  BY <1>3, <1>6, <1>7, <1>8, <1>9
<1> QED
  BY <1>10 DEF all

ListAll(v, S, n) == FoldSet(LAMBDA f, r : ListFile(r, f, n), v, S)

LEMMA ListFilesTouch ==
  ASSUME NEW x, "errors" \in PartsOf(x), NEW w, NEW u, Page(x, u, w), NEW n, NEW S, IsFiniteSet(S)
  PROVE  Page(x, ListAll(u, S, n), w) /\ Enters(ListAll(u, S, n), u, S, n)
<1> DEFINE c == [n |-> n]
           at == [s \in SUBSET S |-> [page |-> x, from |-> w, base |-> u, n |-> n, done |-> s]]
           Body(it) == [s \in SUBSET S |-> IF s = {} THEN u
                                           ELSE ListFile(it[s \ {AnyOf(s)}], AnyOf(s), n)]
           all == ListAll(u, S, n)
<1>1. \A s \in SUBSET S : s # {} => AnyOf(s) \in s
  BY AnyIsIn
<1>2. \A f, v : ListEach(c, f, v) = ListFile(v, f, n)
  BY DEF ListEach
<1>3. \A s \in SUBSET S : \A v : InEntries(at[s], v) <=> Page(x, v, w) /\ Enters(v, u, s, n)
  BY DEF InEntries
<1> HIDE DEF at
<1>4. InEntries(at[{}], u)
  BY <1>3 DEF Enters
<1>5. \A s \in SUBSET S : s # {} =>
         \A v : InEntries(at[s \ {AnyOf(s)}], v) => InEntries(at[s], ListEach(c, AnyOf(s), v))
  <2> SUFFICES ASSUME NEW s \in SUBSET S, s # {}, NEW v, InEntries(at[s \ {AnyOf(s)}], v)
               PROVE  InEntries(at[s], ListEach(c, AnyOf(s), v))
    OBVIOUS
  <2> DEFINE f == AnyOf(s)
             r == ListFile(v, f, n)
  <2>1. f \in s /\ s \ {f} \in SUBSET S
    BY <1>1
  <2> HIDE DEF f
  <2>2. Page(x, v, w) /\ Enters(v, u, s \ {f}, n)
    BY <1>3, <2>1 DEF f
  <2>3. Page(x, r, w) /\ Enters(r, v, {f}, n)
    BY <2>2, ListFileTouches
  <2> HIDE DEF r
  <2>4. Enters(r, u, s, n)
    BY <2>1, <2>2, <2>3 DEF Enters
  <2> QED
    BY <1>2, <1>3, <2>3, <2>4 DEF f, r
<1> HIDE DEF c
<1>6. /\ \E it : Listing!Iterates(it, c, u, S)
      /\ \A it : Listing!Iterates(it, c, u, S) => InEntries(at[S], it[S])
  BY <1>1, <1>4, <1>5, Listing!IterationAt DEF Listing!IsFiniteSet, IsFiniteSet
<1>7. \A it : Listing!Iterates(it, c, u, S) <=> it = Body(it)
  BY <1>2 DEF Listing!Iterates
<1> HIDE DEF Body
<1>8. (CHOOSE it : it = Body(it)) = Body(CHOOSE it : it = Body(it))
  BY <1>6, <1>7, Zenon
<1>9. all = (CHOOSE it : it = Body(it))[S]
  BY Zenon DEF ListAll, FoldSet, MapThenFoldSet, Body, AnyOf
<1> HIDE DEF all
<1>10. Page(x, all, w) /\ Enters(all, u, S, n)
  BY <1>3, <1>6, <1>7, <1>8, <1>9
<1> QED
  BY <1>10 DEF all

CheckAll(v, S, opts) == FoldSet(LAMBDA f, r : Check(r, f, opts), v, S)

LEMMA ChecksTouch ==
  ASSUME NEW x, Errs(x), NEW w, NEW u, Page(x, u, w), NEW opts, NEW S, IsFiniteSet(S)
  PROVE  Page(x, CheckAll(u, S, opts), w) /\ Enters(CheckAll(u, S, opts), u, {}, 0)
<1> DEFINE c == [page |-> x, from |-> w, base |-> u, opts |-> opts]
           Body(it) == [s \in SUBSET S |-> IF s = {} THEN u
                                           ELSE Check(it[s \ {AnyOf(s)}], AnyOf(s), opts)]
           all == CheckAll(u, S, opts)
<1>1. \A s \in SUBSET S : s # {} => AnyOf(s) \in s
  BY AnyIsIn
<1>2. \A f, v : CheckEach(c, f, v) = Check(v, f, opts)
  BY DEF CheckEach
<1>3. InChecks(c, u)
  BY DEF InChecks, Enters
<1>4. \A f \in S : \A v : InChecks(c, v) => InChecks(c, CheckEach(c, f, v))
  <2> SUFFICES ASSUME NEW f, NEW v, Page(x, v, w), Enters(v, u, {}, 0)
               PROVE  Page(x, Check(v, f, opts), w) /\ Enters(Check(v, f, opts), u, {}, 0)
    BY <1>2 DEF InChecks
  <2>1. Page(x, Check(v, f, opts), w) /\ Enters(Check(v, f, opts), v, {}, 0)
    BY CheckTouches
  <2> QED
    BY <2>1 DEF Enters
<1> HIDE DEF c
<1>5. /\ \E it : Checking!Iterates(it, c, u, S)
      /\ \A it : Checking!Iterates(it, c, u, S) => InChecks(c, it[S])
  BY <1>1, <1>3, <1>4, Checking!Iteration DEF Checking!IsFiniteSet, IsFiniteSet
<1>6. \A it : Checking!Iterates(it, c, u, S) <=> it = Body(it)
  BY <1>2 DEF Checking!Iterates
<1> HIDE DEF Body
<1>7. (CHOOSE it : it = Body(it)) = Body(CHOOSE it : it = Body(it))
  BY <1>5, <1>6, Zenon
<1>8. all = (CHOOSE it : it = Body(it))[S]
  BY Zenon DEF CheckAll, FoldSet, MapThenFoldSet, Body, AnyOf
<1> HIDE DEF all
<1>9. Page(x, all, w) /\ Enters(all, u, {}, 0)
  BY <1>5, <1>6, <1>7, <1>8 DEF InChecks, c
<1> QED
  BY <1>9 DEF all

LEMMA EntriesFinite == \A u : IsFiniteSet(Entries(u))
BY FS_Subset, FilesAssumption DEF Entries

(* A check that shows its errors closes no tab. *)
LEMMA ViewIsErrors == ASSUME NEW w, NEW r, Page("view", r, w) PROVE Page("errors", r, w)
<1>1. /\ ShellParts \cup PartsOf("view") \subseteq ShellParts \cup PartsOf("errors")
      /\ Files \cup TabsOf("view") \subseteq Files \cup TabsOf("errors")
      /\ ShellKinds \cup AsksOf("view") \subseteq ShellKinds \cup AsksOf("errors")
      /\ ShellOffers \cup OffersOf("view") \subseteq ShellOffers \cup OffersOf("errors")
  BY DEF PartsOf, TabsOf, AsksOf, OffersOf
<1> QED
  BY <1>1, TouchesMore DEF Page

LEMMA TruedSame ==
  ASSUME NEW w, NEW r, r.errors.known = w.errors.known, r.errors.listed = w.errors.listed,
         IsOpen(r, "errors") <=> IsOpen(w, "errors")
  PROVE  Trued(r, w)
BY DEF Trued, Paired, Learnt, Entries

LEMMA TruedEnters == ASSUME NEW w, NEW r, Enters(r, w, {}, 0) PROVE Trued(r, w)
<1>1. IsOpen(r, "errors") <=> IsOpen(w, "errors")
  BY DEF Enters, IsOpen
<1>2. Entries(r) = Entries(w) /\ \A f \in Entries(w) : r.errors.listed[f] = w.errors.listed[f]
  BY DEF Enters, Entries
<1> QED
  BY <1>1, <1>2 DEF Trued, Paired, Learnt, Enters

LEMMA TruedAlong == ASSUME NEW w, NEW r, NEW s, Trued(r, w), Trued(s, r) PROVE Trued(s, w)
BY DEF Trued

(* A button changes neither tabs nor errors. *)
LEMMA SayErrors ==
  ASSUME NEW u, Whole(u), NEW kind, NEW about
  PROVE  /\ Offer(u, kind, about).tabs = u.tabs /\ Offer(u, kind, about).errors = u.errors
         /\ Say(u).tabs = u.tabs /\ Say(u).errors = u.errors
         /\ Unprompt(u, kind).tabs = u.tabs /\ Unprompt(u, kind).errors = u.errors
<1>1. IsRecord(u, Parts)
  BY DEF Whole, Base
<1> QED
  BY <1>1 DEF Offer, Say, Unprompt, IsRecord, Parts

(* The page of errors goes, and with it the button that would show it.     *)
Emptied(r, u) ==
    /\ r.errors.known = u.errors.known
    /\ IF IsOpen(u, "errors") THEN ~IsOpen(r, "errors") /\ Entries(r) = {} ELSE r = u

LEMMA CloseErrorsTouches ==
  ASSUME NEW x, {"errors", "tabs"} \subseteq PartsOf(x), Shutting(x, "errors"),
         NEW w, NEW u, Page(x, u, w)
  PROVE  Page(x, CloseErrors(u), w) /\ Emptied(CloseErrors(u), u)
<1> DEFINE none == RemoveAll(u, Entries(u))
           v == [none.errors EXCEPT !.nulls = {}]
           a == [none EXCEPT !.errors = v]
           b == RemoveTab(a, "errors")
           r == Unprompt(b, "view errors")
<1>1. Page(x, none, w) /\ Enters(none, u, Entries(u), 0)
  BY EntriesFinite, RemoveEntriesTouch
<1>2. CloseErrors(u) = IF ~IsOpen(u, "errors") THEN u ELSE r
  BY Zenon DEF CloseErrors, RemoveAll
<1> HIDE DEF none
<1>3. Page(x, a, w)
  <2>1. "nulls" \in ErrorFields \ {"listed"}
    BY DEF ErrorFields
  <2> QED
    BY <1>1, <2>1, ThenErrorsField
<1>e. a.errors.known = u.errors.known /\ Entries(a) = {}
  <2>1. /\ IsRecord(none.errors, ErrorFields) /\ IsRecord(none, Parts)
    BY <1>1, PageWhole DEF Whole, Base, Marked, Checked
  <2>2. v.known = none.errors.known /\ v.listed = none.errors.listed
    BY <2>1 DEF IsRecord, ErrorFields
  <2> HIDE DEF v
  <2>3. a.errors = v
    BY <2>1 DEF IsRecord, Parts
  <2>4. \A f \in Files : none.errors.listed[f] = 0
    BY <1>1 DEF Enters, Entries
  <2> QED
    BY <1>1, <2>2, <2>3, <2>4 DEF Enters, Entries
<1> HIDE DEF a
<1>4. Whole(a)
  BY <1>3, PageWhole
<1>5. Closable(a, "errors")
  <2>1. "errors" \in Tabs \ {"projects"} /\ "errors" \notin FarTabs
    BY DEF Tabs, PageTabs, FarTabs
  <2>2. Base(a) /\ Fronted(a)
    BY <1>4 DEF Whole
  <2>3. a.cur = "errors" => a.shown \subseteq {Root("errors")}
    BY <2>2 DEF Fronted
  <2> QED
    BY <2>1, <2>2, <2>3 DEF Closable, Fronted
<1> DEFINE xs == ShellParts \cup PartsOf(x)
           ks == ShellKinds \cup AsksOf(x)
           os == ShellOffers \cup OffersOf(x)
           ts == Files \cup TabsOf(x)
<1>6. /\ ClosingParts \subseteq xs /\ "revisions" \in ks /\ "none" \in os
      /\ "errors" \in Parts \ (ClosingParts \cup {"net", "offer", "tabs"})
      /\ Shuts("errors", xs, ts) /\ Shuts("errors", ClosingParts, {"errors"})
  BY DEF ClosingParts, FocusParts, ShellParts, ShellKinds, ShellOffers, Parts, Shuts, Shutting
<1>7. /\ Base(b) /\ Fronted(b) /\ Frames(b, a, xs, ts, ks, os) /\ ~IsOpen(b, "errors")
      /\ b.errors = a.errors
  <2> HIDE DEF xs, ks, os, ts
  <2>1. Base(b) /\ Fronted(b) /\ Frames(b, a, xs, ts, ks, os) /\ ~IsOpen(b, "errors")
    BY <1>5, <1>6, RemoveTabBase
  <2>2. Frames(b, a, ClosingParts, {"errors"}, ks, os)
    BY <1>5, <1>6, RemoveTabBase
  <2>3. b.errors = a.errors
    BY <1>6, <2>2 DEF Frames
  <2> QED
    BY <2>1, <2>3
<1> HIDE DEF b
<1>8. r = [b EXCEPT !.offer = NoOffer] \/ (r = b /\ b.offer.kind # "view errors")
  BY DEF Unprompt, Say
<1>9. ASSUME r = b, b.offer.kind # "view errors"
      PROVE  Page(x, r, a) /\ ~IsOpen(r, "errors") /\ r.errors = a.errors
  <2>1. Whole(r)
    BY <1>7, <1>9 DEF Whole, View
  <2> QED
    BY <1>7, <1>9, <2>1 DEF Page, Touches
<1>10. ASSUME r = [b EXCEPT !.offer = NoOffer]
       PROVE  Page(x, r, a) /\ ~IsOpen(r, "errors") /\ r.errors = a.errors
  <2> HIDE DEF r
  <2>1. /\ IsRecord(r, Parts) /\ r.offer = NoOffer /\ r.tabs = b.tabs /\ r.net = b.net
        /\ \A y \in Parts \ {"offer"} : r[y] = b[y]
    BY <1>7, <1>10 DEF Base, IsRecord, Parts
  <2>2. /\ r.cur = b.cur /\ r.shown = b.shown /\ r.drawn = b.drawn /\ r.log = b.log
        /\ r.edit = b.edit /\ r.errors = b.errors
    BY <2>1 DEF Parts
  <2>3. \A t : IsOpen(r, t) <=> IsOpen(b, t)
    BY <2>1 DEF IsOpen
  <2>4. Base(r) /\ Fronted(r)
    BY <1>7, <2>1, <2>2, <2>3, MarkedStays DEF Base, Fronted
  <2>5. Whole(r)
    BY <2>1, <2>4 DEF Whole, View, NoOffer
  <2>6. r.offer.kind \in os /\ Again(r.offer)
    BY <1>6, <2>1 DEF NoOffer, Again
  <2>7. Frames(r, a, xs, ts, ks, os)
    <3> HIDE DEF xs, ks, os, ts
    <3> QED
      BY <1>7, <2>1, <2>3, <2>6 DEF Frames
  <2>8. Page(x, r, a)
    BY <2>5, <2>7 DEF Page, Touches
  <2> QED
    BY <1>7, <2>2, <2>3, <2>8
<1>11. Page(x, r, a) /\ ~IsOpen(r, "errors") /\ r.errors = a.errors
  BY <1>8, <1>9, <1>10
<1> HIDE DEF r
<1>12. Page(x, r, w) /\ r.errors.known = u.errors.known /\ Entries(r) = {}
  BY <1>3, <1>11, <1>e, PageAlong DEF Entries
<1> QED
  BY <1>2, <1>11, <1>12 DEF Emptied

LEMMA TruedEmptied == ASSUME NEW w, NEW r, Emptied(r, w) PROVE Trued(r, w)
BY DEF Emptied, Trued, Paired, Learnt

(* The shell changes no errors, and of the tabs only those of files.       *)
LEMMA ClosedErrors ==
  ASSUME NEW w, NEW r, Closed0(r, w)
  PROVE  /\ r.errors = w.errors /\ (IsOpen(r, "errors") <=> IsOpen(w, "errors"))
         /\ Trued(r, w)
<1>1. /\ "errors" \in Tabs \ Files /\ "errors" \in Parts \ (ShellParts \cup {"net", "offer", "tabs"})
      /\ ~Shuts("errors", ShellParts \cup {"tabs"}, Files)
  BY Facts DEF PageTabs, Parts, ShellParts, Shuts
<1>2. r.errors = w.errors /\ (IsOpen(r, "errors") <=> IsOpen(w, "errors"))
  BY <1>1 DEF Closed0, Touches, Frames
<1> QED
  BY <1>2, TruedSame

(* The entries after load(). *)
Loads(r, u, f, bad, n) ==
    /\ IsOpen(r, "errors") /\ r.errors.known = u.errors.known
    /\ \A g \in Files : r.errors.listed[g] = IF g \in bad THEN n ELSE IF g = f THEN 0
                                             ELSE u.errors.listed[g]

LEMMA LoadTouches ==
  ASSUME NEW w, NEW u, Page("view", u, w), IsOpen(u, "projects"), NEW f,
         NEW bad \in SUBSET Files, NEW n
  PROVE  Page("view", Load(u, f, bad, n), w) /\ Loads(Load(u, f, bad, n), u, f, bad, n)
<1> DEFINE shown == IF IsOpen(u, "errors") THEN u ELSE AddTab(u, "errors")
           rest == IF f \in bad THEN shown ELSE RemoveEntry(shown, f)
           all == ListAll(rest, bad, n)
<1>1. /\ "errors" \in PartsOf("view") /\ "errors" \in TabsOf("view") /\ "errors" \in Tabs
      /\ "tabs" \notin PartsOf("view")
  BY DEF PartsOf, TabsOf, Tabs, PageTabs
<1>2. Page("view", shown, w) /\ IsOpen(shown, "errors") /\ shown.errors = u.errors
  <2>1. ASSUME ~IsOpen(u, "errors")
        PROVE  /\ Page("view", AddTab(u, "errors"), w) /\ IsOpen(AddTab(u, "errors"), "errors")
               /\ AddTab(u, "errors").errors = u.errors
    <3>1. Whole(u) /\ u.cur \in Tabs /\ Addable(u, "errors")
      BY <1>1, <2>1, PageWhole, SomeFront, Facts DEF Addable, LogTabs, PageTabs
    <3>2. AddTab(u, "errors").errors = u.errors
      BY <3>1 DEF AddTab, Whole, Base, IsRecord, Parts
    <3> QED
      BY <1>1, <3>1, <3>2, ThenAddTab, AddTabBase
  <2> QED
    BY <2>1
<1>3. Load(u, f, bad, n) = all
  BY Zenon DEF Load, ListAll
<1> HIDE DEF shown
<1>4. /\ Page("view", rest, shown)
      /\ IF f \in bad THEN rest = shown ELSE Enters(rest, shown, {f}, 0)
  <2>1. Page("view", shown, shown)
    BY <1>2, PageWhole, PageNothing
  <2> QED
    BY <1>1, <2>1, RemoveEntryTouches
<1>5. IsFiniteSet(bad)
  BY FS_Subset, FilesAssumption
<1> HIDE DEF rest
<1>6. Page("view", all, shown) /\ Enters(all, rest, bad, n)
  BY <1>1, <1>4, <1>5, ListFilesTouch
<1> HIDE DEF all
<1>7. Page("view", all, w) /\ IsOpen(all, "errors")
  BY <1>1, <1>2, <1>6, PageAlong, PageOpen
<1>8. all.errors.known = u.errors.known
  BY <1>2, <1>4, <1>6 DEF Enters
<1>9. ASSUME NEW g \in Files
      PROVE  all.errors.listed[g] = IF g \in bad THEN n ELSE IF g = f THEN 0
                                    ELSE u.errors.listed[g]
  <2>1. all.errors.listed[g] = IF g \in bad THEN n ELSE rest.errors.listed[g]
    BY <1>6 DEF Enters
  <2>2. g \notin bad => rest.errors.listed[g] = IF g = f THEN 0 ELSE u.errors.listed[g]
    BY <1>2, <1>4 DEF Enters
  <2> QED
    BY <2>1, <2>2
<1> QED
  BY <1>3, <1>7, <1>8, <1>9 DEF Loads

(* What the model has learnt. *)
Learns(r, u, f, bad, n) ==
    /\ r.tabs = u.tabs /\ r.errors.listed = u.errors.listed
    /\ \A g \in Files : r.errors.known[g] = IF g \in bad THEN n ELSE IF g = f THEN 0
                                            ELSE u.errors.known[g]

LEMMA LearnTouches ==
  ASSUME NEW x, "errors" \in PartsOf(x), NEW w, NEW u, Page(x, u, w), NEW f, NEW bad, NEW n
  PROVE  Page(x, Learn(u, f, bad, n), w) /\ Learns(Learn(u, f, bad, n), u, f, bad, n)
<1> DEFINE k == [g \in Files |-> IF g \in bad THEN n ELSE IF g = f THEN 0 ELSE u.errors.known[g]]
           v == [u.errors EXCEPT !.known = k]
           r == [u EXCEPT !.errors = v]
<1>1. Learn(u, f, bad, n) = r
  BY DEF Learn
<1>2. IsRecord(k, Files) /\ \A g \in Files : k[g] = IF g \in bad THEN n ELSE IF g = f THEN 0
                                                    ELSE u.errors.known[g]
  BY DEF IsRecord
<1> HIDE DEF k
<1>3. Page(x, r, w)
  <2>1. "known" \in ErrorFields \ {"listed"} /\ "known" # "nth"
    BY DEF ErrorFields
  <2> QED
    BY <1>2, <2>1, ThenErrorsField
<1>4. IsRecord(u, Parts) /\ IsRecord(u.errors, ErrorFields)
  BY PageWhole DEF Whole, Base, Marked, Checked
<1>5. v.listed = u.errors.listed /\ v.known = k
  BY <1>4 DEF IsRecord, ErrorFields
<1> HIDE DEF v
<1>6. r.tabs = u.tabs /\ r.errors = v
  BY <1>4 DEF IsRecord, Parts
<1> QED
  BY <1>1, <1>2, <1>3, <1>5, <1>6 DEF Learns

LEMMA DoneCheckTouches ==
  ASSUME Whole(win), IsOpen(win, "projects"), NEW m \in Waiting({"lint"}), Formed(m),
         NEW bad \in SUBSET Files
  PROVE  /\ Page("errors", Answered(m), win) /\ Trued(Answered(m), win)
         /\ bad = {} => LET r == Passed(Learn(Answered(m), m.file, bad, m.nth), m)
                        IN Page("errors", r, win) /\ Trued(r, win)
         /\ bad # {} => LET r == Failed(Learn(Answered(m), m.file, bad, m.nth), m, bad)
                        IN Page("errors", r, win) /\ Trued(r, win)
<1> DEFINE P(r) == Page("errors", r, win)
           V(r) == Page("view", r, win)
           n == m.nth
           u == Learn(Answered(m), m.file, bad, n)
<1>1. /\ {"errors", "tabs"} \subseteq PartsOf("errors") /\ "errors" \in PartsOf("view")
      /\ "lint" \in AsksOf("view") /\ "view errors" \in OffersOf("view")
      /\ "tabs" \notin PartsOf("view") /\ Shutting("errors", "errors")
  BY DEF PartsOf, AsksOf, OffersOf, TabsOf, Shutting, Shuts
<1>2. V(Answered(m)) /\ P(Answered(m))
  BY <1>1, PageAnswered, ViewIsErrors DEF Waiting
<1>3. V(u) /\ P(u) /\ Learns(u, Answered(m), m.file, bad, n)
  BY <1>1, <1>2, LearnTouches, ViewIsErrors
<1>4. Answered(m).tabs = win.tabs /\ Answered(m).errors = win.errors
  BY DEF Answered, Whole, Base, IsRecord, Parts
<1>5. /\ u.tabs = win.tabs /\ u.errors.listed = win.errors.listed
      /\ \A g \in Files : u.errors.known[g] = IF g \in bad THEN n ELSE IF g = m.file THEN 0
                                              ELSE win.errors.known[g]
  BY <1>3, <1>4 DEF Learns
<1> HIDE DEF u
<1>6. Trued(Answered(m), win)
  BY <1>4, TruedSame DEF IsOpen
<1>7. ASSUME bad = {} PROVE P(Passed(u, m)) /\ Trued(Passed(u, m), win)
  <2> DEFINE quiet == m.opts.quiet \/ (m.opts.switch /\ u.cur = "projects" /\ Cardinality(u.net) > 1)
             s == IF quiet THEN u ELSE Say(u)
             c == RemoveEntry(s, m.file)
             r == CloseErrors(c)
  <2>1. Passed(u, m) = IF Entries(c) = {} THEN r ELSE c
    BY DEF Passed, ClearFile
  <2>2. P(s) /\ s.tabs = u.tabs /\ s.errors = u.errors
    BY <1>3, ThenSay, SayErrors, PageWhole
  <2> HIDE DEF s
  <2>3. P(c) /\ Enters(c, s, {m.file}, 0)
    BY <1>1, <2>2, RemoveEntryTouches
  <2> HIDE DEF c
  <2>4. P(r) /\ Emptied(r, c)
    BY <1>1, <2>3, CloseErrorsTouches
  <2> HIDE DEF r
  <2>5. c.tabs = win.tabs /\ \A g \in Files :
           /\ c.errors.listed[g] = IF g = m.file THEN 0 ELSE win.errors.listed[g]
           /\ c.errors.known[g] = IF g = m.file THEN 0 ELSE win.errors.known[g]
    BY <1>5, <1>7, <2>2, <2>3 DEF Enters
  <2>6. Entries(c) = Entries(win) \ {m.file} /\ (IsOpen(c, "errors") <=> IsOpen(win, "errors"))
    BY <2>5 DEF Entries, IsOpen
  <2>7. CASE Entries(c) = {}
    <3>1. Entries(r) = {} /\ ~IsOpen(r, "errors")
      BY <2>4, <2>7 DEF Emptied
    <3> QED
      BY <2>1, <2>4, <2>7, <3>1 DEF Trued, Paired, Learnt
  <2>8. CASE Entries(c) # {}
    <3>1. Trued(c, win)
      BY <2>5, <2>6, <2>8 DEF Trued, Paired, Learnt, Entries
    <3> QED
      BY <2>1, <2>3, <2>8, <3>1
  <2> QED
    BY <2>7, <2>8
<1>8. ASSUME bad # {} PROVE P(Failed(u, m, bad)) /\ Trued(Failed(u, m, bad), win)
  <2> DEFINE clear == Unprompt(u, "view errors")
             loaded == Load(clear, m.file, bad, n)
             switched == IF m.opts.switch THEN SwitchTo(loaded, "errors") ELSE loaded
             offered == Offer(switched, "view errors", None)
  <2>1. V(clear) /\ clear.tabs = u.tabs /\ clear.errors = u.errors
    BY <1>3, ThenUnprompt, SayErrors, PageWhole
  <2>2. IsOpen(clear, "projects")
    BY <2>1, PageOpen
  <2> HIDE DEF clear
  <2>3. V(loaded) /\ Loads(loaded, clear, m.file, bad, n)
    BY <2>1, <2>2, LoadTouches
  <2>4. Failed(u, m, bad) = IF m.opts.alert THEN offered ELSE switched
    BY DEF Failed, clear
  <2> HIDE DEF loaded
  <2>5. /\ Page("view", switched, loaded) /\ switched.errors = loaded.errors
        /\ IsOpen(switched, "errors")
    <3>1. Page("view", loaded, loaded) /\ "errors" \in Tabs /\ IsOpen(loaded, "errors")
      BY <2>3, PageWhole, PageNothing, Facts DEF Loads
    <3>2. Shell0(SwitchTo(loaded, "errors"), loaded)
      BY <2>3, <3>1, PageWhole, ShellSwitch
    <3>3. /\ SwitchTo(loaded, "errors").errors = loaded.errors
          /\ IsOpen(SwitchTo(loaded, "errors"), "errors")
      BY <3>1, <3>2, ShellCloses, ClosedErrors
    <3> QED
      BY <2>3, <3>1, <3>3, ThenSwitch
  <2> HIDE DEF switched
  <2>6. V(switched)
    BY <2>3, <2>5, PageAlong
  <2>7. V(offered) /\ offered.tabs = switched.tabs /\ offered.errors = switched.errors
    <3>1. Again([kind |-> "view errors", about |-> None]) /\ Whole(switched)
      BY <2>6, PageWhole DEF Again
    <3>2. V(offered)
      BY <1>1, <2>5, <2>6, <3>1, ThenOffer
    <3>3. IsRecord(switched, Parts)
      BY <3>1 DEF Whole, Base
    <3>4. offered.tabs = switched.tabs /\ offered.errors = switched.errors
      BY <3>3 DEF Offer, IsRecord, Parts
    <3> QED
      BY <3>2, <3>4
  <2> HIDE DEF offered
  <2> DEFINE r == Failed(u, m, bad)
  <2>8. V(r) /\ r.errors = loaded.errors /\ IsOpen(r, "errors")
    BY <2>4, <2>5, <2>6, <2>7 DEF IsOpen
  <2> HIDE DEF r
  <2>9. \A g \in Files :
           /\ r.errors.listed[g] = IF g \in bad THEN n ELSE IF g = m.file THEN 0
                                   ELSE win.errors.listed[g]
           /\ r.errors.known[g] = IF g \in bad THEN n ELSE IF g = m.file THEN 0
                                  ELSE win.errors.known[g]
    BY <1>5, <2>1, <2>3, <2>8 DEF Loads
  <2>10. Entries(r) # {}
    <3>1. n # 0
      BY DEF Formed, Waiting
    <3> QED
      BY <1>8, <2>9, <3>1 DEF Entries
  <2>11. Trued(r, win)
    BY <2>8, <2>9, <2>10 DEF Trued, Paired, Learnt, Entries
  <2> QED
    BY <2>8, <2>11, ViewIsErrors DEF r
<1> QED
  BY <1>2, <1>6, <1>7, <1>8 DEF u

LEMMA ErrorsTouch ==
  ASSUME Whole(win), Again(win.offer), \A m \in win.net : Formed(m),
         Waiting({"lint"}) # {} => IsOpen(win, "projects"), ErrorsSteps
  PROVE  Page("errors", win', win) /\ Trued(win', win)
<1> DEFINE P(r) == Page("errors", r, win) /\ Trued(r, win)
<1>0. \A r : Page("errors", r, win) /\ r.tabs = win.tabs /\ r.errors = win.errors => P(r)
  BY TruedSame DEF IsOpen
<1>1. /\ P(win) /\ P(Unbuttoned) /\ Page("errors", Say(win), win) /\ Errs("errors")
      /\ "lint" \in AsksOf("errors") /\ "lint" \in OffersOf("errors")
      /\ Say(win).tabs = win.tabs /\ Say(win).errors = win.errors
  BY <1>0, PageNothing, ThenSay, SayErrors DEF PartsOf, AsksOf, OffersOf, Unbuttoned, Errs
<1>2. ASSUME NEW fs \in SUBSET Files, ChecksSelection(fs) PROVE P(win')
  <2> DEFINE from == IF fs \subseteq Checkable THEN win ELSE Say(win)
             opts == [NoOpts EXCEPT !.switch = TRUE]
  <2>1. win' = CheckAll(from, fs \cap Checkable, opts)
    BY <1>2, Zenon DEF ChecksSelection, CheckAll
  <2>2. IsFiniteSet(fs \cap Checkable)
    BY FS_Subset, FilesAssumption
  <2>3. Page("errors", from, win) /\ Trued(from, win)
    BY <1>0, <1>1
  <2> HIDE DEF from, opts
  <2>4. Page("errors", win', win) /\ Enters(win', from, {}, 0)
    BY <1>1, <2>1, <2>2, <2>3, ChecksTouch
  <2> QED
    BY <2>3, <2>4, TruedEnters, TruedAlong
<1>3. ASSUME NEW f, NEW quiet, ChecksTab(f, quiet) PROVE P(win')
  BY <1>1, <1>3, CheckTouches, TruedEnters DEF ChecksTab
<1>4. ASSUME NEW fs, ChecksAgain(fs) PROVE P(win')
  <2>1. win' = CheckAll(win, fs, NoOpts)
    BY <1>4, Zenon DEF ChecksAgain, CheckAll
  <2>2. IsFiniteSet(fs)
    BY <1>4, EntriesFinite, FS_Subset DEF ChecksAgain
  <2>3. Page("errors", win', win) /\ Enters(win', win, {}, 0)
    BY <1>1, <2>1, <2>2, ChecksTouch
  <2> QED
    BY <2>3, TruedEnters
<1>5. ASSUME NEW f \in Files, ViewsErrors(f) PROVE P(win')
  <2> DEFINE front == EditFile(win, f, None)
             newest == IF front.edit[f].rev = HEAD THEN front ELSE OpenRevision(front, f, HEAD)
  <2>1. Shell0(front, win)
    <3>1. IsOpen(win, "projects")
      BY <1>5, TeamsTab, Facts DEF ViewsErrors, FarTabs
    <3> QED
      BY <3>1, EditFileTouches
  <2>2. win' = MarkErrors(newest, f, win.errors.listed[f])
    BY <1>5 DEF ViewsErrors
  <2> HIDE DEF front
  <2>3. Shell0(OpenRevision(front, f, HEAD), front)
    BY <2>1, ShellWhole, OpenRevisionTouches
  <2>4. Shell0(newest, win)
    BY <2>1, <2>3, ShellAlong
  <2> HIDE DEF newest
  <2>5. Whole(newest) /\ newest.errors = win.errors
    BY <2>4, ShellWhole, ShellCloses, ClosedErrors
  <2>6. Shell0(win', newest)
    BY <2>2, <2>5, MarksTouch
  <2>7. Shell0(win', win)
    BY <2>4, <2>6, ShellAlong
  <2> QED
    BY <2>7, PageShell, ShellCloses, ClosedErrors
<1>6. ASSUME NEW f, Folds(f) \/ \E fs, fold : FoldsAll(fs, fold) PROVE P(win')
  <2>1. PICK y : win' = [win EXCEPT !.errors = [win.errors EXCEPT !.folded = y]]
    BY <1>6 DEF Folds, FoldsAll
  <2> DEFINE r == [win EXCEPT !.errors = [win.errors EXCEPT !.folded = y]]
  <2>2. IsRecord(win, Parts) /\ IsRecord(win.errors, ErrorFields)
    BY DEF Whole, Base, Marked, Checked
  <2>3. r.tabs = win.tabs /\ r.errors.listed = win.errors.listed
        /\ r.errors.known = win.errors.known
    BY <2>2 DEF IsRecord, Parts, ErrorFields
  <2>4. Page("errors", r, win)
    <3>1. "folded" \in ErrorFields \ {"listed", "nth", "known"} /\ "errors" \in PartsOf("errors")
      BY <1>1 DEF ErrorFields, Errs
    <3> QED
      BY <1>1, <3>1, ThenErrorsField
  <2> HIDE DEF r
  <2>5. Trued(r, win)
    BY <2>3, TruedSame DEF IsOpen
  <2> QED
    BY <2>1, <2>4, <2>5 DEF r
<1>8. ASSUME PressLint PROVE P(win')
  <2>1. /\ win.offer.about.kind = "lint" /\ win' = Ask(Unbuttoned, win.offer.about)
        /\ Formed(win.offer.about)
    BY <1>8 DEF PressLint, Pressed, Again
  <2>2. IsRecord(win, Parts)
    BY DEF Whole, Base
  <2>3. win'.tabs = win.tabs /\ win'.errors = win.errors
    BY <1>1, <2>1, <2>2 DEF Ask, Unbuttoned, Say, IsRecord, Parts
  <2> QED
    BY <1>0, <1>1, <2>1, <2>3, ThenAsk
<1>9. ASSUME PressView PROVE P(win')
  <2>2. IsOpen(win, "errors") /\ "errors" \in Tabs
    BY <1>9, Facts DEF PressView, Pressed, Whole, View
  <2>3. IsOpen(Unbuttoned, "errors") /\ Whole(Unbuttoned)
    BY <1>1, <2>2, PageWhole DEF Unbuttoned, IsOpen
  <2>4. Shell0(win', Unbuttoned)
    BY <1>9, <2>2, <2>3, ShellSwitch DEF PressView
  <2>5. Trued(win', Unbuttoned)
    BY <2>4, ShellCloses, ClosedErrors
  <2> QED
    BY <1>1, <2>4, <2>5, ThenShell, TruedAlong
<1>10. ASSUME NEW m \in Waiting({"lint"}), FailLint(m) PROVE P(win')
  <2>1. Page("errors", Answered(m), win)
    BY <1>1, PageAnswered DEF Waiting
  <2>2. Again([kind |-> "lint", about |-> m])
    BY DEF Again, Waiting
  <2>3. Answered(m).tabs = win.tabs /\ Answered(m).errors = win.errors
    BY DEF Answered, Whole, Base, IsRecord, Parts
  <2>4. win'.tabs = win.tabs /\ win'.errors = win.errors
    BY <1>10, <2>1, <2>3, PageWhole, SayErrors DEF FailLint
  <2> QED
    BY <1>0, <1>1, <1>10, <2>1, <2>2, <2>4, ThenOffer DEF FailLint
<1>11. ASSUME NEW m \in Waiting({"lint"}), NEW bad \in SUBSET Files, GotLint(m, bad)
       PROVE  P(win')
  <2>1. Formed(m) /\ IsOpen(win, "projects")
    BY DEF Waiting
  <2> HIDE DEF P
  <2> QED
    BY <1>11, <2>1, DoneCheckTouches DEF GotLint, P
<1> HIDE DEF P
<1> SUFFICES P(win')
  BY DEF P
<1>12. CASE \E fs \in SUBSET Files : ChecksSelection(fs) \/ \E fold \in BOOLEAN : FoldsAll(fs, fold)
  BY <1>2, <1>6, <1>12
<1>13. CASE \E f \in Files : \/ \E quiet \in BOOLEAN : ChecksTab(f, quiet)
                             \/ ChecksAgain({f}) \/ ViewsErrors(f) \/ Folds(f)
  BY <1>3, <1>4, <1>5, <1>6, <1>13
<1>14. CASE ChecksAgain(Entries(win)) \/ PressLint \/ PressView
  BY <1>4, <1>8, <1>9, <1>14
<1>15. CASE \E m \in Waiting({"lint"}) : FailLint(m) \/ \E bad \in SUBSET Files : GotLint(m, bad)
  BY <1>10, <1>11, <1>15
<1> QED
  BY <1>12, <1>13, <1>14, <1>15 DEF ErrorsSteps

(* Logs of files. *)
LEMMA LogChanged ==
  ASSUME NEW g, Logged(g), NEW t, NEW n \in LogFields \ {"file"}, NEW x
  PROVE  /\ Logged([g EXCEPT ![t] = [g[t] EXCEPT ![n] = x]])
         /\ \A u \in LogTabs : [g EXCEPT ![t] = [g[t] EXCEPT ![n] = x]][u].file = g[u].file
<1> DEFINE v == [g EXCEPT ![t] = [g[t] EXCEPT ![n] = x]]
<1>1. IsRecord(v, LogTabs)
  BY DEF Logged, IsRecord
<1>2. \A u \in LogTabs : v[u] = IF u = t THEN [g[t] EXCEPT ![n] = x] ELSE g[u]
  BY DEF Logged, IsRecord
<1>3. \A u \in LogTabs : IsRecord(v[u], LogFields) /\ v[u].file = g[u].file
  <2> SUFFICES ASSUME NEW u \in LogTabs
               PROVE  IsRecord(v[u], LogFields) /\ v[u].file = g[u].file
    OBVIOUS
  <2>1. IsRecord(g[u], LogFields)
    BY DEF Logged
  <2>2. CASE u = t
    <3> DEFINE a == [g[u] EXCEPT ![n] = x]
    <3>1. v[u] = a
      BY <1>2, <2>2
    <3>2. IsRecord(a, LogFields)
      BY <2>1 DEF IsRecord
    <3>3. a.file = g[u].file
      BY <2>1 DEF IsRecord, LogFields
    <3> QED
      BY <3>1, <3>2, <3>3
  <2>3. CASE u # t
    BY <1>2, <2>1, <2>3
  <2> QED
    BY <2>2, <2>3
<1> HIDE DEF v
<1>4. Logged(v)
  BY <1>1, <1>3 DEF Logged
<1> QED
  BY <1>3, <1>4 DEF v

LEMMA ThenLogField ==
  ASSUME NEW x, "log" \in PartsOf(x), NEW w, NEW u, Page(x, u, w), NEW t,
         NEW n \in LogFields \ {"file"}, NEW y
  PROVE  /\ Page(x, [u EXCEPT !.log = [u.log EXCEPT ![t] = [u.log[t] EXCEPT ![n] = y]]], w)
         /\ Logged(u.log)
<1> DEFINE v == [u.log EXCEPT ![t] = [u.log[t] EXCEPT ![n] = y]]
<1>1. Logged(u.log)
  BY PageWhole DEF Whole, Base
<1>2. Logged(v) /\ \A s \in LogTabs : v[s].file = u.log[s].file
  BY <1>1, LogChanged
<1> HIDE DEF v
<1>3. Page(x, [u EXCEPT !.log = v], w)
  BY <1>2, ThenLog
<1> QED
  BY <1>1, <1>3 DEF v

LEMMA RetrieveTouches ==
  ASSUME NEW w, NEW u, Page("logs", u, w), NEW t, NEW quiet
  PROVE  /\ Page("logs", RetrieveHistory(u, t, quiet), w) /\ Page("logs", AskAnew(u, t), w)
         /\ Page("logs", DoRevert(u, t), w)
<1> DEFINE P(r) == Page("logs", r, w)
<1>1. \A r : P(r) => P(RetrieveHistory(r, t, quiet)) /\ P(RetrieveHistory(r, t, FALSE))
  <2> SUFFICES ASSUME NEW r, P(r), NEW q PROVE P(RetrieveHistory(r, t, q))
    OBVIOUS
  <2> DEFINE m == [kind |-> "log", tab |-> t, nth |-> r.log[t].nth, file |-> r.log[t].file,
                   offset |-> r.log[t].offset, user |-> r.log[t].user, quiet |-> q]
  <2>1. Formed(m) /\ m.kind \in AsksOf("logs")
    BY DEF Formed, OpKinds, AsksOf, LogKinds
  <2>2. RetrieveHistory(r, t, q) = Ask(r, m)
    BY DEF RetrieveHistory
  <2> HIDE DEF m
  <2> QED
    BY <2>1, <2>2, ThenAsk
<1>3. P(AskAnew(u, t))
  <2> DEFINE r == [u EXCEPT !.log = [u.log EXCEPT ![t] = [u.log[t] EXCEPT !.history = <<>>]]]
  <2>1. P(r)
    BY ThenLogField DEF PartsOf, LogFields
  <2>2. AskAnew(u, t) = RetrieveHistory(r, t, FALSE)
    BY DEF AskAnew
  <2> HIDE DEF r, P
  <2> QED
    BY <1>1, <2>1, <2>2
<1>5. P(DoRevert(u, t))
  <2> DEFINE m == [kind |-> "checkout", tab |-> t, nth |-> u.log[t].nth, team |-> u.team,
                   file |-> u.log[t].file, rev |-> u.log[t].chosen]
  <2>1. IsRecord(m, {"kind", "tab", "nth", "team", "file", "rev"}) /\ m.kind = "checkout"
    BY DEF IsRecord
  <2>2. Formed(m) /\ m.kind \in AsksOf("logs")
    BY <2>1 DEF Formed, OpKinds, AsksOf, LogKinds
  <2>3. DoRevert(u, t) = Ask(u, m)
    BY DEF DoRevert
  <2> HIDE DEF m
  <2> QED
    BY <2>2, <2>3, ThenAsk
<1> QED
  BY <1>1, <1>3, <1>5

LEMMA FindSelectedTouches ==
  ASSUME NEW x, "log" \in PartsOf(x), NEW w, NEW u, Page(x, u, w), NEW t
  PROVE  /\ Page(x, FindSelected(u, t), w)
         /\ \A s \in LogTabs : FindSelected(u, t).log[s].file = u.log[s].file
         /\ FindSelected(u, t).tabs = u.tabs
<1> DEFINE v == [u.log EXCEPT ![t] = [u.log[t] EXCEPT !.chosen = u.drawn.picked]]
           r == [u EXCEPT !.log = v]
<1>1. "chosen" \in LogFields \ {"file"}
  BY DEF LogFields
<1>2. Page(x, r, w) /\ Logged(u.log) /\ Whole(u)
  BY <1>1, ThenLogField, PageWhole
<1>3. \A s \in LogTabs : v[s].file = u.log[s].file
  BY <1>1, <1>2, LogChanged
<1>4. FindSelected(u, t) = r
  BY DEF FindSelected
<1> HIDE DEF v
<1>5. r.log = v /\ r.tabs = u.tabs
  BY <1>2 DEF Whole, Base, IsRecord, Parts
<1> QED
  BY <1>2, <1>3, <1>4, <1>5

LEMMA ReceiveHistoryTouches ==
  ASSUME NEW w, NEW u, Page("logs", u, w), NEW m
  PROVE  Page("logs", ReceiveHistory(u, m), w)
<1> DEFINE P(r) == Page("logs", r, w)
           t == m.tab
           v == [NothingDrawn EXCEPT !.entries = LogPage(u, m)]
           a == [u EXCEPT !.drawn = v]
           l == [u.log EXCEPT ![t] = [u.log[t] EXCEPT !.history = Overlay(u.log[t].history,
                                                                          LogPage(u, m))]]
           b == [u EXCEPT !.log = l]
           k == [l EXCEPT ![t] = [l[t] EXCEPT !.pages = LogSize(u, m)]]
           got == [b EXCEPT !.log = k]
           told == IF m.quiet THEN got ELSE Say(got)
<1>1. Whole(u) /\ None \notin LogTabs
  BY PageWhole, FilesAssumption, Facts
<1>2. P(a) /\ P(Say(a)) /\ Whole(a)
  <2>1. v.owner = None
    BY DEF NothingDrawn
  <2> HIDE DEF v
  <2>2. P(a)
    BY <1>1, <2>1, ThenDrawn
  <2> QED
    BY <2>2, ThenSay, PageWhole
<1>3. P(b) /\ b.log = l /\ Logged(l) /\ b.tabs = u.tabs
      /\ \A s \in LogTabs : l[s].file = u.log[s].file
  <2>0. "history" \in LogFields \ {"file"} /\ "log" \in PartsOf("logs")
    BY DEF PartsOf, LogFields
  <2>1. P(b) /\ Logged(u.log)
    BY <2>0, ThenLogField
  <2>2. Logged(l) /\ \A s \in LogTabs : l[s].file = u.log[s].file
    <3> DEFINE h == Overlay(u.log[t].history, LogPage(u, m))
               g == u.log
               n == "history"
               v2 == [g EXCEPT ![t] = [g[t] EXCEPT ![n] = h]]
    <3>1. l = v2
      OBVIOUS
    <3>2. Logged(g) /\ n \in LogFields \ {"file"}
      BY <2>0, <2>1
    <3> HIDE DEF h, l, t, g, n
    <3>3. Logged(v2)
      BY <3>2, LogChanged
    <3>4. \A s \in LogTabs : v2[s].file = g[s].file
      BY <3>2, LogChanged
    <3> HIDE DEF v2
    <3> QED
      BY <3>1, <3>3, <3>4 DEF g
  <2> HIDE DEF l
  <2>3. b.log = l /\ b.tabs = u.tabs
    BY <1>1 DEF Whole, Base, IsRecord, Parts
  <2> HIDE DEF b
  <2> QED
    BY <2>1, <2>2, <2>3
<1>4. P(got) /\ got.log = k /\ got.tabs = u.tabs
      /\ \A s \in LogTabs : k[s].file = u.log[s].file
  <2> HIDE DEF l
  <2>0. Whole(b)
    BY <1>3, PageWhole
  <2> HIDE DEF b
  <2>1. P(got)
    BY <1>3, ThenLogField DEF PartsOf, LogFields
  <2>2. \A s \in LogTabs : k[s].file = u.log[s].file
    BY <1>3, LogChanged DEF LogFields
  <2> HIDE DEF k
  <2> QED
    BY <1>3, <2>0, <2>1, <2>2 DEF Whole, Base, IsRecord, Parts
<1>5. P(told) /\ told.log = k /\ told.tabs = u.tabs
  <2> HIDE DEF got, k
  <2>1. P(Say(got)) /\ Whole(got)
    BY <1>4, ThenSay, PageWhole
  <2>2. Say(got).log = got.log /\ Say(got).tabs = got.tabs
    BY <2>1 DEF Whole, Base, IsRecord, Parts, Say
  <2> QED
    BY <1>4, <2>1, <2>2
<1>6. ASSUME IsOpen(u, t) PROVE P(DrawLog(told, t))
  <2> HIDE DEF told, k
  <2> DEFINE d == [owner |-> t, entries |-> told.log[t].history, page |-> told.log[t].offset,
                   of |-> told.log[t].pages, picked |-> None]
  <2>1. d.owner = t /\ (t \in LogTabs => told.log[t].file \in Files)
    BY <1>1, <1>4, <1>5, <1>6 DEF Whole, Base
  <2>2. DrawLog(told, t) = [told EXCEPT !.drawn = d]
    BY DEF DrawLog
  <2> HIDE DEF d
  <2> QED
    BY <1>5, <2>1, <2>2, ThenDrawn
<1>7. [u EXCEPT !.drawn = v, !.offer = IF m.quiet THEN @ ELSE NoOffer]
         = IF m.quiet THEN a ELSE Say(a)
  <2> HIDE DEF v
  <2>1. a.offer = u.offer /\ [a EXCEPT !.offer = a.offer] = a
    <3>1. a.offer = u.offer
      BY <1>1 DEF Whole, Base, IsRecord, Parts
    <3> HIDE DEF a
    <3>2. [a EXCEPT !.offer = a.offer] = a
      BY <1>2 DEF Whole, Base, IsRecord
    <3> QED
      BY <3>1, <3>2
  <2>2. [u EXCEPT !.drawn = v, !.offer = IF m.quiet THEN @ ELSE NoOffer]
           = [a EXCEPT !.offer = IF m.quiet THEN u.offer ELSE NoOffer]
    OBVIOUS
  <2> HIDE DEF a
  <2> QED
    BY <2>1, <2>2 DEF Say
<1> DEFINE c == [u EXCEPT !.drawn = v, !.offer = IF m.quiet THEN @ ELSE NoOffer]
           e == [u EXCEPT !.log[t] = [@ EXCEPT !.history = Overlay(u.log[t].history, LogPage(u, m)),
                                              !.pages = LogSize(u, m)]]
<1>8. ReceiveHistory(u, m) =
        IF ~IsOpen(u, t) \/ m.nth # u.log[t].nth THEN c
        ELSE DrawLog(IF m.quiet THEN e ELSE Say(e), t)
  BY Zenon DEF ReceiveHistory
<1>9. e = got
  OBVIOUS
<1> HIDE DEF got, a, c, e
<1> QED
  BY <1>2, <1>6, <1>7, <1>8, <1>9 DEF c

LEMMA OpenLogTouches ==
  ASSUME NEW w, NEW u, Page("logs", u, w), IsOpen(u, "projects"), NEW t \in LogTabs,
         ~IsOpen(u, t), NEW f \in Files
  PROVE  Page("logs", OpenLog(u, t, f), w)
<1> DEFINE new == [NoLog EXCEPT !.file = f, !.nth = u.log[t].nth + 1, !.ro = u.team \in ReadOnly]
           v == [u.log EXCEPT ![t] = new]
           r == [u EXCEPT !.log = v]
<1>1. Whole(u) /\ Logged(u.log)
  BY PageWhole DEF Whole, Base
<1>2. IsRecord(new, LogFields) /\ new.file = f
  BY DEF NoLog, IsRecord, LogFields
<1> HIDE DEF new
<1>3. Logged(v) /\ v[t].file = f /\ \A s \in LogTabs : s # t => v[s] = u.log[s]
  BY <1>1, <1>2 DEF Logged, IsRecord
<1> HIDE DEF v
<1>4. Page("logs", r, w)
  BY <1>3, ThenLog DEF PartsOf
<1>5. r.tabs = u.tabs /\ r.log = v
  BY <1>1 DEF Whole, Base, IsRecord, Parts
<1>6. Addable(r, t) /\ CanFocus(t) /\ t \in TabsOf("logs")
  BY <1>3, <1>5, Facts DEF Addable, IsOpen, TabsOf
<1>7. OpenLog(u, t, f) = AskAnew(SwitchTo(AddTab(r, t), t), t)
  BY DEF OpenLog, v, new
<1> HIDE DEF r
<1>8. Page("logs", SwitchTo(AddTab(r, t), t), w)
  BY <1>4, <1>6, ThenOpenTab
<1> QED
  BY <1>7, <1>8, RetrieveTouches

LEMMA LogsTouch ==
  ASSUME Whole(win), \A m \in win.net : Formed(m), LogSteps PROVE Page("logs", win', win)
<1> DEFINE P(r) == Page("logs", r, win)
<1>1. /\ P(win) /\ P(Unbuttoned) /\ "revert" \in OffersOf("logs") /\ "log" \in PartsOf("logs")
      /\ "revert again" \in OffersOf("logs") /\ "history" \in OffersOf("logs")
      /\ \A k \in {"log", "checkout", "revert"} : k \in AsksOf("logs")
  BY PageNothing, ThenSay DEF AsksOf, LogKinds, OffersOf, Unbuttoned, PartsOf
<1>2. \A t \in LogTabs : win.cur = t => IsOpen(win, "projects")
  BY TeamsTab, Facts
<1>3. \A r, t : P(r) => P(FindSelected(r, t)) /\ P(DoRevert(r, t)) /\ P(AskAnew(r, t)) /\ P(Say(r))
  BY <1>1, RetrieveTouches, FindSelectedTouches, ThenSay
<1>4. ASSUME NEW r, P(r), NEW t, NEW n \in LogFields \ {"file"}, NEW y
      PROVE  P([r EXCEPT !.log = [r.log EXCEPT ![t] = [r.log[t] EXCEPT ![n] = y]]])
  BY <1>1, <1>4, ThenLogField
<1>5. ASSUME NEW f \in Files, ViewsLog(f) PROVE P(win')
  <2> DEFINE t == CHOOSE t \in FreeLogs(win) : TRUE
  <2>1. t \in FreeLogs(win) /\ win' = OpenLog(win, t, f)
    BY <1>5 DEF ViewsLog
  <2>2. IsOpen(win, "projects")
    BY <1>5, TeamsTab, Facts DEF ViewsLog
  <2> HIDE DEF t
  <2> QED
    BY <1>1, <2>1, <2>2, OpenLogTouches DEF FreeLogs
<1>6. ASSUME NEW t, NEW by, Turns(t, by) PROVE P(win')
  <2> DEFINE o == win.drawn.owner
             r == [win EXCEPT !.log = [win.log EXCEPT ![o] = [win.log[o] EXCEPT
                                         !.offset = win.log[o].offset + by]]]
  <2>1. P(r)
    <3>1. "offset" \in LogFields \ {"file"}
      BY DEF LogFields
    <3> QED
      BY <1>1, <1>4, <3>1
  <2>2. win' = AskAnew(r, o)
    BY <1>6 DEF Turns
  <2> HIDE DEF r, P
  <2> QED
    BY <1>3, <2>1, <2>2
<1>7. ASSUME NEW t, NEW user, Filters(t, user) PROVE P(win')
  <2> DEFINE o == win.drawn.owner
             a == [win EXCEPT !.log = [win.log EXCEPT ![o] = [win.log[o] EXCEPT !.user = user]]]
             b == [a EXCEPT !.log = [a.log EXCEPT ![o] = [a.log[o] EXCEPT !.offset = 0]]]
             c == [b EXCEPT !.log = [b.log EXCEPT ![o] = [b.log[o] EXCEPT !.failed = FALSE]]]
  <2>0. {"user", "offset", "failed"} \subseteq LogFields \ {"file"}
    BY DEF LogFields
  <2>1. P(a)
    BY <1>1, <1>4, <2>0
  <2>2. P(b)
    <3> HIDE DEF a
    <3> QED
      BY <1>4, <2>0, <2>1
  <2>3. P(c)
    <3> HIDE DEF b
    <3> QED
      BY <1>4, <2>0, <2>2
  <2>4. c = [win EXCEPT !.log[o] = [@ EXCEPT !.user = user, !.offset = 0, !.failed = FALSE]]
    <3>1. Logged(win.log) /\ o \in LogTabs /\ IsRecord(win, Parts)
      BY <1>7 DEF Whole, Base, Filters
    <3> QED
      BY <3>1 DEF Logged, IsRecord, Parts, LogFields
  <2>5. win' = AskAnew([win EXCEPT !.log[o] = [@ EXCEPT !.user = user, !.offset = 0,
                                                         !.failed = FALSE]], o)
    BY <1>7 DEF Filters
  <2> HIDE DEF c, P
  <2> QED
    BY <1>3, <2>3, <2>4, <2>5
<1>8. ASSUME NEW t, NEW i, Picks(t, i) PROVE P(win')
  <2> DEFINE d == [win.drawn EXCEPT !.picked = win.drawn.entries[i]]
  <2>1. win' = [win EXCEPT !.drawn = d]
    BY <1>8 DEF Picks
  <2>2. d.owner = win.drawn.owner
    OBVIOUS
  <2> HIDE DEF d
  <2> QED
    BY <1>1, <2>1, <2>2, ThenDrawn
<1>9. ASSUME NEW t, Reverts(t) PROVE P(win')
  <2> DEFINE o == win.drawn.owner
             found == FindSelected(win, o)
  <2>1. P(found)
    BY <1>1, <1>3
  <2>2. win' = IF found.log[o].chosen = None THEN Say(found) ELSE Offer(found, "revert", o)
    BY <1>9 DEF Reverts
  <2> HIDE DEF found
  <2>3. P(Offer(found, "revert", o))
    BY <1>1, <2>1, ThenOffer DEF Again
  <2> HIDE DEF P
  <2> QED
    BY <1>3, <2>1, <2>2, <2>3
<1>10. ASSUME PressYes PROVE P(win')
  <2> DEFINE o == win.offer.about
             found == FindSelected(Unbuttoned, o)
  <2>1. P(found)
    BY <1>1, <1>3
  <2>2. win' = IF found.log[o].chosen = None THEN Say(found) ELSE DoRevert(Say(found), o)
    BY <1>10 DEF PressYes
  <2> HIDE DEF found, P
  <2> QED
    BY <1>3, <2>1, <2>2
<1>11. ASSUME NEW t \in LogTabs, OpensRevision(t) PROVE P(win')
  <2> DEFINE o == win.drawn.owner
             found == FindSelected(win, o)
  <2>0. o \in LogTabs /\ win.log[o].file \in Files /\ IsOpen(win, "projects")
    BY <1>2, <1>11 DEF OpensRevision, InFront, Whole, Base
  <2>1. P(found) /\ found.log[o].file \in Files /\ IsOpen(found, "projects")
    <3>1. P(found) /\ (\A s \in LogTabs : found.log[s].file = win.log[s].file)
          /\ found.tabs = win.tabs
      <4>1. Page("logs", win, win) /\ "log" \in PartsOf("logs")
        BY <1>1
      <4> HIDE DEF o
      <4> QED
        BY <4>1, FindSelectedTouches
    <3> HIDE DEF found, o
    <3> QED
      BY <2>0, <3>1 DEF IsOpen
  <2>2. win' = IF found.log[o].chosen = None THEN Say(found)
               ELSE EditFile(found, found.log[o].file, found.log[o].chosen[2])
    BY <1>11 DEF OpensRevision
  <2> HIDE DEF found, o
  <2>3. P(EditFile(found, found.log[o].file, found.log[o].chosen[2]))
    BY <2>1, ThenEditFile
  <2> HIDE DEF P
  <2> QED
    BY <1>3, <2>1, <2>2, <2>3
<1>12. ASSUME NEW m \in Waiting({"log"}), GotLog(m) \/ FailLog(m) PROVE P(win')
  <2> DEFINE lost == Answered(m)
             t == m.tab
             a == [lost EXCEPT !.log = [lost.log EXCEPT ![t] = [lost.log[t] EXCEPT !.history = <<>>]]]
             b == [a EXCEPT !.log = [a.log EXCEPT ![t] = [a.log[t] EXCEPT !.failed = TRUE]]]
             c == [lost EXCEPT !.log[t].history = <<>>, !.log[t].failed = TRUE]
  <2>0. {"history", "failed"} \subseteq LogFields \ {"file"}
    BY DEF LogFields
  <2>1. P(lost)
    BY <1>1, PageAnswered DEF Waiting
  <2>2. P(ReceiveHistory(lost, m))
    <3> HIDE DEF lost
    <3> QED
      BY <2>1, ReceiveHistoryTouches
  <2>3. c = b
    OBVIOUS
  <2> HIDE DEF c, lost
  <2>4. P(a)
    BY <1>4, <2>0, <2>1
  <2> HIDE DEF a
  <2>5. P(b)
    BY <1>4, <2>0, <2>4
  <2> HIDE DEF b
  <2>6. P(Offer(b, "history", None)) /\ P(Offer(lost, "history", None))
    BY <1>1, <2>1, <2>5, ThenOffer DEF Again
  <2>7. ASSUME FailLog(m)
        PROVE  win' = Offer(b, "history", None) \/ win' = Offer(lost, "history", None)
    BY <2>3, <2>7 DEF FailLog, lost, c
  <2> QED
    BY <1>12, <2>2, <2>6, <2>7 DEF GotLog, lost
<1>13. ASSUME NEW m \in Waiting({"checkout"}), GotCheckout(m) PROVE P(win')
  <2> DEFINE n == [m EXCEPT !.kind = "revert", !.team = win.team]
  <2>1. P(Answered(m)) /\ Formed(m) /\ m.kind = "checkout"
    BY <1>1, PageAnswered DEF Waiting
  <2>2. n.kind = "revert"
    BY <2>1 DEF Formed, IsRecord
  <2>3. Formed(n)
    BY <2>2 DEF Formed, OpKinds
  <2>4. win' = Ask(Answered(m), n)
    BY <1>13 DEF GotCheckout
  <2> HIDE DEF n
  <2> QED
    BY <1>1, <2>1, <2>2, <2>3, <2>4, ThenAsk
<1>14. ASSUME NEW m \in Waiting({"revert"}), GotRevert(m) PROVE P(win')
  <2> DEFINE f == m.file
             v == [Answered(m).commits EXCEPT ![f] = Append(@, Me)]
             a == [Answered(m) EXCEPT !.commits = v]
             done == Say(a)
             again == IF m.nth = win.log[m.tab].nth THEN RetrieveHistory(done, m.tab, TRUE) ELSE done
  <2>1. P(Answered(m))
    BY <1>1, PageAnswered DEF Waiting
  <2>2. P(a)
    BY <2>1, ThenPart DEF PartsOf, Parts, BarParts, FreeParts
  <2>3. win' = LoadContents(again, f) \/ win' = again
    BY <1>14 DEF GotRevert
  <2> HIDE DEF a
  <2>4. P(done)
    BY <2>2, ThenSay
  <2> HIDE DEF done
  <2>5. P(again)
    BY <2>4, RetrieveTouches
  <2> HIDE DEF again
  <2>6. P(LoadContents(again, f))
    BY <2>5, PageWhole, LoadContentsTouches, ThenShell
  <2> QED
    BY <2>3, <2>5, <2>6
<1>15. ASSUME NEW m \in win.net, m.kind \in {"checkout", "revert"}, FailRevert(m)
       PROVE  P(win')
  <2>1. P(Answered(m))
    BY <1>1, <1>15, PageAnswered
  <2> QED
    BY <1>1, <1>15, <2>1, ThenOffer DEF FailRevert, Again
<1>16. ASSUME PressRevert \/ PressHistory PROVE P(win')
  BY <1>1, <1>3, <1>16 DEF PressRevert, PressHistory
<1> HIDE DEF P
<1>17. ASSUME NEW m \in Waiting({"checkout"}) \cup Waiting({"revert"}), FailRevert(m)
       PROVE  P(win')
  BY <1>15, <1>17 DEF Waiting
<1> QED
  BY <1>5, <1>6, <1>7, <1>8, <1>9, <1>10, <1>11, <1>12, <1>13, <1>14, <1>16, <1>17
     DEF LogSteps, P

(* The page of differences.                                                *)
LEMMA DiffTouches ==
  ASSUME Whole(win), Waiting({"diff"}) # {} => IsOpen(win, "projects"), DiffSteps
  PROVE  Page("diff", win', win)
<1> DEFINE P(r) == Page("diff", r, win)
<1>1. /\ P(win) /\ P(Unbuttoned) /\ P(Say(win)) /\ "diff" \in OffersOf("diff")
      /\ "diff" \in AsksOf("diff") /\ "log" \in PartsOf("diff") /\ "diff" \in PartsOf("diff")
      /\ "tabs" \notin PartsOf("diff") /\ "diff" \in TabsOf("diff") /\ "diff" \in Tabs
  BY PageNothing, ThenSay DEF AsksOf, OffersOf, Unbuttoned, PartsOf, TabsOf, Tabs, PageTabs
<1>2. \A r, v : P(r) => P([r EXCEPT !.diff = v])
  BY <1>1, ThenPart DEF Parts, BarParts, FreeParts
<1>3. ASSUME NEW r, P(r), NEW about PROVE P(Diff(r, about))
  <2> DEFINE v == [r.diff EXCEPT !.about = about, !.nth = r.diff.nth + 1,
                                 !.told = r.diff.told \cup {r.diff.nth + 1}]
             a == [r EXCEPT !.diff = v]
             m == [kind |-> "diff", about |-> about, nth |-> r.diff.nth + 1]
  <2>1. Formed(m) /\ m.kind = "diff"
    BY DEF Formed, OpKinds
  <2>2. P(a)
    BY <1>2, <1>3
  <2>3. Diff(r, about) = Ask(a, m)
    BY DEF Diff
  <2> HIDE DEF a, m
  <2> QED
    BY <1>1, <2>1, <2>2, <2>3, ThenAsk
<1>4. ASSUME NEW r, P(r), IsOpen(r, "projects") PROVE P(OpenDiff(r))
  <2>1. ASSUME IsOpen(r, "diff") PROVE P(SwitchTo(r, "diff"))
    BY <1>1, <1>4, <2>1, ThenSwitch
  <2>2. ASSUME ~IsOpen(r, "diff") PROVE P(SwitchTo(AddTab(r, "diff"), "diff"))
    <3>1. Addable(r, "diff") /\ CanFocus("diff")
      BY <1>1, <1>4, <2>2, Facts DEF Addable, CanFocus, LogTabs, PageTabs
    <3> QED
      BY <1>1, <1>4, <3>1, ThenOpenTab
  <2> QED
    BY <2>1, <2>2 DEF OpenDiff
<1>5. ASSUME NEW t, DiffsRevision(t) PROVE P(win')
  <2> DEFINE o == win.drawn.owner
             found == FindSelected(win, o)
  <2>1. P(found)
    BY <1>1, FindSelectedTouches
  <2>2. win' = IF found.log[o].chosen = None THEN Say(found)
               ELSE Diff(found, About(found.log[o].file, found.log[o].chosen[2], FALSE))
    BY <1>5 DEF DiffsRevision
  <2> HIDE DEF found, o
  <2>3. P(Say(found))
    BY <2>1, ThenSay
  <2> HIDE DEF P
  <2> QED
    BY <1>3, <2>1, <2>2, <2>3
<1>6. ASSUME NEW f, DiffsTab(f) PROVE P(win')
  BY <1>1, <1>3, <1>6 DEF DiffsTab
<1>7. ASSUME NEW m \in Waiting({"diff"}), GotDiff(m) \/ FailDiff(m) PROVE P(win')
  <2> DEFINE w == Answered(m)
             drawn == [w EXCEPT !.diff = [w.diff EXCEPT !.text = m.about]]
             told == [drawn EXCEPT !.diff = [drawn.diff EXCEPT !.summary = w.diff.about]]
  <2>1. P(w) /\ P(Offer(w, "diff", None))
    <3>1. P(w)
      BY <1>1, PageAnswered DEF Waiting
    <3> HIDE DEF w
    <3> QED
      BY <1>1, <3>1, ThenOffer DEF Again
  <2>2. P(drawn) /\ P(told)
    <3> HIDE DEF w
    <3>1. P(drawn)
      BY <1>2, <2>1
    <3> HIDE DEF drawn
    <3> QED
      BY <1>2, <3>1
  <2>3. RecieveDiff(w, m) = IF m.nth \in w.diff.told THEN OpenDiff(told) ELSE drawn
    BY DEF RecieveDiff
  <2> HIDE DEF told, drawn
  <2>4. P(OpenDiff(told))
    <3>1. IsOpen(told, "projects")
      BY <2>2, PageOpen
    <3> QED
      BY <1>4, <2>2, <3>1
  <2> QED
    BY <1>7, <2>1, <2>2, <2>3, <2>4 DEF GotDiff, FailDiff
<1> HIDE DEF P
<1>8. PressDiff => P(win')
  BY <1>1 DEF PressDiff
<1> QED
  BY <1>5, <1>6, <1>7, <1>8 DEF DiffSteps, P

(* The calendar. *)
LEMMA CalendarTouches ==
  ASSUME Whole(win), CalendarSteps PROVE Page("calendar", win', win)
<1> DEFINE P(r) == Page("calendar", r, win)
<1>1. P(win) /\ "dates" \in AsksOf("calendar")
  BY PageNothing DEF AsksOf
<1>2. \A r, v : P(r) => P([r EXCEPT !.cal = v])
  BY ThenPart DEF PartsOf, Parts, BarParts, FreeParts
<1>3. \A r : P(r) => P(DrawCal(r))
  <2> SUFFICES ASSUME NEW r, P(r) PROVE P(DrawCal(r))
    OBVIOUS
  <2> DEFINE c == [r.cal EXCEPT !.logs = {}, !.day = 1, !.marked = {}, !.offered = {},
                                !.failed = FALSE]
             a == [r EXCEPT !.cal = c]
             m == [kind |-> "dates", project |-> c.proj]
  <2>1. Formed(m) /\ m.kind = "dates"
    BY DEF Formed, OpKinds
  <2>2. P(a)
    BY <1>2
  <2>3. DrawCal(r) = IF c.proj = None THEN a ELSE Ask(a, m)
    BY DEF DrawCal
  <2> HIDE DEF a, m
  <2> QED
    BY <1>1, <2>1, <2>2, <2>3, ThenAsk
<1>4. \A r : P(r) => P(Say(r))
  BY ThenSay
<1>5. ASSUME NEW m \in Waiting({"dates"}), GotDates(m) \/ FailDates(m) PROVE P(win')
  <2> DEFINE w == Answered(m)
             a == [w EXCEPT !.cal = [w.cal EXCEPT !.logs = {}]]
             b == [w EXCEPT !.cal = [w.cal EXCEPT !.logs = Log(m.project)]]
             c == [b EXCEPT !.cal = [b.cal EXCEPT !.marked = w.cal.marked \cup
                      {Day(r) : r \in {s \in Log(m.project) : Month(s) = w.cal.month}}]]
             d == [w EXCEPT !.cal = [w.cal EXCEPT !.failed = TRUE]]
  <2>1. P(w)
    BY <1>1, PageAnswered DEF Waiting
  <2>2. GotDates(m) => win' = IF Log(m.project) = {} THEN a ELSE c
    BY DEF GotDates, ReceiveDates
  <2>3. FailDates(m) => win' = d
    BY DEF FailDates
  <2> HIDE DEF w
  <2>4. P(a) /\ P(b) /\ P(d)
    BY <1>2, <2>1
  <2> HIDE DEF b
  <2>5. P(c)
    BY <1>2, <2>4
  <2> QED
    BY <1>5, <2>2, <2>3, <2>4, <2>5
<1>6. \A v : P([win EXCEPT !.cal = v]) /\ P(Say([win EXCEPT !.cal = v]))
             /\ P(DrawCal([win EXCEPT !.cal = v])) /\ P(DrawCal(Say([win EXCEPT !.cal = v])))
  <2> HIDE DEF P
  <2> QED
    BY <1>1, <1>2, <1>3, <1>4
<1> HIDE DEF P
<1>7. ASSUME NEW p, ChoosesProject(p) PROVE P(win')
  BY <1>6, <1>7 DEF ChoosesProject, ChangeCalendar
<1>8. ASSUME NEW dir, ChangesMonth(dir) PROVE P(win')
  BY <1>6, <1>8, Zenon DEF ChangesMonth
<1>9. ASSUME NEW d, ChangesDay(d) PROVE P(win')
  BY <1>6, <1>9 DEF ChangesDay
<1>10. ASSUME NEW r, LoadsRevision(r) PROVE P(win')
  BY <1>6, <1>10 DEF LoadsRevision
<1>11. ASSUME LoadsHead PROVE P(win')
  BY <1>6, <1>11 DEF LoadsHead
<1> QED
  BY <1>5, <1>7, <1>8, <1>9, <1>10, <1>11 DEF CalendarSteps, P

(* The administrator's page. *)
LEMMA AdminTouches ==
  ASSUME Whole(win), AdminSteps PROVE Page("admin", win', win)
<1> DEFINE P(r) == Page("admin", r, win)
<1>1. /\ P(win) /\ AdminKinds \cup {"verdict"} \subseteq AsksOf("admin")
      /\ "admin" \in Tabs /\ "admin" \in TabsOf("admin")
  BY PageNothing DEF AsksOf, TabsOf, Tabs, PageTabs
<1>2. \A r, v : P(r) => P([r EXCEPT !.admin = v]) /\ P([r EXCEPT !.reviews = v])
  BY ThenPart DEF PartsOf, Parts, BarParts, FreeParts
<1>3. \A r : P(r) => P(Say(r))
  BY ThenSay
<1>4. ASSUME NEW r, P(r), NEW t PROVE P(GetItemsToReview(r, t))
  <2> DEFINE v == [r.admin EXCEPT !.team = t, !.rows = {}, !.nth = r.admin.nth + 1]
             a == [r EXCEPT !.admin = v]
             m == [kind |-> "items", team |-> t, nth |-> r.admin.nth + 1]
  <2>1. Formed(m) /\ m.kind = "items"
    BY DEF Formed, OpKinds
  <2>2. P(a)
    BY <1>2, <1>4
  <2>3. GetItemsToReview(r, t) = Ask(a, m)
    BY DEF GetItemsToReview
  <2> HIDE DEF a, m
  <2> QED
    BY <1>1, <2>1, <2>2, <2>3, ThenAsk DEF AdminKinds
<1>5. P(OpenAdmin(win))
  <2> DEFINE m == [kind |-> "teams"]
             a == Ask(win, m)
  <2>1. Formed(m) /\ m.kind = "teams"
    BY DEF Formed, OpKinds
  <2>2. Ask(AddTab(win, "admin"), m) = AddTab(a, "admin") /\ a.tabs = win.tabs
    BY DEF Whole, Base, IsRecord, Parts, Ask, AddTab
  <2>3. OpenAdmin(win) = SwitchTo(IF IsOpen(win, "admin") THEN win ELSE AddTab(a, "admin"), "admin")
    BY <2>2 DEF OpenAdmin
  <2> HIDE DEF m
  <2>4. P(a)
    BY <1>1, <2>1, ThenAsk DEF AdminKinds
  <2> HIDE DEF a
  <2>5. ASSUME IsOpen(win, "admin") PROVE P(SwitchTo(win, "admin"))
    BY <1>1, <2>5, ThenSwitch
  <2>6. ASSUME ~IsOpen(win, "admin") PROVE P(SwitchTo(AddTab(a, "admin"), "admin"))
    <3>1. Addable(a, "admin") /\ CanFocus("admin")
      BY <1>1, <2>2, <2>6, Facts DEF Addable, IsOpen, CanFocus, LogTabs, FarTabs, PageTabs
    <3> QED
      BY <1>1, <2>4, <3>1, ThenOpenTab
  <2> QED
    BY <2>3, <2>5, <2>6
<1>6. ASSUME NEW m \in win.net, m.kind \in AdminKinds \cup {"verdict"} PROVE P(Answered(m))
  BY <1>1, <1>6, PageAnswered
<1>7. ASSUME NEW m \in Waiting({"teams"}), GotTeams(m) PROVE P(win')
  <2> DEFINE w == Answered(m)
             c == [w EXCEPT !.admin = [w.admin EXCEPT !.team = None, !.rows = {}, !.teams = {}]]
             d == [c EXCEPT !.admin = [c.admin EXCEPT !.teams = ToReview(w)]]
             one == CHOOSE t \in ToReview(w) : TRUE
  <2>1. P(w)
    BY <1>6 DEF Waiting, AdminKinds
  <2>2. win' = IF Cardinality(ToReview(w)) = 1 THEN GetItemsToReview(c, one) ELSE Say(d)
    BY <1>7 DEF GotTeams, ReceiveTeams
  <2> HIDE DEF w
  <2>3. P(c)
    BY <1>2, <2>1
  <2> HIDE DEF c, one
  <2>4. P(d)
    BY <1>2, <2>3
  <2> HIDE DEF d, P
  <2> QED
    BY <1>3, <1>4, <2>2, <2>3, <2>4
<1>8. ASSUME NEW m \in Waiting({"items"}), GotItems(m) PROVE P(win')
  <2> DEFINE w == Answered(m)
             v == [w.admin EXCEPT !.rows = @ \cup Rows(m.team, w.reviews[m.team], m.nth)]
  <2>1. P(w)
    BY <1>6 DEF Waiting, AdminKinds
  <2>2. win' = [w EXCEPT !.admin = v]
    BY <1>8 DEF GotItems, ReceiveItems
  <2> HIDE DEF w, v
  <2> QED
    BY <1>2, <2>1, <2>2
<1>9. ASSUME NEW m \in Waiting({"verdict"}), GotVerdict(m) PROVE P(win')
  <2> DEFINE w == Answered(m)
             a == [w EXCEPT !.admin = [w.admin EXCEPT !.rows = @ \ {m.row}]]
             v == [a.reviews EXCEPT ![m.team] = @ \ {m.row.field}]
  <2>1. P(w)
    BY <1>6 DEF Waiting
  <2>2. win' = [a EXCEPT !.reviews = v]
    BY <1>9 DEF GotVerdict
  <2> HIDE DEF w
  <2>3. P(a)
    BY <1>2, <2>1
  <2> HIDE DEF a
  <2> QED
    BY <1>2, <2>2, <2>3
<1>10. ASSUME NEW m \in win.net, m.kind \in AdminKinds \cup {"verdict"}, FailAdmin(m)
       PROVE  P(win')
  BY <1>3, <1>6, <1>10 DEF FailAdmin
<1>11. ASSUME NEW row, Judges(row) PROVE P(win')
  <2> DEFINE m == [kind |-> "verdict", team |-> win.admin.team, row |-> row]
  <2>1. Formed(m) /\ m.kind = "verdict"
    BY DEF Formed, OpKinds
  <2>2. win' = Ask(win, m)
    BY <1>11 DEF Judges
  <2> HIDE DEF m
  <2> QED
    BY <1>1, <2>1, <2>2, ThenAsk
<1> HIDE DEF P
<1>12. ASSUME ShowsAdmin \/ \E t : ChoosesTeam(t) PROVE P(win')
  BY <1>1, <1>4, <1>5, <1>12 DEF ShowsAdmin, ChoosesTeam
<1>13. ASSUME NEW m \in Waiting({"teams"}) \cup Waiting({"items"}) \cup Waiting({"verdict"}), FailAdmin(m)
       PROVE  P(win')
  BY <1>10, <1>13 DEF Waiting, AdminKinds
<1> QED
  BY <1>7, <1>8, <1>9, <1>11, <1>12, <1>13 DEF AdminSteps, P

(* The team's page. *)
LEMMA StatusTouches ==
  ASSUME Whole(win), win.team # None => IsOpen(win, "projects"), StatusSteps
  PROVE  Page("status", win', win)
<1> DEFINE P(r) == Page("status", r, win)
<1>1. /\ P(win) /\ StatusKinds \subseteq AsksOf("status") /\ "review" \in Tabs
      /\ "review" \in TabsOf("status") /\ "tabs" \notin PartsOf("status")
  BY PageNothing DEF AsksOf, TabsOf, Tabs, PageTabs, PartsOf
<1>2. \A r, v : P(r) => P([r EXCEPT !.status = v]) /\ P([r EXCEPT !.texts = v])
  BY ThenPart DEF PartsOf, Parts, BarParts, FreeParts
<1>3. \A r, v1, v2 : P(r) => P([[r EXCEPT !.status = v1] EXCEPT !.status = v2])
  <2> HIDE DEF P
  <2> QED
    BY <1>2
<1>4. \A r, v1, v2, v3 : P(r) => P([[[r EXCEPT !.status = v1] EXCEPT !.status = v2]
                                       EXCEPT !.status = v3])
  <2> HIDE DEF P
  <2> QED
    BY <1>2, <1>3
<1>5. \A r : P(r) => P(Say(r))
  BY ThenSay
<1>6. ASSUME NEW r, P(r) PROVE P(GetStatus(r))
  <2> DEFINE m == [kind |-> "status", team |-> r.team]
  <2>1. Formed(m) /\ m.kind = "status"
    BY DEF Formed, OpKinds
  <2>2. GetStatus(r) = Ask(r, m)
    BY DEF GetStatus
  <2> HIDE DEF m
  <2> QED
    BY <1>1, <1>6, <2>1, <2>2, ThenAsk DEF StatusKinds
<1>7. P(OpenStatus(win))
  <2> DEFINE new == [win EXCEPT !.status.form = None, !.status.image = FALSE,
                                !.status.ro = win.team \in ReadOnly]
             added == AddTab(new, "review")
             asked == GetStatus(added)
  <2>1. P(new) /\ new.tabs = win.tabs
    <3>1. \E v1, v2, v3 : new = [[[win EXCEPT !.status = v1] EXCEPT !.status = v2]
                                    EXCEPT !.status = v3]
      OBVIOUS
    <3>2. new.tabs = win.tabs
      BY DEF Whole, Base, IsRecord, Parts
    <3> HIDE DEF new, P
    <3>3. PICK v1, v2, v3 : new = [[[win EXCEPT !.status = v1] EXCEPT !.status = v2]
                                     EXCEPT !.status = v3]
      BY <3>1
    <3>4. P([[[win EXCEPT !.status = v1] EXCEPT !.status = v2] EXCEPT !.status = v3])
      BY <1>1, <1>4
    <3> QED
      BY <3>2, <3>3, <3>4
  <2>2. ASSUME IsOpen(win, "review") PROVE P(SwitchTo(win, "review"))
    BY <1>1, <2>2, ThenSwitch
  <2>3. ASSUME ~IsOpen(win, "review"), win.team # None PROVE P(SwitchTo(asked, "review"))
    <3> HIDE DEF new
    <3>1. Addable(new, "review") /\ new.cur \in Tabs
      BY <1>1, <2>1, <2>3, PageWhole, SomeFront, Facts DEF Addable, IsOpen, LogTabs, PageTabs
    <3>2. P(added) /\ IsOpen(added, "review")
      BY <1>1, <2>1, <3>1, PageWhole, ThenAddTab, AddTabBase
    <3> HIDE DEF added
    <3>3. P(asked) /\ IsOpen(asked, "review")
      <4>1. P(asked)
        BY <1>6, <3>2
      <4>2. asked.tabs = added.tabs
        BY <3>2, PageWhole DEF Whole, Base, IsRecord, Parts, GetStatus, Ask
      <4> QED
        BY <3>2, <4>1, <4>2 DEF IsOpen
    <3> HIDE DEF asked
    <3> QED
      BY <1>1, <3>3, ThenSwitch
  <2>4. OpenStatus(win) = IF IsOpen(win, "review") THEN SwitchTo(win, "review")
                          ELSE IF win.team = None THEN Say(win)
                          ELSE SwitchTo(asked, "review")
    BY DEF OpenStatus
  <2> HIDE DEF asked, P
  <2> QED
    BY <1>1, <1>5, <2>2, <2>3, <2>4
<1>8. P(SaveStatus(win))
  <2> DEFINE form == win.status.form
             fresh == [win EXCEPT !.status.error = FALSE, !.status.nth = @ + 1]
             m == [kind |-> "text", team |-> win.team, text |-> form, nth |-> fresh.status.nth]
             i == [kind |-> "image", team |-> win.team, nth |-> fresh.status.nth]
             put == IF form # None /\ form[2] = 1 THEN Say(fresh) ELSE Ask(fresh, m)
  <2>1. Formed(m) /\ m.kind = "text" /\ Formed(i) /\ i.kind = "image"
    BY DEF Formed, OpKinds
  <2>2. \E v1, v2 : fresh = [[win EXCEPT !.status = v1] EXCEPT !.status = v2]
    OBVIOUS
  <2>3. SaveStatus(win) = IF win.status.image THEN Ask(put, i) ELSE put
    BY DEF SaveStatus
  <2> HIDE DEF fresh, m, i
  <2> HIDE DEF P
  <2>a. PICK v1, v2 : fresh = [[win EXCEPT !.status = v1] EXCEPT !.status = v2]
    BY <2>2
  <2>4. P(fresh)
    <3>1. P([[win EXCEPT !.status = v1] EXCEPT !.status = v2])
      BY <1>1, <1>3
    <3> QED
      BY <2>a, <3>1
  <2> USE DEF P
  <2>5. P(Say(fresh)) /\ P(Ask(fresh, m))
    BY <1>1, <2>1, <2>4, ThenSay, ThenAsk DEF StatusKinds
  <2>6. P(put)
    BY <2>5
  <2> HIDE DEF put
  <2>7. P(Ask(put, i))
    BY <1>1, <2>1, <2>6, ThenAsk DEF StatusKinds
  <2> QED
    BY <2>3, <2>6, <2>7
<1>9. ASSUME NEW m \in win.net, m.kind \in StatusKinds PROVE P(Answered(m))
  BY <1>1, <1>9, PageAnswered
<1>10. ASSUME NEW m \in Waiting({"status"}), GotStatus(m) \/ FailStatus(m) PROVE P(win')
  <2> DEFINE w == Answered(m)
             a == [w EXCEPT !.status.form = win.texts[m.team], !.status.image = FALSE]
             b == [w EXCEPT !.status.form = None, !.status.image = FALSE, !.status.failed = TRUE]
  <2>1. P(w)
    BY <1>9 DEF Waiting, StatusKinds
  <2>2. win' = a \/ win' = Say(b)
    BY <1>10 DEF GotStatus, FailStatus
  <2> HIDE DEF w
  <2>3. /\ \E v1, v2 : a = [[w EXCEPT !.status = v1] EXCEPT !.status = v2]
        /\ \E v1, v2, v3 : b = [[[w EXCEPT !.status = v1] EXCEPT !.status = v2]
                                   EXCEPT !.status = v3]
    OBVIOUS
  <2> HIDE DEF a, b, P
  <2>4. PICK v1, v2 : a = [[w EXCEPT !.status = v1] EXCEPT !.status = v2]
    BY <2>3
  <2>5. PICK u1, u2, u3 : b = [[[w EXCEPT !.status = u1] EXCEPT !.status = u2]
                                  EXCEPT !.status = u3]
    BY <2>3
  <2>6. P([[w EXCEPT !.status = v1] EXCEPT !.status = v2])
    BY <1>3, <2>1
  <2>7. P([[[w EXCEPT !.status = u1] EXCEPT !.status = u2] EXCEPT !.status = u3])
    BY <1>4, <2>1
  <2>8. P(a) /\ P(Say(b))
    BY <1>5, <2>4, <2>5, <2>6, <2>7
  <2> QED
    BY <2>2, <2>8
<1>11. ASSUME NEW m \in Waiting({"text"}), GotText(m) PROVE P(win')
  <2> DEFINE w == Answered(m)
             v == [w.texts EXCEPT ![m.team] = IF m.text = None THEN @ ELSE m.text]
             a == [w EXCEPT !.texts = v]
             stored == Say(a)
             b == [stored EXCEPT !.status = [stored.status EXCEPT !.failed = TRUE]]
  <2>1. P(w)
    BY <1>9 DEF Waiting, StatusKinds
  <2>2. win' = IF win.status.error THEN b ELSE GetStatus(stored)
    BY <1>11 DEF GotText
  <2> HIDE DEF w, v
  <2>3. P(a)
    BY <1>2, <2>1
  <2> HIDE DEF a
  <2>4. P(stored)
    BY <1>5, <2>3
  <2> HIDE DEF stored
  <2>5. P(b)
    BY <1>2, <2>4
  <2> HIDE DEF P, b
  <2> QED
    BY <1>6, <2>2, <2>4, <2>5
<1>12. ASSUME NEW m \in Waiting({"image"}), GotImage(m) PROVE P(win')
  <2> DEFINE w == Answered(m)
             a == [w EXCEPT !.status = [w.status EXCEPT !.image = FALSE]]
  <2>1. P(w)
    BY <1>9 DEF Waiting, StatusKinds
  <2>2. win' = IF win.status.error THEN w ELSE Say(a)
    BY <1>12 DEF GotImage
  <2> HIDE DEF w
  <2>3. P(a)
    BY <1>2, <2>1
  <2> HIDE DEF a, P
  <2> QED
    BY <1>5, <2>1, <2>2, <2>3
<1>13. ASSUME NEW m \in Waiting({"text"}) \cup Waiting({"image"}), FailSave(m) PROVE P(win')
  <2> DEFINE w == Answered(m)
             a == [w EXCEPT !.status.error = TRUE, !.status.failed = TRUE]
  <2>1. P(w)
    BY <1>9 DEF Waiting, StatusKinds
  <2>2. win' = Say(a)
    BY <1>13 DEF FailSave
  <2> HIDE DEF w
  <2>3. \E v1, v2 : a = [[w EXCEPT !.status = v1] EXCEPT !.status = v2]
    OBVIOUS
  <2> HIDE DEF a, P
  <2> QED
    BY <1>3, <1>5, <2>1, <2>2, <2>3
<1>14. ASSUME ChoosesImage \/ \E n \in 1 .. 2 : TypesStatus(n) PROVE P(win')
  <2>1. \A v : P([win EXCEPT !.status = v])
    BY <1>1, <1>2
  <2> QED
    BY <1>14, <2>1 DEF ChoosesImage, TypesStatus
<1> HIDE DEF P
<1>15. ASSUME ShowsStatus \/ SavesStatus PROVE P(win')
  BY <1>7, <1>8, <1>15 DEF ShowsStatus, SavesStatus
<1> QED
  BY <1>10, <1>11, <1>12, <1>13, <1>14, <1>15 DEF StatusSteps, P

-----------------------------------------------------------------------------
(* A selection of a selection. *)

Grows(c, u) == u \in Seq(c.of)
TakeEach(c, i, u) == IF c.s[i] \in c.xs THEN Append(u, c.s[i]) ELSE u
Taking == INSTANCE FoldInduction WITH Step <- TakeEach, Pick <- Max, Keeps <- Grows

LEMMA OnlyIs ==
  ASSUME NEW T, NEW s \in Seq(T), NEW xs
  PROVE  Only(s, xs) \in Seq(T)
<1> DEFINE c == [of |-> T, s |-> s, xs |-> xs]
           S == DOMAIN s
           Body(it) == [v \in SUBSET S |->
                          IF v = {} THEN <<>>
                          ELSE IF s[Max(v)] \in xs THEN Append(it[v \ {Max(v)}], s[Max(v)])
                          ELSE it[v \ {Max(v)}]]
           all == Only(s, xs)
<1>1. S = 1 .. Len(s) /\ Len(s) \in Nat /\ \A i \in S : s[i] \in T
  OBVIOUS
<1>2. IsFiniteSet(S) /\ \A v \in SUBSET S : v # {} => Max(v) \in v
  <2> DEFINE n == Len(s)
  <2>1. n \in Nat
    BY <1>1
  <2> HIDE DEF n
  <2>2. \A v \in SUBSET (1 .. n) : v # {} => Max(v) \in v
    BY <2>1, LastIsIn
  <2>3. IsFiniteSet(1 .. n)
    BY <2>1, FS_Interval
  <2> HIDE DEF S
  <2> QED
    BY <1>1, <2>2, <2>3 DEF n
<1>3. Grows(c, <<>>)
  BY DEF Grows
<1>4. \A i \in S : \A u : Grows(c, u) => Grows(c, TakeEach(c, i, u))
  BY <1>1 DEF Grows, TakeEach
<1>5. \A i \in S : \A u : TakeEach(c, i, u) = IF s[i] \in xs THEN Append(u, s[i]) ELSE u
  BY DEF TakeEach
<1>6. \A u : Grows(c, u) => u \in Seq(T)
  BY DEF Grows
<1> HIDE DEF c, S
<1>7. /\ \E it : Taking!Iterates(it, c, <<>>, S)
      /\ \A it : Taking!Iterates(it, c, <<>>, S) => Grows(c, it[S])
  BY <1>2, <1>3, <1>4, Taking!Iteration DEF Taking!IsFiniteSet, IsFiniteSet
<1>8. \A it : Taking!Iterates(it, c, <<>>, S) <=> it = Body(it)
  <2>1. \A v \in SUBSET S : v # {} => Max(v) \in v
    BY <1>2
  <2>2. \A it : \A v \in SUBSET S :
          (IF v = {} THEN <<>> ELSE TakeEach(c, Max(v), it[v \ {Max(v)}]))
          = (IF v = {} THEN <<>>
             ELSE IF s[Max(v)] \in xs THEN Append(it[v \ {Max(v)}], s[Max(v)])
             ELSE it[v \ {Max(v)}])
    BY <1>5, <2>1, Zenon
  <2> QED
    BY <2>2, Zenon DEF Taking!Iterates
<1> HIDE DEF Body
<1>9. (CHOOSE it : it = Body(it)) = Body(CHOOSE it : it = Body(it))
  BY <1>7, <1>8, Zenon
<1>10. all = (CHOOSE it : it = Body(it))[S]
  BY Zenon DEF Only, FoldLeft, MapThenFoldSet, Body, S
<1> QED
  BY <1>6, <1>7, <1>8, <1>9, <1>10

-----------------------------------------------------------------------------
(* The operations on files, and their dialog. *)

DialogFields == {"open", "nth", "type", "op", "proj", "listed", "tree", "dir", "list", "asked",
                 "olds", "owner", "label", "chosen"}

(* A dialog with a tree is about an operation that wants a place, and the  *)
(* dialogs before it are finitely many.                                    *)
Tidy(d) ==
    /\ IsRecord(d, DialogFields) /\ d.dir \in Dirs
    /\ d.open /\ d.type \in TreeTypes => d.op \in {"mkdir", "mv", "cp"}
    /\ IsFiniteSet(d.olds)

(* What is selected, and what a project has, are files of directories.     *)
OpFields == {"proj", "sel", "last"}
Stored(r) == /\ IsRecord(r.ops, OpFields) /\ r.ops.sel \in Seq(Paths)
             /\ r.disk \in [Teams -> [Projects -> SUBSET Paths]]

Kept(r, w) == Page("files", r, w) /\ Tidy(r.dlg) /\ Stored(r)

AskEach(c, o, u) == GetFileTree(u, o.nth, o.team, c.project)
KeepsFiles(c, u) == Kept(u, c.from)
Asking == INSTANCE FoldInduction WITH Step <- AskEach, Pick <- AnyOf, Keeps <- KeepsFiles

CloseOne(c, f, u) == CloseFile(u, f, FALSE)
ClosingOne == INSTANCE FoldInduction WITH Step <- CloseOne, Pick <- AnyOf, Keeps <- Holds

LEMMA TidyField ==
  ASSUME NEW d, Tidy(d), NEW n \in DialogFields \ {"open", "type", "op", "olds"}, NEW v,
         n = "dir" => v \in Dirs
  PROVE  /\ Tidy([d EXCEPT ![n] = v])
         /\ \A x \in DialogFields \ {n} : [d EXCEPT ![n] = v][x] = d[x]
<1> DEFINE e == [d EXCEPT ![n] = v]
<1>1. IsRecord(e, DialogFields) /\ \A x \in DialogFields \ {n} : e[x] = d[x]
  BY DEF Tidy, IsRecord
<1>2. e.type = d.type /\ e.op = d.op /\ e.olds = d.olds /\ e.open = d.open
  BY <1>1 DEF DialogFields
<1>4. e.dir \in Dirs
  <2>1. e[n] = v /\ d.dir \in Dirs
    BY DEF Tidy, IsRecord
  <2>2. n # "dir" => e.dir = d.dir
    BY <1>1 DEF DialogFields
  <2> HIDE DEF e
  <2> QED
    BY <2>1, <2>2
<1> HIDE DEF e
<1>3. Tidy(e)
  BY <1>1, <1>2, <1>4 DEF Tidy
<1> QED
  BY <1>1, <1>3 DEF e

LEMMA TidyOlds ==
  ASSUME NEW d, Tidy(d), NEW v, IsFiniteSet(v)
  PROVE  Tidy([d EXCEPT !.olds = v])
<1> DEFINE e == [d EXCEPT !.olds = v]
<1>1. /\ IsRecord(e, DialogFields) /\ e.type = d.type /\ e.op = d.op /\ e.olds = v
      /\ e.open = d.open /\ e.dir = d.dir
  BY DEF Tidy, IsRecord, DialogFields
<1> HIDE DEF e
<1>2. Tidy(e)
  BY <1>1 DEF Tidy
<1> QED
  BY <1>2 DEF e

LEMMA KeptDialog ==
  ASSUME NEW u, NEW w, Kept(u, w), NEW v, Tidy(v)
  PROVE  Kept([u EXCEPT !.dlg = v], w)
<1> DEFINE r == [u EXCEPT !.dlg = v]
<1>1. Page("files", r, w)
  BY ThenPart DEF Kept, Parts, BarParts, FreeParts, PartsOf
<1>2. r.dlg = v /\ r.ops = u.ops /\ r.disk = u.disk
  BY PageWhole DEF Kept, Whole, Base, IsRecord, Parts
<1> HIDE DEF r
<1>3. Kept(r, w)
  BY <1>1, <1>2 DEF Kept, Stored
<1> QED
  BY <1>3 DEF r

LEMMA KeptOps ==
  ASSUME NEW u, NEW w, Kept(u, w), NEW v, IsRecord(v, OpFields), v.sel \in Seq(Paths)
  PROVE  Kept([u EXCEPT !.ops = v], w)
<1> DEFINE r == [u EXCEPT !.ops = v]
<1>1. Page("files", r, w)
  BY ThenPart DEF Kept, Parts, BarParts, FreeParts, PartsOf
<1>2. r.dlg = u.dlg /\ r.disk = u.disk /\ r.ops = v
  BY PageWhole DEF Kept, Whole, Base, IsRecord, Parts
<1> HIDE DEF r
<1>3. Kept(r, w)
  BY <1>1, <1>2 DEF Kept, Stored
<1> QED
  BY <1>3 DEF r

LEMMA KeptDisk ==
  ASSUME NEW u, NEW w, Kept(u, w), NEW v \in [Teams -> [Projects -> SUBSET Paths]]
  PROVE  Kept([u EXCEPT !.disk = v], w)
<1> DEFINE r == [u EXCEPT !.disk = v]
<1>1. Page("files", r, w)
  BY ThenPart DEF Kept, Parts, BarParts, FreeParts, PartsOf
<1>2. r.dlg = u.dlg /\ r.disk = v /\ r.ops = u.ops
  BY PageWhole DEF Kept, Whole, Base, IsRecord, Parts
<1> HIDE DEF r
<1>3. Kept(r, w)
  BY <1>1, <1>2 DEF Kept, Stored
<1> QED
  BY <1>3 DEF r

LEMMA KeptSay == ASSUME NEW u, NEW w, Kept(u, w) PROVE Kept(Say(u), w)
<1>1. Page("files", Say(u), w)
  BY ThenSay DEF Kept
<1>2. Say(u).dlg = u.dlg /\ Say(u).ops = u.ops /\ Say(u).disk = u.disk
  BY PageWhole DEF Kept, Whole, Base, IsRecord, Parts, Say
<1> QED
  BY <1>1, <1>2 DEF Kept, Stored

LEMMA KeptAsk ==
  ASSUME NEW u, NEW w, Kept(u, w), NEW m, Formed(m), m.kind \in OpKinds \cup DialogKinds
  PROVE  Kept(Ask(u, m), w)
<1>1. Page("files", Ask(u, m), w)
  BY ThenAsk DEF Kept, AsksOf
<1>2. Ask(u, m).dlg = u.dlg /\ Ask(u, m).ops = u.ops
      /\ Ask(u, m).disk = u.disk
  BY PageWhole DEF Kept, Whole, Base, IsRecord, Parts, Ask
<1> QED
  BY <1>1, <1>2 DEF Kept, Stored

LEMMA KeptOffer ==
  ASSUME NEW u, NEW w, Kept(u, w), NEW kind \in {"delete", "again", "plist"}, NEW about,
         kind = "again" => about.kind \in OpKinds /\ Formed(about)
  PROVE  Kept(Offer(u, kind, about), w)
<1>1. Again([kind |-> kind, about |-> about])
  BY DEF Again
<1>2. Page("files", Offer(u, kind, about), w)
  BY <1>1, ThenOffer DEF Kept, OffersOf
<1>3. Offer(u, kind, about).dlg = u.dlg /\ Offer(u, kind, about).ops = u.ops
      /\ Offer(u, kind, about).disk = u.disk
  BY PageWhole DEF Kept, Whole, Base, IsRecord, Parts, Offer
<1> QED
  BY <1>2, <1>3 DEF Kept, Stored

(* The dialog's trees. *)
LEMMA RootSelectedKept ==
  ASSUME NEW u, NEW w, Kept(u, w) PROVE Kept(RootSelected(u), w)
<1> DEFINE a == [u.dlg EXCEPT !.dir = Top]
           b == [a EXCEPT !.label = Top]
           c == [b EXCEPT !.list = NamesIn(u.dlg.tree, Top)]
<1>1. Tidy(a)
  BY TidyField, DialogAssumption DEF Kept, DialogFields
<1>2. RootSelected(u) = [u EXCEPT !.dlg = c]
  BY DEF RootSelected
<1> HIDE DEF a
<1>3. Tidy(b)
  BY <1>1, TidyField DEF DialogFields
<1> HIDE DEF b
<1>4. Tidy(c)
  BY <1>3, TidyField DEF DialogFields
<1> HIDE DEF c
<1> QED
  BY <1>2, <1>4, KeptDialog

LEMMA ReceiveTreeKept ==
  ASSUME NEW u, NEW w, Kept(u, w), NEW n, NEW tree PROVE Kept(ReceiveTree(u, n, tree), w)
<1> DEFINE v == IF n = u.dlg.nth THEN tree ELSE u.dlg.tree
           a == [u.dlg EXCEPT !.tree = v]
           b == [a EXCEPT !.owner = n]
           r == [u EXCEPT !.dlg = b]
<1>1. ReceiveTree(u, n, tree) = IF ~u.dlg.open THEN u ELSE RootSelected(r)
  BY DEF ReceiveTree
<1> HIDE DEF v
<1>2. Tidy(a)
  BY TidyField DEF Kept, DialogFields
<1> HIDE DEF a
<1>3. Tidy(b)
  BY <1>2, TidyField DEF DialogFields
<1> HIDE DEF b
<1>4. Kept(r, w)
  BY <1>3, KeptDialog
<1> HIDE DEF r
<1> QED
  BY <1>1, <1>4, RootSelectedKept

LEMMA GetFileTreeKept ==
  ASSUME NEW u, NEW w, Kept(u, w), NEW n, NEW t, NEW p
  PROVE  Kept(GetFileTree(u, n, t, p), w)
<1> DEFINE m == [kind |-> "tree", nth |-> n, team |-> t, project |-> p]
           r == ReceiveTree(u, n, Fake)
<1>1. Formed(m) /\ m.kind \in OpKinds \cup DialogKinds
  BY DEF Formed, OpKinds, DialogKinds
<1>2. Kept(r, w)
  BY ReceiveTreeKept
<1>3. GetFileTree(u, n, t, p) = Ask(r, m)
  BY DEF GetFileTree
<1> HIDE DEF m, r
<1> QED
  BY <1>1, <1>2, <1>3, KeptAsk

AskAll(v, S, p) == FoldSet(LAMBDA o, u : GetFileTree(u, o.nth, o.team, p), v, S)

LEMMA AsksKept ==
  ASSUME NEW w, NEW u, Kept(u, w), NEW p, NEW S, IsFiniteSet(S)
  PROVE  Kept(AskAll(u, S, p), w)
<1> DEFINE c == [from |-> w, project |-> p]
           Body(it) == [s \in SUBSET S |->
                          IF s = {} THEN u
                          ELSE GetFileTree(it[s \ {AnyOf(s)}], AnyOf(s).nth, AnyOf(s).team, p)]
           all == AskAll(u, S, p)
<1>1. \A s \in SUBSET S : s # {} => AnyOf(s) \in s
  BY AnyIsIn
<1>2. \A o, v : AskEach(c, o, v) = GetFileTree(v, o.nth, o.team, p)
  BY DEF AskEach
<1>3. KeepsFiles(c, u)
  BY DEF KeepsFiles
<1>4. \A o \in S : \A v : KeepsFiles(c, v) => KeepsFiles(c, AskEach(c, o, v))
  BY <1>2, GetFileTreeKept DEF KeepsFiles
<1> HIDE DEF c
<1>5. /\ \E it : Asking!Iterates(it, c, u, S)
      /\ \A it : Asking!Iterates(it, c, u, S) => KeepsFiles(c, it[S])
  BY <1>1, <1>3, <1>4, Asking!Iteration DEF Asking!IsFiniteSet, IsFiniteSet
<1>6. \A it : Asking!Iterates(it, c, u, S) <=> it = Body(it)
  BY <1>2 DEF Asking!Iterates
<1> HIDE DEF Body
<1>7. (CHOOSE it : it = Body(it)) = Body(CHOOSE it : it = Body(it))
  BY <1>5, <1>6, Zenon
<1>8. all = (CHOOSE it : it = Body(it))[S]
  BY Zenon DEF AskAll, FoldSet, MapThenFoldSet, Body, AnyOf
<1> HIDE DEF all
<1>9. Kept(all, w)
  BY <1>5, <1>6, <1>7, <1>8 DEF KeepsFiles, c
<1> QED
  BY <1>9 DEF all

LEMMA OldsChangedKept ==
  ASSUME NEW u, NEW w, Kept(u, w), NEW p PROVE Kept(OldsChanged(u, p), w)
<1> DEFINE moved == {o \in u.dlg.olds : o.proj # p /\ p \in Listed([u EXCEPT !.team = o.team])}
           asked == AskAll(u, moved, p)
           again == {[o EXCEPT !.proj = p] : o \in moved}
           d == [asked.dlg EXCEPT !.olds = (asked.dlg.olds \ moved) \cup again]
           r == [asked EXCEPT !.dlg = d]
<1>1. IsFiniteSet(moved)
  BY FS_Subset DEF Kept, Tidy
<1>2. Kept(asked, w)
  BY <1>1, AsksKept
<1>3. IsFiniteSet(again)
  <2> HIDE DEF moved
  <2> QED
    <3> DEFINE f == [o \in moved |-> [o EXCEPT !.proj = p]]
    <3>1. f \in Surjection(moved, again)
      BY DEF Surjection
    <3> QED
      BY <1>1, <3>1, FS_Surjection DEF ExistsSurjection
<1>4. OldsChanged(u, p) = r
  BY Zenon DEF OldsChanged, AskAll
<1> HIDE DEF moved, asked, again
<1>5. IsFiniteSet((asked.dlg.olds \ moved) \cup again)
  BY <1>2, <1>3, FS_Difference, FS_Union, FS_Subset DEF Kept, Tidy
<1>6. Tidy(d)
  BY <1>2, <1>5, TidyOlds DEF Kept
<1> HIDE DEF d
<1>7. Kept(r, w)
  BY <1>2, <1>6, KeptDialog
<1> QED
  BY <1>4, <1>7

LEMMA SelectProjectKept ==
  ASSUME NEW u, NEW w, Kept(u, w), NEW p PROVE Kept(SelectProject(u, p), w)
<1> DEFINE a == OldsChanged(u, p)
           d == [a.dlg EXCEPT !.proj = p]
           b == [a EXCEPT !.dlg = d]
           o == [b.ops EXCEPT !.last = p]
           c == [b EXCEPT !.ops = o]
<1>1. Kept(a, w)
  BY OldsChangedKept
<1>2. SelectProject(u, p) = GetFileTree(c, u.dlg.nth, u.team, p)
  <2>1. c = [OldsChanged(u, p) EXCEPT !.dlg.proj = p, !.ops.last = p]
    OBVIOUS
  <2> HIDE DEF c
  <2> QED
    BY <2>1 DEF SelectProject
<1> HIDE DEF a
<1>3. Tidy(d)
  BY <1>1, TidyField DEF Kept, DialogFields
<1> HIDE DEF d
<1>4. Kept(b, w)
  BY <1>1, <1>3, KeptDialog
<1> HIDE DEF b
<1>6. IsRecord(o, OpFields) /\ o.sel = b.ops.sel
  BY <1>4 DEF Kept, Stored, IsRecord, OpFields
<1> HIDE DEF o
<1>5. Kept(c, w)
  BY <1>4, <1>6, KeptOps DEF Kept, Stored
<1> HIDE DEF c
<1> QED
  BY <1>2, <1>5, GetFileTreeKept

LEMMA TidyNew ==
  ASSUME NEW n, NEW type, NEW op, type \in TreeTypes => op \in {"mkdir", "mv", "cp"},
         NEW olds, IsFiniteSet(olds), NEW chosen, NEW open
  PROVE  Tidy([NoDialog EXCEPT !.open = open, !.nth = n, !.type = type, !.op = op,
                               !.olds = olds, !.chosen = chosen])
<1> DEFINE d == [NoDialog EXCEPT !.open = open, !.nth = n, !.type = type, !.op = op,
                                 !.olds = olds, !.chosen = chosen]
<1>1. /\ IsRecord(d, DialogFields) /\ d.type = type /\ d.op = op /\ d.olds = olds
      /\ d.dir \in Dirs
  BY DialogAssumption DEF NoDialog, IsRecord, DialogFields
<1> HIDE DEF d
<1>2. Tidy(d)
  BY <1>1 DEF Tidy
<1> QED
  BY <1>2 DEF d

LEMMA OpenDialogKept ==
  ASSUME NEW u, NEW w, Kept(u, w), NEW type, NEW op,
         type \in TreeTypes => op \in {"mkdir", "mv", "cp"}
  PROVE  Kept(OpenDialog(u, type, op), w)
<1> DEFINE d == u.dlg
           old == IF d.listed # None
                  THEN {[nth |-> d.nth, team |-> d.listed, proj |-> d.proj]} ELSE {}
           new == [NoDialog EXCEPT !.open = TRUE, !.nth = d.nth + 1, !.type = type, !.op = op,
                                   !.olds = d.olds \cup old, !.chosen = u.ops.sel]
           m == [kind |-> "plist", nth |-> d.nth + 1, team |-> u.team]
           r == [u EXCEPT !.dlg = new]
<1>1. IsFiniteSet(old) /\ IsFiniteSet(d.olds)
  BY FS_Singleton, FS_EmptySet DEF Kept, Tidy
<1>2. OpenDialog(u, type, op) = IF type \in TreeTypes THEN Ask(r, m) ELSE r
  BY DEF OpenDialog
<1> HIDE DEF old
<1>3. IsFiniteSet(d.olds \cup old)
  BY <1>1, FS_Union
<1>4. Tidy(new)
  BY <1>3, TidyNew
<1> HIDE DEF new
<1>5. Kept(r, w)
  BY <1>4, KeptDialog
<1>6. Formed(m) /\ m.kind \in OpKinds \cup DialogKinds
  BY DEF Formed, OpKinds, DialogKinds
<1> HIDE DEF m, r
<1> QED
  BY <1>2, <1>5, <1>6, KeptAsk

LEMMA HideKept == ASSUME NEW u, NEW w, Kept(u, w) PROVE Kept(Hide(u), w)
<1> DEFINE d == [NoDialog EXCEPT !.nth = u.dlg.nth, !.listed = u.dlg.listed,
                                 !.proj = u.dlg.proj, !.olds = u.dlg.olds]
<1>1. IsRecord(d, DialogFields) /\ ~d.open /\ d.olds = u.dlg.olds /\ d.dir \in Dirs
  BY DialogAssumption DEF NoDialog, IsRecord, DialogFields
<1>3. Hide(u) = [u EXCEPT !.dlg = d]
  BY DEF Hide
<1> HIDE DEF d
<1>4. Tidy(d)
  BY <1>1 DEF Kept, Tidy
<1> QED
  BY <1>3, <1>4, KeptDialog

(* The operations. *)
LEMMA OpFormed ==
  ASSUME NEW u, NEW op \in Ops, NEW srcs \in SUBSET Paths, NEW p, NEW place, NEW seen,
         op \in Placing => place \in Paths
  PROVE  /\ Formed(Op(u, op, srcs, p, place, seen))
         /\ Op(u, op, srcs, p, place, seen).kind \in OpKinds \cup DialogKinds
BY DEF Formed, Op, OpKinds, IsRecord

LEMMA PerformKept ==
  ASSUME NEW u, NEW w, Kept(u, w), NEW op \in Ops \cup {"new"}, NEW p, NEW place, NEW seen,
         op \in Placing => place \in Paths
  PROVE  Kept(Perform(u, op, p, place, seen), w)
<1> DEFINE m == [kind |-> "project", team |-> u.team, project |-> p]
           s == u.ops.sel
<1>1. Formed(m) /\ m.kind \in OpKinds \cup DialogKinds
  BY DEF Formed, OpKinds, IsRecord
<1>2. Kept(Ask(u, m), w) /\ Kept(Say(u), w)
  BY <1>1, KeptAsk, KeptSay
<1>3. ToSet(s) \in SUBSET Paths /\ (s # <<>> => {s[1]} \in SUBSET Paths) /\ {} \in SUBSET Paths
  BY DEF Kept, Stored, ToSet
<1> HIDE DEF m
<1>4. ASSUME NEW v, Kept(v, w), NEW o \in Ops, NEW srcs \in SUBSET Paths,
             o \in Placing => place \in Paths, NEW q, NEW a, a = place \/ o \notin Placing
      PROVE  Kept(Ask(v, Op(v, o, srcs, q, a, seen)), w)
  <2>1. /\ Formed(Op(v, o, srcs, q, a, seen))
        /\ Op(v, o, srcs, q, a, seen).kind \in OpKinds \cup DialogKinds
    BY <1>4, OpFormed
  <2> QED
    BY <1>4, <2>1, KeptAsk
<1>5. CASE op = "mv"
  <2>1. Op(Say(u), op, {s[1]}, u.ops.proj, place, seen) = Op(u, "mv", {s[1]}, u.ops.proj, place, seen)
    BY <1>5, PageWhole DEF Op, Say, Kept, Whole, Base, IsRecord, Parts
  <2>2. s # <<>> => Kept(Ask(Say(u), Op(u, "mv", {s[1]}, u.ops.proj, place, seen)), w)
    BY <1>2, <1>3, <1>4, <1>5, <2>1 DEF Ops, Placing
  <2> QED
    BY <1>2, <1>5, <2>2 DEF Perform, Move
<1>6. CASE op = "cp"
  <2>1. s # <<>> => Kept(Ask(u, Op(u, "cp", {s[1]}, u.ops.proj, place, seen)), w)
    BY <1>3, <1>4, <1>6 DEF Ops, Placing
  <2> QED
    BY <1>6, <2>1 DEF Perform, Copy
<1>7. CASE op = "mkdir"
  <2>1. Kept(Ask(u, Op(u, "mkdir", {}, p, place, seen)), w)
    BY <1>3, <1>4, <1>7 DEF Ops, Placing
  <2> QED
    BY <1>2, <1>7, <2>1 DEF Perform, NewFolder
<1>8. CASE op = "new"
  <2>1. Perform(u, op, p, place, seen) = Ask(u, m)
    BY <1>8 DEF Perform, m
  <2> QED
    BY <1>2, <2>1
<1>9. ASSUME NEW o \in {"del", "co"} PROVE Kept(Ask(u, Op(u, o, ToSet(s), u.ops.proj, None, seen)), w)
  BY <1>3, <1>4 DEF Ops, Placing
<1>10. CASE op \in {"del", "co"}
  BY <1>2, <1>9, <1>10 DEF Perform, RemoveFiles, Undelete
<1> QED
  BY <1>5, <1>6, <1>7, <1>8, <1>10 DEF Ops

LEMMA ServeKept ==
  ASSUME NEW u, NEW w, Kept(u, w), NEW m, Formed(m), m.kind = "files"
  PROVE  Kept(Serve(u, m), w)
<1> DEFINE c == Changed(m, u.disk[m.team][m.project])
           v == [u.disk EXCEPT ![m.team] = [@ EXCEPT ![m.project] = c]]
<1>1. Serve(u, m) = [u EXCEPT !.disk = v]
  BY DEF Serve
<1>2. u.disk \in [Teams -> [Projects -> SUBSET Paths]]
  BY DEF Kept, Stored
<1>3. ASSUME m.team \in Teams, m.project \in Projects PROVE c \in SUBSET Paths
  <2>1. /\ m.op \in Ops /\ m.srcs \in SUBSET Paths /\ (m.op \in Placing => m.place \in Paths)
        /\ u.disk[m.team][m.project] \in SUBSET Paths
    BY <1>2, <1>3 DEF Formed
  <2> QED
    BY <2>1 DEF Changed, Ops, Placing
<1> HIDE DEF c
<1>4. v \in [Teams -> [Projects -> SUBSET Paths]]
  BY <1>2, <1>3
<1> HIDE DEF v
<1> QED
  BY <1>1, <1>4, KeptDisk

LEMMA CommitKept ==
  ASSUME NEW u, NEW w, Kept(u, w), NEW m, Formed(m), m.kind = "files"
  PROVE  Kept(Commit(u, m), w)
<1> DEFINE c == [m EXCEPT !.kind = "commit", !.team = u.team,
                          !.project = IF m.op \in {"del", "cp"} THEN u.ops.proj ELSE @]
<1>1. /\ IsRecord(m, {"kind", "op", "team", "project", "srcs", "place", "seen"}) /\ m.op \in Ops
      /\ m.srcs \in SUBSET Paths /\ (m.op \in Placing => m.place \in Paths)
  BY DEF Formed
<1>2. /\ IsRecord(c, {"kind", "op", "team", "project", "srcs", "place", "seen"})
      /\ c.op = m.op /\ c.kind = "commit" /\ c.srcs = m.srcs /\ c.place = m.place
  BY <1>1 DEF IsRecord
<1>3. Commit(u, m) = Ask(u, c)
  BY DEF Commit
<1> HIDE DEF c
<1>4. Formed(c) /\ c.kind \in OpKinds \cup DialogKinds
  BY <1>1, <1>2 DEF Formed, OpKinds
<1> QED
  BY <1>3, <1>4, KeptAsk

LEMMA RefreshKept == ASSUME NEW u, NEW w, Kept(u, w) PROVE Kept(Refresh(u), w)
<1> DEFINE l == Only(u.ops.sel, u.disk[u.team][u.ops.proj])
           v == [u.ops EXCEPT !.sel = l]
<1>1. Refresh(u) = IF u.ops.proj = None THEN u ELSE [u EXCEPT !.ops = v]
  BY DEF Refresh
<1>2. l \in Seq(Paths)
  BY OnlyIs DEF Kept, Stored
<1> HIDE DEF l
<1>3. IsRecord(v, OpFields) /\ v.sel = l
  BY DEF Kept, Stored, IsRecord, OpFields
<1> HIDE DEF v
<1>4. Kept([u EXCEPT !.ops = v], w)
  BY <1>2, <1>3, KeptOps
<1> QED
  BY <1>1, <1>4

(* A file that moves is closed first, or asked about.                      *)
LEMMA ClosedForMove ==
  ASSUME Whole(win), NEW S \in SUBSET OpenFiles(win)
  PROVE  Closed0(FoldSet(LAMBDA f, w : CloseFile(w, f, FALSE), win, S), win)
<1> DEFINE dirty == Modified(win)
           c == [from |-> win, xs |-> ClosingParts, ts |-> Files, ks |-> ShellKinds,
                 os |-> ShellOffers, keep |-> dirty]
           Body(it) == [s \in SUBSET S |-> IF s = {} THEN win
                                           ELSE CloseFile(it[s \ {AnyOf(s)}], AnyOf(s), FALSE)]
           all == FoldSet(LAMBDA f, w : CloseFile(w, f, FALSE), win, S)
<1>0. /\ dirty \subseteq Files /\ \A f \in dirty : IsOpen(win, f)
      /\ \A f \in S : f \in Files /\ (f \notin dirty => ~win.edit[f].dirty)
      /\ \A f \in dirty : win.edit[f].dirty
  BY DEF Modified, OpenFiles
<1>1. \A s \in SUBSET S : s # {} => AnyOf(s) \in s
  BY AnyIsIn
<1>2. \A f, v : CloseOne(c, f, v) = CloseFile(v, f, FALSE)
  BY DEF CloseOne
<1>3. Holds(c, win)
  BY <1>0, TouchesNothing DEF Holds
<1>10. \A u : Holds(c, u) <=> /\ Touches(u, win, ClosingParts, Files, ShellKinds, ShellOffers)
                              /\ \A t \in dirty : IsOpen(u, t)
  BY DEF Holds
<1> HIDE DEF dirty
<1>11. ASSUME NEW f \in S, NEW u, Touches(u, win, ClosingParts, Files, ShellKinds, ShellOffers),
              \A t \in dirty : IsOpen(u, t)
       PROVE  /\ Touches(CloseFile(u, f, FALSE), win, ClosingParts, Files, ShellKinds, ShellOffers)
              /\ \A t \in dirty : IsOpen(CloseFile(u, f, FALSE), t)
  <2> DEFINE r == CloseFile(u, f, FALSE)
  <2>1. u.edit = win.edit /\ Whole(u) /\ f \in Files
    BY <1>0, <1>11 DEF Touches, Frames, ClosingParts, FocusParts, Parts
  <2>2. ASSUME f \notin dirty
        PROVE  /\ Touches(r, u, ClosingParts, Files, ShellKinds, ShellOffers)
               /\ \A t : IsOpen(r, t) <=> IsOpen(u, t) /\ t # f
    <3>1. "revisions" \in ShellKinds /\ "none" \in ShellOffers
          /\ ClosingParts \subseteq ClosingParts /\ (FALSE \/ ~u.edit[f].dirty)
      BY <1>0, <2>1, <2>2 DEF ShellKinds, ShellOffers
    <3> QED
      BY <2>1, <3>1, FileClosed, Zenon
  <2>3. ASSUME f \in dirty
        PROVE  /\ Touches(r, u, ClosingParts, Files, ShellKinds, ShellOffers)
               /\ \A t \in Tabs : IsOpen(u, t) => IsOpen(r, t)
    <3> DEFINE s == SwitchTo(u, f)
    <3>1. /\ "revisions" \in ShellKinds /\ FocusParts \subseteq FocusParts /\ f \in Tabs
          /\ IsOpen(u, f) \/ ~CanFocus(f)
      BY <1>11, <2>1, <2>3, Facts DEF ShellKinds
    <3>2. Touches(s, u, FocusParts, Files, ShellKinds, ShellOffers)
      BY <2>1, <3>1, SwitchTouches
    <3>3. r = Offer(s, "close", f)
      BY <1>0, <2>1, <2>3 DEF CloseFile
    <3> HIDE DEF s, r
    <3>4. /\ Again([kind |-> "close", about |-> f]) /\ Whole(s) /\ "close" \in ShellOffers
          /\ "close" = "view errors" => IsOpen(s, "errors")
      BY <2>1, <3>2 DEF Again, Touches, ShellOffers
    <3>5. Touches(Offer(s, "close", f), s, FocusParts, Files, ShellKinds, ShellOffers)
      BY <3>4, OfferTouches
    <3>6. Touches(r, u, FocusParts, Files, ShellKinds, ShellOffers)
      BY <3>2, <3>3, <3>5, TouchesAlong
    <3>7. \A t \in Tabs : IsOpen(u, t) => IsOpen(r, t)
      BY <3>6 DEF Touches, Frames, FocusParts
    <3>8. FocusParts \subseteq ClosingParts
      BY DEF ClosingParts
    <3> QED
      BY <3>6, <3>7, <3>8, TouchesMore
  <2> HIDE DEF r
  <2>4. \A t \in dirty : IsOpen(r, t)
    BY <1>0, <1>11, <2>2, <2>3, Facts
  <2>5. Touches(r, win, ClosingParts, Files, ShellKinds, ShellOffers)
    BY <1>11, <2>2, <2>3, TouchesAlong
  <2> QED
    BY <2>4, <2>5 DEF r
<1>4. \A f \in S : \A v : Holds(c, v) => Holds(c, CloseOne(c, f, v))
  <2> SUFFICES ASSUME NEW f \in S, NEW v, Holds(c, v) PROVE Holds(c, CloseOne(c, f, v))
    OBVIOUS
  <2> HIDE DEF c
  <2>1. /\ Touches(CloseFile(v, f, FALSE), win, ClosingParts, Files, ShellKinds, ShellOffers)
        /\ \A t \in dirty : IsOpen(CloseFile(v, f, FALSE), t)
    BY <1>10, <1>11
  <2> QED
    BY <1>2, <1>10, <2>1
<1> HIDE DEF c
<1>12. IsFiniteSet(S)
  BY FS_Subset, FilesAssumption DEF OpenFiles
<1>5. /\ \E it : ClosingOne!Iterates(it, c, win, S)
      /\ \A it : ClosingOne!Iterates(it, c, win, S) => Holds(c, it[S])
  BY <1>1, <1>3, <1>4, <1>12, ClosingOne!Iteration DEF ClosingOne!IsFiniteSet, IsFiniteSet
<1>6. \A it : ClosingOne!Iterates(it, c, win, S) <=> it = Body(it)
  BY <1>2 DEF ClosingOne!Iterates
<1> HIDE DEF Body
<1>7. (CHOOSE it : it = Body(it)) = Body(CHOOSE it : it = Body(it))
  BY <1>5, <1>6, Zenon
<1>8. all = (CHOOSE it : it = Body(it))[S]
  BY Zenon DEF FoldSet, MapThenFoldSet, Body, AnyOf
<1> HIDE DEF all
<1>9. Touches(all, win, ClosingParts, Files, ShellKinds, ShellOffers)
  BY <1>5, <1>6, <1>7, <1>8, <1>10
<1>13. ClosingParts \subseteq ShellParts \cup {"tabs"}
  BY DEF ClosingParts, FocusParts, ShellParts
<1>14. Closed0(all, win)
  BY <1>9, <1>13, TouchesMore DEF Closed0
<1> QED
  BY <1>14 DEF all

LEMMA ClicksMoveKept ==
  ASSUME Whole(win), Tidy(win.dlg), Stored(win), ClicksMove PROVE Kept(win', win)
<1> DEFINE opened == {f \in OpenFiles(win) : /\ Len(win.ops.sel) = 1
                                             /\ PlaceOf[f] = win.ops.sel[1]
                                             /\ ProjectOf[f] = win.ops.proj}
           closed == FoldSet(LAMBDA f, w : CloseFile(w, f, FALSE), win, opened)
<1>1. Kept(win, win)
  BY PageNothing DEF Kept
<1>2. Closed0(closed, win)
  BY ClosedForMove
<1>3. win' = Say(win) \/ win' = closed \/ win' = OpenDialog(closed, "isFile", "mv")
  BY Zenon DEF ClicksMove
<1> HIDE DEF closed
<1>4. Page("files", closed, win)
  BY <1>2, PageCloses DEF PartsOf
<1>5. closed.dlg = win.dlg /\ closed.ops = win.ops /\ closed.disk = win.disk
  BY <1>2 DEF Closed0, Touches, Frames, ShellParts, Parts
<1>6. Kept(closed, win)
  BY <1>4, <1>5 DEF Kept, Stored
<1> QED
  BY <1>1, <1>3, <1>6, KeptSay, OpenDialogKept

LEMMA ProjectFilesTouch ==
  ASSUME Whole(win), Tidy(win.dlg), Stored(win), \A m \in win.net : Formed(m),
         Again(win.offer), FilesSteps
  PROVE  Kept(win', win)
<1> DEFINE P(r) == Kept(r, win)
<1>1. P(win) /\ P(Unbuttoned)
  BY PageNothing, KeptSay DEF Kept, Unbuttoned
<1>2. P(Say(win))
  BY <1>1, KeptSay
<1>3. ASSUME NEW m \in win.net, m.kind \in OpKinds \cup DialogKinds PROVE P(Answered(m))
  <2>1. Page("files", Answered(m), win)
    BY <1>3, PageAnswered DEF AsksOf
  <2>2. /\ Answered(m).dlg = win.dlg /\ Answered(m).ops = win.ops
        /\ Answered(m).disk = win.disk
    BY DEF Whole, Base, IsRecord, Parts, Answered
  <2> QED
    BY <2>1, <2>2 DEF Kept, Stored
<1>4. ASSUME NEW p \in Projects, ShowsProject(p) \/ ChoosesIn(p) \/ SavesProject(p)
      PROVE  P(win')
  <2>1. CASE ShowsProject(p)
    <3> DEFINE v == [proj |-> p, sel |-> <<>>, last |-> p]
    <3>1. win' = Say([win EXCEPT !.ops = v])
      BY <2>1 DEF ShowsProject
    <3>3. IsRecord(v, OpFields) /\ v.sel \in Seq(Paths)
      BY DEF IsRecord, OpFields
    <3> HIDE DEF v
    <3>2. P([win EXCEPT !.ops = v])
      BY <1>1, <3>3, KeptOps
    <3> QED
      BY <3>1, <3>2, KeptSay
  <2>2. CASE ChoosesIn(p)
    BY <1>2, <2>2, SelectProjectKept DEF ChoosesIn
  <2>3. CASE SavesProject(p)
    <3>1. P(Perform(win, "new", p, None, None))
      BY <1>1, PerformKept DEF Placing
    <3> QED
      BY <2>3, <3>1, HideKept DEF SavesProject
  <2> QED
    BY <1>4, <2>1, <2>2, <2>3
<1>5. ASSUME NEW x \in Dirs \X Names, Selects(x) PROVE P(win')
  <2> DEFINE s == win.ops.sel
             l == Only(s, ToSet(s) \ {x})
             a == [win.ops EXCEPT !.sel = l]
             b == [win.ops EXCEPT !.sel = Append(s, x)]
  <2>3. s \in Seq(Paths) /\ x \in Paths
    BY DEF Stored, Paths
  <2>4. Append(s, x) \in Seq(Paths)
    BY <2>3
  <2>5. l \in Seq(Paths)
    BY <2>3, OnlyIs
  <2>1. win' = [win EXCEPT !.ops = a] \/ win' = [win EXCEPT !.ops = b]
    BY <1>5 DEF Selects
  <2> HIDE DEF l
  <2>6. IsRecord(a, OpFields) /\ a.sel = l /\ IsRecord(b, OpFields) /\ b.sel = Append(s, x)
    BY DEF Stored, IsRecord, OpFields
  <2> HIDE DEF s, a, b
  <2>2. P([win EXCEPT !.ops = a]) /\ P([win EXCEPT !.ops = b])
    BY <1>1, <2>4, <2>5, <2>6, KeptOps
  <2> QED
    BY <2>1, <2>2
<1>6. ASSUME ClicksNewFolder \/ ClicksNewProject \/ ClicksCopy PROVE P(win')
  <2>1. /\ P(OpenDialog(win, "isDir", "mkdir")) /\ P(OpenDialog(win, "isFile", "cp"))
        /\ P(OpenDialog(win, "isProj", "new"))
    BY <1>1, OpenDialogKept DEF TreeTypes
  <2> QED
    BY <1>2, <1>6, <2>1 DEF ClicksNewFolder, ClicksNewProject, ClicksCopy
<1>7. ASSUME ClicksMove PROVE P(win')
  BY <1>7, ClicksMoveKept
<1>8. ASSUME ClicksDelete PROVE P(win')
  <2>1. P(Offer(win, "delete", win.ops.sel))
    BY <1>1, KeptOffer
  <2> QED
    BY <1>2, <1>8, <2>1 DEF ClicksDelete
<1>9. \A u, seen : P(u) => P(RemoveFiles(u, seen)) /\ P(Undelete(u, seen))
  <2>1. \A u, seen : /\ Perform(u, "del", None, None, seen) = RemoveFiles(u, seen)
                     /\ Perform(u, "co", None, None, seen) = Undelete(u, seen)
    BY DEF Perform
  <2>2. \A u, seen : P(u) => /\ P(Perform(u, "del", None, None, seen))
                             /\ P(Perform(u, "co", None, None, seen))
    BY PerformKept DEF Ops, Placing
  <2> HIDE DEF P
  <2> QED
    BY <2>1, <2>2
<1>10. ASSUME PressDelete \/ ClicksUndelete PROVE P(win')
  BY <1>1, <1>9, <1>10 DEF PressDelete, ClicksUndelete
<1>11. ASSUME PressAgain PROVE P(win')
  <2> DEFINE m == win.offer.about
             n == [m EXCEPT !.team = win.team]
             seen == [m.seen EXCEPT !.again = TRUE]
  <2>1. m.kind \in OpKinds /\ Formed(m)
    BY <1>11 DEF PressAgain, Pressed, Again
  <2>2. win' = IF m.kind = "project" THEN Ask(Unbuttoned, n)
               ELSE Perform(Unbuttoned, m.op, m.project, m.place, seen)
    BY <1>11 DEF PressAgain
  <2>3. ASSUME m.kind = "project" PROVE Formed(n) /\ n.kind = "project"
    <3>1. IsRecord(m, {"kind", "team", "project"})
      BY <2>1, <2>3 DEF Formed
    <3>2. IsRecord(n, {"kind", "team", "project"}) /\ n.kind = "project"
      BY <2>3, <3>1 DEF IsRecord
    <3> HIDE DEF n
    <3> QED
      BY <3>2 DEF Formed
  <2>4. ASSUME m.kind # "project" PROVE m.op \in Ops /\ (m.op \in Placing => m.place \in Paths)
    BY <2>1, <2>4 DEF Formed, OpKinds
  <2> HIDE DEF m, n, seen
  <2>5. m.kind = "project" => P(Ask(Unbuttoned, n))
    BY <1>1, <2>3, KeptAsk DEF OpKinds
  <2>6. m.kind # "project" => P(Perform(Unbuttoned, m.op, m.project, m.place, seen))
    BY <1>1, <2>4, PerformKept
  <2> QED
    BY <2>2, <2>5, <2>6
<1>12. ASSUME NEW d \in Dirs, ChoosesDir(d) PROVE P(win')
  <2> DEFINE a == [win.dlg EXCEPT !.label = d]
             b == [a EXCEPT !.dir = d]
             c == [b EXCEPT !.list = NamesIn(win.dlg.tree, d)]
  <2>1. Tidy(a)
    BY TidyField DEF DialogFields
  <2>2. win' = [win EXCEPT !.dlg = a] \/ win' = [win EXCEPT !.dlg = c]
    <3>1. c = [win.dlg EXCEPT !.dir = d, !.label = d, !.list = NamesIn(win.dlg.tree, d)]
      BY DEF Tidy, IsRecord, DialogFields
    <3>2. [win EXCEPT !.dlg.label = d] = [win EXCEPT !.dlg = a]
      OBVIOUS
    <3> HIDE DEF a, c
    <3> QED
      BY <1>12, <3>1, <3>2 DEF ChoosesDir
  <2> HIDE DEF a
  <2>3. Tidy(b)
    BY <2>1, TidyField DEF DialogFields
  <2> HIDE DEF b
  <2>4. Tidy(c)
    BY <2>3, TidyField DEF DialogFields
  <2> HIDE DEF c
  <2>5. P([win EXCEPT !.dlg = a]) /\ P([win EXCEPT !.dlg = c])
    BY <1>1, <2>1, <2>4, KeptDialog
  <2> QED
    BY <2>2, <2>5
<1>13. ASSUME NEW n \in Names, NEW told, Saves(n, told) PROVE P(win')
  <2> DEFINE d == win.dlg
             seen == Seen(d.chosen, d.proj, d.label, FALSE)
             a == [d EXCEPT !.asked = FALSE]
             b == [d EXCEPT !.asked = TRUE]
             done == Perform(win, d.op, d.proj, <<d.dir, n>>, seen)
  <2>1. /\ win' \in {[win EXCEPT !.dlg = a], [win EXCEPT !.dlg = b], Hide(done)}
        /\ win.dlg.open /\ win.dlg.type \in TreeTypes
    BY <1>13 DEF Saves, InDialog
  <2>2. d.op \in {"mkdir", "mv", "cp"} /\ Tidy(a) /\ Tidy(b)
    BY <2>1, TidyField DEF Tidy, DialogFields
  <2>5. <<d.dir, n>> \in Paths
    BY DEF Tidy, Paths
  <2>3. P(done)
    <3> HIDE DEF d, seen
    <3> QED
      BY <1>1, <2>2, <2>5, PerformKept DEF Ops
  <2> HIDE DEF a, b, done
  <2>4. P([win EXCEPT !.dlg = a]) /\ P([win EXCEPT !.dlg = b]) /\ P(Hide(done))
    BY <1>1, <2>2, <2>3, KeptDialog, HideKept
  <2> QED
    BY <2>1, <2>4
<1>14. ASSUME Cancels \/ PressProjects PROVE P(win')
  BY <1>1, <1>2, <1>14, HideKept DEF Cancels, PressProjects
<1>15. ASSUME NEW m \in Waiting({"plist"}), GotProjects(m) PROVE P(win')
  <2> DEFINE p == DefaultProject(win, m.team)
             old == [nth |-> m.nth, team |-> m.team, proj |-> p]
             w == Answered(m)
             a == [w.dlg EXCEPT !.listed = m.team]
             b == [a EXCEPT !.proj = p]
             e == [w.dlg EXCEPT !.olds = w.dlg.olds \cup {old}]
             known == IF m.nth = win.dlg.nth THEN [w EXCEPT !.dlg = b] ELSE [w EXCEPT !.dlg = e]
  <2>1. P(w)
    BY <1>3 DEF Waiting, DialogKinds
  <2>2. win' = IF p = None THEN Say(known) ELSE GetFileTree(known, m.nth, m.team, p)
    <3>1. /\ [w EXCEPT !.dlg = b] = [w EXCEPT !.dlg = [@ EXCEPT !.listed = m.team, !.proj = p]]
          /\ [w EXCEPT !.dlg = e] = [w EXCEPT !.dlg.olds = @ \cup {old}]
      OBVIOUS
    <3> HIDE DEF b, e, w, old, p
    <3> QED
      BY <1>15, <3>1 DEF GotProjects, w, old, p
  <2> HIDE DEF w, old, p
  <2>3. Tidy(a) /\ Tidy(e)
    <3>1. IsFiniteSet(w.dlg.olds \cup {old})
      BY <2>1, FS_Union, FS_Singleton DEF Kept, Tidy
    <3> QED
      BY <2>1, <3>1, TidyField, TidyOlds DEF Kept, DialogFields
  <2> HIDE DEF a, e
  <2>4. Tidy(b)
    BY <2>3, TidyField DEF DialogFields
  <2> HIDE DEF b
  <2>5. P(known)
    BY <2>1, <2>3, <2>4, KeptDialog
  <2> HIDE DEF known
  <2> QED
    BY <2>2, <2>5, KeptSay, GetFileTreeKept
<1>16. ASSUME NEW m \in Waiting({"plist"}), FailProjects(m) PROVE P(win')
  <2>1. P(Answered(m))
    BY <1>3 DEF Waiting, DialogKinds
  <2>2. P(Offer(Answered(m), "plist", None))
    BY <2>1, KeptOffer
  <2> QED
    BY <1>16, <2>2 DEF FailProjects
<1>17. ASSUME NEW m \in Waiting({"tree"}), GotTree(m) \/ FailTree(m) PROVE P(win')
  <2>1. P(Answered(m))
    BY <1>3 DEF Waiting, DialogKinds
  <2> QED
    BY <1>17, <2>1, ReceiveTreeKept, RootSelectedKept DEF GotTree, FailTree
<1>18. ASSUME NEW m \in Waiting(OpKinds) PROVE P(Answered(m)) /\ Formed(m)
  BY <1>3 DEF Waiting
<1>19. ASSUME NEW m \in Waiting({"files"}), GotFiles(m) PROVE P(win')
  <2>1. P(Answered(m)) /\ Formed(m) /\ m.kind = "files"
    BY <1>18 DEF Waiting, OpKinds
  <2>2. P(Serve(Answered(m), m))
    BY <2>1, ServeKept
  <2> QED
    BY <1>19, <2>1, <2>2, CommitKept DEF GotFiles
<1>20. ASSUME NEW m \in Waiting(OpKinds), NEW done, FailOp(m, done) PROVE P(win')
  <2>1. P(Answered(m)) /\ Formed(m) /\ m.kind \in OpKinds
    BY <1>18 DEF Waiting
  <2>2. m.kind = "files" => P(Serve(Answered(m), m))
    BY <2>1, ServeKept
  <2>3. /\ P(Offer(Answered(m), "again", m))
        /\ m.kind = "files" => P(Offer(Serve(Answered(m), m), "again", m))
    BY <2>1, <2>2, KeptOffer
  <2> QED
    BY <1>20, <2>3 DEF FailOp
<1>21. ASSUME NEW m \in Waiting(OpKinds), GotCommit(m) \/ GotProject(m) PROVE P(win')
  <2>1. P(Answered(m))
    BY <1>18
  <2> QED
    BY <1>21, <2>1, RefreshKept, KeptSay DEF GotCommit, GotProject
<1>22. /\ \A m \in Waiting({"files"}) : m \in Waiting(OpKinds)
       /\ \A m \in Waiting({"commit"}) : m \in Waiting(OpKinds)
       /\ \A m \in Waiting({"project"}) : m \in Waiting(OpKinds)
  BY DEF Waiting, OpKinds
<1> HIDE DEF P
<1> QED
  BY <1>4, <1>5, <1>6, <1>7, <1>8, <1>10, <1>11, <1>12, <1>13, <1>14, <1>15, <1>16, <1>17,
     <1>19,
     <1>20, <1>21, <1>22 DEF FilesSteps, P

-----------------------------------------------------------------------------
(* The pane of the edited files, and the tab bar. *)

LEMMA EditTouch == ASSUME Whole(win), EditSteps PROVE Page("edit", win', win)
<1>1. Page("edit", win, win)
  BY PageNothing
<1>2. ASSUME NEW f, NEW rev, ChangesRevision(f, rev) PROVE Page("edit", win', win)
  <2>1. Shell0(OpenRevision(win, f, rev), win)
    BY OpenRevisionTouches
  <2> QED
    BY <1>1, <1>2, <2>1, ThenShell DEF ChangesRevision
<1>3. ASSUME NEW m \in Waiting({"revisions"}), GotRevisions(m) \/ FailRevisions(m)
      PROVE  Page("edit", win', win)
  <2> DEFINE w == Answered(m)
             v == [w.pane EXCEPT !.history = m.file]
             r == [w EXCEPT !.pane = v]
  <2>1. Page("edit", w, win)
    BY PageAnswered DEF Waiting, ShellKinds
  <2>2. win' = Say(w) \/ win' = r
    BY <1>3 DEF GotRevisions, FailRevisions, ReceiveRevisions
  <2> HIDE DEF w, v
  <2>3. Page("edit", r, win)
    BY <2>1, ThenPart DEF ShellParts, Parts, BarParts, FreeParts
  <2> HIDE DEF r
  <2> QED
    BY <2>1, <2>2, <2>3, ThenSay
<1> QED
  BY <1>2, <1>3 DEF EditSteps

(* The pages whose tabs can be closed. *)
Closers(x) == {"search", "diff", "tabs", "shut"} \subseteq PartsOf(x)
ErrorsCloser(x) == {"errors", "shut all"} \subseteq PartsOf(x)

LEMMA ClosersShut ==
  ASSUME NEW x
  PROVE  /\ Closers(x) => \A t \in Tabs : t # "errors" => Shutting(x, t)
         /\ ErrorsCloser(x) => Shutting(x, "errors")
BY DEF Closers, ErrorsCloser, Shutting, Shuts

LEMMA ClosePageIs ==
  ASSUME NEW u
  PROVE  /\ ClosePage(u, "search") = CloseSearch(u) /\ ClosePage(u, "errors") = CloseErrors(u)
         /\ ClosePage(u, "settings") = CloseSettings(u) /\ ClosePage(u, "review") = CloseStatus(u)
         /\ ClosePage(u, "admin") = CloseAdmin(u) /\ ClosePage(u, "diff") = CloseDiff(u)
         /\ \A t \in LogTabs : ClosePage(u, t) = RemoveTab(u, t)
         /\ \A t \in Files : ClosePage(u, t) = CloseFile(u, t, FALSE)
<1>1. \A t \in PageTabs : t \notin Files
  BY Facts
<1>2. {"search", "errors", "settings", "review", "admin", "diff", "log 1", "log 2"} \cap Files = {}
  BY <1>1 DEF PageTabs, LogTabs
<1>3. \A t \in LogTabs : ClosePage(u, t) = RemoveTab(u, t)
  BY <1>2 DEF ClosePage, LogTabs
<1>4. \A t \in Files : ClosePage(u, t) = CloseFile(u, t, FALSE)
  BY <1>2 DEF ClosePage, LogTabs
<1>5. /\ ClosePage(u, "search") = CloseSearch(u) /\ ClosePage(u, "errors") = CloseErrors(u)
      /\ ClosePage(u, "settings") = CloseSettings(u)
  BY <1>2 DEF ClosePage, LogTabs
<1>6. /\ ClosePage(u, "review") = CloseStatus(u)
      /\ ClosePage(u, "admin") = CloseAdmin(u) /\ ClosePage(u, "diff") = CloseDiff(u)
  BY <1>2 DEF ClosePage, LogTabs
<1> QED
  BY <1>3, <1>4, <1>5, <1>6

LEMMA ClosePageOn ==
  ASSUME NEW x, "tabs" \in PartsOf(x), NEW w, NEW u, Page(x, u, w),
         NEW t \in Tabs, IsOpen(u, t), CanClose(t),
         t \notin Files => Shutting(x, t),
         t \in {"search", "errors", "diff"} => t \in PartsOf(x)
  PROVE  Page(x, ClosePage(u, t), w)
<1>1. t \in PageTabs \/ t \in Files
  BY DEF Tabs, CanClose
<1>2. t \in PageTabs => Shutting(x, t)
  BY Facts
<1>3. CASE t = "search"
  <2>1. Shutting(x, "search") /\ {"search", "tabs"} \subseteq PartsOf(x)
    BY <1>2, <1>3 DEF PageTabs
  <2> QED
    BY <1>3, <2>1, CloseSearchTouches, ClosePageIs
<1>4. CASE t = "errors"
  <2>1. Shutting(x, "errors") /\ {"errors", "tabs"} \subseteq PartsOf(x)
    BY <1>2, <1>4 DEF PageTabs
  <2> QED
    BY <1>4, <2>1, CloseErrorsTouches, ClosePageIs
<1>5. CASE t = "settings"
  <2>1. Page(x, RemoveTab(Blur(u, "settings"), "settings"), w)
    BY <1>2, <1>5, ThenClose DEF PageTabs, LogTabs
  <2> QED
    BY <1>5, <2>1, ClosePageIs DEF CloseSettings
<1>6. CASE t = "review"
  <2>1. Page(x, RemoveTab(Blur(u, "review"), "review"), w)
    BY <1>2, <1>6, ThenClose DEF PageTabs, LogTabs
  <2> QED
    BY <1>6, <2>1, ClosePageIs DEF CloseStatus
<1>7. CASE t = "admin"
  <2>1. Page(x, RemoveTab(Blur(u, "admin"), "admin"), w)
    BY <1>2, <1>7, ThenClose DEF PageTabs, LogTabs
  <2> QED
    BY <1>7, <2>1, ClosePageIs DEF CloseAdmin
<1>8. CASE t = "diff"
  <2> DEFINE v == [u.diff EXCEPT !.told = {}]
             r == [u EXCEPT !.diff = v]
  <2>1. ClosePage(u, t) = RemoveTab(Blur(r, "diff"), "diff")
    BY <1>8, ClosePageIs DEF CloseDiff
  <2> HIDE DEF v
  <2>2. Page(x, r, w)
    BY <1>8, ThenPart DEF Parts, BarParts, FreeParts
  <2> HIDE DEF r
  <2>3. Page(x, RemoveTab(Blur(r, "diff"), "diff"), w)
    BY <1>2, <1>8, <2>2, ThenClose DEF PageTabs, LogTabs
  <2> QED
    BY <2>1, <2>3
<1>9. CASE t \in LogTabs
  <2>1. /\ Whole(u) /\ t \in Tabs \ FarTabs /\ t # "errors"
        /\ ClosingParts \subseteq ShellParts \cup PartsOf(x)
        /\ "revisions" \in ShellKinds \cup AsksOf(x) /\ Shutting(x, t)
    BY <1>2, <1>9, PageWhole, Facts
    DEF LogTabs, ClosingParts, FocusParts, ShellParts, ShellKinds
  <2>2. Page(x, RemoveTab(u, t), u)
    BY <1>2, <2>1, RemoveTouches DEF Page, Shutting
  <2>3. ClosePage(u, t) = RemoveTab(u, t)
    BY <1>9, ClosePageIs
  <2> QED
    BY <2>2, <2>3, PageAlong
<1>10. CASE t \in Files
  <2>2. ClosePage(u, t) = CloseFile(u, t, FALSE)
    BY <1>10, ClosePageIs
  <2>3. Closed0(CloseFile(u, t, FALSE), u)
    BY <1>10, PageWhole, CloseFileTouches
  <2> QED
    BY <1>2, <2>2, <2>3, ThenCloses
<1> QED
  BY <1>1, <1>3, <1>4, <1>5, <1>6, <1>7, <1>8, <1>9, <1>10 DEF PageTabs

LEMMA ClosePageTouches ==
  ASSUME NEW x, Closers(x), ErrorsCloser(x), NEW w, NEW u, Page(x, u, w),
         NEW t \in Tabs, IsOpen(u, t), CanClose(t)
  PROVE  Page(x, ClosePage(u, t), w)
<1>1. Shutting(x, t)
  BY ClosersShut
<1>2. "tabs" \in PartsOf(x) /\ {"search", "errors", "diff"} \subseteq PartsOf(x)
  BY DEF Closers, ErrorsCloser
<1> QED
  BY <1>1, <1>2, ClosePageOn

(* The entries go with their page, and with no other; so does the search.  *)
LEMMA ClosePageTrued ==
  ASSUME NEW u, Whole(u), NEW t \in Tabs, IsOpen(u, t), CanClose(t)
  PROVE  Trued(ClosePage(u, t), u)
<1>1. CASE t = "errors"
  <2>1. Shutting("bar", "errors") /\ {"errors", "tabs"} \subseteq PartsOf("bar")
    BY DEF PartsOf, Shutting, Shuts
  <2>2. Emptied(CloseErrors(u), u)
    BY <2>1, PageNothing, CloseErrorsTouches
  <2> QED
    BY <1>1, <2>2, ClosePageIs, TruedEmptied
<1>2. CASE t # "errors"
  <2> DEFINE r == ClosePage(u, t)
  <2>1. /\ "tabs" \in PartsOf("closing") /\ "search" \in PartsOf("closing")
        /\ "diff" \in PartsOf("closing") /\ Shutting("closing", t)
    BY <1>2 DEF PartsOf, Shutting, Shuts
  <2>2. Page("closing", r, u)
    BY <1>2, <2>1, PageNothing, ClosePageOn
  <2> HIDE DEF r
  <2>3. /\ "errors" \in Tabs \ (Files \cup TabsOf("closing"))
        /\ "shut all" \notin ShellParts \cup PartsOf("closing")
        /\ "errors" \in Parts \ (ShellParts \cup PartsOf("closing") \cup {"net", "offer", "tabs"})
    BY Facts DEF PageTabs, TabsOf, PartsOf, ShellParts, Parts
  <2>4. r.errors = u.errors /\ (IsOpen(r, "errors") <=> IsOpen(u, "errors"))
    BY <2>2, <2>3 DEF Page, Touches, Frames, Shuts
  <2> QED
    BY <2>4, TruedSame DEF r
<1> QED
  BY <1>1, <1>2

LEMMA ClosePageSeeks ==
  ASSUME NEW u, Whole(u), NEW t \in Tabs, IsOpen(u, t), CanClose(t)
  PROVE  Seeking(ClosePage(u, t), u)
<1>1. CASE t = "search"
  BY <1>1, ClosePageIs, CloseSearchSeeks
<1>2. CASE t # "search"
  <2>1. t \in Files \/ t \in PageTabs \ {"search"}
    BY <1>2 DEF Tabs, CanClose
  <2>2. /\ {"tabs", "errors", "diff"} \subseteq PartsOf("others")
        /\ t \notin Files => Shutting("others", t)
    BY <2>1 DEF PartsOf, TabsOf, Shutting, Shuts
  <2>3. Page("others", ClosePage(u, t), u)
    BY <1>2, <2>2, PageNothing, ClosePageOn
  <2>4. Aloof("others")
    BY Facts DEF Aloof, PageTabs, PartsOf, TabsOf, AsksOf, ShellParts, ShellKinds, SearchKinds,
       Shutting, Shuts
  <2> QED
    BY <2>3, <2>4, AloofSeeks
<1> QED
  BY <1>1, <1>2

LEMMA CloseAllTouches ==
  ASSUME NEW x, Closers(x), ErrorsCloser(x), NEW w, NEW u, Page(x, u, w)
  PROVE  /\ Page(x, CloseAllTabs(u), w) /\ Trued(CloseAllTabs(u), u)
         /\ Seeking(CloseAllTabs(u), u)
<1> DEFINE c == [page |-> x, from |-> w, base |-> u]
           n == Len(u.tabs)
           ks == [k \in 1 .. n |-> k]
           S == DOMAIN ks
           visit(v, k) == IF k <= Len(v.tabs) /\ CanClose(v.tabs[k]) THEN ClosePage(v, v.tabs[k])
                          ELSE v
           Body(it) == [s \in SUBSET S |-> IF s = {} THEN u
                                           ELSE visit(it[s \ {Max(s)}], ks[Max(s)])]
           all == FoldLeft(visit, u, ks)
<1>1. n \in Nat /\ S = 1 .. n
  BY PageWhole DEF Whole, Base
<1>2. IsFiniteSet(S) /\ \A s \in SUBSET S : s # {} => Max(s) \in s
  <2> HIDE DEF n
  <2>2. \A s \in SUBSET (1 .. n) : s # {} => Max(s) \in s
    BY <1>1, LastIsIn
  <2>3. IsFiniteSet(1 .. n)
    BY <1>1, FS_Interval
  <2> HIDE DEF S
  <2> QED
    BY <1>1, <2>2, <2>3
<1>3. \A k \in S : ks[k] = k
  OBVIOUS
<1>4. ASSUME NEW k \in S, NEW v, Page(x, v, w), Trued(v, u), Seeking(v, u)
      PROVE  Page(x, visit(v, k), w) /\ Trued(visit(v, k), u) /\ Seeking(visit(v, k), u)
  <2>1. CASE k <= Len(v.tabs) /\ CanClose(v.tabs[k])
    <3>1. v.tabs \in Seq(Tabs) /\ k \in 1 .. n
      BY <1>1, <1>4, PageWhole DEF Whole, Base
    <3> HIDE DEF n
    <3>2. k \in 1 .. Len(v.tabs)
      BY <1>1, <2>1, <3>1
    <3>3. v.tabs[k] \in Tabs /\ IsOpen(v, v.tabs[k])
      BY <3>1, <3>2 DEF IsOpen, Contains
    <3> QED
      BY <1>4, <2>1, <3>3, PageWhole, ClosePageTouches, ClosePageTrued, TruedAlong,
         ClosePageSeeks, SeekingAlong
  <2>2. CASE ~(k <= Len(v.tabs) /\ CanClose(v.tabs[k]))
    BY <1>4, <2>2
  <2> QED
    BY <2>1, <2>2
<1>5. \A k, v : VisitEach(c, k, v) = visit(v, k)
  BY DEF VisitEach
<1>6. /\ InClosing(c, u)
      /\ \A v : InClosing(c, v) <=> Page(x, v, w) /\ Trued(v, u) /\ Seeking(v, u)
  <2>1. Trued(u, u) /\ Seeking(u, u)
    BY SeekingAlong DEF Trued
  <2> QED
    BY <2>1 DEF InClosing
<1> HIDE DEF c, n, ks, S, visit
<1>7. \A k \in S : \A v : InClosing(c, v) => InClosing(c, VisitEach(c, k, v))
  BY <1>4, <1>5, <1>6
<1>8. /\ \E it : Visiting!Iterates(it, c, u, S)
      /\ \A it : Visiting!Iterates(it, c, u, S) => InClosing(c, it[S])
  BY <1>2, <1>6, <1>7, Visiting!Iteration DEF Visiting!IsFiniteSet, IsFiniteSet
<1>9. \A it : Visiting!Iterates(it, c, u, S) <=> it = Body(it)
  <2>1. \A s \in SUBSET S : s # {} => ks[Max(s)] = Max(s)
    BY <1>2, <1>3
  <2> QED
    BY <1>5, <2>1 DEF Visiting!Iterates
<1> HIDE DEF Body
<1>10. (CHOOSE it : it = Body(it)) = Body(CHOOSE it : it = Body(it))
  BY <1>8, <1>9, Zenon
<1>11. all = (CHOOSE it : it = Body(it))[S]
  BY Zenon DEF FoldLeft, MapThenFoldSet, Body, S
<1>12. CloseAllTabs(u) = CloseFiles(all, FALSE)
  BY Zenon DEF CloseAllTabs, all, visit, ks, n
<1> HIDE DEF all
<1>13. Page(x, all, w) /\ Trued(all, u) /\ Seeking(all, u)
  BY <1>6, <1>8, <1>9, <1>10, <1>11
<1>14. Closed0(CloseFiles(all, FALSE), all)
  BY <1>13, PageWhole, CloseFilesTouches
<1>15. Trued(CloseFiles(all, FALSE), u) /\ Seeking(CloseFiles(all, FALSE), u)
  BY <1>13, <1>14, ClosedErrors, TruedAlong, ClosedSeeks, SeekingAlong
<1> QED
  BY <1>12, <1>13, <1>14, <1>15, ThenCloses DEF Closers

(* What closes tabs, or turns to others.                                   *)
BarSteps ==
    \/ \E t \in Tabs : ClosesTab(t) \/ (~win.dlg.open /\ ClickTab(t))
    \/ ~win.dlg.open /\ PressKey
    \/ StaysOnPage

LEMMA BarCloses == Closers("bar") /\ Closers("team") /\ ErrorsCloser("bar") /\ ErrorsCloser("team")
BY DEF Closers, ErrorsCloser, PartsOf

LEMMA BarTouches ==
  ASSUME Whole(win), BarSteps
  PROVE  Page("bar", win', win) /\ Trued(win', win) /\ Seeking(win', win)
<1> DEFINE P(r) == Page("bar", r, win) /\ Trued(r, win) /\ Seeking(r, win)
<1>1. Page("bar", win, win)
  BY PageNothing
<1>2. ASSUME NEW t \in Tabs, ClosesTab(t) PROVE P(win')
  BY <1>1, <1>2, BarCloses, ClosePageTouches, ClosePageTrued, ClosePageSeeks DEF ClosesTab
<1>3. ASSUME NEW r, Shell0(r, win) PROVE P(r)
  BY <1>1, <1>3, ThenShell, ShellCloses, ClosedErrors, ClosedSeeks
<1>4. ASSUME NEW t \in Tabs, ClickTab(t) PROVE P(win')
  BY <1>3, <1>4, ShellSwitch DEF ClickTab
<1>5. ASSUME PressKey PROVE P(win')
  BY <1>3, <1>5, KeysTouch DEF PressKey
<1>6. ASSUME StaysOnPage PROVE P(win')
  BY <1>1, <1>6, BarCloses, CloseAllTouches DEF StaysOnPage
<1> HIDE DEF P
<1>7. P(win')
  BY <1>2, <1>4, <1>5, <1>6 DEF BarSteps
<1> QED
  BY <1>7 DEF P

(* The settings are as they were, or others that are put.                  *)
SetTo(r, u, new, loud) ==
    /\ \A x \in Parts \ {"settings", "net", "offer"} : r[x] = u[x]
    /\ \/ r.settings = u.settings /\ r.net = u.net
       \/ \E mine : /\ r.settings = [u.settings EXCEPT !.mine = mine]
                    /\ u.settings.mine \in Settings /\ new \in Settings => mine \in Settings
                    /\ r.net = u.net \cup {[kind |-> "put", loud |-> loud,
                                            settings |-> r.settings.mine]}

LEMMA SetSettingsIs ==
  ASSUME NEW u, Whole(u), NEW new, NEW names, NEW loud
  PROVE  SetTo(SetSettings(u, new, names, loud), u, new, loud)
<1> DEFINE r == SetSettings(u, new, names, loud)
           set == [n \in DOMAIN u.settings.mine |->
                      IF n \in names THEN new[n] ELSE u.settings.mine[n]]
           v == [u.settings EXCEPT !.mine = set]
           a == [u EXCEPT !.settings = v]
           m == [kind |-> "put", loud |-> loud, settings |-> a.settings.mine]
           b == Ask(a, m)
           c == Say(u)
<1>1. r = b \/ r = c \/ r = u
  BY DEF SetSettings, Put
<1>2. /\ \A x \in Parts \ {"settings", "net", "offer"} : b[x] = u[x] /\ c[x] = u[x]
      /\ c.settings = u.settings /\ c.net = u.net /\ c.offer = NoOffer
  BY DEF Whole, Base, IsRecord, Parts, Ask, Say
<1>3. b.settings = v /\ a.settings = v /\ b.net = u.net \cup {m} /\ b.offer = u.offer
  BY DEF Whole, Base, IsRecord, Parts, Ask
<1>4. u.settings.mine \in Settings /\ new \in Settings => set \in Settings
  BY DEF Settings
<1> HIDE DEF set, a, b, c, r
<1>5. SetTo(r, u, new, loud)
  BY <1>1, <1>2, <1>3, <1>4 DEF SetTo
<1> QED
  BY <1>5 DEF r

(* Another team, and what the rest of the window becomes with it.          *)
Goes(r, u, t) ==
    /\ Page("team", r, u) /\ IsOpen(r, "projects") /\ r.team = t /\ r.loaded = u.loaded
    /\ r.search = u.search
    /\ r.cal = [u.cal EXCEPT !.proj = None]
    /\ r.ops = [u.ops EXCEPT !.proj = None, !.sel = <<>>]
    /\ r.errors.listed = u.errors.listed /\ \A x \in PageTabs : IsOpen(r, x) <=> IsOpen(u, x)
    /\ \A m \in r.net : m \in u.net \/ m.kind \in ShellKinds
                        \/ m = [kind |-> "put", loud |-> FALSE, settings |-> r.settings.mine]
    /\ \/ r.settings = u.settings
       \/ \E mine : /\ r.settings = [u.settings EXCEPT !.mine = mine]
                    /\ u.settings.mine \in Settings => mine \in Settings
                    /\ [kind |-> "put", loud |-> FALSE, settings |-> r.settings.mine] \in r.net

LEMMA TeamGoes ==
  ASSUME NEW u, Whole(u), NEW t \in Teams, NEW first
  PROVE  Goes(TeamChanged(u, t, first), u, t)
<1> DEFINE P(r) == Page("team", r, u)
           v1 == [u.ops EXCEPT !.proj = None, !.sel = <<>>]
           v2 == [u.cal EXCEPT !.proj = None]
           a == [u EXCEPT !.team = t]
           b == [a EXCEPT !.ops = v1]
           team == [b EXCEPT !.cal = v2]
           opened == SwitchTo(AddTab(team, "projects"), "projects")
           page == IF IsOpen(team, "projects") THEN team ELSE opened
           v3 == [page.errors EXCEPT !.gen = page.errors.gen + 1, !.known = NoErrors.known]
           new == [page EXCEPT !.errors = v3]
           model == IF first THEN page ELSE new
           set == [model.settings.mine EXCEPT !.teamlast = t]
           r == TeamChanged(u, t, first)
<1>1. r = SetSettings(model, set, {"teamlast"}, FALSE)
  <2>1. team = [u EXCEPT !.team = t, !.ops = [@ EXCEPT !.proj = None, !.sel = <<>>],
                         !.cal.proj = None]
    BY DEF Whole, Base, IsRecord, Parts
  <2>2. new = NewModel(page)
    BY DEF NewModel
  <2> HIDE DEF team, new
  <2> QED
    BY <2>1, <2>2 DEF TeamChanged
<1>2. P(team)
  <2>1. P(u) /\ {"team", "ops", "cal"} \subseteq PartsOf("team")
        /\ {"team", "ops", "cal"} \subseteq FreeParts
    BY PageNothing DEF PartsOf, Parts, BarParts, FreeParts
  <2>2. P(a)
    BY <2>1, ThenPart
  <2> HIDE DEF a, v1, v2
  <2>3. P(b)
    BY <2>1, <2>2, ThenPart
  <2> HIDE DEF b
  <2> QED
    BY <2>1, <2>3, ThenPart
<1>3. /\ \A x \in Parts \ {"team", "ops", "cal"} : team[x] = u[x]
      /\ team.team = t /\ team.cal = v2 /\ team.ops = v1
  BY DEF Whole, Base, IsRecord, Parts
<1>4. /\ team.settings = u.settings /\ team.net = u.net /\ team.loaded = u.loaded
      /\ team.search = u.search /\ team.errors = u.errors /\ \A x : IsOpen(team, x) <=> IsOpen(u, x)
  BY <1>3 DEF Parts, IsOpen
<1> HIDE DEF team, v1, v2
<1>5. ASSUME ~IsOpen(team, "projects")
      PROVE  P(opened) /\ Page("projects", opened, team) /\ IsOpen(opened, "projects")
  <2>1. Addable(team, "projects") /\ CanFocus("projects") /\ "projects" \in TabsOf("team")
        /\ "projects" \in TabsOf("projects")
    BY <1>5, Facts DEF Addable, FarTabs, Tabs, LogTabs, CanFocus, TabsOf
  <2>2. Page("projects", team, team)
    BY <1>2, PageWhole, PageNothing
  <2> QED
    BY <1>2, <2>1, <2>2, ThenOpenTab
<1>6. P(page) /\ Page("projects", page, team) /\ IsOpen(page, "projects")
  BY <1>2, <1>5, PageWhole, PageNothing
<1> HIDE DEF opened, page
<1>7. /\ page.team = t /\ page.cal = v2 /\ page.settings = u.settings /\ page.loaded = u.loaded
      /\ page.ops = v1 /\ page.search = u.search
      /\ \A m \in page.net : m \in u.net \/ m.kind \in ShellKinds
      /\ page.errors = u.errors /\ \A x \in PageTabs : IsOpen(page, x) <=> IsOpen(u, x)
  <2>1. {"team", "cal", "ops", "settings", "loaded", "errors", "search"}
          \subseteq Parts \ (ShellParts \cup PartsOf("projects") \cup {"net", "offer", "tabs"})
        /\ "tabs" \notin ShellParts \cup PartsOf("projects") /\ AsksOf("projects") = {}
        /\ \A x \in PageTabs : x \in Tabs \ (Files \cup TabsOf("projects"))
    BY Facts DEF Parts, ShellParts, PartsOf, AsksOf, TabsOf
  <2> QED
    BY <1>3, <1>4, <1>6, <2>1 DEF Page, Touches, Frames
<1>v. Checked(page.errors)
  BY <1>6, PageWhole DEF Whole, Base, Marked
<1>8. P(new)
  <2>1. Checked(v3) /\ v3.listed = page.errors.listed
    BY <1>v DEF Checked, IsRecord, ErrorFields, NoErrors
  <2> HIDE DEF v3
  <2> QED
    BY <1>6, <2>1, ThenErrors DEF PartsOf
<1>9. (\A x \in Parts \ {"errors"} : new[x] = page[x]) /\ new.errors.listed = page.errors.listed
  <2>1. v3.listed = page.errors.listed
    BY <1>v DEF Checked, IsRecord, ErrorFields
  <2>2. IsRecord(page, Parts)
    BY <1>6, PageWhole DEF Whole, Base
  <2> HIDE DEF v3
  <2> QED
    BY <2>1, <2>2 DEF IsRecord, Parts
<1> HIDE DEF v3
<1>10. /\ P(model) /\ \A x \in Parts \ {"errors"} : model[x] = page[x]
       /\ model.errors.listed = page.errors.listed
  BY <1>6, <1>8, <1>9
<1> HIDE DEF new, model
<1>11. /\ model.team = t /\ model.cal = v2 /\ model.settings = u.settings /\ model.loaded = u.loaded
       /\ model.net = page.net /\ model.tabs = page.tabs /\ model.ops = v1
       /\ model.search = u.search
  BY <1>7, <1>10 DEF Parts
<1>s. u.settings.mine \in Settings => model.settings.mine \in Settings /\ set \in Settings
  BY <1>11 DEF Settings
<1> HIDE DEF set
<1>12. P(r)
  BY <1>1, <1>10, SetSettingsTouches DEF PartsOf, AsksOf
<1>13. SetTo(r, model, set, FALSE)
  <2>1. Whole(model)
    BY <1>10, PageWhole
  <2>2. SetTo(SetSettings(model, set, {"teamlast"}, FALSE), model, set, FALSE)
    BY <2>1, SetSettingsIs
  <2> QED
    BY <1>1, <2>2
<1> HIDE DEF r
<1>14. r.tabs = model.tabs /\ r.team = t /\ r.loaded = u.loaded /\ r.cal = v2 /\ r.ops = v1
       /\ r.search = u.search
  BY <1>11, <1>13 DEF Parts, SetTo
<1>15. /\ IsOpen(r, "projects") /\ r.errors.listed = u.errors.listed
       /\ \A x \in PageTabs : IsOpen(r, x) <=> IsOpen(u, x)
  <2>1. r.errors = model.errors
    BY <1>13 DEF Parts, SetTo
  <2> QED
    BY <1>6, <1>7, <1>10, <1>11, <1>14, <2>1 DEF IsOpen
<1>16. \A m \in r.net : m \in u.net \/ m.kind \in ShellKinds
                        \/ m = [kind |-> "put", loud |-> FALSE, settings |-> r.settings.mine]
  BY <1>7, <1>11, <1>13 DEF SetTo
<1>17. \/ r.settings = u.settings
       \/ \E mine : /\ r.settings = [u.settings EXCEPT !.mine = mine]
                    /\ u.settings.mine \in Settings => mine \in Settings
                    /\ [kind |-> "put", loud |-> FALSE, settings |-> r.settings.mine] \in r.net
  BY <1>11, <1>13, <1>s DEF SetTo
<1>18. Goes(r, u, t)
  BY <1>12, <1>14, <1>15, <1>16, <1>17 DEF Goes, v1, v2
<1> QED
  BY <1>18 DEF r

(* The team is chosen. *)
LEMMA SelectsTeamTouches ==
  ASSUME Whole(win), NEW t \in Teams, SelectsTeam(t) PROVE Page("team", win', win)
<1> DEFINE a == Unprompt(win, "none")
           c == CloseAllTabs(a)
<1>1. Page("team", a, win)
  BY PageNothing, ThenUnprompt
<1>2. win' = c \/ win' = TeamChanged(c, t, FALSE)
  BY DEF SelectsTeam
<1> HIDE DEF a
<1>3. Page("team", c, win)
  BY <1>1, BarCloses, CloseAllTouches
<1> HIDE DEF c
<1>4. Page("team", TeamChanged(c, t, FALSE), c)
  BY <1>3, PageWhole, TeamGoes DEF Goes
<1> QED
  BY <1>2, <1>3, <1>4, PageAlong

(* The user's settings have come.                                          *)
LEMMA LoadGuiTouches ==
  ASSUME NEW u, Whole(u), u.tabs = <<>>
  PROVE  Page("team", LoadGui(u), u)
<1> DEFINE t == TeamToLoad(u.settings.mine)
           a == [u EXCEPT !.loaded = TRUE]
           bar == AddTab(a, "shortcuts")
<1>1. Page("team", a, u)
  BY PageNothing, ThenPart DEF PartsOf, Parts, BarParts, FreeParts
<1>2. LoadGui(u) = IF t \in Teams THEN TeamChanged(bar, t, TRUE) ELSE Say(bar)
  BY DEF LoadGui
<1>3. a.tabs = <<>>
  BY DEF Whole, Base, IsRecord, Parts
<1> HIDE DEF a, t
<1>4. Addable(a, "shortcuts") /\ ~CanFocus("shortcuts")
  <2>1. \A x : ~IsOpen(a, x)
    BY <1>3 DEF IsOpen, Contains
  <2>2. "shortcuts" \in Tabs /\ "shortcuts" \in FarTabs /\ "shortcuts" \notin LogTabs
        /\ "shortcuts" \notin Files
    BY Facts DEF FarTabs, LogTabs
  <2> QED
    BY <2>1, <2>2 DEF Addable, CanFocus
<1>5. Page("team", bar, u)
  BY <1>1, <1>4, ThenAddTab DEF TabsOf
<1> HIDE DEF bar
<1>6. t \in Teams => Page("team", TeamChanged(bar, t, TRUE), u)
  BY <1>5, PageWhole, TeamGoes, PageAlong DEF Goes
<1>7. Page("team", Say(bar), u)
  BY <1>5, ThenSay
<1> QED
  BY <1>2, <1>6, <1>7

(* Before there are settings, they are asked for.                          *)
StartSteps == PressUser \/ \E m \in Waiting({"user"}) : FailUser(m)

LEMMA StartTouches == ASSUME Whole(win), StartSteps PROVE Page("start", win', win)
<1>1. Page("start", Unbuttoned, win)
  BY PageNothing, ThenSay DEF Unbuttoned
<1>2. CASE PressUser
  <2> DEFINE m == [kind |-> "user"]
  <2>1. Formed(m) /\ m.kind \in AsksOf("start")
    BY DEF Formed, OpKinds, AsksOf
  <2>2. win' = Ask(Unbuttoned, m)
    BY <1>2 DEF PressUser
  <2> HIDE DEF m
  <2> QED
    BY <1>1, <2>1, <2>2, ThenAsk
<1>3. ASSUME NEW m \in Waiting({"user"}), FailUser(m) PROVE Page("start", win', win)
  <2>1. Page("start", Answered(m), win)
    BY PageAnswered DEF Waiting, AsksOf
  <2>2. Again([kind |-> "user", about |-> None]) /\ "user" \in OffersOf("start")
    BY DEF Again, OffersOf
  <2>3. Page("start", Offer(Answered(m), "user", None), win)
    BY <2>1, <2>2, ThenOffer
  <2> QED
    BY <1>3, <2>3 DEF FailUser
<1> QED
  BY <1>2, <1>3 DEF StartSteps

LEMMA ShellSplits ==
  ShellSteps <=> \/ BarSteps \/ StartSteps \/ \E t \in Teams : SelectsTeam(t)
                 \/ \E m \in Waiting({"user"}) : GotUser(m)
BY DEF ShellSteps, BarSteps, StartSteps

-----------------------------------------------------------------------------
(* The operations on files: what is asked for, and what would be asked for *)
(* again, is what the user meant.                                          *)

OldFields == {"nth", "team", "proj"}
SeenFields == {"chosen", "project", "dir", "again"}

(* The dialogs are numbered, and none that is asked for is to come.        *)
Numbered(r) ==
    /\ IsRecord(r.ops, OpFields) /\ r.ops.sel \in Seq(Dirs \X Names)
    /\ IsRecord(r.dlg, DialogFields) /\ r.dlg.nth \in Nat
    /\ \A o \in r.dlg.olds : IsRecord(o, OldFields) /\ o.nth \in Nat /\ o.nth < r.dlg.nth
    /\ \A m \in r.net : m.kind \in DialogKinds => m.nth \in Nat /\ m.nth <= r.dlg.nth

(* An operation is about what was selected when it was chosen, which is    *)
(* still selected, and goes where the dialog said.                         *)
Meant(m, r) ==
    /\ IsRecord(m.seen, SeenFields)
    /\ m.project = m.seen.project
    /\ m.op # "mkdir" => /\ m.srcs = m.seen.chosen /\ m.seen.chosen = ToSet(r.ops.sel)
                         /\ m.project = r.ops.proj
    /\ m.op \in {"mv", "cp"} => Len(r.ops.sel) = 1
    /\ m.op \in Placing => m.place[1] = m.seen.dir

(* One operation at a time; what it makes is not there when it is first    *)
(* asked for.                                                              *)
Fresh(m, r) == m.op \in Placing /\ m.kind = "files" /\ ~m.seen.again
               => m.place \notin r.disk[m.team][m.project]
Ordered(r) ==
    \A m \in r.net : m.kind \in OpKinds =>
        /\ \A n \in r.net : n.kind \in OpKinds => n = m
        /\ m.kind # "project" => /\ Meant(m, r) /\ m.team = r.team /\ r.team \notin ReadOnly
                                 /\ Fresh(m, r)

(* Nothing is under way while a dialog is open, or an operation is offered.*)
Quiet(r) == \A m \in r.net : m.kind \notin OpKinds
Offered(r) ==
    /\ r.offer.kind \in {"delete", "again"} => Quiet(r) /\ ~r.dlg.open
    /\ r.offer.kind = "delete" => r.team \notin ReadOnly /\ r.offer.about = r.ops.sel
    /\ r.offer.kind = "again" /\ r.offer.about.kind # "project"
       => r.team \notin ReadOnly /\ Meant(r.offer.about, r)

(* What the dialog shows is the directory it is in, of its own tree, and   *)
(* what it is to move or copy is still selected.                           *)
Laid(r) ==
    LET d == r.dlg
    IN d.open => /\ Quiet(r)
                 /\ d.dir = d.label /\ d.list = NamesIn(d.tree, d.dir)
                 /\ d.type \in TreeTypes =>
                       /\ r.team \notin ReadOnly
                       /\ d.op \in {"mv", "cp"} => d.chosen = r.ops.sel /\ Len(r.ops.sel) = 1

(* Its tree is that of the project chosen in it, once it is there.         *)
Asked(r) == {m \in r.net : m.kind \in DialogKinds /\ m.nth = r.dlg.nth}
Treed(r) ==
    LET d == r.dlg
    IN d.open => /\ \A m \in Asked(r) : /\ Asked(r) = {m} /\ m.team = r.team
                                        /\ d.tree \in {None, Fake}
                                        /\ m.kind = "tree" => m.project = d.proj
                 /\ d.tree \notin {None, Fake} => d.tree = r.disk[r.team][d.proj]

Fits(r) == Numbered(r) /\ Ordered(r) /\ Offered(r) /\ Laid(r) /\ Treed(r)
FilesIn(r, rc) == rc = {} => Fits(r)
FilesKept == FilesIn(win, raced)

-----------------------------------------------------------------------------
(* What handlers make of the window, part by part. *)

(* One part is replaced. *)
Sets(r, u, a, v) == IsRecord(r, Parts) /\ r[a] = v /\ \A x \in Parts \ {a} : r[x] = u[x]

LEMMA PartIs ==
  ASSUME NEW u, IsRecord(u, Parts), NEW a \in Parts, NEW v
  PROVE  Sets([u EXCEPT ![a] = v], u, a, v)
BY DEF IsRecord, Sets

LEMMA AskIs == ASSUME NEW u, IsRecord(u, Parts), NEW m PROVE Sets(Ask(u, m), u, "net", u.net \cup {m})
BY DEF IsRecord, Sets, Ask, Parts

LEMMA OfferIs ==
  ASSUME NEW u, IsRecord(u, Parts), NEW kind, NEW about
  PROVE  /\ Sets(Offer(u, kind, about), u, "offer", [kind |-> kind, about |-> about])
         /\ Sets(Say(u), u, "offer", NoOffer)
BY DEF IsRecord, Sets, Offer, Say, Parts

(* The files page's own parts, and those it reads, are those of before;    *)
(* nothing more is asked for, or offered.                                  *)
Same(r, u) ==
    /\ r.ops = u.ops /\ r.dlg = u.dlg /\ r.team = u.team /\ r.disk = u.disk
    /\ \A m \in r.net : m.kind \in OpKinds \cup DialogKinds => m \in u.net
    /\ r.offer.kind \in {"delete", "again"} => r.offer = u.offer

LEMMA FitsSame ==
  ASSUME NEW r, NEW u, Same(r, u), Fits(u) PROVE Fits(r)
<1>1. Numbered(r)
  BY DEF Same, Fits, Numbered
<1>2. Ordered(r)
  BY DEF Same, Fits, Ordered, Meant, Fresh
<1>3. Quiet(u) => Quiet(r)
  BY DEF Same, Quiet
<1>4. Offered(r)
  BY <1>3 DEF Same, Fits, Offered, Meant
<1>5. Laid(r)
  BY <1>3 DEF Same, Fits, Laid
<1>6. Asked(r) \subseteq Asked(u)
  BY DEF Same, Asked
<1>7. Treed(r)
  BY <1>6 DEF Same, Fits, Treed
<1> QED
  BY <1>1, <1>2, <1>4, <1>5, <1>7 DEF Fits

(* With nothing under way, offered or open, all is as it should be.        *)
Idle(r) == Quiet(r) /\ ~r.dlg.open /\ r.offer.kind \notin {"delete", "again"}

LEMMA FitsIdle == ASSUME NEW r, Numbered(r), Idle(r) PROVE Fits(r)
BY DEF Idle, Quiet, Fits, Ordered, Offered, Laid, Treed

(* The trees of the dialog. *)
TreeParts == {"tree", "owner", "dir", "label", "list"}
DrawsTree(r, u, tree) ==
    /\ IsRecord(r, Parts) /\ IsRecord(r.dlg, DialogFields)
    /\ \A x \in Parts \ {"dlg"} : r[x] = u[x]
    /\ \A y \in DialogFields \ TreeParts : r.dlg[y] = u.dlg[y]
    /\ r.dlg.tree = tree /\ r.dlg.dir = Top /\ r.dlg.label = Top
    /\ r.dlg.list = NamesIn(tree, Top)

LEMMA RootSelectedIs ==
  ASSUME NEW u, IsRecord(u, Parts), IsRecord(u.dlg, DialogFields)
  PROVE  DrawsTree(RootSelected(u), u, u.dlg.tree)
<1> DEFINE d == [u.dlg EXCEPT !.dir = Top, !.label = Top, !.list = NamesIn(u.dlg.tree, Top)]
           r == RootSelected(u)
<1>1. r = [u EXCEPT !.dlg = d]
  BY DEF RootSelected
<1>2. /\ IsRecord(d, DialogFields) /\ d.dir = Top /\ d.label = Top
      /\ d.list = NamesIn(u.dlg.tree, Top)
      /\ \A y \in DialogFields \ {"dir", "label", "list"} : d[y] = u.dlg[y]
  BY DEF IsRecord, DialogFields
<1> HIDE DEF d, r
<1>3. IsRecord(r, Parts) /\ r.dlg = d /\ \A x \in Parts \ {"dlg"} : r[x] = u[x]
  BY <1>1 DEF IsRecord, Parts
<1>4. d.tree = u.dlg.tree
  BY <1>2 DEF DialogFields
<1>5. DrawsTree(r, u, u.dlg.tree)
  BY <1>2, <1>3, <1>4 DEF DrawsTree, TreeParts
<1> QED
  BY <1>5 DEF r

LEMMA ReceiveTreeIs ==
  ASSUME NEW u, IsRecord(u, Parts), IsRecord(u.dlg, DialogFields), NEW n, NEW tree
  PROVE  IF ~u.dlg.open THEN ReceiveTree(u, n, tree) = u
         ELSE DrawsTree(ReceiveTree(u, n, tree), u, IF n = u.dlg.nth THEN tree ELSE u.dlg.tree)
<1> DEFINE v == IF n = u.dlg.nth THEN tree ELSE u.dlg.tree
           d == [u.dlg EXCEPT !.tree = v, !.owner = n]
           s == [u EXCEPT !.dlg = d]
           r == RootSelected(s)
<1>1. ReceiveTree(u, n, tree) = IF ~u.dlg.open THEN u ELSE r
  BY DEF ReceiveTree
<1> HIDE DEF v
<1>2. /\ IsRecord(d, DialogFields) /\ d.tree = v
      /\ \A y \in DialogFields \ {"tree", "owner"} : d[y] = u.dlg[y]
  BY DEF IsRecord, DialogFields
<1> HIDE DEF d
<1>3. IsRecord(s, Parts) /\ s.dlg = d /\ \A x \in Parts \ {"dlg"} : s[x] = u[x]
  BY DEF IsRecord, Parts
<1> HIDE DEF s
<1>4. DrawsTree(r, s, v)
  BY <1>2, <1>3, RootSelectedIs
<1> HIDE DEF r
<1>5. DrawsTree(r, u, v)
  BY <1>2, <1>3, <1>4 DEF DrawsTree, TreeParts
<1> QED
  BY <1>1, <1>5 DEF v

(* What a tree that is drawn leaves as it should be. *)
LEMMA DrawnFits ==
  ASSUME NEW r, NEW u, NEW tree, DrawsTree(r, u, tree)
  PROVE  /\ Numbered(u) => Numbered(r)
         /\ Ordered(u) => Ordered(r)
         /\ Offered(u) => Offered(r)
         /\ Laid(u) => Laid(r)
         /\ Asked(r) = Asked(u)
         /\ r.net = u.net /\ r.team = u.team /\ r.disk = u.disk /\ r.ops = u.ops
         /\ r.offer = u.offer
         /\ r.dlg.open = u.dlg.open /\ r.dlg.nth = u.dlg.nth /\ r.dlg.olds = u.dlg.olds
         /\ r.dlg.proj = u.dlg.proj /\ r.dlg.tree = tree
<1>1. /\ r.net = u.net /\ r.team = u.team /\ r.disk = u.disk /\ r.ops = u.ops
      /\ r.offer = u.offer
  BY DEF DrawsTree, Parts
<1>2. /\ r.dlg.open = u.dlg.open /\ r.dlg.nth = u.dlg.nth /\ r.dlg.olds = u.dlg.olds
      /\ r.dlg.proj = u.dlg.proj /\ r.dlg.tree = tree /\ r.dlg.type = u.dlg.type
      /\ r.dlg.op = u.dlg.op /\ r.dlg.chosen = u.dlg.chosen
      /\ r.dlg.dir = Top /\ r.dlg.label = Top /\ r.dlg.list = NamesIn(tree, Top)
      /\ IsRecord(r.dlg, DialogFields)
  BY DEF DrawsTree, DialogFields, TreeParts
<1>3. Quiet(u) <=> Quiet(r)
  BY <1>1 DEF Quiet
<1>4. Numbered(u) => Numbered(r)
  BY <1>1, <1>2 DEF Numbered
<1>5. Ordered(u) => Ordered(r)
  BY <1>1 DEF Ordered, Meant, Fresh
<1>6. Offered(u) => Offered(r)
  BY <1>1, <1>2, <1>3 DEF Offered, Meant
<1>7. Laid(u) => Laid(r)
  BY <1>1, <1>2, <1>3 DEF Laid
<1>8. Asked(r) = Asked(u)
  BY <1>1, <1>2 DEF Asked
<1> QED
  BY <1>1, <1>2, <1>4, <1>5, <1>6, <1>7, <1>8

(* A request for the projects or a tree. *)
LEMMA AskedFits ==
  ASSUME NEW u, IsRecord(u, Parts), NEW m, m.kind \in DialogKinds, m.nth \in Nat,
         NEW r, r = Ask(u, m)
  PROVE  /\ IsRecord(r, Parts) /\ \A x \in Parts \ {"net"} : r[x] = u[x]
         /\ r.net = u.net \cup {m}
         /\ Numbered(u) /\ m.nth <= u.dlg.nth => Numbered(r)
         /\ Ordered(u) => Ordered(r)
         /\ Offered(u) => Offered(r)
         /\ Laid(u) => Laid(r)
         /\ Asked(r) = IF m.nth = u.dlg.nth THEN Asked(u) \cup {m} ELSE Asked(u)
<1>1. /\ IsRecord(r, Parts) /\ r.net = u.net \cup {m}
      /\ \A x \in Parts \ {"net"} : r[x] = u[x]
  BY AskIs DEF Sets
<1>2. /\ r.team = u.team /\ r.disk = u.disk /\ r.ops = u.ops /\ r.offer = u.offer
      /\ r.dlg = u.dlg
  BY <1>1 DEF Parts
<1>3. m.kind \notin OpKinds
  BY DEF OpKinds, DialogKinds
<1>4. Quiet(u) <=> Quiet(r)
  BY <1>1, <1>3 DEF Quiet
<1>5. Numbered(u) /\ m.nth <= u.dlg.nth => Numbered(r)
  BY <1>1, <1>2 DEF Numbered
<1>6. Ordered(u) => Ordered(r)
  BY <1>1, <1>2, <1>3 DEF Ordered, Meant, Fresh
<1>7. Offered(u) => Offered(r)
  BY <1>2, <1>4 DEF Offered, Meant
<1>8. Laid(u) => Laid(r)
  BY <1>2, <1>4 DEF Laid
<1>9. Asked(r) = IF m.nth = u.dlg.nth THEN Asked(u) \cup {m} ELSE Asked(u)
  BY <1>1, <1>2 DEF Asked
<1> QED
  BY <1>1, <1>5, <1>6, <1>7, <1>8, <1>9

(* Of a dialog before this one. *)
LEMMA OldTreeFits ==
  ASSUME NEW u, IsRecord(u, Parts), Fits(u), NEW n \in Nat, n < u.dlg.nth, NEW t, NEW p,
         NEW r, r = GetFileTree(u, n, t, p)
  PROVE  /\ IsRecord(r, Parts) /\ Fits(r) /\ Asked(r) = Asked(u)
         /\ r.dlg.nth = u.dlg.nth /\ r.dlg.olds = u.dlg.olds /\ r.dlg.open = u.dlg.open
         /\ r.team = u.team
<1> DEFINE m == [kind |-> "tree", nth |-> n, team |-> t, project |-> p]
           s == ReceiveTree(u, n, Fake)
<1>1. r = Ask(s, m)
  BY DEF GetFileTree
<1>2. m.kind \in DialogKinds /\ m.nth = n
  BY DEF DialogKinds
<1> HIDE DEF m, s
<1>3. u.dlg.nth \in Nat /\ n # u.dlg.nth /\ IsRecord(u.dlg, DialogFields)
  BY DEF Fits, Numbered
<1>4. s = u \/ DrawsTree(s, u, u.dlg.tree)
  BY <1>3, ReceiveTreeIs DEF s
<1>5. /\ IsRecord(s, Parts) /\ Numbered(s) /\ Ordered(s) /\ Offered(s) /\ Laid(s)
      /\ Asked(s) = Asked(u) /\ s.team = u.team /\ s.disk = u.disk
      /\ s.dlg.open = u.dlg.open /\ s.dlg.nth = u.dlg.nth /\ s.dlg.olds = u.dlg.olds
      /\ s.dlg.proj = u.dlg.proj /\ s.dlg.tree = u.dlg.tree
  <2>1. CASE s = u
    BY <2>1 DEF Fits
  <2>2. CASE DrawsTree(s, u, u.dlg.tree)
    <3>1. IsRecord(s, Parts)
      BY <2>2 DEF DrawsTree
    <3> QED
      BY <2>2, <3>1, DrawnFits DEF Fits
  <2> QED
    BY <1>4, <2>1, <2>2
<1>6. /\ m.nth \in Nat /\ m.nth <= s.dlg.nth /\ m.nth # s.dlg.nth
  BY <1>2, <1>3, <1>5
<1>7. /\ IsRecord(r, Parts) /\ \A x \in Parts \ {"net"} : r[x] = s[x]
      /\ Numbered(r) /\ Ordered(r) /\ Offered(r) /\ Laid(r) /\ Asked(r) = Asked(s)
  BY <1>1, <1>2, <1>5, <1>6, AskedFits
<1>8. r.dlg = s.dlg /\ r.team = s.team /\ r.disk = s.disk
  BY <1>7 DEF Parts
<1>9. Treed(r)
  BY <1>5, <1>7, <1>8 DEF Fits, Treed
<1> QED
  BY <1>5, <1>7, <1>8, <1>9 DEF Fits

(* Of this one, of the project chosen in it. *)
LEMMA OwnTreeFits ==
  ASSUME NEW u, IsRecord(u, Parts), Numbered(u), Ordered(u), Offered(u), Laid(u), Asked(u) = {},
         NEW r, r = GetFileTree(u, u.dlg.nth, u.team, u.dlg.proj)
  PROVE  Fits(r)
<1> DEFINE m == [kind |-> "tree", nth |-> u.dlg.nth, team |-> u.team, project |-> u.dlg.proj]
           s == ReceiveTree(u, u.dlg.nth, Fake)
<1>1. r = Ask(s, m)
  BY DEF GetFileTree
<1>2. m.kind \in DialogKinds /\ m.nth = u.dlg.nth /\ m.team = u.team /\ m.project = u.dlg.proj
  BY DEF DialogKinds
<1> HIDE DEF m, s
<1>3. u.dlg.nth \in Nat /\ IsRecord(u.dlg, DialogFields)
  BY DEF Numbered
<1>4. IF u.dlg.open THEN DrawsTree(s, u, Fake) ELSE s = u
  BY <1>3, ReceiveTreeIs DEF s
<1>5. /\ IsRecord(s, Parts) /\ Numbered(s) /\ Ordered(s) /\ Offered(s) /\ Laid(s)
      /\ Asked(s) = {} /\ s.team = u.team
      /\ s.dlg.open = u.dlg.open /\ s.dlg.nth = u.dlg.nth
      /\ s.dlg.proj = u.dlg.proj /\ (u.dlg.open => s.dlg.tree = Fake)
  <2>1. CASE ~u.dlg.open
    BY <1>4, <2>1
  <2>2. CASE u.dlg.open
    <3>1. IsRecord(s, Parts) /\ DrawsTree(s, u, Fake)
      BY <1>4, <2>2 DEF DrawsTree
    <3> QED
      BY <3>1, DrawnFits
  <2> QED
    BY <2>1, <2>2
<1>6. /\ m.nth \in Nat /\ m.nth <= s.dlg.nth /\ m.nth = s.dlg.nth
  BY <1>2, <1>3, <1>5
<1>7. /\ IsRecord(r, Parts) /\ \A x \in Parts \ {"net"} : r[x] = s[x]
      /\ Numbered(r) /\ Ordered(r) /\ Offered(r) /\ Laid(r) /\ Asked(r) = {m}
  BY <1>1, <1>2, <1>5, <1>6, AskedFits
<1>8. r.dlg = s.dlg /\ r.team = s.team
  BY <1>7 DEF Parts
<1>9. Treed(r)
  BY <1>2, <1>5, <1>7, <1>8 DEF Treed
<1> QED
  BY <1>7, <1>9 DEF Fits

(* The dialogs before this one ask for theirs. *)
AskingFits(c, u) ==
    /\ IsRecord(u, Parts) /\ Fits(u) /\ Asked(u) = {}
    /\ u.dlg.nth = c.from.dlg.nth /\ u.dlg.olds = c.from.dlg.olds
    /\ u.dlg.open = c.from.dlg.open /\ u.team = c.from.team
AskingOlds == INSTANCE FoldInduction WITH Step <- AskEach, Pick <- AnyOf, Keeps <- AskingFits

LEMMA AsksFit ==
  ASSUME NEW u, IsRecord(u, Parts), Fits(u), Asked(u) = {}, NEW p,
         NEW S \in SUBSET u.dlg.olds, IsFiniteSet(S)
  PROVE  LET r == AskAll(u, S, p)
         IN /\ IsRecord(r, Parts) /\ Fits(r) /\ Asked(r) = {}
            /\ r.dlg.nth = u.dlg.nth /\ r.dlg.olds = u.dlg.olds
            /\ r.dlg.open = u.dlg.open /\ r.team = u.team
<1> DEFINE c == [from |-> u, project |-> p]
           Body(it) == [s \in SUBSET S |->
                          IF s = {} THEN u
                          ELSE GetFileTree(it[s \ {AnyOf(s)}], AnyOf(s).nth, AnyOf(s).team, p)]
           all == AskAll(u, S, p)
<1>1. \A s \in SUBSET S : s # {} => AnyOf(s) \in s
  BY AnyIsIn
<1>2. \A o, v : AskEach(c, o, v) = GetFileTree(v, o.nth, o.team, p)
  BY DEF AskEach
<1>3. \A v : AskingFits(c, v) <=> /\ IsRecord(v, Parts) /\ Fits(v) /\ Asked(v) = {}
                                  /\ v.dlg.nth = u.dlg.nth /\ v.dlg.olds = u.dlg.olds
                                  /\ v.dlg.open = u.dlg.open /\ v.team = u.team
  BY DEF AskingFits
<1> HIDE DEF c
<1>4. \A o \in S : \A v : AskingFits(c, v) => AskingFits(c, AskEach(c, o, v))
  <2> SUFFICES ASSUME NEW o \in S, NEW v, AskingFits(c, v)
               PROVE  AskingFits(c, GetFileTree(v, o.nth, o.team, p))
    BY <1>2
  <2>1. /\ IsRecord(v, Parts) /\ Fits(v) /\ Asked(v) = {}
        /\ v.dlg.nth = u.dlg.nth /\ v.dlg.olds = u.dlg.olds
        /\ v.dlg.open = u.dlg.open /\ v.team = u.team
    BY <1>3
  <2>2. o.nth \in Nat /\ o.nth < v.dlg.nth
    BY <2>1 DEF Fits, Numbered
  <2> DEFINE g == GetFileTree(v, o.nth, o.team, p)
  <2>3. /\ IsRecord(g, Parts) /\ Fits(g) /\ Asked(g) = Asked(v)
        /\ g.dlg.nth = v.dlg.nth /\ g.dlg.olds = v.dlg.olds /\ g.dlg.open = v.dlg.open
        /\ g.team = v.team
    BY <2>1, <2>2, OldTreeFits
  <2> HIDE DEF g
  <2>4. AskingFits(c, g)
    BY <1>3, <2>1, <2>3
  <2> QED
    BY <2>4 DEF g
<1>5. /\ \E it : AskingOlds!Iterates(it, c, u, S)
      /\ \A it : AskingOlds!Iterates(it, c, u, S) => AskingFits(c, it[S])
  <2>1. AskingFits(c, u)
    BY <1>3
  <2> QED
    BY <1>1, <2>1, <1>4, AskingOlds!Iteration DEF AskingOlds!IsFiniteSet, IsFiniteSet
<1>6. \A it : AskingOlds!Iterates(it, c, u, S) <=> it = Body(it)
  BY <1>2 DEF AskingOlds!Iterates
<1> HIDE DEF Body
<1>7. (CHOOSE it : it = Body(it)) = Body(CHOOSE it : it = Body(it))
  BY <1>5, <1>6, Zenon
<1>8. all = (CHOOSE it : it = Body(it))[S]
  BY Zenon DEF AskAll, FoldSet, MapThenFoldSet, Body, AnyOf
<1> HIDE DEF all
<1>9. AskingFits(c, all)
  BY <1>5, <1>6, <1>7, <1>8
<1> QED
  BY <1>3, <1>9 DEF all

LEMMA OldsChangedFits ==
  ASSUME NEW u, IsRecord(u, Parts), Tidy(u.dlg), Fits(u), Asked(u) = {}, NEW p
  PROVE  LET r == OldsChanged(u, p)
         IN /\ IsRecord(r, Parts) /\ Fits(r) /\ Asked(r) = {}
            /\ r.dlg.nth = u.dlg.nth /\ r.dlg.open = u.dlg.open /\ r.team = u.team
<1> DEFINE moved == {o \in u.dlg.olds : o.proj # p /\ p \in Listed([u EXCEPT !.team = o.team])}
           a == AskAll(u, moved, p)
           again == {[o EXCEPT !.proj = p] : o \in moved}
           olds == (a.dlg.olds \ moved) \cup again
           d == [a.dlg EXCEPT !.olds = olds]
           r == OldsChanged(u, p)
<1>1. IsFiniteSet(moved) /\ moved \subseteq u.dlg.olds
  BY FS_Subset DEF Tidy
<1>2. r = [a EXCEPT !.dlg = d]
  BY Zenon DEF OldsChanged, AskAll
<1> HIDE DEF moved, a
<1>3. /\ IsRecord(a, Parts) /\ Fits(a) /\ Asked(a) = {}
      /\ a.dlg.nth = u.dlg.nth /\ a.dlg.olds = u.dlg.olds
      /\ a.dlg.open = u.dlg.open /\ a.team = u.team
  BY <1>1, AsksFit DEF a
<1>4. \A o \in u.dlg.olds : IsRecord(o, OldFields) /\ o.nth \in Nat /\ o.nth < u.dlg.nth
  BY DEF Fits, Numbered
<1>5. \A o \in olds : IsRecord(o, OldFields) /\ o.nth \in Nat /\ o.nth < u.dlg.nth
  <2>1. ASSUME NEW o \in u.dlg.olds
        PROVE  /\ IsRecord([o EXCEPT !.proj = p], OldFields)
               /\ [o EXCEPT !.proj = p].nth = o.nth
    BY <1>4 DEF IsRecord, OldFields
  <2> QED
    BY <1>1, <1>3, <1>4, <2>1, ZenonT(30)
<1> HIDE DEF again, olds, r
<1>6. IsRecord(a.dlg, DialogFields)
  BY <1>3 DEF Fits, Numbered
<1>7. /\ IsRecord(d, DialogFields) /\ d.olds = olds
      /\ \A y \in DialogFields \ {"olds"} : d[y] = a.dlg[y]
  BY <1>6 DEF IsRecord, DialogFields
<1> HIDE DEF d
<1>8. IsRecord(r, Parts) /\ r.dlg = d /\ \A x \in Parts \ {"dlg"} : r[x] = a[x]
  BY <1>2, <1>3 DEF IsRecord, Parts
<1>9. /\ d.nth = a.dlg.nth /\ d.open = a.dlg.open /\ d.dir = a.dlg.dir /\ d.label = a.dlg.label
      /\ d.list = a.dlg.list /\ d.tree = a.dlg.tree /\ d.type = a.dlg.type /\ d.op = a.dlg.op
      /\ d.chosen = a.dlg.chosen /\ d.proj = a.dlg.proj
  BY <1>7 DEF DialogFields
<1>10. /\ r.net = a.net /\ r.team = a.team /\ r.disk = a.disk /\ r.ops = a.ops
       /\ r.offer = a.offer
  BY <1>8 DEF Parts
<1>11. Numbered(r)
  BY <1>3, <1>5, <1>7, <1>8, <1>9, <1>10 DEF Fits, Numbered
<1>12. Ordered(r)
  BY <1>3, <1>10 DEF Fits, Ordered, Meant, Fresh
<1>13. Quiet(r) <=> Quiet(a)
  BY <1>10 DEF Quiet
<1>14. Offered(r)
  BY <1>3, <1>8, <1>9, <1>10, <1>13 DEF Fits, Offered, Meant
<1>15. Laid(r)
  BY <1>3, <1>8, <1>9, <1>10, <1>13 DEF Fits, Laid
<1>16. Asked(r) = {}
  BY <1>3, <1>8, <1>9, <1>10 DEF Asked
<1>17. Treed(r)
  BY <1>3, <1>8, <1>9, <1>10, <1>16 DEF Fits, Treed
<1>18. /\ IsRecord(r, Parts) /\ Fits(r) /\ Asked(r) = {}
       /\ r.dlg.nth = u.dlg.nth /\ r.dlg.open = u.dlg.open /\ r.team = u.team
  BY <1>3, <1>8, <1>9, <1>10, <1>11, <1>12, <1>14, <1>15, <1>16, <1>17 DEF Fits
<1> QED
  BY <1>18 DEF r

(* The dialog's fields that say nothing of its tree.                       *)
LEMMA FieldFits ==
  ASSUME NEW u, IsRecord(u, Parts), Numbered(u), NEW d, IsRecord(d, DialogFields),
         \A y \in DialogFields \ {"proj", "listed", "asked"} : d[y] = u.dlg[y],
         NEW r, r = [u EXCEPT !.dlg = d]
  PROVE  /\ IsRecord(r, Parts) /\ r.dlg = d /\ \A x \in Parts \ {"dlg"} : r[x] = u[x]
         /\ Numbered(r) /\ (Ordered(u) => Ordered(r)) /\ (Offered(u) => Offered(r))
         /\ (Laid(u) => Laid(r)) /\ Asked(r) = Asked(u)
         /\ (Treed(u) /\ d.proj = u.dlg.proj => Treed(r))
<1>1. IsRecord(r, Parts) /\ r.dlg = d /\ \A x \in Parts \ {"dlg"} : r[x] = u[x]
  BY DEF IsRecord, Parts
<1>2. /\ r.net = u.net /\ r.team = u.team /\ r.disk = u.disk /\ r.ops = u.ops
      /\ r.offer = u.offer
  BY <1>1 DEF Parts
<1>3. /\ d.nth = u.dlg.nth /\ d.open = u.dlg.open /\ d.dir = u.dlg.dir /\ d.label = u.dlg.label
      /\ d.list = u.dlg.list /\ d.tree = u.dlg.tree /\ d.type = u.dlg.type /\ d.op = u.dlg.op
      /\ d.chosen = u.dlg.chosen /\ d.olds = u.dlg.olds
  BY DEF DialogFields
<1>4. Numbered(r)
  BY <1>1, <1>2, <1>3 DEF Numbered
<1>5. Ordered(u) => Ordered(r)
  BY <1>2 DEF Ordered, Meant, Fresh
<1>6. Quiet(r) <=> Quiet(u)
  BY <1>2 DEF Quiet
<1>7. Offered(u) => Offered(r)
  BY <1>1, <1>2, <1>3, <1>6 DEF Offered, Meant
<1>8. Laid(u) => Laid(r)
  BY <1>1, <1>2, <1>3, <1>6 DEF Laid
<1>9. Asked(r) = Asked(u)
  BY <1>1, <1>2, <1>3 DEF Asked
<1>10. Treed(u) /\ d.proj = u.dlg.proj => Treed(r)
  BY <1>1, <1>2, <1>3, <1>9 DEF Treed
<1> QED
  BY <1>1, <1>4, <1>5, <1>7, <1>8, <1>9, <1>10

LEMMA SelectProjectFits ==
  ASSUME NEW u, IsRecord(u, Parts), Tidy(u.dlg), Fits(u), Asked(u) = {}, u.dlg.open,
         NEW p
  PROVE  Fits(SelectProject(u, p))
<1> DEFINE a == OldsChanged(u, p)
           d == [a.dlg EXCEPT !.proj = p]
           b == [a EXCEPT !.dlg = d]
           o == [b.ops EXCEPT !.last = p]
           c == [b EXCEPT !.ops = o]
<1>1. /\ IsRecord(a, Parts) /\ Fits(a) /\ Asked(a) = {}
      /\ a.dlg.nth = u.dlg.nth /\ a.dlg.open = u.dlg.open /\ a.team = u.team
  BY OldsChangedFits
<1>2. SelectProject(u, p) = GetFileTree(c, u.dlg.nth, u.team, p)
  <2>1. c = [OldsChanged(u, p) EXCEPT !.dlg.proj = p, !.ops.last = p]
    OBVIOUS
  <2> HIDE DEF c
  <2> QED
    BY <2>1 DEF SelectProject
<1> HIDE DEF a
<1>3. IsRecord(d, DialogFields) /\ d.proj = p
      /\ \A y \in DialogFields \ {"proj"} : d[y] = a.dlg[y]
  BY <1>1 DEF Fits, Numbered, IsRecord, DialogFields
<1> HIDE DEF d
<1>4. /\ IsRecord(b, Parts) /\ b.dlg = d /\ \A x \in Parts \ {"dlg"} : b[x] = a[x]
      /\ Numbered(b) /\ Ordered(b) /\ Offered(b) /\ Laid(b) /\ Asked(b) = {}
  BY <1>1, <1>3, FieldFits DEF Fits
<1>5. d.nth = a.dlg.nth /\ d.open = a.dlg.open
  BY <1>3 DEF DialogFields
<1> HIDE DEF b
<1>6. IsRecord(o, OpFields) /\ o.sel = b.ops.sel
  BY <1>4 DEF Numbered, IsRecord, OpFields
<1> HIDE DEF o
<1>7. IsRecord(c, Parts) /\ c.ops = o /\ \A x \in Parts \ {"ops"} : c[x] = b[x]
  BY <1>4 DEF IsRecord, Parts
<1> HIDE DEF c
<1>8. /\ c.net = b.net /\ c.team = b.team /\ c.disk = b.disk /\ c.dlg = b.dlg
      /\ c.offer = b.offer /\ b.team = a.team
  BY <1>4, <1>7 DEF Parts
<1>9. Quiet(b) /\ Quiet(c) /\ b.offer.kind \notin {"delete", "again"}
  BY <1>1, <1>4, <1>5, <1>8 DEF Laid, Offered, Quiet
<1>10. Numbered(c)
  BY <1>4, <1>6, <1>7, <1>8 DEF Numbered
<1>11. Ordered(c)
  BY <1>9 DEF Ordered, Quiet
<1>12. Offered(c)
  BY <1>8, <1>9 DEF Offered
<1>13. Laid(c)
  BY <1>4, <1>6, <1>7, <1>8, <1>9 DEF Laid
<1>14. Asked(c) = {}
  BY <1>4, <1>8 DEF Asked
<1>15. c.dlg.nth = u.dlg.nth /\ c.team = u.team /\ c.dlg.proj = p
  BY <1>1, <1>3, <1>4, <1>5, <1>8
<1>16. Fits(GetFileTree(c, c.dlg.nth, c.team, c.dlg.proj))
  BY <1>7, <1>10, <1>11, <1>12, <1>13, <1>14, OwnTreeFits
<1> QED
  BY <1>2, <1>15, <1>16

(* A dialog opens, and closes. *)
LEMMA OpenDialogFits ==
  ASSUME NEW u, IsRecord(u, Parts), Numbered(u), Idle(u), NEW type, NEW op,
         type \in TreeTypes => /\ u.team \notin ReadOnly
                               /\ op \in {"mv", "cp"} => Len(u.ops.sel) = 1
  PROVE  Fits(OpenDialog(u, type, op))
<1> DEFINE d == u.dlg
           old == IF d.listed # None
                  THEN {[nth |-> d.nth, team |-> d.listed, proj |-> d.proj]} ELSE {}
           new == [NoDialog EXCEPT !.open = TRUE, !.nth = d.nth + 1, !.type = type, !.op = op,
                                   !.olds = d.olds \cup old, !.chosen = u.ops.sel]
           m == [kind |-> "plist", nth |-> d.nth + 1, team |-> u.team]
           s == [u EXCEPT !.dlg = new]
           r == IF type \in TreeTypes THEN Ask(s, m) ELSE s
<1>1. OpenDialog(u, type, op) = r
  BY DEF OpenDialog
<1>2. d.nth \in Nat /\ d.nth + 1 \in Nat /\ d.nth < d.nth + 1
  BY DEF Numbered
<1>3. \A o \in d.olds \cup old : IsRecord(o, OldFields) /\ o.nth \in Nat /\ o.nth < d.nth + 1
  <2>1. \A o \in old : IsRecord(o, OldFields) /\ o.nth = d.nth
    BY DEF IsRecord, OldFields
  <2>2. \A o \in d.olds : IsRecord(o, OldFields) /\ o.nth \in Nat /\ o.nth < d.nth
    BY DEF Numbered
  <2>3. \A o \in d.olds : o.nth < d.nth + 1
    BY <1>2, <2>2
  <2> QED
    BY <1>2, <2>1, <2>2, <2>3
<1> HIDE DEF old
<1>4. /\ IsRecord(new, DialogFields) /\ new.open /\ new.nth = d.nth + 1 /\ new.type = type
      /\ new.op = op /\ new.olds = d.olds \cup old /\ new.chosen = u.ops.sel
      /\ new.tree = None /\ new.dir = Top /\ new.label = Top /\ new.list = {}
  BY DEF NoDialog, IsRecord, DialogFields
<1> HIDE DEF new
<1>5. IsRecord(s, Parts) /\ s.dlg = new /\ \A x \in Parts \ {"dlg"} : s[x] = u[x]
  BY DEF IsRecord, Parts
<1> HIDE DEF s
<1>6. /\ s.net = u.net /\ s.team = u.team /\ s.disk = u.disk /\ s.ops = u.ops
      /\ s.offer = u.offer
  BY <1>5 DEF Parts
<1>7. Numbered(s)
  <2>1. \A n \in u.net : n.kind \in DialogKinds => n.nth \in Nat /\ n.nth <= d.nth + 1
    <3>1. \A n \in u.net : n.kind \in DialogKinds => n.nth \in Nat /\ n.nth <= d.nth
      BY DEF Numbered
    <3> QED
      BY <1>2, <3>1
  <2> QED
    BY <1>2, <1>3, <1>4, <1>5, <1>6, <2>1 DEF Numbered
<1>8. Quiet(s) /\ s.offer.kind \notin {"delete", "again"}
  BY <1>6 DEF Idle, Quiet
<1>9. Ordered(s) /\ Offered(s)
  BY <1>8 DEF Ordered, Quiet, Offered
<1>10. Laid(s)
  <2>1. NamesIn(None, Top) = {}
    BY DEF NamesIn
  <2> QED
    BY <1>4, <1>5, <1>6, <1>8, <2>1 DEF Laid
<1>11. Asked(s) = {}
  <2>1. \A n \in u.net : n.kind \in DialogKinds => n.nth \in Nat /\ n.nth <= d.nth
    BY DEF Numbered
  <2>2. \A n \in u.net : n.kind \in DialogKinds => n.nth # d.nth + 1
    BY <1>2, <2>1
  <2> QED
    BY <1>4, <1>5, <1>6, <2>2 DEF Asked
<1>12. CASE type \notin TreeTypes
  <2>1. Treed(s)
    BY <1>4, <1>5, <1>11 DEF Treed
  <2> QED
    BY <1>1, <1>7, <1>9, <1>10, <1>12, <2>1 DEF Fits
<1>13. CASE type \in TreeTypes
  <2>1. /\ m.kind \in DialogKinds /\ m.nth \in Nat /\ m.nth = s.dlg.nth /\ m.nth <= s.dlg.nth
        /\ m.team = u.team /\ m.kind # "tree"
    BY <1>2, <1>4, <1>5 DEF DialogKinds
  <2> HIDE DEF m
  <2>2. r = Ask(s, m)
    BY <1>13
  <2> HIDE DEF r
  <2>3. /\ IsRecord(r, Parts) /\ \A x \in Parts \ {"net"} : r[x] = s[x]
        /\ Numbered(r) /\ Ordered(r) /\ Offered(r) /\ Laid(r) /\ Asked(r) = {m}
    BY <1>5, <1>7, <1>9, <1>10, <1>11, <2>1, <2>2, AskedFits
  <2>4. r.dlg = s.dlg /\ r.team = s.team
    BY <2>3 DEF Parts
  <2>5. Treed(r)
    BY <1>4, <1>5, <1>6, <2>1, <2>3, <2>4 DEF Treed
  <2> QED
    BY <1>1, <2>3, <2>5 DEF Fits
<1> QED
  BY <1>12, <1>13

LEMMA HideFits ==
  ASSUME NEW u, IsRecord(u, Parts), Numbered(u), Ordered(u), Offered(u)
  PROVE  Fits(Hide(u))
<1> DEFINE d == [NoDialog EXCEPT !.nth = u.dlg.nth, !.listed = u.dlg.listed,
                                 !.proj = u.dlg.proj, !.olds = u.dlg.olds]
           r == Hide(u)
<1>1. IsRecord(d, DialogFields) /\ ~d.open /\ d.olds = u.dlg.olds /\ d.nth = u.dlg.nth
  BY DEF NoDialog, IsRecord, DialogFields
<1>2. r = [u EXCEPT !.dlg = d]
  BY DEF Hide
<1> HIDE DEF d, r
<1>3. IsRecord(r, Parts) /\ r.dlg = d /\ \A x \in Parts \ {"dlg"} : r[x] = u[x]
  BY <1>2 DEF IsRecord, Parts
<1>4. /\ r.net = u.net /\ r.team = u.team /\ r.disk = u.disk /\ r.ops = u.ops
      /\ r.offer = u.offer
  BY <1>3 DEF Parts
<1>5. Numbered(r)
  BY <1>1, <1>3, <1>4 DEF Numbered
<1>6. Ordered(r)
  BY <1>4 DEF Ordered, Meant, Fresh
<1>7. Offered(r)
  BY <1>1, <1>3, <1>4 DEF Offered, Meant, Quiet
<1>8. Laid(r) /\ Treed(r)
  BY <1>1, <1>3 DEF Laid, Treed
<1>9. Fits(r)
  BY <1>5, <1>6, <1>7, <1>8 DEF Fits
<1> QED
  BY <1>9 DEF r

(* One operation is asked for. *)
LEMMA OpFits ==
  ASSUME NEW u, IsRecord(u, Parts), Numbered(u), Quiet(u),
         u.offer.kind \notin {"delete", "again"},
         NEW m, m.kind \in OpKinds,
         m.kind # "project" => /\ Meant(m, u) /\ m.team = u.team /\ u.team \notin ReadOnly
                               /\ Fresh(m, u)
  PROVE  LET r == Ask(u, m)
         IN /\ IsRecord(r, Parts) /\ \A x \in Parts \ {"net"} : r[x] = u[x]
            /\ Numbered(r) /\ Ordered(r) /\ Offered(r)
<1> DEFINE r == Ask(u, m)
<1>1. /\ IsRecord(r, Parts) /\ r.net = u.net \cup {m}
      /\ \A x \in Parts \ {"net"} : r[x] = u[x]
  BY AskIs DEF Sets
<1> HIDE DEF r
<1>2. /\ r.team = u.team /\ r.disk = u.disk /\ r.ops = u.ops /\ r.offer = u.offer
      /\ r.dlg = u.dlg
  BY <1>1 DEF Parts
<1>3. Numbered(r)
  <2>1. m.kind \notin DialogKinds
    BY DEF OpKinds, DialogKinds
  <2> QED
    BY <1>1, <1>2, <2>1 DEF Numbered
<1>4. Ordered(r)
  BY <1>1, <1>2 DEF Ordered, Quiet, Meant, Fresh
<1>5. Offered(r)
  BY <1>2 DEF Offered
<1>6. /\ IsRecord(r, Parts) /\ (\A x \in Parts \ {"net"} : r[x] = u[x])
      /\ Numbered(r) /\ Ordered(r) /\ Offered(r)
  BY <1>1, <1>3, <1>4, <1>5
<1> QED
  BY <1>6 DEF r

LEMMA SayFits ==
  ASSUME NEW u, IsRecord(u, Parts)
  PROVE  LET r == Say(u)
         IN /\ IsRecord(r, Parts) /\ r.offer = NoOffer /\ \A x \in Parts \ {"offer"} : r[x] = u[x]
            /\ Same(r, u) /\ r.offer.kind \notin {"delete", "again"}
            /\ (Numbered(u) => Numbered(r)) /\ (Ordered(u) => Ordered(r))
            /\ (Quiet(u) => Quiet(r)) /\ Offered(r)
            /\ (Fits(u) => Fits(r))
<1> DEFINE r == Say(u)
<1>1. /\ IsRecord(r, Parts) /\ r.offer = NoOffer
      /\ \A x \in Parts \ {"offer"} : r[x] = u[x]
  BY OfferIs DEF Sets
<1> HIDE DEF r
<1>2. /\ r.team = u.team /\ r.disk = u.disk /\ r.ops = u.ops /\ r.net = u.net
      /\ r.dlg = u.dlg
  BY <1>1 DEF Parts
<1>3. r.offer.kind \notin {"delete", "again"}
  BY <1>1 DEF NoOffer
<1>4. Same(r, u)
  BY <1>2, <1>3 DEF Same
<1>5. /\ (Numbered(u) => Numbered(r)) /\ (Ordered(u) => Ordered(r))
      /\ (Quiet(u) => Quiet(r)) /\ Offered(r)
  BY <1>2, <1>3 DEF Numbered, Ordered, Meant, Fresh, Quiet, Offered
<1>6. Fits(u) => Fits(r)
  BY <1>4, FitsSame
<1>7. /\ IsRecord(r, Parts) /\ r.offer = NoOffer /\ (\A x \in Parts \ {"offer"} : r[x] = u[x])
      /\ Same(r, u) /\ r.offer.kind \notin {"delete", "again"}
      /\ (Numbered(u) => Numbered(r)) /\ (Ordered(u) => Ordered(r))
      /\ (Quiet(u) => Quiet(r)) /\ Offered(r) /\ (Fits(u) => Fits(r))
  BY <1>1, <1>3, <1>4, <1>5, <1>6
<1> QED
  BY <1>7 DEF r

(* What the operation is about is what is selected, and what was meant.    *)
Means(u, op, p, place, seen) ==
    /\ u.team \notin ReadOnly /\ IsRecord(seen, SeenFields)
    /\ op # "mkdir" => seen.chosen = ToSet(u.ops.sel) /\ seen.project = u.ops.proj
    /\ op = "mkdir" => seen.project = p
    /\ op \in {"mv", "cp"} => Len(u.ops.sel) = 1
    /\ op \in Placing => /\ place[1] = seen.dir
                         /\ ~seen.again => place \notin u.disk[u.team][seen.project]

LEMMA PerformFits ==
  ASSUME NEW u, IsRecord(u, Parts), Numbered(u), Quiet(u),
         u.offer.kind \notin {"delete", "again"},
         NEW op \in Ops, NEW p, NEW place, NEW seen, Means(u, op, p, place, seen)
  PROVE  LET r == Perform(u, op, p, place, seen)
         IN /\ IsRecord(r, Parts) /\ \A x \in Parts \ {"net", "offer"} : r[x] = u[x]
            /\ Numbered(r) /\ Ordered(r) /\ Offered(r)
<1> DEFINE Good(r) == /\ IsRecord(r, Parts) /\ \A x \in Parts \ {"net", "offer"} : r[x] = u[x]
                      /\ Numbered(r) /\ Ordered(r) /\ Offered(r)
           sel == u.ops.sel
           srcs == IF op \in {"mv", "cp"} THEN {sel[1]} ELSE IF op = "mkdir" THEN {} ELSE ToSet(sel)
           proj == IF op = "mkdir" THEN p ELSE u.ops.proj
           spot == IF op \in Placing THEN place ELSE None
           m == Op(u, op, srcs, proj, spot, seen)
<1>1. Good(u)
  BY DEF Ordered, Quiet, Offered
<1>2. sel \in Seq(Dirs \X Names)
  BY DEF Numbered
<1>3. Len(sel) = 1 => sel # <<>> /\ {sel[1]} = ToSet(sel)
  BY <1>2 DEF ToSet
<1>4. op # "mkdir" => srcs = ToSet(sel)
  BY <1>3 DEF Means
<1>5. /\ m.kind = "files" /\ m.op = op /\ m.team = u.team /\ m.project = proj /\ m.srcs = srcs
      /\ m.place = spot /\ m.seen = seen
  BY DEF Op
<1> HIDE DEF srcs, proj, spot, m
<1>6. m.kind # "project" => Meant(m, u) /\ m.team = u.team /\ u.team \notin ReadOnly
                            /\ Fresh(m, u)
  <2>1. proj = seen.project
    BY DEF Means, proj
  <2>2. op # "mkdir" => proj = u.ops.proj
    BY DEF proj
  <2>3. op \in Placing => spot = place
    BY DEF spot
  <2>4. Meant(m, u)
    BY <1>4, <1>5, <2>1, <2>2, <2>3 DEF Meant, Means, sel
  <2>5. Fresh(m, u)
    BY <1>5, <2>1, <2>3 DEF Fresh, Means
  <2> QED
    BY <1>5, <2>4, <2>5 DEF Means
<1>7. m.kind \in OpKinds
  BY <1>5 DEF OpKinds
<1>8. Good(Ask(u, m))
  <2> DEFINE r == Ask(u, m)
  <2>1. /\ IsRecord(r, Parts) /\ \A x \in Parts \ {"net"} : r[x] = u[x]
        /\ Numbered(r) /\ Ordered(r) /\ Offered(r)
    BY <1>6, <1>7, OpFits
  <2> QED
    BY <2>1
<1>9. Good(Say(u)) /\ Good(Ask(Say(u), m))
  <2> DEFINE s == Say(u)
             r == Ask(s, m)
  <2>1. /\ IsRecord(s, Parts) /\ (\A x \in Parts \ {"offer"} : s[x] = u[x])
        /\ Same(s, u) /\ s.offer.kind \notin {"delete", "again"} /\ Numbered(s) /\ Quiet(s)
        /\ Offered(s)
    BY SayFits
  <2> HIDE DEF s
  <2>2. Ordered(s)
    BY <2>1 DEF Ordered, Quiet
  <2>3. m.kind # "project" => Meant(m, s) /\ m.team = s.team /\ s.team \notin ReadOnly
                              /\ Fresh(m, s)
    BY <1>6, <2>1 DEF Same, Meant, Fresh
  <2>4. /\ IsRecord(r, Parts) /\ \A x \in Parts \ {"net"} : r[x] = s[x]
        /\ Numbered(r) /\ Ordered(r) /\ Offered(r)
    BY <1>7, <2>1, <2>3, OpFits
  <2> HIDE DEF r
  <2>5. Good(s) /\ Good(r)
    BY <2>1, <2>2, <2>4
  <2> QED
    BY <2>5 DEF s, r
<1>10. Perform(u, op, p, place, seen) \in {u, Say(u), Ask(u, m), Ask(Say(u), m)}
  <2>1. CASE op = "mv"
    <3>1. m = Op(u, "mv", {sel[1]}, u.ops.proj, place, seen)
      BY <2>1 DEF m, srcs, proj, spot, Placing
    <3> HIDE DEF m
    <3> QED
      BY <2>1, <3>1 DEF Perform, Move
  <2>2. CASE op = "cp"
    <3>1. m = Op(u, "cp", {sel[1]}, u.ops.proj, place, seen)
      BY <2>2 DEF m, srcs, proj, spot, Placing
    <3> HIDE DEF m
    <3> QED
      BY <2>2, <3>1 DEF Perform, Copy
  <2>3. CASE op = "mkdir"
    <3>1. m = Op(u, "mkdir", {}, p, place, seen)
      BY <2>3 DEF m, srcs, proj, spot, Placing
    <3> HIDE DEF m
    <3> QED
      BY <2>3, <3>1 DEF Perform, NewFolder
  <2>4. CASE op = "del"
    <3>1. m = Op(u, "del", ToSet(sel), u.ops.proj, None, seen)
      BY <2>4 DEF m, srcs, proj, spot, Placing
    <3> HIDE DEF m
    <3> QED
      BY <2>4, <3>1 DEF Perform, RemoveFiles
  <2>5. CASE op = "co"
    <3>1. m = Op(u, "co", ToSet(sel), u.ops.proj, None, seen)
      BY <2>5 DEF m, srcs, proj, spot, Placing
    <3> HIDE DEF m
    <3> QED
      BY <2>5, <3>1 DEF Perform, Undelete
  <2> QED
    BY <2>1, <2>2, <2>3, <2>4, <2>5 DEF Ops
<1>11. Good(Perform(u, op, p, place, seen))
  <2> HIDE DEF Good, m
  <2> QED
    BY <1>1, <1>8, <1>9, <1>10
<1> QED
  BY <1>11

-----------------------------------------------------------------------------
(* What the operators of the search make of its page.                      *)

(* What adds to the results, and what clears them. *)
LEMMA BagAdded ==
  ASSUME NEW b, NEW xs
  PROVE  /\ DOMAIN (b (+) SetToBag(xs)) = DOMAIN b \cup xs
         /\ \A e \in xs \ DOMAIN b : (b (+) SetToBag(xs))[e] = 1
         /\ \A e \in DOMAIN b \ xs : b[e] = 1 => (b (+) SetToBag(xs))[e] = 1
BY DEF (+), SetToBag

Others(v, s, f) == IsRecord(v, SearchFields) /\ \A g \in SearchFields \ {f} : v[g] = s[g]

LEMMA AddResultsIs ==
  ASSUME NEW u, IsRecord(u, Parts), IsRecord(u.search, SearchFields), NEW section, NEW xs, NEW q
  PROVE  LET r == AddResults(u, section, xs, q)
         IN /\ IsRecord(r, Parts) /\ \A x \in Parts \ {"search"} : r[x] = u[x]
            /\ Others(r.search, u.search, "results")
            /\ r.search.results = u.search.results (+) SetToBag({Result(section, x, q) : x \in xs})
<1> DEFINE b == u.search.results (+) SetToBag({Result(section, x, q) : x \in xs})
           v == [u.search EXCEPT !.results = b]
<1>1. AddResults(u, section, xs, q) = [u EXCEPT !.search = v]
  BY DEF AddResults
<1> HIDE DEF b
<1>2. Others(v, u.search, "results") /\ v.results = b
  BY DEF Others, IsRecord, SearchFields
<1> HIDE DEF v
<1>3. Sets([u EXCEPT !.search = v], u, "search", v)
  BY PartIs DEF Parts
<1> QED
  BY <1>1, <1>2, <1>3 DEF Sets, b

LEMMA ClearResultsIs ==
  ASSUME NEW u, IsRecord(u, Parts), IsRecord(u.search, SearchFields)
  PROVE  LET r == ClearResults(u)
         IN /\ IsRecord(r, Parts) /\ \A x \in Parts \ {"search"} : r[x] = u[x]
            /\ IsRecord(r.search, SearchFields) /\ r.search.results = EmptyBag
            /\ r.search.cleared
            /\ \A g \in SearchFields \ {"results", "cleared"} : r.search[g] = u.search[g]
<1> DEFINE v == [[u.search EXCEPT !.results = EmptyBag] EXCEPT !.cleared = TRUE]
<1>1. ClearResults(u) = [u EXCEPT !.search = v]
  BY DEF ClearResults, IsRecord, Parts
<1>2. /\ IsRecord(v, SearchFields) /\ v.results = EmptyBag /\ v.cleared
      /\ \A g \in SearchFields \ {"results", "cleared"} : v[g] = u.search[g]
  BY DEF IsRecord, SearchFields
<1> HIDE DEF v
<1>3. Sets([u EXCEPT !.search = v], u, "search", v)
  BY PartIs DEF Parts
<1> QED
  BY <1>1, <1>2, <1>3 DEF Sets

LEMMA CancelSearchesIs ==
  ASSUME NEW u, IsRecord(u, Parts), IsRecord(u.search, SearchFields)
  PROVE  LET r == CancelSearches(u)
         IN /\ IsRecord(r, Parts) /\ \A x \in Parts \ {"search"} : r[x] = u[x]
            /\ IsRecord(r.search, SearchFields)
<1> DEFINE v == [u.search EXCEPT !.cancelled = TRUE, !.async = FALSE, !.query = None, !.local = {}]
<1>1. CancelSearches(u) = IF ~u.search.async THEN u ELSE [u EXCEPT !.search = v]
  BY DEF CancelSearches
<1>2. IsRecord(v, SearchFields)
  BY DEF IsRecord, SearchFields
<1> HIDE DEF v
<1>3. Sets([u EXCEPT !.search = v], u, "search", v)
  BY PartIs DEF Parts
<1> QED
  BY <1>1, <1>2, <1>3 DEF Sets

(* A search that begins: what it asks for, and what it shows at once.      *)
LEMMA SearchForIs ==
  ASSUME Whole(win), IsRecord(win.search, SearchFields), NEW q
  PROVE  LET r == SearchFor(win, q)
             open == {f \in OpenFiles(win) : Matches(win, f, q)}
         IN /\ IsRecord(r.search, SearchFields)
            /\ r.search.query = q /\ r.search.lost = {} /\ ~r.search.cancelled /\ ~r.search.cleared
            /\ (r.search.async <=> Listed(win) # {}) /\ r.search.local = OpenFiles(win)
            /\ r.search.results = (EmptyBag (+) SetToBag({Result("contents", x, q) : x \in open}))
                                   (+) SetToBag({Result("projects", x, q) :
                                                    x \in {p \in Listed(win) : q \in Named[p]}})
            /\ r.team = win.team /\ \A t : IsOpen(r, t) <=> IsOpen(win, t)
            /\ \A m \in r.net : m \in win.net
                  \/ \E k \in SearchKinds, p \in Listed(win) : \E n :
                        m = [kind |-> k, team |-> win.team, project |-> p, query |-> q,
                             nth |-> n, again |-> FALSE]
            /\ \A k \in SearchKinds, p \in Listed(win) : Sought(r, k, p)
            /\ \A m, n \in r.net : m \in win.net \/ n \in win.net \/ m.kind # n.kind
                                   \/ m.project # n.project \/ m = n
<1> DEFINE nth == win.search.nth + 1
           late == CancelSearches(win)
           clear == ClearResults(late)
           v == [clear.search EXCEPT !.query = q, !.nth = nth, !.lost = {},
                                     !.cancelled = FALSE, !.cleared = FALSE,
                                     !.async = Listed(win) # {}, !.local = OpenFiles(win)]
           new == [clear EXCEPT !.search = v]
           more == {SearchAsk(new, a[1], a[2], FALSE) : a \in {"contents", "names"} \X Listed(win)}
           asked == [new EXCEPT !.net = @ \cup more]
           open == {f \in OpenFiles(win) : Matches(win, f, q)}
           named == {p \in Listed(win) : q \in Named[p]}
           local == AddResults(asked, "contents", open, q)
           r == AddResults(local, "projects", named, q)
<1>1. SearchFor(win, q) = r
  BY Zenon DEF SearchFor
<1>2. IsRecord(win, Parts)
  BY DEF Whole, Base
<1>3. /\ IsRecord(late, Parts) /\ \A x \in Parts \ {"search"} : late[x] = win[x]
      /\ IsRecord(late.search, SearchFields)
  BY <1>2, CancelSearchesIs
<1> HIDE DEF late
<1>4. /\ IsRecord(clear, Parts) /\ \A x \in Parts \ {"search"} : clear[x] = win[x]
      /\ IsRecord(clear.search, SearchFields) /\ clear.search.results = EmptyBag
  BY <1>3, ClearResultsIs
<1> HIDE DEF clear, nth
<1>5. /\ IsRecord(v, SearchFields) /\ v.query = q /\ v.nth = nth /\ v.lost = {}
      /\ v.cancelled = FALSE /\ v.cleared = FALSE /\ v.async = (Listed(win) # {})
      /\ v.local = OpenFiles(win) /\ v.results = EmptyBag
  <2> DEFINE some == Listed(win) # {}
  <2> HIDE DEF some
  <2> QED
    BY <1>4 DEF IsRecord, SearchFields
<1> HIDE DEF v
<1>6. Sets(new, clear, "search", v)
  BY <1>4, PartIs DEF Parts
<1> HIDE DEF new
<1>7. /\ new.search = v /\ new.team = win.team /\ new.net = win.net /\ new.tabs = win.tabs
      /\ IsRecord(new, Parts)
  BY <1>4, <1>6 DEF Sets, Parts
<1>8. more = {[kind |-> a[1], team |-> win.team, project |-> a[2], query |-> q,
               nth |-> nth, again |-> FALSE] : a \in SearchKinds \X Listed(win)}
  BY <1>5, <1>7 DEF SearchAsk, SearchKinds
<1> HIDE DEF more
<1>9. /\ IsRecord(asked, Parts) /\ asked.search = v /\ asked.team = win.team
      /\ asked.tabs = win.tabs /\ asked.net = win.net \cup more
  BY <1>7 DEF IsRecord, Parts
<1> HIDE DEF asked, open, named
<1>10. /\ IsRecord(local, Parts) /\ \A x \in Parts \ {"search"} : local[x] = asked[x]
       /\ Others(local.search, v, "results")
       /\ local.search.results = EmptyBag (+) SetToBag({Result("contents", x, q) : x \in open})
  BY <1>5, <1>9, AddResultsIs
<1> HIDE DEF local
<1>11. /\ IsRecord(r, Parts) /\ \A x \in Parts \ {"search"} : r[x] = local[x]
       /\ Others(r.search, local.search, "results")
       /\ r.search.results = local.search.results
                             (+) SetToBag({Result("projects", x, q) : x \in named})
  BY <1>10, AddResultsIs DEF Others
<1> HIDE DEF r
<1>12. /\ IsRecord(r.search, SearchFields)
       /\ r.search.query = q /\ r.search.lost = {} /\ ~r.search.cancelled /\ ~r.search.cleared
       /\ (r.search.async <=> Listed(win) # {}) /\ r.search.local = OpenFiles(win)
  <2>1. \A g \in SearchFields \ {"results"} : r.search[g] = v[g]
    BY <1>10, <1>11 DEF Others
  <2>2. /\ r.search.query = v.query /\ r.search.lost = v.lost
        /\ r.search.cancelled = v.cancelled /\ r.search.cleared = v.cleared
        /\ r.search.async = v.async /\ r.search.local = v.local
    BY <2>1 DEF SearchFields
  <2> QED
    BY <1>5, <1>11, <2>2 DEF Others
<1>13. r.team = win.team /\ r.net = win.net \cup more /\ r.tabs = win.tabs
  BY <1>9, <1>10, <1>11 DEF Parts
<1>14. \A t : IsOpen(r, t) <=> IsOpen(win, t)
  BY <1>13 DEF IsOpen
<1>15. \A m \in more : \E k \in SearchKinds, p \in Listed(win) :
          m = [kind |-> k, team |-> win.team, project |-> p, query |-> q,
               nth |-> nth, again |-> FALSE]
  BY <1>8
<1>16. \A k \in SearchKinds, p \in Listed(win) : Sought(r, k, p)
  <2> SUFFICES ASSUME NEW k \in SearchKinds, NEW p \in Listed(win) PROVE Sought(r, k, p)
    OBVIOUS
  <2> DEFINE m == [kind |-> k, team |-> win.team, project |-> p, query |-> q,
                   nth |-> nth, again |-> FALSE]
  <2>1. m \in more
    <3>1. <<k, p>> \in SearchKinds \X Listed(win) /\ <<k, p>>[1] = k /\ <<k, p>>[2] = p
      OBVIOUS
    <3> QED
      BY <1>8, <3>1
  <2>2. m.kind = k /\ m.project = p
    OBVIOUS
  <2> QED
    BY <1>13, <2>1, <2>2 DEF Sought, Seeks
<1>17. \A m, n \in more : m.kind = n.kind /\ m.project = n.project => m = n
  <2> SUFFICES ASSUME NEW m \in more, NEW n \in more, m.kind = n.kind, m.project = n.project
               PROVE  m = n
    OBVIOUS
  <2>1. PICK k \in SearchKinds, p \in Listed(win) :
           m = [kind |-> k, team |-> win.team, project |-> p, query |-> q, nth |-> nth, again |-> FALSE]
    BY <1>15
  <2>2. PICK l \in SearchKinds, o \in Listed(win) :
           n = [kind |-> l, team |-> win.team, project |-> o, query |-> q, nth |-> nth, again |-> FALSE]
    BY <1>15
  <2>3. k = l /\ p = o
    BY <2>1, <2>2
  <2> QED
    BY <2>1, <2>2, <2>3
<1>18. \A m \in r.net : m \in win.net
                  \/ \E k \in SearchKinds, p \in Listed(win) : \E n :
                        m = [kind |-> k, team |-> win.team, project |-> p, query |-> q,
                             nth |-> n, again |-> FALSE]
  BY <1>13, <1>15
<1>19. \A m, n \in r.net : m \in win.net \/ n \in win.net \/ m.kind # n.kind
                                   \/ m.project # n.project \/ m = n
  BY <1>13, <1>17
<1>20. r.search.results = (EmptyBag (+) SetToBag({Result("contents", x, q) : x \in open}))
                                   (+) SetToBag({Result("projects", x, q) : x \in named})
  BY <1>10, <1>11
<1> QED
  BY <1>1, <1>12, <1>13, <1>14, <1>16, <1>18, <1>19, <1>20, Zenon DEF open, named

(* The files that match, of the project that was asked about. *)
Finds(m, s, k, t, p) ==
    IF k = "contents" THEN {f \in Trees[t][p] \ s.local : m.query \in Words[f]}
    ELSE {f \in Trees[t][p] : s.query \in Named[f]}

LEMMA TakenFinds ==
  ASSUME NEW u, Searched(u), NEW m \in u.net, Seeks(m), u.team \in Teams,
         NEW r, r.net = u.net \ {m}, r.team = u.team, Others(r.search, u.search, "results"),
         r.search.results = u.search.results
             (+) SetToBag({Result(m.kind, x, u.search.query) :
                              x \in Finds(m, u.search, m.kind, u.team, m.project)})
  PROVE  Searched(r)
<1> DEFINE s == u.search
           z == r.search
           k == m.kind
           o == m.project
           xs == Finds(m, s, k, u.team, o)
           new == {Result(k, x, s.query) : x \in xs}
<1>1. /\ z.query = s.query /\ z.lost = s.lost /\ z.local = s.local
      /\ z.results = s.results (+) SetToBag(new)
  BY DEF Others, SearchFields
<1>2. AskedFor(u, s) /\ Unmixed(u, s) /\ Full(u, s)
  BY DEF Searched
<1>3. /\ m.team = u.team /\ m.query = s.query /\ o \in Listed(u)
      /\ \A n \in u.net : Seeks(n) /\ n.kind = k /\ n.project = o => n = m
  BY <1>2 DEF AskedFor
<1>4. /\ Listed(r) = Listed(u) /\ Listed(u) \subseteq Projects
      /\ \A l, p : Sought(r, l, p) => Sought(u, l, p)
      /\ \A l, p : Sought(u, l, p) => Sought(r, l, p) \/ (l = k /\ p = o)
      /\ ~Sought(r, k, o) /\ Sought(u, k, o)
  BY <1>3 DEF Listed, Sought
<1>5. /\ xs \subseteq Trees[u.team][o] /\ k \in {"contents", "names"}
      /\ k = "contents" => xs = {f \in Trees[u.team][o] \ s.local : s.query \in Words[f]}
                           /\ xs \cap s.local = {}
      /\ k = "names" => xs = {f \in Trees[u.team][o] : s.query \in Named[f]}
  BY <1>3 DEF Finds, Seeks, SearchKinds
<1>6. \A e \in new : e.section = k /\ e.query = s.query /\ e.item \in xs
  BY DEF Result
<1>7. \A x \in xs : Result(k, x, s.query) \in new
  OBVIOUS
<1> HIDE DEF new, xs
<1>8. new \cap DOMAIN s.results = {}
  <2> SUFFICES ASSUME NEW e \in new, e \in DOMAIN s.results PROVE FALSE
    OBVIOUS
  <2>1. Come(u, k, e.item)
    BY <1>2, <1>5, <1>6 DEF Unmixed
  <2> QED
    BY <1>3, <1>4, <1>5, <1>6, <2>1 DEF Come
<1>9. /\ DOMAIN z.results = DOMAIN s.results \cup new
      /\ \A e \in new : z.results[e] = 1
      /\ \A e \in DOMAIN s.results : z.results[e] = 1
  <2>1. \A e \in DOMAIN s.results : s.results[e] = 1
    BY <1>2 DEF Unmixed
  <2> DEFINE b == s.results
             c == b (+) SetToBag(new)
  <2>2. /\ DOMAIN c = DOMAIN b \cup new
        /\ \A e \in new \ DOMAIN b : c[e] = 1
        /\ \A e \in DOMAIN b \ new : b[e] = 1 => c[e] = 1
    BY BagAdded
  <2>3. z.results = c
    BY <1>1
  <2> HIDE DEF c
  <2> QED
    BY <1>8, <2>1, <2>2, <2>3
<1>10. \A l, x : Come(u, l, x) => Come(r, l, x)
  BY <1>4 DEF Come
<1>11. \A x \in xs : Come(r, k, x)
  BY <1>4, <1>3, <1>5, SearchAssumption DEF Come
<1>12. AskedFor(r, z)
  BY <1>1, <1>2, <1>4 DEF AskedFor
<1>13. Unmixed(r, z)
  <2>1. ASSUME NEW e \in DOMAIN s.results
        PROVE  /\ e.query = z.query /\ z.results[e] = 1
               /\ e.section = "contents" /\ e.item \notin z.local => Come(r, "contents", e.item)
               /\ e.section = "names" => Come(r, "names", e.item)
    BY <1>1, <1>2, <1>9, <1>10 DEF Unmixed
  <2>2. ASSUME NEW e \in new
        PROVE  /\ e.query = z.query /\ z.results[e] = 1
               /\ e.section = "contents" => Come(r, "contents", e.item)
               /\ e.section = "names" => Come(r, "names", e.item)
    BY <1>1, <1>6, <1>9, <1>11
  <2> QED
    BY <1>9, <2>1, <2>2 DEF Unmixed
<1>14. Full(r, z)
  <2>1. \A section, ys : Lists(s, section, ys) => Lists(z, section, ys)
    BY <1>1, <1>9 DEF Lists
  <2>2. Lists(z, k, xs)
    BY <1>1, <1>7, <1>9 DEF Lists
  <2>3. \A l, p : Missing(u, s, l, p) => Missing(r, z, l, p) \/ (l = k /\ p = o)
    BY <1>1, <1>4 DEF Missing
  <2> SUFFICES ASSUME NEW p \in Listed(r)
               PROVE  /\ Lists(z, "projects", {x \in {p} : z.query \in Named[x]})
                      /\ Missing(r, z, "names", p)
                         \/ Lists(z, "names", {f \in Trees[r.team][p] : z.query \in Named[f]})
                      /\ Missing(r, z, "contents", p)
                         \/ Lists(z, "contents",
                                  {f \in Trees[r.team][p] \ z.local : z.query \in Words[f]})
    BY DEF Full
  <2>4. /\ Lists(s, "projects", {x \in {p} : s.query \in Named[x]})
        /\ Missing(u, s, "names", p)
           \/ Lists(s, "names", {f \in Trees[u.team][p] : s.query \in Named[f]})
        /\ Missing(u, s, "contents", p)
           \/ Lists(s, "contents", {f \in Trees[u.team][p] \ s.local : s.query \in Words[f]})
    BY <1>2, <1>4 DEF Full
  <2>5. Missing(r, z, "names", p)
        \/ Lists(z, "names", {f \in Trees[u.team][p] : s.query \in Named[f]})
    BY <1>5, <2>1, <2>2, <2>3, <2>4
  <2>6. Missing(r, z, "contents", p)
        \/ Lists(z, "contents", {f \in Trees[u.team][p] \ s.local : s.query \in Words[f]})
    BY <1>5, <2>1, <2>2, <2>3, <2>4
  <2> QED
    BY <1>1, <2>1, <2>4, <2>5, <2>6
<1> QED
  BY <1>12, <1>13, <1>14 DEF Searched

(* A request that failed is sent again, once. *)
LEMMA AgainIs ==
  ASSUME NEW w, NEW k, NEW p, NEW again, NEW nth
  PROVE  [SearchAsk(w, k, p, again) EXCEPT !.nth = nth]
           = [kind |-> k, team |-> w.team, project |-> p, query |-> w.search.query,
              nth |-> nth, again |-> again]
BY DEF SearchAsk

(* Results that are cleared. *)
LEMMA ClearSeeks ==
  ASSUME NEW u, IsRecord(u, Parts) PROVE Seeking(ClearResults(u), u)
<1> DEFINE r == ClearResults(u)
<1> SUFFICES ASSUME NEW rc, SearchIn(u, rc) PROVE SearchIn(r, rc)
  BY DEF Seeking
<1>1. Placed(u) /\ IsRecord(u.search, SearchFields)
  BY DEF SearchIn, Placed
<1>2. /\ IsRecord(r, Parts) /\ \A x \in Parts \ {"search"} : r[x] = u[x]
      /\ IsRecord(r.search, SearchFields) /\ r.search.results = EmptyBag /\ r.search.cleared
      /\ \A g \in SearchFields \ {"results", "cleared"} : r.search[g] = u.search[g]
  BY <1>1, ClearResultsIs
<1> HIDE DEF r
<1>3. /\ r.net = u.net /\ r.team = u.team /\ r.tabs = u.tabs
      /\ r.search.async = u.search.async /\ r.search.cancelled = u.search.cancelled
  BY <1>2 DEF Parts, SearchFields
<1>4. \A t : IsOpen(r, t) <=> IsOpen(u, t)
  BY <1>3 DEF IsOpen
<1>5. DOMAIN r.search.results = {}
  BY <1>2 DEF EmptyBag, SetToBag
<1>6. Placed(r) /\ (Hushed(u) => Hushed(r))
  BY <1>1, <1>2, <1>3, <1>4, <1>5 DEF Placed, Hushed
<1> QED
  BY <1>2, <1>6 DEF SearchIn

=============================================================================
