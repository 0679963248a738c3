---------------------------- MODULE EditTabsProofs ----------------------------
(***************************************************************************)
(* Proofs about EditTabs for any number of tabs, texts, versions and       *)
(* requests: the types; and, while the user waits for the load and the     *)
(* save of a tab before leaving or changing it, that the editor shows the  *)
(* tab in front, no typed text is lost, and a tab that says it is saved    *)
(* is.                                                                     *)
(***************************************************************************)
EXTENDS EditTabs, TLAPS, FiniteSetTheorems

-----------------------------------------------------------------------------
(* Types *)

(* TypeOK, by what an action changes together. *)
ServerOK ==
  /\ versions \in [Tab -> Seq(Text)] /\ \A t \in Tab : Len(versions[t]) \in 1..MaxVersions
  /\ draft \in [Tab -> Text]
  /\ base \in [Tab -> 1..MaxVersions] /\ \A t \in Tab : base[t] <= Len(versions[t])
  /\ held \in [Tab -> Seq(Text)]
NetOK == net \subseteq Message /\ sent \in 0..MaxRequests
BarOK ==
  /\ open \subseteq Tab \ fresh /\ fresh \subseteq Tab
  /\ focus \in open \union {NoTab}
  /\ shown \in Tab \union {NoTab}
TextsOK ==
  /\ session \in [Tab -> Text]
  /\ contents \in [Tab -> Text \union {Undefined}]
  /\ original \in [Tab -> Text \union {Undefined}]
  /\ rev \in [Tab -> Revision]
  /\ loaded \subseteq Tab
HistoryOK ==
  /\ offer \in Offer
  /\ unsaved \in [Tab -> Text \union {Nothing}]
  /\ conflicted \subseteq Tab

LEMMA Parts ==
  /\ ServerOK /\ NetOK /\ BarOK /\ TextsOK /\ HistoryOK => TypeOK
  /\ ServerOK' /\ NetOK' /\ BarOK' /\ TextsOK' /\ HistoryOK' => TypeOK'
BY DEF TypeOK, ServerOK, NetOK, BarOK, TextsOK, HistoryOK

LEMMA Revisions == /\ HEAD \in Revision /\ Local \in Revision
                   /\ 1..MaxVersions \subseteq Revision
BY BoundsAssumption DEF HEAD, Local, Revision

LEMMA InitTypeOK == Init => TypeOK
<1> SUFFICES ASSUME Init PROVE TypeOK
  OBVIOUS
<1>1. First \in Text /\ Empty \in Text
  BY DEF Text
<1>2. ServerOK
  BY <1>1, BoundsAssumption DEF Init, ServerOK
<1>3. NetOK /\ BarOK
  BY BoundsAssumption DEF Init, NetOK, BarOK
<1>4. TextsOK
  BY <1>1, Revisions DEF Init, TextsOK
<1>5. HistoryOK
  BY DEF Init, HistoryOK, Offer
<1> QED
  BY <1>2, <1>3, <1>4, <1>5, Parts

(* What keeps the parts' types whoever does it. *)
LEMMA CapturedTyped ==
  ASSUME TypeOK
  PROVE  /\ Captured \in [Tab -> Text \union {Undefined}]
         /\ \A t \in Tab : Captured[t] = IF t = focus THEN session[t] ELSE contents[t]
BY DEF TypeOK, Captured

LEMMA SendTyped ==
  ASSUME TypeOK, NEW messages \in SUBSET Message, Send(messages)
  PROVE  NetOK'
BY BoundsAssumption DEF TypeOK, Send, NetOK

LEMMA SwitchTyped ==
  ASSUME TypeOK, NEW t \in Tab \union {NoTab}, SwitchTo(t)
  PROVE  /\ focus' = t /\ shown' \in Tab \union {NoTab}
         /\ contents' \in [Tab -> Text \union {Undefined}]
BY CapturedTyped DEF SwitchTo, TypeOK

LEMMA RemoveTyped ==
  ASSUME TypeOK, NEW gone, Remove(gone), UNCHANGED fresh
  PROVE  BarOK' /\ contents' \in [Tab -> Text \union {Undefined}]
<1>1. open' = open \ gone
  BY DEF Remove
<1>2. CASE focus \in gone
  <2>1. PICK t \in (open \ gone) \union {NoTab} : SwitchTo(t)
    BY <1>2 DEF Remove
  <2> QED
    BY <1>1, <2>1, SwitchTyped DEF TypeOK, BarOK
<1>3. CASE focus \notin gone
  BY <1>1, <1>3, CapturedTyped DEF Remove, TypeOK, BarOK
<1> QED
  BY <1>2, <1>3

LEMMA MessagesTyped ==
  ASSUME NEW t \in Tab
  PROVE  /\ \A r \in Revision : [kind |-> "get", tab |-> t, rev |-> r] \in Message
         /\ \A x \in Text \union {Undefined}, k \in {"put", "reput", "got"} :
              [kind |-> k, tab |-> t, text |-> x] \in Message
         /\ \A k \in {"commit", "recommit", "done", "redone", "noget", "nosave"} :
              [kind |-> k, tab |-> t] \in Message
         /\ \A r \in Revision, k \in {"saved", "conflict"} :
              [kind |-> k, tab |-> t, rev |-> r] \in Message
BY DEF Message

LEMMA MessageFields ==
  ASSUME NEW m \in Message
  PROVE  /\ m.tab \in Tab
         /\ m.kind \in {"get", "saved", "conflict"} => m.rev \in Revision
         /\ m.kind \in {"put", "reput", "got"} => m.text \in Text \union {Undefined}
BY DEF Message

LEMMA OffersTyped ==
  /\ NoOffer \in Offer /\ [kind |-> "closeall"] \in Offer
  /\ \A t \in Tab : /\ \A k \in {"close", "save", "load"} : [kind |-> k, tab |-> t] \in Offer
                    /\ \A r \in Revision : [kind |-> "revision", tab |-> t, rev |-> r] \in Offer
BY DEF Offer

LEMMA OfferFields ==
  ASSUME NEW o \in Offer
  PROVE  /\ o.kind \in {"close", "save", "load", "revision"} => o.tab \in Tab
         /\ o.kind = "revision" => o.rev \in Revision
         /\ \A k \in {"close", "save", "load"} :
              o.kind = k => o = [kind |-> k, tab |-> o.tab]
<1>1. CASE o = NoOffer
  BY <1>1 DEF NoOffer
<1>2. CASE o \in [kind : {"close", "save", "load"}, tab : Tab]
  BY <1>2
<1>3. CASE o \in [kind : {"closeall"}]
  BY <1>3
<1>4. CASE o \in [kind : {"revision"}, tab : Tab, rev : Revision]
  BY <1>4
<1> QED
  BY <1>1, <1>2, <1>3, <1>4 DEF Offer

-----------------------------------------------------------------------------

LEMMA OpenTypeOK ==
  ASSUME TypeOK, NEW t \in Tab, Open(t)
  PROVE  TypeOK'
<1>1. NetOK'
  BY MessagesTyped, SendTyped DEF Open, TypeOK
<1>2. BarOK' /\ contents' \in [Tab -> Text \union {Undefined}]
  BY SwitchTyped DEF Open, TypeOK, BarOK
<1>3. ServerOK' /\ HistoryOK' /\ TextsOK'
  BY <1>2 DEF Open, TypeOK, ServerOK, HistoryOK, TextsOK, server, history
<1> QED
  BY <1>1, <1>2, <1>3, Parts

LEMMA SwitchTypeOK ==
  ASSUME TypeOK, NEW t \in Tab \union {NoTab}, Switch(t)
  PROVE  TypeOK'
<1>1. BarOK' /\ contents' \in [Tab -> Text \union {Undefined}]
  BY SwitchTyped DEF Switch, TypeOK, BarOK
<1>2. ServerOK' /\ NetOK' /\ HistoryOK' /\ TextsOK'
  BY <1>1 DEF Switch, TypeOK, ServerOK, NetOK, HistoryOK, TextsOK, server, history
<1> QED
  BY <1>1, <1>2, Parts

LEMMA TypeTypeOK ==
  ASSUME TypeOK, NEW text \in Text, Type(text)
  PROVE  TypeOK'
<1>1. /\ session' \in [Tab -> Text]
      /\ contents' \in [Tab -> Text \union {Undefined}]
      /\ unsaved' \in [Tab -> Text \union {Nothing}]
  BY DEF Type, TypeOK
<1>2. ServerOK' /\ NetOK' /\ BarOK' /\ HistoryOK' /\ TextsOK'
  BY <1>1 DEF Type, TypeOK, ServerOK, NetOK, BarOK, HistoryOK, TextsOK, server, bar
<1> QED
  BY <1>2, Parts

LEMMA SaveTypeOK ==
  ASSUME TypeOK, NEW t \in Tab, Save(t)
  PROVE  TypeOK'
<1>1. NetOK'
  BY MessagesTyped, SendTyped DEF Save, TypeOK
<1>2. ServerOK' /\ BarOK' /\ HistoryOK' /\ TextsOK'
  BY CapturedTyped DEF Save, TypeOK, ServerOK, BarOK, HistoryOK, TextsOK, server, bar, history
<1> QED
  BY <1>1, <1>2, Parts

LEMMA ChangeRevisionTypeOK ==
  ASSUME TypeOK, NEW t \in Tab, NEW r \in Revision, ChangeRevision(t, r)
  PROVE  TypeOK'
<1>1. NetOK'
  BY MessagesTyped, SendTyped DEF ChangeRevision, TypeOK, NetOK
<1>2. rev' \in [Tab -> Revision] /\ offer' \in Offer
  <2>1. rev \in [Tab -> Revision] /\ offer \in Offer
    BY DEF TypeOK
  <2>2. CASE IsModified(t)
    <3>1. offer' = [kind |-> "revision", tab |-> t, rev |-> r] /\ rev' = rev
      BY <2>2 DEF ChangeRevision
    <3> QED
      BY <2>1, <3>1, OffersTyped
  <2>3. CASE ~IsModified(t)
    <3>1. offer' = NoOffer /\ rev' = [rev EXCEPT ![t] = r]
      BY <2>3 DEF ChangeRevision
    <3> QED
      BY <2>1, <3>1, OffersTyped
  <2> QED
    BY <2>2, <2>3
<1>3. ServerOK' /\ BarOK' /\ HistoryOK' /\ TextsOK'
  BY <1>2, CapturedTyped
     DEF ChangeRevision, TypeOK, ServerOK, BarOK, HistoryOK, TextsOK, server, bar, history
<1> QED
  BY <1>1, <1>3, Parts

LEMMA CloseTypeOK ==
  ASSUME TypeOK, NEW t \in Tab, Close(t)
  PROVE  TypeOK'
<1>1. BarOK' /\ contents' \in [Tab -> Text \union {Undefined}]
  <2>1. CASE IsModified(t)
    BY <2>1, SwitchTyped DEF Close, TypeOK, BarOK
  <2>2. CASE ~IsModified(t)
    BY <2>2, RemoveTyped DEF Close
  <2> QED
    BY <2>1, <2>2
<1>2. offer' \in Offer
  BY OffersTyped DEF Close
<1>3. ServerOK' /\ NetOK' /\ HistoryOK' /\ TextsOK'
  BY <1>1, <1>2 DEF Close, TypeOK, ServerOK, NetOK, HistoryOK, TextsOK, server, history
<1> QED
  BY <1>1, <1>3, Parts

(* A tab that is the only one of a set is in it. *)
LEMMA OnlyOne ==
  ASSUME NEW S, Cardinality(S) = 1
  PROVE  (CHOOSE t \in S : TRUE) \in S
BY FS_EmptySet

LEMMA CloseAllTypeOK ==
  ASSUME TypeOK, CloseAll
  PROVE  TypeOK'
<1> DEFINE modified == {t \in open : IsModified(t)}
           one == CHOOSE t \in modified : TRUE
<1>1. /\ open' = modified
      /\ offer' = CASE modified = {} -> NoOffer
                    [] Cardinality(modified) = 1 -> [kind |-> "close", tab |-> one]
                    [] OTHER -> [kind |-> "closeall"]
      /\ IF Cardinality(modified) = 1 THEN SwitchTo(one) ELSE Remove(open \ modified)
      /\ UNCHANGED <<server, net, sent, fresh, session, original, rev, loaded, history>>
  BY DEF CloseAll
<1>2. modified \subseteq open
  OBVIOUS
<1>3. Cardinality(modified) = 1 => one \in modified
  BY OnlyOne
<1> HIDE DEF modified, one
<1>4. BarOK' /\ contents' \in [Tab -> Text \union {Undefined}]
  <2>1. CASE Cardinality(modified) = 1
    BY <1>1, <1>2, <1>3, <2>1, SwitchTyped DEF TypeOK, BarOK
  <2>2. CASE Cardinality(modified) # 1
    BY <1>1, <2>2, RemoveTyped
  <2> QED
    BY <2>1, <2>2
<1>5. offer' \in Offer
  <2>1. CASE modified = {}
    <3>1. Cardinality(modified) # 1
      BY <2>1, FS_EmptySet
    <3> QED
      BY <1>1, <2>1, <3>1, OffersTyped
  <2>2. CASE modified # {} /\ Cardinality(modified) = 1
    <3>1. offer' = [kind |-> "close", tab |-> one]
      BY <1>1, <2>2
    <3>2. one \in Tab
      BY <1>2, <1>3, <2>2 DEF TypeOK
    <3> QED
      BY <3>1, <3>2, OffersTyped
  <2>3. CASE modified # {} /\ Cardinality(modified) # 1
    <3>1. offer' = [kind |-> "closeall"]
      BY <1>1, <2>3
    <3> QED
      BY <3>1, OffersTyped
  <2> QED
    BY <2>1, <2>2, <2>3
<1>6. ServerOK' /\ NetOK' /\ HistoryOK' /\ TextsOK'
  BY <1>1, <1>4, <1>5 DEF TypeOK, ServerOK, NetOK, HistoryOK, TextsOK, server, history
<1> QED
  BY <1>4, <1>6, Parts

LEMMA CloseAnywayTypeOK ==
  ASSUME TypeOK, CloseAnyway
  PROVE  TypeOK'
<1>1. BarOK' /\ contents' \in [Tab -> Text \union {Undefined}]
  BY RemoveTyped DEF CloseAnyway
<1>2. ServerOK' /\ NetOK' /\ HistoryOK' /\ TextsOK'
  BY <1>1, OffersTyped
     DEF CloseAnyway, TypeOK, ServerOK, NetOK, HistoryOK, TextsOK, server, history
<1> QED
  BY <1>1, <1>2, Parts

LEMMA RevisionAnywayTypeOK ==
  ASSUME TypeOK, RevisionAnyway
  PROVE  TypeOK'
<1>1. offer.tab \in Tab /\ offer.rev \in Revision
  BY OfferFields DEF RevisionAnyway, TypeOK
<1>2. NetOK'
  BY <1>1, MessagesTyped, SendTyped DEF RevisionAnyway
<1>3. /\ contents' \in [Tab -> Text \union {Undefined}]
      /\ rev' \in [Tab -> Revision]
      /\ unsaved' \in [Tab -> Text \union {Nothing}]
  BY <1>1 DEF RevisionAnyway, TypeOK
<1>4. ServerOK' /\ BarOK' /\ HistoryOK' /\ TextsOK'
  BY <1>3, OffersTyped
     DEF RevisionAnyway, TypeOK, ServerOK, BarOK, HistoryOK, TextsOK, server, bar
<1> QED
  BY <1>2, <1>4, Parts

LEMMA RetryTypeOK ==
  ASSUME TypeOK, RetryLoad \/ RetrySave
  PROVE  TypeOK'
<1>1. offer.tab \in Tab
  BY OfferFields DEF RetryLoad, RetrySave, TypeOK
<1>2. NetOK'
  <2>1. rev[offer.tab] \in Revision /\ contents[offer.tab] \in Text \union {Undefined}
    BY <1>1 DEF TypeOK
  <2> QED
    BY <1>1, <2>1, MessagesTyped, SendTyped DEF RetryLoad, RetrySave
<1>3. ServerOK' /\ BarOK' /\ HistoryOK' /\ TextsOK'
  BY OffersTyped
     DEF RetryLoad, RetrySave, TypeOK, ServerOK, BarOK, HistoryOK, TextsOK, server, bar, texts,
         history
<1> QED
  BY <1>2, <1>3, Parts

(* The server answers with messages, and its own state stays typed. *)
LEMMA AnswerTyped ==
  ASSUME TypeOK, NEW m, NEW a \in Message, Answer(m, a), UNCHANGED sent
  PROVE  NetOK'
BY DEF Answer, TypeOK, NetOK

LEMMA CommittedTyped ==
  ASSUME TypeOK, NEW t \in Tab
  PROVE  /\ Latest(t) \in Committed(t) /\ Committed(t) \subseteq Text
         /\ \A i \in 1..Len(versions[t]) : versions[t][i] \in Committed(t)
         /\ Len(versions[t]) \in 1..MaxVersions /\ DOMAIN versions[t] = 1..Len(versions[t])
<1>1. versions[t] \in Seq(Text) /\ Len(versions[t]) \in 1..MaxVersions
  BY DEF TypeOK
<1>2. DOMAIN versions[t] = 1..Len(versions[t])
  BY <1>1
<1>3. \A i \in 1..Len(versions[t]) : versions[t][i] \in Text
  BY <1>1
<1> QED
  BY <1>1, <1>2, <1>3, BoundsAssumption DEF Latest, Committed

(* A longer list of versions has the versions it had before. *)
LEMMA Longer ==
  ASSUME NEW old \in Seq(Text), NEW new \in Seq(Text), Len(old) <= Len(new),
         \A i \in 1..Len(old) : new[i] = old[i]
  PROVE  {old[i] : i \in DOMAIN old} \subseteq {new[i] : i \in DOMAIN new}
<1>1. DOMAIN old = 1..Len(old) /\ DOMAIN new = 1..Len(new) /\ Len(old) \in Nat /\ Len(new) \in Nat
  OBVIOUS
<1> SUFFICES ASSUME NEW i \in DOMAIN old PROVE old[i] \in {new[j] : j \in DOMAIN new}
  OBVIOUS
<1>2. i \in DOMAIN new /\ new[i] = old[i]
  BY <1>1
<1> QED
  BY <1>2

(* More versions of one file, the versions it had among them. *)
MoreOf(t, new) ==
  /\ new \in Seq(Text) /\ Len(new) <= MaxVersions
  /\ Len(versions[t]) <= Len(new)
  /\ \A i \in 1..Len(versions[t]) : new[i] = versions[t][i]

(* The texts in a sequence stay in one that goes on after it, or before.   *)
Elements(q) == {q[i] : i \in DOMAIN q}

LEMMA Concatenated ==
  ASSUME NEW a \in Seq(Text), NEW b \in Seq(Text)
  PROVE  /\ a \o b \in Seq(Text) /\ Len(a \o b) = Len(a) + Len(b)
         /\ Len(a) \in Nat /\ Len(b) \in Nat
         /\ \A i \in 1..Len(a) : (a \o b)[i] = a[i]
         /\ \A i \in 1..Len(b) : (a \o b)[Len(a) + i] = b[i]
         /\ Elements(a) \subseteq Elements(a \o b) /\ Elements(b) \subseteq Elements(a \o b)
<1>1. /\ a \o b \in Seq(Text) /\ Len(a \o b) = Len(a) + Len(b)
      /\ Len(a) \in Nat /\ Len(b) \in Nat
      /\ DOMAIN a = 1..Len(a) /\ DOMAIN b = 1..Len(b) /\ DOMAIN (a \o b) = 1..Len(a \o b)
  OBVIOUS
<1>2. \A i \in 1..Len(a) : (a \o b)[i] = a[i]
  OBVIOUS
<1>3. \A i \in 1..Len(b) : (a \o b)[Len(a) + i] = b[i]
  OBVIOUS
<1> DEFINE c == a \o b
<1> HIDE DEF c
<1>4. Elements(a) \subseteq Elements(c)
  <2> SUFFICES ASSUME NEW i \in DOMAIN a PROVE a[i] \in Elements(c)
    BY DEF Elements
  <2>1. i \in DOMAIN c /\ c[i] = a[i]
    BY <1>1, <1>2 DEF c
  <2> QED
    BY <2>1 DEF Elements
<1>5. Elements(b) \subseteq Elements(c)
  <2> SUFFICES ASSUME NEW i \in DOMAIN b PROVE b[i] \in Elements(c)
    BY DEF Elements
  <2>1. Len(a) + i \in DOMAIN c /\ c[Len(a) + i] = b[i]
    BY <1>1, <1>3 DEF c
  <2> QED
    BY <2>1 DEF Elements
<1> QED
  BY <1>1, <1>2, <1>3, <1>4, <1>5 DEF c

LEMMA MoreVersions ==
  ASSUME TypeOK, NEW t \in Tab
  PROVE  /\ \A x \in Text : Len(versions[t]) + 1 <= MaxVersions =>
              /\ MoreOf(t, Append(versions[t], x))
              /\ Len(Append(versions[t], x)) = Len(versions[t]) + 1
              /\ Append(versions[t], x)[Len(versions[t]) + 1] = x
         /\ \A new \in Seq(Text) : Len(versions[t]) + Len(new) <= MaxVersions =>
              MoreOf(t, versions[t] \o new)
<1>1. versions[t] \in Seq(Text) /\ Len(versions[t]) \in Nat
  BY DEF TypeOK
<1>2. ASSUME NEW x \in Text, Len(versions[t]) + 1 <= MaxVersions
      PROVE  /\ MoreOf(t, Append(versions[t], x))
             /\ Len(Append(versions[t], x)) = Len(versions[t]) + 1
             /\ Append(versions[t], x)[Len(versions[t]) + 1] = x
  BY <1>1, <1>2 DEF MoreOf
<1>3. ASSUME NEW new \in Seq(Text), Len(versions[t]) + Len(new) <= MaxVersions
      PROVE  MoreOf(t, versions[t] \o new)
  BY <1>1, <1>3, Concatenated DEF MoreOf
<1> QED
  BY <1>2, <1>3

LEMMA VersionsTyped ==
  ASSUME TypeOK, NEW t \in Tab, NEW new, MoreOf(t, new),
         versions' = [versions EXCEPT ![t] = new]
  PROVE  /\ versions' \in [Tab -> Seq(Text)] /\ versions'[t] = new
         /\ \A s \in Tab : /\ Len(versions'[s]) \in 1..MaxVersions
                           /\ Len(versions[s]) <= Len(versions'[s])
                           /\ Committed(s) \subseteq Committed(s)'
<1>1. versions[t] \in Seq(Text) /\ Len(versions[t]) \in 1..MaxVersions
  BY DEF TypeOK
<1>2. Len(new) \in 1..MaxVersions
  BY <1>1, BoundsAssumption DEF MoreOf
<1>3. versions'[t] = new /\ \A s \in Tab \ {t} : versions'[s] = versions[s]
  BY DEF TypeOK
<1>4. versions' \in [Tab -> Seq(Text)]
  BY DEF TypeOK, MoreOf
<1>5. Committed(t) \subseteq Committed(t)'
  BY <1>1, <1>3, Longer DEF Committed, MoreOf
<1>6. ASSUME NEW s \in Tab
      PROVE  /\ Len(versions'[s]) \in 1..MaxVersions
             /\ Len(versions[s]) <= Len(versions'[s])
             /\ Committed(s) \subseteq Committed(s)'
  <2>1. CASE s = t
    BY <1>2, <1>3, <1>5, <2>1 DEF MoreOf
  <2>2. CASE s # t
    <3>1. versions'[s] = versions[s] /\ Len(versions[s]) \in 1..MaxVersions
      BY <1>3, <2>2 DEF TypeOK
    <3> QED
      BY <3>1, BoundsAssumption DEF Committed
  <2> QED
    BY <2>1, <2>2
<1> QED
  BY <1>3, <1>4, <1>6

(* Serve leaves to its alternatives only the server and the network. *)
LEMMA ServeParts ==
  ASSUME TypeOK, UNCHANGED <<sent, bar, texts, offer, history>>, ServerOK', NetOK'
  PROVE  TypeOK'
<1>1. BarOK' /\ TextsOK' /\ HistoryOK'
  BY DEF TypeOK, BarOK, TextsOK, HistoryOK, bar, texts, history
<1> QED
  BY <1>1, Parts

LEMMA ServeGetTypeOK ==
  ASSUME TypeOK, NEW m \in net, ServeGet(m), UNCHANGED sent
  PROVE  ServerOK' /\ NetOK'
<1>1. ServerOK'
  BY DEF ServeGet, server, TypeOK, ServerOK
<1>2. m.tab \in Tab /\ m.rev \in Revision
  BY MessageFields DEF ServeGet, TypeOK
<1> DEFINE text == IF m.rev = HEAD THEN Latest(m.tab)
                   ELSE IF m.rev > Len(versions[m.tab]) THEN Undefined
                   ELSE versions[m.tab][m.rev]
<1>3. Answer(m, [kind |-> "got", tab |-> m.tab, text |-> text])
  BY DEF ServeGet
<1>4. text \in Committed(m.tab) \union {Undefined}
        /\ (m.rev <= Len(versions[m.tab]) => text \in Committed(m.tab))
  <2>1. /\ Latest(m.tab) \in Committed(m.tab) /\ Len(versions[m.tab]) \in Nat
        /\ \A i \in 1..Len(versions[m.tab]) : versions[m.tab][i] \in Committed(m.tab)
    BY <1>2, CommittedTyped, BoundsAssumption
  <2>2. m.rev \in Nat
    BY <1>2, BoundsAssumption DEF Revision, Local
  <2>3. CASE m.rev = HEAD
    BY <2>1, <2>3
  <2>4. CASE m.rev # HEAD /\ m.rev > Len(versions[m.tab])
    BY <2>1, <2>2, <2>4
  <2>5. CASE m.rev # HEAD /\ ~(m.rev > Len(versions[m.tab]))
    <3>1. m.rev \in 1..Len(versions[m.tab])
      BY <2>1, <2>2, <2>5 DEF HEAD
    <3> QED
      BY <2>1, <2>5, <3>1
  <2> QED
    BY <2>3, <2>4, <2>5
<1> HIDE DEF text
<1>5. [kind |-> "got", tab |-> m.tab, text |-> text] \in Message
  BY <1>2, <1>4, CommittedTyped, MessagesTyped
<1> QED
  BY <1>1, <1>3, <1>5, AnswerTyped

LEMMA ServePutTypeOK ==
  ASSUME TypeOK, NEW m \in net, ServePut(m), UNCHANGED sent
  PROVE  ServerOK' /\ NetOK'
<1>1. m.tab \in Tab /\ m.text \in Text \union {Undefined}
  BY MessageFields DEF ServePut, TypeOK
<1>2. CASE m.text = Undefined
  <2>1. Answer(m, [kind |-> "nosave", tab |-> m.tab]) /\ UNCHANGED server
    BY <1>2 DEF ServePut, server
  <2> QED
    BY <1>1, <2>1, MessagesTyped, AnswerTyped DEF server, TypeOK, ServerOK
<1>3. CASE m.text # Undefined
  <2>1. /\ \E k \in {"done", "redone"} : Answer(m, [kind |-> k, tab |-> m.tab])
        /\ draft' = [draft EXCEPT ![m.tab] = m.text]
        /\ base' = [base EXCEPT ![m.tab] =
             IF held[m.tab] # <<>> THEN base[m.tab] ELSE Len(versions[m.tab])]
        /\ UNCHANGED <<versions, held>>
    BY <1>3 DEF ServePut
  <2>2. NetOK'
    BY <1>1, <2>1, MessagesTyped, AnswerTyped
  <2>3. /\ draft' \in [Tab -> Text] /\ base' \in [Tab -> 1..MaxVersions]
        /\ \A t \in Tab : base'[t] <= Len(versions[t])
    BY <1>1, <1>3, <2>1, BoundsAssumption DEF TypeOK
  <2> QED
    BY <2>1, <2>2, <2>3 DEF ServerOK, TypeOK
<1> QED
  BY <1>2, <1>3

LEMMA ServeCommitTypeOK ==
  ASSUME TypeOK, NEW m \in net, ServeCommit(m), UNCHANGED sent
  PROVE  ServerOK' /\ NetOK'
<1> DEFINE t == m.tab
           new == Append(versions[t], draft[t])
<1>1. t \in Tab /\ draft[t] \in Text /\ Len(versions[t]) \in Nat /\ base[t] \in Nat
  BY MessageFields, BoundsAssumption DEF TypeOK
<1>2. /\ base[t] = Len(versions[t]) /\ Len(versions[t]) + 1 <= MaxVersions
      /\ versions' = [versions EXCEPT ![t] = new]
      /\ base' = [base EXCEPT ![t] = base[t] + 1]
      /\ Answer(m, [kind |-> "saved", tab |-> t, rev |-> base'[t]])
      /\ UNCHANGED <<draft, held>>
  BY DEF ServeCommit, Room
<1>3. MoreOf(t, new) /\ Len(new) = Len(versions[t]) + 1
  BY <1>1, <1>2, MoreVersions
<1> HIDE DEF t, new
<1>4. /\ versions' \in [Tab -> Seq(Text)] /\ versions'[t] = new
      /\ \A s \in Tab : Len(versions'[s]) \in 1..MaxVersions /\ Len(versions[s]) <= Len(versions'[s])
  BY <1>1, <1>2, <1>3, VersionsTyped
<1>5. base' \in [Tab -> 1..MaxVersions] /\ base'[t] = Len(versions'[t])
  BY <1>1, <1>2, <1>3, <1>4, BoundsAssumption DEF TypeOK
<1>6. \A s \in Tab : base'[s] <= Len(versions'[s])
  <2> TAKE s \in Tab
  <2>1. CASE s = t
    BY <1>4, <1>5, <2>1, BoundsAssumption
  <2>2. CASE s # t
    <3>1. base'[s] = base[s] /\ base[s] <= Len(versions[s]) /\ base[s] \in Nat
          /\ Len(versions[s]) \in Nat /\ Len(versions'[s]) \in Nat
      BY <1>2, <1>4, <2>2, BoundsAssumption DEF TypeOK
    <3> QED
      BY <1>4, <3>1
  <2> QED
    BY <2>1, <2>2
<1>7. NetOK'
  BY <1>1, <1>2, <1>5, Revisions, MessagesTyped, AnswerTyped
<1> QED
  BY <1>2, <1>4, <1>5, <1>6, <1>7 DEF ServerOK, TypeOK

(* A clone brings all it holds, and what is new, to the master. *)
LEMMA Brought ==
  ASSUME TypeOK, NEW t \in Tab, NEW new \in Seq(Text),
         Len(versions[t]) + Len(new) <= MaxVersions,
         versions' = [versions EXCEPT ![t] = versions[t] \o new],
         base' = [base EXCEPT ![t] = Len(versions'[t])],
         held' = [held EXCEPT ![t] = <<>>],
         draft' \in [Tab -> Text]
  PROVE  ServerOK' /\ base'[t] \in Revision
<1> DEFINE more == versions[t] \o new
<1>1. Len(versions[t]) \in Nat /\ MoreOf(t, more) /\ versions' = [versions EXCEPT ![t] = more]
  BY MoreVersions, BoundsAssumption DEF TypeOK
<1> HIDE DEF more
<1>4. /\ versions' \in [Tab -> Seq(Text)]
      /\ \A s \in Tab : Len(versions'[s]) \in 1..MaxVersions /\ Len(versions[s]) <= Len(versions'[s])
  BY <1>1, VersionsTyped
<1>5. base' \in [Tab -> 1..MaxVersions] /\ base'[t] = Len(versions'[t])
  BY <1>1, <1>4, BoundsAssumption DEF TypeOK
<1>6. \A s \in Tab : base'[s] <= Len(versions'[s])
  <2> TAKE s \in Tab
  <2>1. CASE s = t
    BY <1>4, <1>5, <2>1, BoundsAssumption
  <2>2. CASE s # t
    <3>1. base'[s] = base[s] /\ base[s] <= Len(versions[s]) /\ base[s] \in Nat
          /\ Len(versions[s]) \in Nat /\ Len(versions'[s]) \in Nat
      BY <1>4, <2>2, BoundsAssumption DEF TypeOK
    <3> QED
      BY <1>4, <3>1
  <2> QED
    BY <2>1, <2>2
<1>7. held' \in [Tab -> Seq(Text)]
  BY DEF TypeOK
<1> QED
  BY <1>4, <1>5, <1>6, <1>7, Revisions DEF ServerOK

LEMMA HeldTyped ==
  ASSUME TypeOK, NEW t \in Tab
  PROVE  /\ held[t] \in Seq(Text) /\ draft[t] \in Text /\ Mixed \in Text
         /\ <<draft[t]>> \in Seq(Text) /\ <<draft[t], Mixed>> \in Seq(Text)
         /\ Append(held[t], draft[t]) \in Seq(Text) /\ Append(held[t], Mixed) \in Seq(Text)
         /\ held[t] \o <<draft[t], Mixed>> \in Seq(Text)
<1>1. held[t] \in Seq(Text) /\ draft[t] \in Text /\ Mixed \in Text
  BY DEF TypeOK, Text
<1>2. <<draft[t]>> \in Seq(Text) /\ <<draft[t], Mixed>> \in Seq(Text)
  BY <1>1
<1> QED
  BY <1>1, <1>2, Concatenated

LEMMA ServeMergeTypeOK ==
  ASSUME TypeOK, NEW m \in net, ServeMerge(m), UNCHANGED sent
  PROVE  ServerOK' /\ NetOK'
<1> DEFINE t == m.tab
           new == held[t] \o <<draft[t], Mixed>>
<1>1. t \in Tab
  BY MessageFields DEF TypeOK
<1>2. /\ Len(versions[t]) + Len(new) <= MaxVersions
      /\ versions' = [versions EXCEPT ![t] = versions[t] \o new]
      /\ draft' = [draft EXCEPT ![t] = Mixed]
      /\ base' = [base EXCEPT ![t] = Len(versions'[t])]
      /\ held' = [held EXCEPT ![t] = <<>>]
      /\ Answer(m, [kind |-> "saved", tab |-> t, rev |-> base'[t]])
  BY DEF ServeMerge, Room
<1>3. new \in Seq(Text) /\ draft' \in [Tab -> Text]
  BY <1>1, <1>2, HeldTyped DEF TypeOK
<1> HIDE DEF t, new
<1>4. ServerOK' /\ base'[t] \in Revision
  BY <1>1, <1>2, <1>3, Brought
<1>5. NetOK'
  BY <1>1, <1>2, <1>4, MessagesTyped, AnswerTyped
<1> QED
  BY <1>4, <1>5

LEMMA ServeRefusedTypeOK ==
  ASSUME TypeOK, NEW m \in net, ServeRefused(m), UNCHANGED sent
  PROVE  ServerOK' /\ NetOK'
<1> DEFINE t == m.tab
           n == Len(versions[t])
<1>1. t \in Tab /\ n \in 1..MaxVersions /\ base[t] \in 1..MaxVersions
  BY MessageFields DEF TypeOK
<1>2. NetOK'
  BY <1>1, Revisions, MessagesTyped, AnswerTyped DEF ServeRefused
<1>3. CASE held' = [held EXCEPT ![t] = <<draft[t]>>] /\ UNCHANGED <<draft, base, versions>>
  <2>1. held' \in [Tab -> Seq(Text)]
    BY <1>1, <1>3, HeldTyped DEF TypeOK
  <2> QED
    BY <1>2, <1>3, <2>1 DEF ServerOK, TypeOK
<1>4. CASE /\ base[t] + 1 < n
           /\ held' = [held EXCEPT ![t] = held[t] \o <<draft[t], Mixed>>]
           /\ draft' = [draft EXCEPT ![t] = Mixed]
           /\ base' = [base EXCEPT ![t] = n - 1]
           /\ UNCHANGED versions
  <2>1. held' \in [Tab -> Seq(Text)] /\ draft' \in [Tab -> Text]
    BY <1>1, <1>4, HeldTyped DEF TypeOK
  <2>2. n - 1 \in 1..MaxVersions /\ n - 1 <= n
    BY <1>1, <1>4, BoundsAssumption
  <2>3. base' \in [Tab -> 1..MaxVersions] /\ \A s \in Tab : base'[s] <= Len(versions[s])
    BY <1>1, <1>4, <2>2 DEF TypeOK
  <2> QED
    BY <1>2, <1>4, <2>1, <2>3 DEF ServerOK, TypeOK
<1> QED
  BY <1>3, <1>4 DEF ServeRefused

LEMMA PushHeldTypeOK ==
  ASSUME TypeOK, NEW t \in Tab, PushHeld(t)
  PROVE  TypeOK'
<1> DEFINE new == Append(held[t], Mixed)
<1>1. new \in Seq(Text) /\ draft' \in [Tab -> Text]
  BY HeldTyped DEF TypeOK, PushHeld
<1>2. /\ Len(versions[t]) + Len(new) <= MaxVersions
      /\ versions' = [versions EXCEPT ![t] = versions[t] \o new]
      /\ base' = [base EXCEPT ![t] = Len(versions'[t])]
      /\ held' = [held EXCEPT ![t] = <<>>]
      /\ UNCHANGED <<net, sent, bar, texts, offer, history>>
  BY DEF PushHeld, Room
<1> HIDE DEF new
<1>3. ServerOK'
  BY <1>1, <1>2, Brought
<1>4. NetOK'
  BY <1>2 DEF TypeOK, NetOK
<1> QED
  BY <1>2, <1>3, <1>4, ServeParts

LEMMA ServeConflictTypeOK ==
  ASSUME TypeOK, NEW m \in net, ServeConflict(m), UNCHANGED sent
  PROVE  ServerOK' /\ NetOK'
<1>1. m.tab \in Tab
  BY MessageFields DEF TypeOK
<1>2. NetOK'
  BY <1>1, Revisions, MessagesTyped, AnswerTyped DEF ServeConflict
<1>3. held' \in [Tab -> Seq(Text)]
  BY <1>1, HeldTyped DEF ServeConflict, TypeOK
<1> QED
  BY <1>2, <1>3 DEF ServeConflict, ServerOK, TypeOK

LEMMA FailTypeOK ==
  ASSUME TypeOK, NEW m \in net, Fail(m), UNCHANGED sent
  PROVE  ServerOK' /\ NetOK'
<1>1. m.tab \in Tab
  BY MessageFields DEF TypeOK
<1>2. NetOK'
  BY <1>1, MessagesTyped, AnswerTyped DEF Fail
<1> QED
  BY <1>2 DEF Fail, ServerOK, TypeOK, server

LEMMA OthersCommitTypeOK ==
  ASSUME TypeOK, NEW t \in Tab, OthersCommit(t)
  PROVE  TypeOK'
<1> DEFINE x == IF Latest(t) = Other THEN First ELSE Other
           new == Append(versions[t], x)
<1>1. x \in Text /\ Len(versions[t]) \in Nat
  BY BoundsAssumption DEF TypeOK, Text
<1>2. versions' = [versions EXCEPT ![t] = new] /\ MoreOf(t, new)
  BY <1>1, MoreVersions DEF OthersCommit, Room
<1> HIDE DEF x, new
<1>3. /\ versions' \in [Tab -> Seq(Text)]
      /\ \A s \in Tab : Len(versions'[s]) \in 1..MaxVersions /\ Len(versions[s]) <= Len(versions'[s])
  BY <1>2, VersionsTyped
<1>4. \A s \in Tab : base[s] <= Len(versions'[s])
  <2> TAKE s \in Tab
  <2>1. base[s] <= Len(versions[s]) /\ base[s] \in Nat /\ Len(versions[s]) \in Nat
    BY BoundsAssumption DEF TypeOK
  <2> QED
    BY <1>3, <2>1, BoundsAssumption
<1>5. ServerOK' /\ NetOK'
  BY <1>3, <1>4 DEF OthersCommit, ServerOK, NetOK, TypeOK
<1> QED
  BY <1>5, ServeParts DEF OthersCommit

-----------------------------------------------------------------------------

LEMMA ReceiveContentsTypeOK ==
  ASSUME TypeOK, NEW m \in net, ReceiveContents(m)
  PROVE  TypeOK'
<1>1. m.tab \in Tab /\ m.text \in Text \union {Undefined}
  BY MessageFields DEF ReceiveContents, TypeOK
<1>2. Displayed(m.text) \in Text
  BY <1>1 DEF Displayed, Text
<1>3. TextsOK' /\ BarOK'
  BY <1>1, <1>2 DEF ReceiveContents, TypeOK, TextsOK, BarOK
<1>4. ServerOK' /\ NetOK' /\ HistoryOK'
  BY DEF ReceiveContents, TypeOK, ServerOK, NetOK, HistoryOK, server, history
<1> QED
  BY <1>3, <1>4, Parts

LEMMA FailedTypeOK ==
  ASSUME TypeOK, NEW m \in net, LoadFailed(m) \/ SaveFailed(m)
  PROVE  TypeOK'
<1>1. m.tab \in Tab
  BY MessageFields DEF TypeOK
<1>2. offer' \in Offer
  BY <1>1, OffersTyped DEF LoadFailed, SaveFailed
<1>3. ServerOK' /\ NetOK' /\ BarOK' /\ TextsOK' /\ HistoryOK'
  BY <1>2 DEF LoadFailed, SaveFailed, TypeOK, ServerOK, NetOK, BarOK, TextsOK, HistoryOK, server,
              bar, texts, history
<1> QED
  BY <1>3, Parts

LEMMA PutDoneTypeOK ==
  ASSUME TypeOK, NEW m \in net, PutDone(m)
  PROVE  TypeOK'
<1>1. /\ [kind |-> "commit", tab |-> m.tab] \in Message
      /\ [kind |-> "recommit", tab |-> m.tab] \in Message
  BY MessageFields, MessagesTyped DEF TypeOK
<1>2. ServerOK' /\ NetOK' /\ BarOK' /\ TextsOK' /\ HistoryOK'
  BY <1>1 DEF PutDone, TypeOK, ServerOK, NetOK, BarOK, TextsOK, HistoryOK, server, bar, texts,
              history
<1> QED
  BY <1>2, Parts

LEMMA SavedTypeOK ==
  ASSUME TypeOK, NEW m \in net, Saved(m)
  PROVE  TypeOK'
<1>1. m.tab \in Tab /\ m.rev \in Revision
  BY MessageFields DEF Saved, TypeOK
<1>2. contents[m.tab] \in Text \union {Undefined} /\ Displayed(contents[m.tab]) \in Text
  BY <1>1 DEF Displayed, Text, TypeOK
<1>3. unsaved' \in [Tab -> Text \union {Nothing}]
  BY <1>1 DEF Saved, TypeOK
<1>4. TextsOK' /\ HistoryOK'
  BY <1>1, <1>2, <1>3, OffersTyped DEF Saved, TypeOK, TextsOK, HistoryOK
<1>5. ServerOK' /\ NetOK' /\ BarOK'
  BY DEF Saved, TypeOK, ServerOK, NetOK, BarOK, server, bar
<1> QED
  BY <1>4, <1>5, Parts

LEMMA ConflictTypeOK ==
  ASSUME TypeOK, NEW m \in net, Conflict(m)
  PROVE  TypeOK'
<1>1. m.tab \in Tab /\ m.rev \in Revision
  BY MessageFields DEF Conflict, TypeOK
<1>2. Displayed(Undefined) \in Text
  BY DEF Displayed, Text
<1>3. TextsOK' /\ HistoryOK'
  BY <1>1, <1>2, OffersTyped DEF Conflict, TypeOK, TextsOK, HistoryOK
<1>4. ServerOK' /\ NetOK' /\ BarOK'
  BY DEF Conflict, TypeOK, ServerOK, NetOK, BarOK, server, bar
<1> QED
  BY <1>3, <1>4, Parts

LEMMA NextTypeOK ==
  ASSUME TypeOK, [Next]_vars
  PROVE  TypeOK'
<1>1. CASE UNCHANGED vars
  BY <1>1 DEF vars, server, bar, texts, history, TypeOK
<1>2. CASE User
  <2>1. ASSUME NEW text \in Typed \union {First}, Type(text) PROVE TypeOK'
    BY <2>1, TypeTypeOK DEF Text
  <2> QED
    BY <1>2, <2>1, OpenTypeOK, CloseTypeOK, SaveTypeOK, SwitchTypeOK, ChangeRevisionTypeOK,
       CloseAllTypeOK, CloseAnywayTypeOK, RevisionAnywayTypeOK, RetryTypeOK DEF User
<1>3. CASE Serve
  BY <1>3, ServeGetTypeOK, ServePutTypeOK, ServeCommitTypeOK, ServeMergeTypeOK,
     ServeRefusedTypeOK, ServeConflictTypeOK, FailTypeOK, ServeParts DEF Serve
<1>4. CASE \E t \in Tab : PushHeld(t) \/ OthersCommit(t)
  BY <1>4, PushHeldTypeOK, OthersCommitTypeOK
<1>5. CASE Receive
  BY <1>5, ReceiveContentsTypeOK, FailedTypeOK, PutDoneTypeOK, SavedTypeOK, ConflictTypeOK
     DEF Receive
<1> QED
  BY <1>1, <1>2, <1>3, <1>4, <1>5 DEF Next

(* Every variable keeps its type, whatever the user waits for. *)
THEOREM TypeCorrect == Spec => []TypeOK
<1>1. TypeOK /\ [Next]_vars => TypeOK'
  BY NextTypeOK
<1> QED
  BY <1>1, InitTypeOK, PTL DEF Spec

-----------------------------------------------------------------------------
(* What the user who waits may rely on. *)

Waits == Patient = {"load", "save"}

(* What is committed of a tab's file, and what stands at the clone's head. *)
Same(t) ==
  /\ Committed(t)' = Committed(t)
  /\ Recorded(t)' = Recorded(t)
  /\ HeadText(t)' = HeadText(t)

LEMMA SameServer ==
  ASSUME UNCHANGED <<versions, draft, base, held>>
  PROVE  \A t : Same(t)
BY DEF Same, Committed, Recorded, HeadText

LEMMA RecordedTyped ==
  ASSUME TypeOK, NEW t \in Tab
  PROVE  Committed(t) \subseteq Recorded(t) /\ Recorded(t) \subseteq Text
<1>1. held[t] \in Seq(Text)
  BY DEF TypeOK
<1>2. DOMAIN held[t] = 1..Len(held[t]) /\ \A i \in 1..Len(held[t]) : held[t][i] \in Text
  BY <1>1
<1> QED
  BY <1>2, CommittedTyped DEF Recorded

IInv == TypeOK /\ FocusShown /\ OneAtATime /\ Untouched /\ TextsInHand

-----------------------------------------------------------------------------
(* What the invariant says of one state *)

(* If the tab in front is not loading, none is. *)
LEMMA NoLoads ==
  ASSUME TypeOK, OneAtATime, ~Loading(focus)
  PROVE  /\ \A m \in net : m.kind \notin LoadKinds
         /\ offer.kind # "load"
         /\ \A t \in Tab : ~Loading(t)
<1>1. \A m \in net : m.kind \notin LoadKinds
  BY DEF OneAtATime, Loading, LoadKinds
<1>2. offer.kind # "load"
  <2> SUFFICES ASSUME offer.kind = "load" PROVE FALSE
    OBVIOUS
  <2>1. offer = [kind |-> "load", tab |-> focus]
    BY OfferFields DEF TypeOK, OneAtATime
  <2> QED
    BY <2>1 DEF Loading
<1> QED
  BY <1>1, <1>2 DEF Loading, LoadKinds

(* A tab the user may touch has nothing under way. *)
LEMMA WaitedFor ==
  ASSUME Waits, NEW t, Waited(t)
  PROVE  ~Loading(t) /\ ~Saving(t) /\ \A m \in net : m.tab # t
BY DEF Waits, Waited, Loading, Saving

LEMMA LeftAlone == ASSUME Waits, MayLeave PROVE ~Loading(focus)
BY DEF Waits, MayLeave

(* The texts of a tab, from its session. *)
LEMMA TextsOf ==
  ASSUME IInv, NEW t \in Tab
  PROVE  /\ session[t] = Displayed(contents[t]) /\ session[t] = Displayed(session[t])
         /\ contents[t] = Undefined \/ contents[t] = session[t]
         /\ session[t] \in Text /\ Undefined \notin Text /\ original[t] \in Text
         /\ Captured[t] = IF t = focus THEN session[t] ELSE contents[t]
         /\ InHand(t)
<1>1. InHand(t) /\ TypeOK
  BY DEF IInv, TextsInHand
<1>2. session[t] = Displayed(contents[t]) /\ original[t] \in Text
  BY <1>1 DEF InHand
<1>3. session[t] \in Text /\ Undefined \notin Text
  BY <1>1, NamesAssumption DEF TypeOK
<1>4. Captured[t] = IF t = focus THEN session[t] ELSE contents[t]
  BY <1>1, CapturedTyped
<1> QED
  BY <1>1, <1>2, <1>3, <1>4 DEF Displayed

(* Capturing the tab in front changes only a contents that is undefined.   *)
LEMMA Capture ==
  ASSUME IInv, contents' = Captured, UNCHANGED <<versions, draft, base, held, session>>
  PROVE  /\ \A m \in net : Carried(m)'
         /\ \A t \in Tab : session'[t] = Displayed(contents'[t])
<1>1. ASSUME NEW t \in Tab
      PROVE  /\ session'[t] = Displayed(contents'[t])
             /\ contents[t] = Undefined \/ contents'[t] = contents[t]
  BY TextsOf
<1>2. ASSUME NEW m \in net PROVE Carried(m)'
  <2>1. m.tab \in Tab /\ Carried(m) /\ TypeOK
    BY MessageFields DEF IInv, TypeOK, TextsInHand
  <2>2. draft[m.tab] # Undefined /\ Undefined \notin Recorded(m.tab)
    BY <2>1, RecordedTyped, NamesAssumption DEF TypeOK
  <2>3. Same(m.tab)
    BY SameServer
  <2>4. contents[m.tab] = Undefined \/ contents'[m.tab] = contents[m.tab]
    BY <1>1, <2>1
  <2> QED
    BY <2>1, <2>2, <2>3, <2>4 DEF Carried, Same
<1> QED
  BY <1>1, <1>2

(* What keeps the texts of a tab in hand: the user's text and the original *)
(* stay, there are only more versions, and it does not start loading       *)
(* unless nothing typed is at stake.                                       *)
LEMMA InHandKept ==
  ASSUME TypeOK, NEW t \in Tab, InHand(t),
         session'[t] = session[t], session'[t] = Displayed(contents'[t]),
         original'[t] = original[t], unsaved'[t] = unsaved[t],
         t \in loaded' => t \in loaded,
         t \in open' => t \in open \/ unsaved[t] = Nothing,
         t \in conflicted => t \in conflicted',
         Recorded(t) \subseteq Recorded(t)',
         Loading(t)' => /\ rev'[t] <= Len(versions'[t])
                        /\ Loading(t) \/ unsaved[t] = Nothing \/ t \in conflicted
  PROVE  InHand(t)'
<1>1. t \in open' /\ unsaved'[t] # Nothing /\ t \notin conflicted'
        => session'[t] = unsaved'[t] /\ unsaved'[t] # original'[t] /\ ~Loading(t)'
  BY DEF InHand
<1>2. original'[t] \in Text /\ (t \in loaded' => original'[t] \in Recorded(t)')
  BY DEF InHand
<1> QED
  BY <1>1, <1>2 DEF InHand

-----------------------------------------------------------------------------
(* The user moves between tabs and closes them *)

LEMMA Moves ==
  ASSUME IInv, contents' = Captured, open' \subseteq open,
         UNCHANGED <<server, net, fresh, session, original, rev, loaded, history>>,
         focus' = focus \/ ~Loading(focus),
         \/ offer' = offer
         \/ offer'.kind \in {"none", "close", "closeall"}
         \/ /\ offer'.kind = "revision" /\ offer'.tab \notin fresh
            /\ offer'.rev <= Len(versions[offer'.tab])
  PROVE  OneAtATime' /\ Untouched' /\ TextsInHand'
<1>1. TypeOK /\ OneAtATime /\ Untouched /\ TextsInHand
  BY DEF IInv
<1>2. /\ net' = net /\ fresh' = fresh /\ versions' = versions /\ draft' = draft
      /\ base' = base /\ held' = held /\ session' = session /\ original' = original /\ rev' = rev /\ loaded' = loaded
      /\ unsaved' = unsaved /\ conflicted' = conflicted
  BY DEF server, history
<1>3. offer'.kind = "load" => offer' = offer
  OBVIOUS
<1>4. \A t \in Tab : (Loading(t)' => Loading(t)) /\ (Saving(t)' => Saving(t))
  BY <1>2, <1>3 DEF Loading, Saving
<1>5. OneAtATime'
  <2>1. /\ \A m \in net' : m.kind \in LoadKinds => m.tab = focus'
        /\ offer'.kind = "load" => offer'.tab = focus'
    BY <1>1, <1>2, <1>3, NoLoads DEF OneAtATime
  <2> QED
    BY <1>1, <1>2, <1>4, <2>1 DEF OneAtATime
<1>6. Untouched'
  BY <1>1, <1>2 DEF Untouched
<1>7. ASSUME NEW t \in Tab PROVE InHand(t)'
  <2>1. session'[t] = Displayed(contents'[t])
    BY <1>2, Capture
  <2>2. InHand(t) /\ Same(t)
    BY <1>1, <1>2, SameServer DEF TextsInHand
  <2>3. Loading(t)' => rev'[t] <= Len(versions'[t])
    BY <1>2, <1>4, <2>2 DEF InHand
  <2> QED
    BY <1>1, <1>2, <1>4, <2>1, <2>2, <2>3, InHandKept DEF Same
<1>8. \A m \in net' : Carried(m)'
  BY <1>2, Capture
<1>9. offer'.kind = "revision" => offer'.rev <= Len(versions'[offer'.tab])
  BY <1>1, <1>2 DEF TextsInHand
<1> QED
  BY <1>5, <1>6, <1>7, <1>8, <1>9 DEF TextsInHand

(* The tab that comes to the front is shown. *)
LEMMA SwitchShows ==
  ASSUME NEW t, SwitchTo(t)
  PROVE  FocusShown' /\ focus' = t /\ contents' = Captured
BY DEF SwitchTo, FocusShown

LEMMA RemoveShows ==
  ASSUME FocusShown, NEW gone, Remove(gone)
  PROVE  /\ FocusShown' /\ contents' = Captured /\ open' = open \ gone
         /\ focus \notin gone => focus' = focus
<1>1. CASE focus \in gone
  <2>1. PICK t \in (open \ gone) \union {NoTab} : SwitchTo(t)
    BY <1>1 DEF Remove
  <2> QED
    BY <1>1, <2>1, SwitchShows DEF Remove
<1>2. CASE focus \notin gone
  BY <1>2 DEF Remove, FocusShown
<1> QED
  BY <1>1, <1>2

Kept == FocusShown' /\ OneAtATime' /\ Untouched' /\ TextsInHand'

LEMMA SwitchKeeps ==
  ASSUME Waits, IInv, NEW t, Switch(t)
  PROVE  Kept
<1>1. FocusShown' /\ contents' = Captured
  BY SwitchShows DEF Switch
<1>2. ~Loading(focus)
  BY LeftAlone DEF Switch
<1>3. OneAtATime' /\ Untouched' /\ TextsInHand'
  BY <1>1, <1>2, Moves DEF Switch
<1> QED
  BY <1>1, <1>3 DEF Kept

LEMMA CloseKeeps ==
  ASSUME Waits, IInv, NEW t, Close(t)
  PROVE  Kept
<1>1. ~Loading(focus)
  BY LeftAlone DEF Close
<1>2. FocusShown' /\ contents' = Captured /\ open' \subseteq open
  BY SwitchShows, RemoveShows DEF Close, IInv
<1>3. offer'.kind \in {"none", "close", "closeall"}
  BY DEF Close, NoOffer
<1>4. OneAtATime' /\ Untouched' /\ TextsInHand'
  BY <1>1, <1>2, <1>3, Moves DEF Close
<1> QED
  BY <1>2, <1>4 DEF Kept

LEMMA NothingLoads ==
  ASSUME Waits, IInv, \A t \in open : Waited(t)
  PROVE  ~Loading(focus)
<1>1. CASE focus \in open
  BY <1>1, WaitedFor
<1>2. CASE focus = NoTab
  <2>1. \A m \in net : m.tab # NoTab
    BY MessageFields, NamesAssumption DEF IInv, TypeOK
  <2>2. ASSUME offer = [kind |-> "load", tab |-> NoTab] PROVE FALSE
    <3>1. offer \in Offer /\ offer.kind = "load" /\ offer.tab = NoTab
      BY <2>2 DEF IInv, TypeOK
    <3> QED
      BY <3>1, OfferFields, NamesAssumption
  <2> QED
    BY <1>2, <2>1, <2>2 DEF Loading
<1> QED
  BY <1>1, <1>2 DEF IInv, TypeOK

LEMMA CloseAllKeeps ==
  ASSUME Waits, IInv, CloseAll
  PROVE  Kept
<1> DEFINE modified == {t \in open : IsModified(t)}
           one == CHOOSE t \in modified : TRUE
<1>1. /\ \A t \in open : Waited(t)
      /\ open' = modified
      /\ offer' = CASE modified = {} -> NoOffer
                    [] Cardinality(modified) = 1 -> [kind |-> "close", tab |-> one]
                    [] OTHER -> [kind |-> "closeall"]
      /\ IF Cardinality(modified) = 1 THEN SwitchTo(one) ELSE Remove(open \ modified)
      /\ UNCHANGED <<server, net, sent, fresh, session, original, rev, loaded, history>>
  BY DEF CloseAll
<1>2. modified \subseteq open
  OBVIOUS
<1> HIDE DEF modified, one
<1>3. FocusShown' /\ contents' = Captured /\ open' \subseteq open
  BY <1>1, <1>2, SwitchShows, RemoveShows DEF IInv
<1>4. offer'.kind \in {"none", "close", "closeall"}
  <2>1. CASE modified = {}
    <3>1. Cardinality(modified) # 1
      BY <2>1, FS_EmptySet
    <3> QED
      BY <1>1, <2>1, <3>1 DEF NoOffer
  <2>2. CASE modified # {} /\ Cardinality(modified) = 1
    <3>1. offer' = [kind |-> "close", tab |-> one]
      BY <1>1, <2>2
    <3> QED
      BY <3>1
  <2>3. CASE modified # {} /\ Cardinality(modified) # 1
    <3>1. offer' = [kind |-> "closeall"]
      BY <1>1, <2>3
    <3> QED
      BY <3>1
  <2> QED
    BY <2>1, <2>2, <2>3
<1>5. OneAtATime' /\ Untouched' /\ TextsInHand'
  <2>1. ~Loading(focus)
    BY <1>1, NothingLoads
  <2> QED
    BY <1>1, <1>3, <1>4, <2>1, Moves
<1> QED
  BY <1>3, <1>5 DEF Kept

LEMMA CloseAnywayKeeps ==
  ASSUME Waits, IInv, CloseAnyway
  PROVE  Kept
<1>1. PICK gone : Remove(gone) /\ (focus \in gone => ~Loading(focus))
  <2>1. CASE offer.kind = "close" /\ Waited(offer.tab) /\ Remove({offer.tab})
    <3>1. ~Loading(offer.tab)
      BY <2>1, WaitedFor
    <3> QED
      BY <2>1, <3>1
  <2>2. CASE (\A t \in open : Waited(t)) /\ Remove(open)
    BY <2>2, NothingLoads
  <2> QED
    BY <2>1, <2>2 DEF CloseAnyway
<1>2. /\ FocusShown' /\ contents' = Captured /\ open' \subseteq open
      /\ focus' = focus \/ ~Loading(focus)
  BY <1>1, RemoveShows DEF IInv
<1>3. offer'.kind = "none"
  BY DEF CloseAnyway, NoOffer
<1>4. OneAtATime' /\ Untouched' /\ TextsInHand'
  BY <1>2, <1>3, Moves DEF CloseAnyway
<1> QED
  BY <1>2, <1>4 DEF Kept

-----------------------------------------------------------------------------
(* The user types *)

LEMMA TypeKeeps ==
  ASSUME Waits, IInv, TypeOK', NEW text \in Text, Type(text)
  PROVE  Kept
<1> DEFINE t == focus
<1>1. TypeOK /\ OneAtATime /\ Untouched /\ TextsInHand /\ FocusShown
  BY DEF IInv
<1>2. /\ shown = t /\ t \in Tab /\ t \in open /\ t \notin fresh
      /\ ~Loading(t) /\ ~Saving(t) /\ \A m \in net : m.tab # t
  BY <1>1, WaitedFor DEF Type, TypeOK, FocusShown
<1>3. /\ session' = [session EXCEPT ![t] = text]
      /\ contents' = [contents EXCEPT ![t] = text]
      /\ unsaved' = [unsaved EXCEPT ![t] = IF text = original[t] THEN Nothing ELSE text]
      /\ UNCHANGED <<versions, draft, base, held, net, open, fresh, focus, shown, original, rev, loaded,
                     offer, conflicted>>
  BY <1>2 DEF Type, server, bar
<1> HIDE DEF t
<1>4. /\ session'[t] = text /\ contents'[t] = text
      /\ unsaved'[t] = IF text = original[t] THEN Nothing ELSE text
      /\ \A s \in Tab \ {t} :
           session'[s] = session[s] /\ contents'[s] = contents[s] /\ unsaved'[s] = unsaved[s]
  BY <1>1, <1>2, <1>3 DEF TypeOK
<1>5. /\ \A s : (Loading(s)' <=> Loading(s)) /\ (Saving(s)' <=> Saving(s))
      /\ \A s : Same(s)
  BY <1>3, SameServer DEF Loading, Saving
<1>6. FocusShown' /\ OneAtATime'
  BY <1>1, <1>3, <1>5 DEF FocusShown, OneAtATime
<1>7. Untouched'
  <2> SUFFICES ASSUME NEW s \in fresh PROVE unsaved'[s] = Nothing
    BY <1>1, <1>3 DEF Untouched
  <2>1. s \in Tab \ {t} /\ unsaved[s] = Nothing
    BY <1>1, <1>2 DEF TypeOK, Untouched
  <2> QED
    BY <1>4, <2>1
<1>8. ASSUME NEW m \in net PROVE Carried(m)'
  <2>1. m.tab \in Tab \ {t} /\ Carried(m)
    BY <1>1, <1>2, MessageFields DEF TypeOK, TextsInHand
  <2> QED
    BY <1>3, <1>4, <1>5, <2>1 DEF Carried, Same
<1>9. ASSUME NEW s \in Tab PROVE InHand(s)'
  <2>1. InHand(s)
    BY <1>1 DEF TextsInHand
  <2>2. CASE s = t
    <3>1. session'[s] = Displayed(contents'[s])
      BY <1>4, <2>2, NamesAssumption DEF Displayed
    <3>2. text # Nothing /\ unsaved'[s] # Nothing
            => session'[s] = unsaved'[s] /\ unsaved'[s] # original'[s] /\ ~Loading(s)'
      BY <1>2, <1>3, <1>4, <1>5, <2>2
    <3>3. /\ original'[s] \in Text /\ (s \in loaded' => original'[s] \in Recorded(s)')
          /\ ~Loading(s)'
      BY <1>2, <1>3, <1>5, <2>1, <2>2 DEF InHand, Same
    <3> QED
      BY <3>1, <3>2, <3>3, NamesAssumption DEF InHand
  <2>3. CASE s # t
    BY <1>3, <1>4, <1>5, <2>1, <2>3 DEF InHand, Same
  <2> QED
    BY <2>2, <2>3
<1>10. TextsInHand'
  BY <1>1, <1>3, <1>8, <1>9 DEF TextsInHand
<1> QED
  BY <1>6, <1>7, <1>10 DEF Kept

-----------------------------------------------------------------------------
(* The user asks for a text, or has one saved *)

(* The request is the only one of its tab; a load is of the tab in front.  *)
Asked(n) ==
  /\ n.tab \in Tab /\ net' = net \union {n}
  /\ n.kind \in {"get", "put", "reput"}
  /\ n.kind = "get" => n.tab = focus'
  /\ focus' = focus \/ ~Loading(focus)
  /\ \A m \in net : m.tab = n.tab => m.kind \in LoadKinds /\ n.kind = "get"
  /\ offer' = offer \/ offer' = NoOffer
  /\ n.kind # "get" => ~Loading(n.tab)

LEMMA OneAsked ==
  ASSUME IInv, NEW n, Asked(n)
  PROVE  /\ OneAtATime'
         /\ \A t \in Tab : Loading(t)' => Loading(t) \/ (t = n.tab /\ n.kind = "get")
<1>1. TypeOK /\ OneAtATime
  BY DEF IInv
<1>2. offer'.kind = "load" => offer' = offer
  BY DEF Asked, NoOffer
<1>3. /\ \A m \in net' : m.kind \in LoadKinds => m.tab = focus'
      /\ offer'.kind = "load" => offer'.tab = focus'
  BY <1>1, <1>2, NoLoads DEF Asked, OneAtATime, LoadKinds
<1>4. ASSUME NEW a \in net', NEW b \in net', a.tab = b.tab,
             a.kind \notin LoadKinds, b.kind \notin LoadKinds
      PROVE  a = b
  BY <1>1, <1>4 DEF Asked, OneAtATime
<1>5. ASSUME NEW t \in Tab
      PROVE  /\ Loading(t)' => Loading(t) \/ (t = n.tab /\ n.kind = "get")
             /\ Saving(t)' => Saving(t) \/ (t = n.tab /\ n.kind # "get")
  BY <1>2 DEF Loading, Saving, Asked
<1>6. ASSUME NEW t \in Tab PROVE ~(Loading(t)' /\ Saving(t)')
  <2>1. ~(Loading(t) /\ Saving(t))
    BY <1>1 DEF OneAtATime
  <2>2. t = n.tab => ~Saving(t)
    BY DEF Asked, Saving, LoadKinds
  <2>3. n.kind # "get" => ~Loading(n.tab)
    BY DEF Asked
  <2> QED
    BY <1>5, <2>1, <2>2, <2>3
<1> QED
  BY <1>3, <1>4, <1>5, <1>6 DEF OneAtATime

(* A load is asked for only of a tab with nothing typed at stake. *)
LEMMA AskedKeeps ==
  ASSUME IInv, NEW n, Asked(n), Carried(n)',
         UNCHANGED <<versions, draft, base, held, session, original, loaded, conflicted>>,
         \A m \in net : Carried(m)',
         \A s \in Tab : session'[s] = Displayed(contents'[s]),
         \A s \in Tab \ {n.tab} : rev'[s] = rev[s] /\ unsaved'[s] = unsaved[s],
         fresh' \subseteq fresh \ {n.tab}, open' \subseteq open \union {n.tab},
         n.kind = "get" =>
           /\ rev'[n.tab] <= Len(versions[n.tab])
           /\ n.tab \in conflicted \/ unsaved'[n.tab] = Nothing \/ n.tab \notin open',
         n.kind # "get" =>
           open' = open /\ rev'[n.tab] = rev[n.tab] /\ unsaved'[n.tab] = unsaved[n.tab]
  PROVE  OneAtATime' /\ Untouched' /\ TextsInHand'
<1>1. TypeOK /\ OneAtATime /\ Untouched /\ TextsInHand
  BY DEF IInv
<1>2. /\ OneAtATime'
      /\ \A t \in Tab : Loading(t)' => Loading(t) \/ (t = n.tab /\ n.kind = "get")
  BY OneAsked
<1>3. /\ n.tab \in Tab /\ net' = net \union {n} /\ n.kind \in {"get", "put", "reput"}
      /\ offer' = offer \/ offer' = NoOffer
  BY DEF Asked
<1>4. Untouched'
  <2> SUFFICES ASSUME NEW t \in fresh'
               PROVE  /\ \A m \in net' : m.tab # t
                      /\ offer'.kind \in {"save", "load", "revision"} => offer'.tab # t
                      /\ unsaved'[t] = Nothing /\ rev'[t] = HEAD
    BY DEF Untouched
  <2>1. t \in fresh /\ t \in Tab \ {n.tab}
    BY <1>1 DEF TypeOK
  <2> QED
    BY <1>1, <1>3, <2>1 DEF Untouched, NoOffer
<1>5. ASSUME NEW t \in Tab PROVE InHand(t)'
  <2>1. InHand(t) /\ Same(t)
    BY <1>1, SameServer DEF TextsInHand
  <2>2. CASE t = n.tab /\ n.kind = "get"
    BY <1>3, <2>1, <2>2 DEF InHand, Same
  <2>3. CASE ~(t = n.tab /\ n.kind = "get")
    <3>1. /\ rev'[t] = rev[t] /\ unsaved'[t] = unsaved[t]
          /\ t \in open' => t \in open
      BY <1>3, <2>3
    <3>2. Loading(t)' => Loading(t) /\ rev'[t] <= Len(versions'[t])
      BY <1>2, <2>1, <2>3, <3>1 DEF InHand
    <3> QED
      BY <1>1, <2>1, <3>1, <3>2, InHandKept DEF Same
  <2> QED
    BY <2>2, <2>3
<1>6. \A m \in net' : Carried(m)'
  BY <1>3
<1>7. offer'.kind = "revision" => offer'.rev <= Len(versions'[offer'.tab])
  BY <1>1, <1>3 DEF TextsInHand, NoOffer
<1> QED
  BY <1>2, <1>4, <1>5, <1>6, <1>7 DEF TextsInHand

LEMMA OpenKeeps ==
  ASSUME Waits, IInv, NEW t \in Tab, Open(t)
  PROVE  Kept
<1>n. PICK n : n = [kind |-> "get", tab |-> t, rev |-> rev[t]]
  OBVIOUS
<1>1. TypeOK /\ OneAtATime /\ Untouched
  BY DEF IInv
<1>2. /\ FocusShown' /\ focus' = t /\ contents' = Captured
      /\ t \in fresh /\ fresh' = fresh \ {t} /\ open' = open \union {t} /\ net' = net \union {n}
      /\ UNCHANGED <<versions, draft, base, held, session, original, rev, loaded, offer,
                     unsaved, conflicted>>
  BY <1>n, SwitchShows DEF Open, Send, server, history
<1>3. ~Loading(focus)
  BY LeftAlone DEF Open
<1>4. unsaved[t] = Nothing /\ rev[t] = HEAD /\ \A m \in net : m.tab # t
  BY <1>1, <1>2 DEF Untouched
<1>5. n.tab = t /\ n.kind = "get" /\ n.rev = rev[t]
  BY <1>n
<1>6. Asked(n)
  BY <1>2, <1>3, <1>4, <1>5 DEF Asked
<1>7. rev[t] <= Len(versions[t])
  BY <1>1, <1>4, BoundsAssumption DEF HEAD, TypeOK
<1>8. Carried(n)'
  BY <1>2, <1>5, <1>7 DEF Carried
<1>9. /\ \A m \in net : Carried(m)'
      /\ \A s \in Tab : session'[s] = Displayed(contents'[s])
  BY <1>2, Capture
<1>10. OneAtATime' /\ Untouched' /\ TextsInHand'
  BY <1>2, <1>4, <1>5, <1>6, <1>7, <1>8, <1>9, AskedKeeps
<1> QED
  BY <1>2, <1>10 DEF Kept

LEMMA SaveKeeps ==
  ASSUME Waits, IInv, NEW t \in Tab, Save(t)
  PROVE  Kept
<1>n. PICK n : n = [kind |-> "put", tab |-> t, text |-> session[t]]
  OBVIOUS
<1>1. TypeOK /\ OneAtATime /\ Untouched /\ FocusShown
  BY DEF IInv
<1>2. /\ t = focus /\ Waited(t) /\ contents' = Captured /\ net' = net \union {n}
      /\ UNCHANGED <<versions, draft, base, held, open, fresh, focus, shown, session, original, rev, loaded,
                     offer, unsaved, conflicted>>
  BY <1>n DEF Save, Send, server, bar, history
<1>3. ~Loading(t) /\ \A m \in net : m.tab # t
  BY <1>2, WaitedFor
<1>4. n.tab = t /\ n.kind = "put" /\ n.text = session[t]
  BY <1>n
<1>5. Asked(n)
  BY <1>2, <1>3, <1>4 DEF Asked
<1>6. contents'[t] = session[t]
  BY <1>2, TextsOf
<1>7. Carried(n)'
  BY <1>4, <1>6 DEF Carried
<1>8. /\ \A m \in net : Carried(m)'
      /\ \A s \in Tab : session'[s] = Displayed(contents'[s])
  BY <1>2, Capture
<1>9. fresh' \subseteq fresh \ {t}
  BY <1>1, <1>2, NamesAssumption DEF TypeOK
<1>10. OneAtATime' /\ Untouched' /\ TextsInHand'
  BY <1>2, <1>4, <1>5, <1>7, <1>8, <1>9, AskedKeeps
<1> QED
  BY <1>1, <1>2, <1>10 DEF Kept, FocusShown

(* Nothing typed is at stake in a tab that is not modified. *)
LEMMA NothingTyped ==
  ASSUME IInv, NEW t \in open, ~IsModified(t)
  PROVE  t \in conflicted \/ unsaved[t] = Nothing
<1> SUFFICES ASSUME t \notin conflicted, unsaved[t] # Nothing PROVE FALSE
  OBVIOUS
<1>1. t \in Tab
  BY DEF IInv, TypeOK
<1>2. /\ contents[t] = Undefined \/ contents[t] = session[t]
      /\ original[t] \in Text /\ Undefined \notin Text
      /\ Captured[t] = IF t = focus THEN session[t] ELSE contents[t]
      /\ InHand(t)
  BY <1>1, TextsOf
<1>3. session[t] # original[t]
  BY <1>2 DEF InHand
<1> QED
  BY <1>2, <1>3 DEF IsModified

LEMMA ChangeRevisionKeeps ==
  ASSUME Waits, IInv, NEW t \in Tab, NEW r \in Revision, ChangeRevision(t, r)
  PROVE  Kept
<1> DEFINE n == [kind |-> "get", tab |-> t, rev |-> r]
<1>1. TypeOK /\ OneAtATime /\ Untouched /\ FocusShown
  BY DEF IInv
<1>2. /\ t = focus /\ Waited(t) /\ contents' = Captured /\ r \in 1..Len(versions[t])
      /\ UNCHANGED <<server, versions, draft, base, held, open, fresh, focus, shown, session, original,
                     loaded, history, unsaved, conflicted>>
  BY DEF ChangeRevision, server, bar, history
<1>3. ~Loading(t) /\ \A m \in net : m.tab # t
  BY <1>2, WaitedFor
<1>4. t \in open /\ t \notin fresh /\ r <= Len(versions[t])
  BY <1>1, <1>2, NamesAssumption, BoundsAssumption DEF TypeOK
<1>5. ASSUME IsModified(t) PROVE OneAtATime' /\ Untouched' /\ TextsInHand'
  <2>1. offer' = [kind |-> "revision", tab |-> t, rev |-> r] /\ UNCHANGED <<net, rev>>
    BY <1>5 DEF ChangeRevision
  <2>2. offer'.kind = "revision" /\ offer'.tab = t /\ offer'.rev = r
    BY <2>1
  <2> QED
    BY <1>2, <1>4, <2>1, <2>2, Moves
<1>6. ASSUME ~IsModified(t) PROVE OneAtATime' /\ Untouched' /\ TextsInHand'
  <2>1. rev' = [rev EXCEPT ![t] = r] /\ offer' = NoOffer /\ net' = net \union {n}
    BY <1>6 DEF ChangeRevision, Send
  <2>2. rev'[t] = r /\ \A s \in Tab \ {t} : rev'[s] = rev[s]
    BY <1>1, <2>1 DEF TypeOK
  <2>3. n.tab = t /\ n.kind = "get" /\ n.rev = r
    OBVIOUS
  <2> HIDE DEF n
  <2>4. Asked(n)
    BY <1>2, <1>3, <2>1, <2>3 DEF Asked
  <2>5. Carried(n)'
    BY <1>2, <1>4, <2>3 DEF Carried
  <2>6. /\ \A m \in net : Carried(m)'
        /\ \A s \in Tab : session'[s] = Displayed(contents'[s])
    BY <1>2, Capture
  <2>7. t \in conflicted \/ unsaved[t] = Nothing
    BY <1>4, <1>6, NothingTyped
  <2>8. fresh' \subseteq fresh \ {t}
    BY <1>2, <1>4
  <2> QED
    BY <1>2, <1>4, <2>2, <2>3, <2>4, <2>5, <2>6, <2>7, <2>8, AskedKeeps
<1> QED
  BY <1>1, <1>2, <1>5, <1>6 DEF Kept, FocusShown

LEMMA RevisionAnywayKeeps ==
  ASSUME Waits, IInv, RevisionAnyway
  PROVE  Kept
<1>t. PICK t : t = offer.tab
  OBVIOUS
<1>n. PICK n : n = [kind |-> "get", tab |-> t, rev |-> offer.rev]
  OBVIOUS
<1>1. TypeOK /\ OneAtATime /\ Untouched /\ FocusShown /\ TextsInHand
  BY DEF IInv
<1>2. /\ t = focus /\ Waited(t) /\ net' = net \union {n} /\ offer' = NoOffer
      /\ contents' = [contents EXCEPT ![t] = session[t]]
      /\ rev' = [rev EXCEPT ![t] = offer.rev]
      /\ unsaved' = [unsaved EXCEPT ![t] = Nothing]
      /\ UNCHANGED <<versions, draft, base, held, open, fresh, focus, shown, session, original, loaded,
                     conflicted>>
  BY <1>t, <1>n DEF RevisionAnyway, Waits, Send, server, bar
<1>3. t \in Tab /\ t \notin fresh /\ offer.rev <= Len(versions[t])
  BY <1>t, <1>1, OfferFields DEF RevisionAnyway, TypeOK, TextsInHand, Untouched
<1>4. ~Loading(t) /\ \A m \in net : m.tab # t
  BY <1>2, WaitedFor
<1>5. n.tab = t /\ n.kind = "get" /\ n.rev = offer.rev
  BY <1>n
<1>6. /\ contents'[t] = session[t] /\ rev'[t] = offer.rev /\ unsaved'[t] = Nothing
      /\ \A s \in Tab \ {t} :
           contents'[s] = contents[s] /\ rev'[s] = rev[s] /\ unsaved'[s] = unsaved[s]
  BY <1>1, <1>2, <1>3 DEF TypeOK
<1>7. Asked(n)
  BY <1>2, <1>3, <1>4, <1>5 DEF Asked
<1>8. Carried(n)'
  BY <1>2, <1>3, <1>5 DEF Carried
<1>9. \A s \in Tab : session'[s] = Displayed(contents'[s])
  BY <1>2, <1>6, TextsOf
<1>10. ASSUME NEW m \in net PROVE Carried(m)'
  <2>1. m.tab \in Tab \ {t} /\ Carried(m)
    BY <1>1, <1>4, MessageFields DEF TypeOK, TextsInHand
  <2>2. Same(m.tab)
    BY <1>2, SameServer
  <2> QED
    BY <1>2, <1>6, <2>1, <2>2 DEF Carried, Same
<1>11. fresh' \subseteq fresh \ {t}
  BY <1>2, <1>3
<1>12. OneAtATime' /\ Untouched' /\ TextsInHand'
  BY <1>2, <1>3, <1>5, <1>6, <1>7, <1>8, <1>9, <1>10, <1>11, AskedKeeps
<1> QED
  BY <1>1, <1>2, <1>12 DEF Kept, FocusShown

LEMMA RetryLoadKeeps ==
  ASSUME Waits, IInv, RetryLoad
  PROVE  Kept
<1>t. PICK t : t = offer.tab
  OBVIOUS
<1>n. PICK n : n = [kind |-> "get", tab |-> t, rev |-> rev[t]]
  OBVIOUS
<1>1. TypeOK /\ OneAtATime /\ Untouched /\ FocusShown /\ TextsInHand
  BY DEF IInv
<1>2. /\ offer.kind = "load" /\ t = focus /\ net' = net \union {n} /\ offer' = NoOffer
      /\ UNCHANGED <<versions, draft, base, held, open, fresh, focus, shown, session, contents, original,
                     rev, loaded, unsaved, conflicted>>
  BY <1>t, <1>n DEF RetryLoad, Waits, Send, server, bar, texts, history
<1>3. t \in Tab /\ t \notin fresh /\ offer = [kind |-> "load", tab |-> t]
  <2>1. offer \in Offer
    BY <1>1 DEF TypeOK
  <2>2. t \in Tab /\ offer = [kind |-> "load", tab |-> t]
    BY <1>t, <1>2, <2>1, OfferFields
  <2> QED
    BY <1>t, <1>1, <1>2, <2>2 DEF Untouched
<1>4. n.tab = t /\ n.kind = "get" /\ n.rev = rev[t]
  BY <1>n
<1>5. Loading(t) /\ ~Saving(t)
  BY <1>1, <1>3 DEF Loading, OneAtATime
<1>6. \A m \in net : m.tab = t => m.kind \in LoadKinds
  BY <1>5 DEF Saving, LoadKinds
<1>7. InHand(t)
  BY <1>1, <1>3 DEF TextsInHand
<1>8. /\ rev[t] <= Len(versions[t])
      /\ t \in conflicted \/ unsaved[t] = Nothing \/ t \notin open
  BY <1>5, <1>7 DEF InHand
<1>9. Asked(n)
  BY <1>2, <1>3, <1>4, <1>6 DEF Asked
<1>10. Carried(n)'
  BY <1>2, <1>4, <1>8 DEF Carried
<1>11. \A s : Same(s)
  BY <1>2, SameServer
<1>12. \A m \in net : Carried(m)'
  BY <1>1, <1>2, <1>11 DEF Carried, TextsInHand, Same
<1>13. \A s \in Tab : session'[s] = Displayed(contents'[s])
  BY <1>2, TextsOf
<1>14. fresh' \subseteq fresh \ {t}
  BY <1>2, <1>3
<1>15. OneAtATime' /\ Untouched' /\ TextsInHand'
  BY <1>2, <1>3, <1>4, <1>8, <1>9, <1>10, <1>12, <1>13, <1>14, AskedKeeps
<1> QED
  BY <1>1, <1>2, <1>15 DEF Kept, FocusShown

LEMMA RetrySaveKeeps ==
  ASSUME Waits, IInv, RetrySave
  PROVE  Kept
<1>t. PICK t : t = offer.tab
  OBVIOUS
<1>n. PICK n : n = [kind |-> "reput", tab |-> t, text |-> contents[t]]
  OBVIOUS
<1>1. TypeOK /\ OneAtATime /\ Untouched /\ FocusShown /\ TextsInHand
  BY DEF IInv
<1>2. /\ offer.kind = "save" /\ Waited(t) /\ net' = net \union {n} /\ offer' = NoOffer
      /\ UNCHANGED <<versions, draft, base, held, open, fresh, focus, shown, session, contents, original,
                     rev, loaded, unsaved, conflicted>>
  BY <1>t, <1>n DEF RetrySave, Send, server, bar, texts, history
<1>3. t \in Tab /\ t \notin fresh
  BY <1>t, <1>1, <1>2, OfferFields DEF TypeOK, Untouched
<1>4. n.tab = t /\ n.kind = "reput" /\ n.text = contents[t]
  BY <1>n
<1>5. ~Loading(t) /\ \A m \in net : m.tab # t
  BY <1>2, WaitedFor
<1>6. Asked(n)
  BY <1>2, <1>3, <1>4, <1>5 DEF Asked
<1>7. Carried(n)'
  BY <1>2, <1>4 DEF Carried
<1>8. \A s : Same(s)
  BY <1>2, SameServer
<1>9. \A m \in net : Carried(m)'
  BY <1>1, <1>2, <1>8 DEF Carried, TextsInHand, Same
<1>10. \A s \in Tab : session'[s] = Displayed(contents'[s])
  BY <1>2, TextsOf
<1>11. fresh' \subseteq fresh \ {t}
  BY <1>2, <1>3
<1>12. OneAtATime' /\ Untouched' /\ TextsInHand'
  BY <1>2, <1>3, <1>4, <1>6, <1>7, <1>9, <1>10, <1>11, AskedKeeps
<1> QED
  BY <1>1, <1>2, <1>12 DEF Kept, FocusShown

-----------------------------------------------------------------------------
(* The server answers *)

(* One message takes the place of another of its tab, a load of a load, a  *)
(* save of a save.                                                         *)
Replaced(m, a) ==
  /\ net' = (net \ {m}) \union {a}
  /\ a.tab = m.tab /\ (a.kind \in LoadKinds <=> m.kind \in LoadKinds)

LEMMA OneReplaced ==
  ASSUME OneAtATime, NEW m \in net, NEW a, Replaced(m, a), UNCHANGED <<offer, focus>>
  PROVE  /\ OneAtATime'
         /\ \A t : Loading(t)' => Loading(t)
<1>1. \A t : (Loading(t)' => Loading(t)) /\ (Saving(t)' => Saving(t))
  BY DEF Replaced, Loading, Saving, LoadKinds
<1>2. /\ \A n \in net' : n.kind \in LoadKinds => n.tab = focus'
      /\ offer'.kind = "load" => offer'.tab = focus'
  BY DEF Replaced, OneAtATime
<1>3. ASSUME NEW b \in net', NEW c \in net', b.tab = c.tab,
             b.kind \notin LoadKinds, c.kind \notin LoadKinds
      PROVE  b = c
  BY <1>3 DEF Replaced, OneAtATime
<1> QED
  BY <1>1, <1>2, <1>3 DEF OneAtATime

(* What is committed of a file stays committed, and there is no less of it *)
(* in the master.                                                          *)
Grows(t) ==
  /\ Committed(t) \subseteq Committed(t)'
  /\ Recorded(t) \subseteq Recorded(t)'
  /\ Len(versions[t]) <= Len(versions'[t])

(* A draft that is the text to save, or has nothing to commit, stays so.   *)
DraftKept(t) ==
  draft[t] \in {contents[t], HeadText(t)} => draft'[t] \in {contents'[t], HeadText(t)'}

(* When the server works, what the user and the network leave alone stays  *)
(* in hand.                                                                *)
LEMMA ServerMoves ==
  ASSUME IInv, TypeOK', UNCHANGED <<bar, texts, offer, history>>,
         \A t \in Tab : Grows(t) /\ (Loading(t)' => Loading(t))
  PROVE  /\ FocusShown'
         /\ \A n \in net : (n.kind \in {"done", "commit"} => DraftKept(n.tab)) => Carried(n)'
         /\ \A t \in Tab : InHand(t)'
         /\ offer'.kind = "revision" => offer'.rev <= Len(versions'[offer'.tab])
<1>1. TypeOK /\ FocusShown /\ TextsInHand
  BY DEF IInv
<1>2. UNCHANGED <<open, fresh, focus, shown, session, contents, original, rev, loaded, offer,
                  unsaved, conflicted>>
  BY DEF bar, texts, history
<1>3. FocusShown'
  BY <1>1, <1>2 DEF FocusShown
<1>4. ASSUME NEW s \in Tab, NEW r \in Revision, r <= Len(versions[s])
      PROVE  r <= Len(versions'[s])
  <2>1. Len(versions[s]) \in 1..MaxVersions
    BY <1>1 DEF TypeOK
  <2>2. Len(versions'[s]) \in 1..MaxVersions
    BY DEF TypeOK
  <2>3. Len(versions[s]) <= Len(versions'[s])
    BY DEF Grows
  <2> QED
    BY <1>4, <2>1, <2>2, <2>3, BoundsAssumption DEF Revision, Local
<1>5. ASSUME NEW n \in net, n.kind \in {"done", "commit"} => DraftKept(n.tab)
      PROVE  Carried(n)'
  <2>1. n \in Message /\ Carried(n)
    BY <1>1 DEF TypeOK, TextsInHand
  <2>2. n.tab \in Tab /\ (n.kind = "get" => n.rev \in Revision)
    BY <2>1, MessageFields
  <2>3. n.kind = "get" => n.rev <= Len(versions'[n.tab])
    BY <1>4, <2>1, <2>2 DEF Carried
  <2>4. n.kind \in {"done", "commit"} => draft'[n.tab] \in {contents'[n.tab], HeadText(n.tab)'}
    BY <1>5, <2>1 DEF Carried, DraftKept
  <2>5. Grows(n.tab)
    BY <2>2
  <2> QED
    BY <1>2, <2>1, <2>3, <2>4, <2>5 DEF Carried, Grows
<1>6. ASSUME NEW t \in Tab PROVE InHand(t)'
  <2>1. InHand(t) /\ session[t] = Displayed(contents[t]) /\ rev[t] \in Revision
    BY <1>1 DEF TextsInHand, InHand, TypeOK
  <2>2. Loading(t)' => Loading(t) /\ rev'[t] <= Len(versions'[t])
    BY <1>2, <1>4, <2>1 DEF InHand
  <2>3. Recorded(t) \subseteq Recorded(t)'
    BY DEF Grows
  <2> QED
    BY <1>1, <1>2, <2>1, <2>2, <2>3, InHandKept
<1>7. offer'.kind = "revision" => offer'.rev <= Len(versions'[offer'.tab])
  <2> SUFFICES ASSUME offer.kind = "revision" PROVE offer.rev <= Len(versions'[offer.tab])
    BY <1>2
  <2>1. offer.tab \in Tab /\ offer.rev \in Revision
    BY <1>1, OfferFields DEF TypeOK
  <2> QED
    BY <1>1, <1>4, <2>1 DEF TextsInHand
<1> QED
  BY <1>3, <1>5, <1>6, <1>7

(* The versions of each file grow, and the draft changes only of a file    *)
(* whose save is being answered.                                           *)
LEMMA ReplacedKeeps ==
  ASSUME IInv, TypeOK', NEW m \in net, NEW a, Replaced(m, a), Carried(a)',
         UNCHANGED <<bar, texts, offer, history>>,
         \A t \in Tab : Grows(t),
         \A t \in Tab : DraftKept(t) \/ (t = m.tab /\ m.kind \notin LoadKinds)
  PROVE  Kept
<1>1. TypeOK /\ OneAtATime /\ Untouched /\ TextsInHand
  BY DEF IInv
<1>2. UNCHANGED <<fresh, focus, rev, offer, unsaved>>
  BY DEF bar, texts, history
<1>3. OneAtATime' /\ \A t : Loading(t)' => Loading(t)
  BY <1>1, <1>2, OneReplaced
<1>4. Untouched'
  BY <1>1, <1>2 DEF Untouched, Replaced
<1>5. ASSUME NEW n \in net, n # m, n.kind \in {"done", "commit"} PROVE DraftKept(n.tab)
  <2>1. n.tab \in Tab /\ n.kind \notin LoadKinds
    BY <1>1, <1>5, MessageFields DEF TypeOK, LoadKinds
  <2> QED
    BY <1>1, <1>5, <2>1 DEF OneAtATime
<1>6. \A n \in net' : Carried(n)'
  BY <1>3, <1>5, ServerMoves DEF Replaced
<1> QED
  BY <1>3, <1>4, <1>6, ServerMoves DEF TextsInHand, Kept

(* Nothing under way changes. *)
LEMMA AloneKeeps ==
  ASSUME IInv, TypeOK', UNCHANGED <<net, sent, bar, texts, offer, history>>,
         \A t \in Tab : Grows(t) /\ DraftKept(t)
  PROVE  Kept
<1>1. TypeOK /\ OneAtATime /\ Untouched
  BY DEF IInv
<1>2. UNCHANGED <<net, fresh, focus, rev, offer, unsaved>>
  BY DEF bar, texts, history
<1>3. OneAtATime' /\ Untouched' /\ \A t : Loading(t)' <=> Loading(t)
  BY <1>1, <1>2 DEF OneAtATime, Untouched, Loading, Saving
<1>4. \A n \in net : DraftKept(n.tab)
  BY <1>1, MessageFields DEF TypeOK
<1>5. \A n \in net' : Carried(n)'
  BY <1>2, <1>3, <1>4, ServerMoves
<1> QED
  BY <1>3, <1>5, ServerMoves DEF TextsInHand, Kept

LEMMA StandsStill ==
  ASSUME TypeOK, UNCHANGED <<versions, draft, base, held, contents>>
  PROVE  \A t \in Tab : Same(t) /\ Grows(t) /\ DraftKept(t)
<1>1. \A t : Same(t)
  BY SameServer
<1>2. \A t \in Tab : Len(versions[t]) <= Len(versions'[t])
  BY BoundsAssumption DEF TypeOK
<1> QED
  BY <1>1, <1>2 DEF Same, Grows, DraftKept

(* A file of which the master and the clone keep what they had.            *)
LEMMA StandsAside ==
  ASSUME TypeOK, NEW t \in Tab, versions'[t] = versions[t], base'[t] = base[t],
         held'[t] = held[t], draft'[t] = draft[t], contents'[t] = contents[t]
  PROVE  Grows(t) /\ DraftKept(t)
<1>1. Len(versions[t]) <= Len(versions'[t])
  BY BoundsAssumption DEF TypeOK
<1>2. Committed(t)' = Committed(t) /\ Recorded(t)' = Recorded(t) /\ HeadText(t)' = HeadText(t)
  BY DEF Committed, Recorded, HeadText
<1> QED
  BY <1>1, <1>2 DEF Grows, DraftKept

(* More versions of one file, or more commits held: none is lost.          *)
LEMMA GrowsOne ==
  ASSUME TypeOK, NEW t \in Tab, NEW new, MoreOf(t, new),
         versions' = [versions EXCEPT ![t] = new],
         Elements(held[t]) \subseteq Elements(new) \union Elements(held'[t])
  PROVE  Grows(t)
<1>1. /\ versions'[t] = new /\ Committed(t) \subseteq Committed(t)'
      /\ Len(versions[t]) <= Len(versions'[t])
  BY VersionsTyped
<1>2. /\ Committed(t)' = Elements(new)
      /\ Recorded(t)' = Elements(new) \union Elements(held'[t])
      /\ Recorded(t) = Committed(t) \union Elements(held[t])
  BY <1>1 DEF Committed, Recorded, Elements
<1> QED
  BY <1>1, <1>2 DEF Grows

LEMMA GrowsHeld ==
  ASSUME TypeOK, NEW t \in Tab, versions' = versions,
         Elements(held[t]) \subseteq Elements(held'[t])
  PROVE  Grows(t)
<1>1. Len(versions[t]) <= Len(versions'[t])
  BY BoundsAssumption DEF TypeOK
<1>2. /\ Committed(t)' = Committed(t)
      /\ Recorded(t)' = Committed(t) \union Elements(held'[t])
      /\ Recorded(t) = Committed(t) \union Elements(held[t])
  BY DEF Committed, Recorded, Elements
<1> QED
  BY <1>1, <1>2 DEF Grows

LEMMA ServeGetKeeps ==
  ASSUME IInv, TypeOK', NEW m \in net, ServeGet(m), UNCHANGED <<sent, bar, texts, offer, history>>
  PROVE  Kept
<1> DEFINE text == IF m.rev = HEAD THEN Latest(m.tab)
                   ELSE IF m.rev > Len(versions[m.tab]) THEN Undefined
                   ELSE versions[m.tab][m.rev]
<1>1. TypeOK /\ TextsInHand
  BY DEF IInv
<1>2. m.kind = "get" /\ Answer(m, [kind |-> "got", tab |-> m.tab, text |-> text])
      /\ UNCHANGED <<versions, draft, base, held, contents>>
  BY DEF ServeGet, server, texts
<1>3. m.tab \in Tab /\ m.rev \in Nat /\ m.rev <= Len(versions[m.tab])
  BY <1>1, <1>2, MessageFields, BoundsAssumption DEF TypeOK, TextsInHand, Carried, Revision, Local
<1>4. text \in Committed(m.tab)
  <2>1. /\ Latest(m.tab) \in Committed(m.tab) /\ Len(versions[m.tab]) \in Nat
        /\ \A i \in 1..Len(versions[m.tab]) : versions[m.tab][i] \in Committed(m.tab)
    BY <1>1, <1>3, CommittedTyped, BoundsAssumption
  <2>2. CASE m.rev = HEAD
    BY <2>1, <2>2
  <2>3. CASE m.rev # HEAD
    <3>1. m.rev \in 1..Len(versions[m.tab]) /\ ~(m.rev > Len(versions[m.tab]))
      BY <1>3, <2>1, <2>3 DEF HEAD
    <3> QED
      BY <2>1, <2>3, <3>1
  <2> QED
    BY <2>2, <2>3
<1> HIDE DEF text
<1>5. PICK a : a = [kind |-> "got", tab |-> m.tab, text |-> text]
  OBVIOUS
<1>6. a.kind = "got" /\ a.tab = m.tab /\ a.text = text
  BY <1>5
<1>7. Replaced(m, a)
  BY <1>2, <1>5, <1>6 DEF Answer, Replaced, LoadKinds
<1>8. \A t \in Tab : Same(t) /\ Grows(t) /\ DraftKept(t)
  BY <1>1, <1>2, StandsStill
<1>9. Carried(a)'
  BY <1>3, <1>4, <1>6, <1>8 DEF Carried, Same
<1> QED
  BY <1>7, <1>8, <1>9, ReplacedKeeps

LEMMA ServePutKeeps ==
  ASSUME IInv, TypeOK', NEW m \in net, ServePut(m), UNCHANGED <<sent, bar, texts, offer, history>>
  PROVE  Kept
<1>1. TypeOK /\ TextsInHand
  BY DEF IInv
<1>2. /\ m.kind \in {"put", "reput"} /\ UNCHANGED <<versions, held, contents>> /\ Carried(m)
      /\ \A t \in Tab \ {m.tab} : draft'[t] = draft[t] /\ base'[t] = base[t]
  BY <1>1 DEF ServePut, texts, TextsInHand, TypeOK
<1>3. m.tab \in Tab /\ (m.kind = "put" => m.text \in {contents[m.tab], Undefined})
  BY <1>1, <1>2, MessageFields DEF TypeOK, Carried
<1>4. PICK a : /\ net' = (net \ {m}) \union {a} /\ a.tab = m.tab
               /\ \/ a.kind \in {"nosave", "redone"}
                  \/ /\ m.kind = "put" /\ a.kind = "done" /\ m.text # Undefined
                     /\ draft' = [draft EXCEPT ![m.tab] = m.text]
  <2>1. CASE m.text = Undefined
    <3>1. PICK a : a = [kind |-> "nosave", tab |-> m.tab]
      OBVIOUS
    <3>2. net' = (net \ {m}) \union {a}
      BY <2>1, <3>1 DEF ServePut, Answer
    <3>3. a.tab = m.tab /\ a.kind = "nosave"
      BY <3>1
    <3> QED
      BY <3>2, <3>3
  <2>2. CASE m.text # Undefined /\ m.kind = "put"
    <3>1. PICK a : a = [kind |-> "done", tab |-> m.tab]
      OBVIOUS
    <3>2. net' = (net \ {m}) \union {a} /\ draft' = [draft EXCEPT ![m.tab] = m.text]
      BY <2>2, <3>1 DEF ServePut, Answer
    <3>3. a.tab = m.tab /\ a.kind = "done"
      BY <3>1
    <3> QED
      BY <2>2, <3>2, <3>3
  <2>3. CASE m.text # Undefined /\ m.kind # "put"
    <3>1. PICK a : a = [kind |-> "redone", tab |-> m.tab]
      OBVIOUS
    <3>2. net' = (net \ {m}) \union {a}
      BY <2>3, <3>1 DEF ServePut, Answer
    <3>3. a.tab = m.tab /\ a.kind = "redone"
      BY <3>1
    <3> QED
      BY <3>2, <3>3
  <2> QED
    BY <2>1, <2>2, <2>3
<1>5. Replaced(m, a)
  BY <1>2, <1>4 DEF Replaced, LoadKinds
<1>6. ASSUME NEW t \in Tab
      PROVE  Grows(t) /\ (DraftKept(t) \/ (t = m.tab /\ m.kind \notin LoadKinds))
  <2>1. Grows(t)
    BY <1>1, <1>2, GrowsHeld
  <2>2. t # m.tab => DraftKept(t)
    BY <1>1, <1>2, StandsAside
  <2> QED
    BY <1>2, <2>1, <2>2 DEF LoadKinds
<1>7. a.kind = "done" => draft'[m.tab] = contents'[m.tab]
  BY <1>1, <1>2, <1>3, <1>4 DEF TypeOK
<1>8. Carried(a)'
  BY <1>4, <1>7 DEF Carried
<1> QED
  BY <1>5, <1>6, <1>8, ReplacedKeeps

(* A commit is of the text the tab captured. *)
LEMMA CommitsContents ==
  ASSUME IInv, NEW m \in net, Commits(m)
  PROVE  m.tab \in Tab /\ m.kind \notin LoadKinds /\ draft[m.tab] = contents[m.tab]
BY MessageFields DEF IInv, TypeOK, TextsInHand, Carried, Commits, LoadKinds

(* The save is answered "saved" when there is a commit of the text.        *)
LEMMA SavedAnswerKeeps ==
  ASSUME IInv, TypeOK', NEW m \in net, Commits(m), NEW r,
         Answer(m, [kind |-> "saved", tab |-> m.tab, rev |-> r]),
         UNCHANGED <<sent, bar, texts, offer, history>>,
         Grows(m.tab), draft[m.tab] \in Recorded(m.tab)',
         \A t \in Tab \ {m.tab} :
           /\ versions'[t] = versions[t] /\ base'[t] = base[t]
           /\ held'[t] = held[t] /\ draft'[t] = draft[t]
  PROVE  Kept
<1>1. TypeOK /\ contents' = contents
  BY DEF IInv, texts
<1>2. m.tab \in Tab /\ m.kind \notin LoadKinds /\ draft[m.tab] = contents[m.tab]
  BY CommitsContents
<1>3. PICK a : a = [kind |-> "saved", tab |-> m.tab, rev |-> r]
  OBVIOUS
<1>4. a.kind = "saved" /\ a.tab = m.tab
  BY <1>3
<1>5. Replaced(m, a) /\ Carried(a)'
  BY <1>1, <1>2, <1>3, <1>4 DEF Answer, Replaced, Carried, LoadKinds
<1>6. ASSUME NEW t \in Tab
      PROVE  Grows(t) /\ (DraftKept(t) \/ (t = m.tab /\ m.kind \notin LoadKinds))
  BY <1>1, <1>2, StandsAside
<1> QED
  BY <1>5, <1>6, ReplacedKeeps

LEMMA ServeCommitKeeps ==
  ASSUME IInv, TypeOK', NEW m \in net, ServeCommit(m),
         UNCHANGED <<sent, bar, texts, offer, history>>
  PROVE  Kept
<1>t. PICK t : t = m.tab
  OBVIOUS
<1>n. PICK new : new = Append(versions[t], draft[t])
  OBVIOUS
<1>r. PICK r : r = base'[t]
  OBVIOUS
<1>1. TypeOK
  BY DEF IInv
<1>2. /\ Commits(m) /\ held' = held /\ draft' = draft /\ Len(versions[t]) + 1 <= MaxVersions
      /\ versions' = [versions EXCEPT ![t] = new] /\ base' = [base EXCEPT ![t] = base[t] + 1]
      /\ Answer(m, [kind |-> "saved", tab |-> t, rev |-> r])
  BY <1>t, <1>n, <1>r DEF ServeCommit, Room
<1>3. t \in Tab /\ draft[t] \in Text /\ Len(versions[t]) \in Nat
  BY <1>t, <1>1, <1>2, CommitsContents, BoundsAssumption DEF TypeOK
<1>4. MoreOf(t, new) /\ Len(new) = Len(versions[t]) + 1 /\ new[Len(versions[t]) + 1] = draft[t]
  BY <1>n, <1>1, <1>2, <1>3, MoreVersions
<1>5. Grows(t) /\ versions'[t] = new
  BY <1>1, <1>2, <1>3, <1>4, GrowsOne, VersionsTyped
<1>6. draft[t] \in Recorded(t)'
  <2>1. Len(versions[t]) + 1 \in DOMAIN new
    BY <1>3, <1>4 DEF MoreOf
  <2> QED
    BY <1>4, <1>5, <2>1 DEF Recorded, Committed
<1>7. \A s \in Tab \ {t} : versions'[s] = versions[s] /\ base'[s] = base[s]
  BY <1>1, <1>2 DEF TypeOK
<1> QED
  BY <1>t, <1>2, <1>5, <1>6, <1>7, SavedAnswerKeeps

(* What the clone brings to the master is then in the master.              *)
LEMMA BroughtGrows ==
  ASSUME TypeOK, NEW t \in Tab, NEW new \in Seq(Text),
         Len(versions[t]) + Len(new) <= MaxVersions,
         versions' = [versions EXCEPT ![t] = versions[t] \o new],
         Elements(held[t]) \subseteq Elements(new)
  PROVE  /\ Grows(t) /\ versions'[t] = versions[t] \o new
         /\ Elements(new) \subseteq Recorded(t)'
<1>m. PICK more : more = versions[t] \o new
  OBVIOUS
<1>1. versions[t] \in Seq(Text)
  BY DEF TypeOK
<1>2. MoreOf(t, more) /\ Elements(new) \subseteq Elements(more)
  BY <1>m, <1>1, MoreVersions, Concatenated
<1>3. Grows(t) /\ versions'[t] = more
  BY <1>m, <1>2, GrowsOne, VersionsTyped
<1> QED
  BY <1>m, <1>2, <1>3 DEF Recorded, Committed, Elements

LEMMA DraftLast ==
  ASSUME TypeOK, NEW t \in Tab
  PROVE  /\ draft[t] \in Elements(<<draft[t]>>)
         /\ draft[t] \in Elements(held[t] \o <<draft[t], Mixed>>)
         /\ Elements(held[t]) \subseteq Elements(held[t] \o <<draft[t], Mixed>>)
<1>1. /\ held[t] \in Seq(Text) /\ <<draft[t], Mixed>> \in Seq(Text)
  BY HeldTyped
<1>2. draft[t] \in Elements(<<draft[t]>>)
  <2>1. 1 \in DOMAIN <<draft[t]>> /\ <<draft[t]>>[1] = draft[t]
    OBVIOUS
  <2> QED
    BY <2>1 DEF Elements
<1>3. draft[t] \in Elements(<<draft[t], Mixed>>)
  <2>1. 1 \in DOMAIN <<draft[t], Mixed>> /\ <<draft[t], Mixed>>[1] = draft[t]
    OBVIOUS
  <2> QED
    BY <2>1 DEF Elements
<1> QED
  BY <1>1, <1>2, <1>3, Concatenated

LEMMA ServeMergeKeeps ==
  ASSUME IInv, TypeOK', NEW m \in net, ServeMerge(m),
         UNCHANGED <<sent, bar, texts, offer, history>>
  PROVE  Kept
<1>t. PICK t : t = m.tab
  OBVIOUS
<1>n. PICK new : new = held[t] \o <<draft[t], Mixed>>
  OBVIOUS
<1>r. PICK r : r = base'[t]
  OBVIOUS
<1>1. TypeOK
  BY DEF IInv
<1>2. /\ Commits(m) /\ Len(versions[t]) + Len(new) <= MaxVersions
      /\ versions' = [versions EXCEPT ![t] = versions[t] \o new]
      /\ draft' = [draft EXCEPT ![t] = Mixed]
      /\ base' = [base EXCEPT ![t] = Len(versions'[t])]
      /\ held' = [held EXCEPT ![t] = <<>>]
      /\ Answer(m, [kind |-> "saved", tab |-> t, rev |-> r])
  BY <1>t, <1>n, <1>r DEF ServeMerge, Room
<1>3. t \in Tab
  BY <1>t, <1>2, CommitsContents
<1>4. /\ new \in Seq(Text) /\ Elements(held[t]) \subseteq Elements(new)
      /\ draft[t] \in Elements(new)
  BY <1>n, <1>1, <1>3, HeldTyped, DraftLast
<1>5. Grows(t) /\ draft[t] \in Recorded(t)'
  BY <1>1, <1>2, <1>3, <1>4, BroughtGrows
<1>6. \A s \in Tab \ {t} : /\ versions'[s] = versions[s] /\ base'[s] = base[s]
                           /\ held'[s] = held[s] /\ draft'[s] = draft[s]
  BY <1>1, <1>2 DEF TypeOK
<1> QED
  BY <1>t, <1>2, <1>5, <1>6, SavedAnswerKeeps

(* A commit whose push is refused is in the clone. *)
LEMMA ServeRefusedKeeps ==
  ASSUME IInv, TypeOK', NEW m \in net, ServeRefused(m),
         UNCHANGED <<sent, bar, texts, offer, history>>
  PROVE  Kept
<1>t. PICK t : t = m.tab
  OBVIOUS
<1>1. TypeOK
  BY DEF IInv
<1>2. /\ Commits(m) /\ versions' = versions
      /\ Answer(m, [kind |-> "saved", tab |-> t, rev |-> Local])
      /\ \/ /\ held[t] = <<>> /\ held' = [held EXCEPT ![t] = <<draft[t]>>]
            /\ UNCHANGED <<draft, base>>
         \/ /\ held' = [held EXCEPT ![t] = held[t] \o <<draft[t], Mixed>>]
            /\ draft' = [draft EXCEPT ![t] = Mixed]
            /\ base' = [base EXCEPT ![t] = Len(versions[t]) - 1]
  BY <1>t DEF ServeRefused
<1>3. t \in Tab
  BY <1>t, <1>2, CommitsContents
<1>4. Elements(held[t]) \subseteq Elements(held'[t]) /\ draft[t] \in Elements(held'[t])
  <2>1. CASE held[t] = <<>> /\ held' = [held EXCEPT ![t] = <<draft[t]>>]
    <3>1. held'[t] = <<draft[t]>> /\ Elements(held[t]) = {}
      BY <1>1, <1>3, <2>1 DEF TypeOK, Elements
    <3> QED
      BY <1>1, <1>3, <3>1, DraftLast
  <2>2. CASE held' = [held EXCEPT ![t] = held[t] \o <<draft[t], Mixed>>]
    <3>1. held'[t] = held[t] \o <<draft[t], Mixed>>
      BY <1>1, <1>3, <2>2 DEF TypeOK
    <3> QED
      BY <1>1, <1>3, <3>1, DraftLast
  <2> QED
    BY <1>2, <2>1, <2>2
<1>5. Grows(t)
  BY <1>1, <1>2, <1>3, <1>4, GrowsHeld
<1>6. draft[t] \in Recorded(t)'
  BY <1>4 DEF Recorded, Elements
<1>7. \A s \in Tab \ {t} : base'[s] = base[s] /\ held'[s] = held[s] /\ draft'[s] = draft[s]
  BY <1>1, <1>2 DEF TypeOK
<1> QED
  BY <1>t, <1>2, <1>5, <1>6, <1>7, SavedAnswerKeeps

LEMMA ServeConflictKeeps ==
  ASSUME IInv, TypeOK', NEW m \in net, ServeConflict(m),
         UNCHANGED <<sent, bar, texts, offer, history>>
  PROVE  Kept
<1>t. PICK t : t = m.tab
  OBVIOUS
<1>1. TypeOK /\ contents' = contents
  BY DEF IInv, texts
<1>2. /\ Commits(m) /\ held' = [held EXCEPT ![t] = Append(held[t], draft[t])]
      /\ UNCHANGED <<versions, draft, base>>
      /\ Answer(m, [kind |-> "conflict", tab |-> t, rev |-> Local])
  BY <1>t DEF ServeConflict
<1>3. t \in Tab /\ m.kind \notin LoadKinds
  BY <1>t, <1>2, CommitsContents
<1>4. PICK a : a = [kind |-> "conflict", tab |-> t, rev |-> Local]
  OBVIOUS
<1>5. a.kind = "conflict" /\ a.tab = t
  BY <1>4
<1>6. Replaced(m, a) /\ Carried(a)'
  BY <1>t, <1>2, <1>3, <1>4, <1>5 DEF Answer, Replaced, Carried, LoadKinds
<1>7. Elements(held[t]) \subseteq Elements(held'[t])
  <2>1. held[t] \in Seq(Text) /\ <<draft[t]>> \in Seq(Text) /\ draft[t] \in Text
    BY <1>1, <1>3, HeldTyped
  <2>2. held'[t] = Append(held[t], draft[t])
    BY <1>1, <1>2, <1>3 DEF TypeOK
  <2>3. Append(held[t], draft[t]) = held[t] \o <<draft[t]>>
    BY <2>1
  <2>4. Elements(held[t]) \subseteq Elements(held[t] \o <<draft[t]>>)
    BY <2>1, Concatenated
  <2> QED
    BY <2>2, <2>3, <2>4
<1>8. ASSUME NEW s \in Tab PROVE Grows(s) /\ (DraftKept(s) \/ (s = t /\ m.kind \notin LoadKinds))
  <2>1. CASE s = t
    BY <1>1, <1>2, <1>3, <1>7, <2>1, GrowsHeld
  <2>2. CASE s # t
    <3>1. held'[s] = held[s]
      BY <1>1, <1>2, <2>2 DEF TypeOK
    <3> QED
      BY <1>1, <1>2, <3>1, StandsAside
  <2> QED
    BY <2>1, <2>2
<1> QED
  BY <1>t, <1>6, <1>8, ReplacedKeeps

LEMMA FailKeeps ==
  ASSUME IInv, TypeOK', NEW m \in net, Fail(m), UNCHANGED <<sent, bar, texts, offer, history>>
  PROVE  Kept
<1>1. TypeOK
  BY DEF IInv
<1>2. UNCHANGED <<versions, draft, base, held, contents>>
  BY DEF Fail, server, texts
<1>3. PICK a : /\ net' = (net \ {m}) \union {a} /\ a.tab = m.tab
               /\ a.kind \in {"noget", "nosave"}
               /\ a.kind \in LoadKinds <=> m.kind \in LoadKinds
  <2>1. CASE m.kind \in {"get", "got"} /\ Answer(m, [kind |-> "noget", tab |-> m.tab])
    <3>1. PICK a : a = [kind |-> "noget", tab |-> m.tab]
      OBVIOUS
    <3>2. a.kind = "noget" /\ a.tab = m.tab /\ Answer(m, a)
      BY <2>1, <3>1
    <3> QED
      BY <2>1, <3>2 DEF Answer, LoadKinds
  <2>2. CASE m.kind \notin LoadKinds /\ Answer(m, [kind |-> "nosave", tab |-> m.tab])
    <3>1. PICK a : a = [kind |-> "nosave", tab |-> m.tab]
      OBVIOUS
    <3>2. a.kind = "nosave" /\ a.tab = m.tab /\ Answer(m, a)
      BY <2>2, <3>1
    <3> QED
      BY <2>2, <3>2 DEF Answer, LoadKinds
  <2> QED
    BY <2>1, <2>2 DEF Fail, LoadKinds
<1>4. Replaced(m, a) /\ Carried(a)'
  BY <1>3 DEF Replaced, Carried
<1> QED
  BY <1>1, <1>2, <1>4, StandsStill, ReplacedKeeps

(* What the clone holds is pushed, a draft that was its head goes with it. *)
LEMMA PushHeldKeeps ==
  ASSUME IInv, TypeOK', NEW t \in Tab, PushHeld(t)
  PROVE  Kept
<1>n. PICK new : new = Append(held[t], Mixed)
  OBVIOUS
<1>1. TypeOK /\ contents' = contents
  BY DEF IInv, PushHeld, texts
<1>2. /\ Len(versions[t]) + Len(new) <= MaxVersions
      /\ versions' = [versions EXCEPT ![t] = versions[t] \o new]
      /\ draft' = [draft EXCEPT ![t] = IF draft[t] = HeadText(t) THEN Mixed ELSE draft[t]]
      /\ base' = [base EXCEPT ![t] = Len(versions'[t])]
      /\ held' = [held EXCEPT ![t] = <<>>]
      /\ UNCHANGED <<net, sent, bar, texts, offer, history>>
  BY <1>n DEF PushHeld, Room
<1>3. /\ held[t] \in Seq(Text) /\ <<Mixed>> \in Seq(Text) /\ new \in Seq(Text)
      /\ new = held[t] \o <<Mixed>> /\ Len(new) = Len(held[t]) + 1
      /\ new[Len(held[t]) + 1] = Mixed /\ Len(held[t]) \in Nat
  BY <1>n, <1>1, HeldTyped
<1>4. Elements(held[t]) \subseteq Elements(new)
  BY <1>3, Concatenated
<1>5. Grows(t) /\ versions'[t] = versions[t] \o new
  BY <1>1, <1>2, <1>3, <1>4, BroughtGrows
<1>6. HeadText(t)' = Mixed
  <2>1. held'[t] = <<>> /\ base'[t] = Len(versions'[t])
    BY <1>1, <1>2 DEF TypeOK
  <2>2. versions[t] \in Seq(Text)
    BY <1>1 DEF TypeOK
  <2>3. /\ Len(versions[t] \o new) = Len(versions[t]) + Len(new) /\ Len(versions[t]) \in Nat
        /\ \A i \in 1..Len(new) : (versions[t] \o new)[Len(versions[t]) + i] = new[i]
    BY <1>3, <2>2, Concatenated
  <2>4. Len(new) \in 1..Len(new)
    BY <1>3
  <2>5. (versions[t] \o new)[Len(versions[t] \o new)] = Mixed
    BY <1>3, <2>3, <2>4
  <2> QED
    BY <1>5, <2>1, <2>5 DEF HeadText
<1>7. draft'[t] = IF draft[t] = HeadText(t) THEN Mixed ELSE draft[t]
  BY <1>1, <1>2 DEF TypeOK
<1>8. DraftKept(t)
  BY <1>1, <1>6, <1>7 DEF DraftKept
<1>9. ASSUME NEW s \in Tab \ {t} PROVE Grows(s) /\ DraftKept(s)
  <2>1. /\ versions'[s] = versions[s] /\ base'[s] = base[s]
        /\ held'[s] = held[s] /\ draft'[s] = draft[s] /\ contents'[s] = contents[s]
    BY <1>1, <1>2 DEF TypeOK
  <2> QED
    BY <1>1, <2>1, StandsAside
<1> QED
  BY <1>2, <1>5, <1>8, <1>9, AloneKeeps

LEMMA OthersCommitKeeps ==
  ASSUME IInv, TypeOK', NEW t \in Tab, OthersCommit(t)
  PROVE  Kept
<1>x. PICK x : x = IF Latest(t) = Other THEN First ELSE Other
  OBVIOUS
<1>n. PICK new : new = Append(versions[t], x)
  OBVIOUS
<1>1. TypeOK /\ contents' = contents
  BY DEF IInv, OthersCommit, texts
<1>2. /\ Len(versions[t]) + 1 <= MaxVersions /\ x \in Text
      /\ versions' = [versions EXCEPT ![t] = new]
      /\ UNCHANGED <<draft, base, held, net, sent, bar, texts, offer, history>>
  BY <1>x, <1>n DEF OthersCommit, Room, Text
<1>3. MoreOf(t, new)
  BY <1>n, <1>1, <1>2, MoreVersions
<1>4. Grows(t) /\ versions'[t] = new
  BY <1>1, <1>2, <1>3, GrowsOne, VersionsTyped
<1>5. HeadText(t)' = HeadText(t)
  <2>1. base[t] \in 1..Len(versions[t])
    BY <1>1, BoundsAssumption DEF TypeOK
  <2> QED
    BY <1>2, <1>3, <1>4, <2>1 DEF HeadText, MoreOf
<1>6. DraftKept(t)
  BY <1>1, <1>2, <1>5 DEF DraftKept
<1>7. ASSUME NEW s \in Tab \ {t} PROVE Grows(s) /\ DraftKept(s)
  <2>1. versions'[s] = versions[s]
    BY <1>1, <1>2 DEF TypeOK
  <2> QED
    BY <1>1, <1>2, <2>1, StandsAside
<1> QED
  BY <1>2, <1>4, <1>6, <1>7, AloneKeeps

-----------------------------------------------------------------------------
(* An answer is received *)

(* The answer is no longer under way; the button it may leave offers to    *)
(* load or save its tab again.                                             *)
Taken(m) ==
  /\ net' = net \ {m}
  /\ \/ offer' \in {offer, NoOffer}
     \/ offer' = [kind |-> "save", tab |-> m.tab]
     \/ offer' = [kind |-> "load", tab |-> m.tab] /\ m.kind \in LoadKinds

LEMMA OneTaken ==
  ASSUME OneAtATime, NEW m \in net, Taken(m), UNCHANGED focus
  PROVE  OneAtATime' /\ \A t : Loading(t)' => Loading(t)
<1>1. /\ offer'.kind = "load" => offer' = offer \/ (m.kind \in LoadKinds /\ offer'.tab = m.tab)
      /\ offer' # offer => \A t : offer' = [kind |-> "load", tab |-> t] => t = m.tab
  <2>1. \A t, k : [kind |-> k, tab |-> t].kind = k /\ [kind |-> k, tab |-> t].tab = t
    OBVIOUS
  <2>2. NoOffer.kind = "none"
    BY DEF NoOffer
  <2> QED
    BY <2>1, <2>2 DEF Taken
<1>2. \A t : (Loading(t)' => Loading(t)) /\ (Saving(t)' => Saving(t))
  <2> TAKE t
  <2>1. Saving(t)' => Saving(t)
    BY DEF Taken, Saving
  <2>2. ASSUME offer' = [kind |-> "load", tab |-> t] PROVE Loading(t)
    <3>1. offer'.kind = "load" /\ offer'.tab = t
      BY <2>2
    <3> QED
      BY <1>1, <2>2, <3>1 DEF Loading, LoadKinds
  <2>3. (\E n \in net' : n.tab = t /\ n.kind \in {"get", "got", "noget"}) => Loading(t)
    BY DEF Taken, Loading
  <2> QED
    BY <2>1, <2>2, <2>3 DEF Loading
<1>3. /\ \A n \in net' : n.kind \in LoadKinds => n.tab = focus'
      /\ offer'.kind = "load" => offer'.tab = focus'
  BY <1>1 DEF Taken, OneAtATime
<1> QED
  BY <1>2, <1>3 DEF OneAtATime, Taken

(* The texts of the answer's tab change, those of the others stay.         *)
LEMMA TakenKeeps ==
  ASSUME IInv, NEW m \in net, Taken(m), InHand(m.tab)', FocusShown',
         UNCHANGED <<versions, draft, base, held, open, fresh, focus>>,
         \A t \in Tab \ {m.tab} :
           /\ session'[t] = session[t] /\ contents'[t] = contents[t] /\ original'[t] = original[t]
           /\ rev'[t] = rev[t] /\ unsaved'[t] = unsaved[t]
           /\ (t \in loaded' <=> t \in loaded) /\ (t \in conflicted' <=> t \in conflicted),
         (\E n \in net : n # m /\ n.tab = m.tab /\ n.kind \notin LoadKinds)
           => contents'[m.tab] = contents[m.tab]
  PROVE  Kept
<1>1. TypeOK /\ OneAtATime /\ Untouched /\ TextsInHand
  BY DEF IInv
<1>2. OneAtATime' /\ \A t : Loading(t)' => Loading(t)
  BY <1>1, OneTaken
<1>3. m.tab \in Tab /\ m.tab \notin fresh
  BY <1>1, MessageFields DEF TypeOK, Untouched
<1>4. \A t : Same(t)
  BY SameServer
<1>5. Untouched'
  <2> SUFFICES ASSUME NEW t \in fresh
               PROVE  /\ \A n \in net' : n.tab # t
                      /\ offer'.kind \in {"save", "load", "revision"} => offer'.tab # t
                      /\ unsaved'[t] = Nothing /\ rev'[t] = HEAD
    BY DEF Untouched
  <2>1. t \in Tab \ {m.tab}
    BY <1>1, <1>3 DEF TypeOK
  <2>2. offer'.kind \in {"save", "load", "revision"} => offer' = offer \/ offer'.tab = m.tab
    BY DEF Taken, NoOffer
  <2> QED
    BY <1>1, <2>1, <2>2 DEF Untouched, Taken
<1>6. ASSUME NEW n \in net' PROVE Carried(n)'
  <2>1. n \in net /\ n # m /\ Carried(n) /\ n.tab \in Tab
    BY <1>1, MessageFields DEF Taken, TextsInHand, TypeOK
  <2>2. n.kind \notin LoadKinds => contents'[n.tab] = contents[n.tab]
    BY <2>1
  <2> QED
    BY <1>4, <2>1, <2>2 DEF Carried, LoadKinds, Same
<1>7. ASSUME NEW t \in Tab \ {m.tab} PROVE InHand(t)'
  <2>1. InHand(t)
    BY <1>1 DEF TextsInHand
  <2> QED
    BY <1>2, <1>4, <2>1 DEF InHand, Same
<1>8. offer'.kind = "revision" => offer'.rev <= Len(versions'[offer'.tab])
  <2>1. offer'.kind = "revision" => offer' = offer
    BY DEF Taken, NoOffer
  <2> QED
    BY <1>1, <2>1 DEF TextsInHand
<1>9. TextsInHand'
  BY <1>3, <1>6, <1>7, <1>8 DEF TextsInHand
<1> QED
  BY <1>2, <1>5, <1>9 DEF Kept

LEMMA ReceiveContentsKeeps ==
  ASSUME IInv, NEW m \in net, ReceiveContents(m)
  PROVE  Kept
<1>t. PICK t : t = m.tab
  OBVIOUS
<1>1. TypeOK /\ OneAtATime /\ TextsInHand
  BY DEF IInv
<1>2. m.kind = "got" /\ t \in Tab /\ t = focus /\ Loading(t) /\ ~Saving(t) /\ Carried(m)
  BY <1>t, <1>1, MessageFields
     DEF ReceiveContents, TypeOK, OneAtATime, LoadKinds, Loading, TextsInHand
<1>3. /\ net' = net \ {m} /\ shown' = t
      /\ original' = [original EXCEPT ![t] = m.text]
      /\ contents' = [contents EXCEPT ![t] = m.text]
      /\ session' = [session EXCEPT ![t] = Displayed(m.text)]
      /\ loaded' = loaded \union {t}
      /\ UNCHANGED <<versions, draft, base, held, open, fresh, focus, rev, offer, unsaved, conflicted>>
  BY <1>t DEF ReceiveContents, server, history
<1>4. m.text \in Recorded(t) /\ m.text \in Text
  BY <1>t, <1>1, <1>2, CommittedTyped, RecordedTyped DEF Carried
<1>5. Taken(m)
  BY <1>3 DEF Taken
<1>6. Same(t) /\ (Loading(t)' => Loading(t))
  BY <1>1, <1>3, <1>5, OneTaken, SameServer
<1>7. InHand(t)
  BY <1>1, <1>2 DEF TextsInHand
<1>8. session'[t] = Displayed(m.text) /\ contents'[t] = m.text /\ original'[t] = m.text
  BY <1>1, <1>2, <1>3 DEF TypeOK
<1>9. ~(t \in open' /\ unsaved'[t] # Nothing /\ t \notin conflicted') /\ rev'[t] <= Len(versions'[t])
  BY <1>2, <1>3, <1>7 DEF InHand
<1>10. InHand(t)'
  BY <1>4, <1>6, <1>8, <1>9 DEF InHand, Same
<1>11. FocusShown'
  BY <1>2, <1>3 DEF FocusShown
<1>12. \A n \in net : n.tab = t => n.kind \in LoadKinds
  BY <1>2 DEF Saving, LoadKinds
<1>13. \A s \in Tab \ {t} :
         session'[s] = session[s] /\ contents'[s] = contents[s] /\ original'[s] = original[s]
  BY <1>1, <1>3 DEF TypeOK
<1> QED
  BY <1>t, <1>3, <1>5, <1>10, <1>11, <1>12, <1>13, TakenKeeps

LEMMA FailedKeeps ==
  ASSUME IInv, NEW m \in net, LoadFailed(m) \/ SaveFailed(m)
  PROVE  Kept
<1>1. TypeOK /\ OneAtATime /\ TextsInHand /\ FocusShown
  BY DEF IInv
<1>2. UNCHANGED <<versions, draft, base, held, open, fresh, focus, shown, session, contents, original, rev,
                  loaded, unsaved, conflicted>>
  BY DEF LoadFailed, SaveFailed, server, bar, texts, history
<1>3. Taken(m)
  BY DEF LoadFailed, SaveFailed, Taken, LoadKinds
<1>4. m.tab \in Tab /\ InHand(m.tab) /\ (Loading(m.tab)' => Loading(m.tab))
  BY <1>1, <1>2, <1>3, MessageFields, OneTaken DEF TypeOK, TextsInHand
<1>5. Same(m.tab)
  BY <1>2, SameServer
<1>6. InHand(m.tab)'
  BY <1>2, <1>4, <1>5 DEF InHand, Same
<1>7. FocusShown'
  BY <1>1, <1>2 DEF FocusShown
<1> QED
  BY <1>2, <1>3, <1>6, <1>7, TakenKeeps

LEMMA PutDoneKeeps ==
  ASSUME IInv, TypeOK', NEW m \in net, PutDone(m)
  PROVE  Kept
<1>1. TypeOK /\ TextsInHand
  BY DEF IInv
<1>2. PICK a : a = [kind |-> IF m.kind = "done" THEN "commit" ELSE "recommit", tab |-> m.tab]
  OBVIOUS
<1>3. a.kind = (IF m.kind = "done" THEN "commit" ELSE "recommit") /\ a.tab = m.tab
  BY <1>2
<1>4. /\ m.kind \in {"done", "redone"} /\ net' = (net \ {m}) \union {a} /\ Carried(m)
      /\ UNCHANGED <<versions, draft, base, held, contents>>
  BY <1>1, <1>2 DEF PutDone, server, texts, TextsInHand
<1>5. \A t : Same(t)
  BY <1>4, SameServer
<1>6. Replaced(m, a) /\ Carried(a)'
  BY <1>3, <1>4, <1>5 DEF Replaced, Carried, LoadKinds, Same
<1>7. \A t \in Tab : Grows(t) /\ DraftKept(t)
  BY <1>1, <1>4, StandsStill
<1> QED
  BY <1>6, <1>7, ReplacedKeeps DEF PutDone

(* The tab of a save's answer has nothing else under way. *)
LEMMA AnswersAlone ==
  ASSUME IInv, NEW m \in net, m.kind \notin LoadKinds
  PROVE  ~Loading(m.tab) /\ \A n \in net : n.tab = m.tab => n = m
<1>1. TypeOK /\ OneAtATime
  BY DEF IInv
<1>2. m.tab \in Tab /\ Saving(m.tab)
  BY <1>1, MessageFields DEF TypeOK, Saving, LoadKinds
<1>3. ~Loading(m.tab)
  BY <1>1, <1>2 DEF OneAtATime
<1>4. \A n \in net : n.tab = m.tab => n.kind \notin LoadKinds
  BY <1>3 DEF Loading, LoadKinds
<1> QED
  BY <1>1, <1>3, <1>4 DEF OneAtATime

LEMMA SavedKeeps ==
  ASSUME IInv, NEW m \in net, Saved(m)
  PROVE  Kept
<1>t. PICK t : t = m.tab
  OBVIOUS
<1>1. TypeOK /\ OneAtATime /\ TextsInHand /\ FocusShown
  BY DEF IInv
<1>2. m.kind = "saved" /\ t \in Tab /\ InHand(t) /\ Carried(m)
  BY <1>t, <1>1, MessageFields DEF Saved, TypeOK, TextsInHand
<1>3. ~Loading(t) /\ \A n \in net : n.tab = t => n = m
  BY <1>t, <1>2, AnswersAlone DEF LoadKinds
<1>4. /\ net' = net \ {m} /\ offer' = NoOffer
      /\ original' = [original EXCEPT ![t] = contents[t]]
      /\ session' = [session EXCEPT ![t] = Displayed(contents[t])]
      /\ rev' = [rev EXCEPT ![t] = m.rev]
      /\ unsaved' = [unsaved EXCEPT ![t] =
           IF unsaved[t] \in Recorded(t) \/ t \in conflicted THEN Nothing ELSE unsaved[t]]
      /\ conflicted' = conflicted \ {t}
      /\ UNCHANGED <<versions, draft, base, held, open, fresh, focus, shown, contents, loaded>>
  BY <1>t DEF Saved, server, bar
<1>5. contents[t] \in Recorded(t) /\ contents[t] \in Text
  BY <1>t, <1>1, <1>2, RecordedTyped DEF Carried
<1>6. Taken(m)
  BY <1>4 DEF Taken
<1>7. Same(t) /\ ~Loading(t)'
  BY <1>1, <1>3, <1>4, <1>6, OneTaken, SameServer
<1>8. /\ session'[t] = Displayed(contents'[t]) /\ original'[t] = contents[t]
      /\ unsaved'[t] =
           IF unsaved[t] \in Recorded(t) \/ t \in conflicted THEN Nothing ELSE unsaved[t]
      /\ \A s \in Tab \ {t} :
           /\ session'[s] = session[s] /\ original'[s] = original[s] /\ rev'[s] = rev[s]
           /\ unsaved'[s] = unsaved[s]
  BY <1>1, <1>2, <1>4 DEF TypeOK
<1>9. ~(t \in open' /\ unsaved'[t] # Nothing)
  <2> SUFFICES ASSUME t \in open, unsaved'[t] # Nothing PROVE FALSE
    BY <1>4
  <2>1. unsaved[t] \notin Recorded(t) /\ t \notin conflicted /\ unsaved[t] # Nothing
    BY <1>8
  <2>2. session[t] = unsaved[t] /\ session[t] = Displayed(contents[t])
    BY <1>2, <2>1 DEF InHand
  <2>3. Displayed(contents[t]) = contents[t]
    BY <1>5, NamesAssumption DEF Displayed
  <2> QED
    BY <1>5, <2>1, <2>2, <2>3
<1>10. InHand(t)'
  BY <1>5, <1>7, <1>8, <1>9, <1>4 DEF InHand, Same
<1>11. FocusShown'
  BY <1>1, <1>4 DEF FocusShown
<1> QED
  BY <1>t, <1>3, <1>4, <1>6, <1>8, <1>10, <1>11, TakenKeeps

LEMMA ConflictKeeps ==
  ASSUME IInv, NEW m \in net, Conflict(m)
  PROVE  Kept
<1>t. PICK t : t = m.tab
  OBVIOUS
<1>1. TypeOK /\ OneAtATime /\ TextsInHand /\ FocusShown
  BY DEF IInv
<1>2. m.kind = "conflict" /\ t \in Tab /\ InHand(t)
  BY <1>t, <1>1, MessageFields DEF Conflict, TypeOK, TextsInHand
<1>3. ~Loading(t) /\ \A n \in net : n.tab = t => n = m
  BY <1>t, <1>2, AnswersAlone DEF LoadKinds
<1>4. /\ net' = net \ {m} /\ offer' = NoOffer
      /\ contents' = [contents EXCEPT ![t] = Undefined]
      /\ session' = [session EXCEPT ![t] = Displayed(Undefined)]
      /\ rev' = [rev EXCEPT ![t] = m.rev]
      /\ conflicted' = conflicted \union {t}
      /\ UNCHANGED <<versions, draft, base, held, open, fresh, focus, shown, original, loaded, unsaved>>
  BY <1>t DEF Conflict, server, bar
<1>5. Taken(m)
  BY <1>4 DEF Taken
<1>6. Same(t) /\ ~Loading(t)'
  BY <1>1, <1>3, <1>4, <1>5, OneTaken, SameServer
<1>7. /\ session'[t] = Displayed(contents'[t])
      /\ \A s \in Tab \ {t} :
           session'[s] = session[s] /\ contents'[s] = contents[s] /\ rev'[s] = rev[s]
  BY <1>1, <1>2, <1>4 DEF TypeOK
<1>8. InHand(t)'
  BY <1>2, <1>4, <1>6, <1>7 DEF InHand, Same
<1>9. FocusShown'
  BY <1>1, <1>4 DEF FocusShown
<1> QED
  BY <1>t, <1>3, <1>4, <1>5, <1>7, <1>8, <1>9, TakenKeeps

-----------------------------------------------------------------------------
(* All steps *)

LEMMA InitIInv == Init => IInv
<1> SUFFICES ASSUME Init PROVE IInv
  OBVIOUS
<1>1. TypeOK
  BY InitTypeOK
<1>2. /\ net = {} /\ offer.kind = "none" /\ focus = NoTab /\ open = {} /\ loaded = {}
      /\ \A t \in Tab : ~Loading(t) /\ ~Saving(t)
  <2>1. \A t \in Tab : NoOffer # [kind |-> "load", tab |-> t]
    BY DEF NoOffer
  <2> QED
    BY <2>1 DEF Init, NoOffer, Loading, Saving
<1>3. FocusShown /\ OneAtATime /\ Untouched
  BY <1>2 DEF Init, FocusShown, OneAtATime, Untouched
<1>4. ASSUME NEW t \in Tab PROVE InHand(t)
  <2>1. session[t] = Empty /\ contents[t] = Empty /\ original[t] = Empty /\ Empty \in Text
    BY DEF Init, Text
  <2>2. session[t] = Displayed(contents[t])
    BY <2>1 DEF Displayed
  <2> QED
    BY <1>2, <2>1, <2>2 DEF InHand
<1> QED
  BY <1>1, <1>2, <1>3, <1>4 DEF IInv, TextsInHand

LEMMA NextIInv ==
  ASSUME Waits, IInv, [Next]_vars
  PROVE  IInv'
<1>1. TypeOK'
  BY NextTypeOK DEF IInv
<1>2. CASE UNCHANGED vars
  BY <1>2
     DEF vars, server, bar, texts, history, IInv, TypeOK, FocusShown, OneAtATime, Untouched,
         TextsInHand, InHand, Carried, Committed, Recorded, HeadText, Loading, Saving
<1>3. CASE User
  <2>1. ASSUME NEW text \in Typed \union {First}, Type(text) PROVE Kept
    BY <1>1, <2>1, TypeKeeps DEF Text
  <2>2. Kept
    BY <1>3, <2>1, OpenKeeps, CloseKeeps, SaveKeeps, SwitchKeeps, ChangeRevisionKeeps,
       CloseAllKeeps, CloseAnywayKeeps, RevisionAnywayKeeps, RetryLoadKeeps, RetrySaveKeeps
       DEF User
  <2> QED
    BY <1>1, <2>2 DEF Kept, IInv
<1>4. CASE Serve
  <2>1. Kept
    BY <1>1, <1>4, ServeGetKeeps, ServePutKeeps, ServeCommitKeeps, ServeMergeKeeps, ServeRefusedKeeps,
       ServeConflictKeeps, FailKeeps DEF Serve
  <2> QED
    BY <1>1, <2>1 DEF Kept, IInv
<1>5. CASE \E t \in Tab : PushHeld(t) \/ OthersCommit(t)
  <2>1. Kept
    BY <1>1, <1>5, PushHeldKeeps, OthersCommitKeeps
  <2> QED
    BY <1>1, <2>1 DEF Kept, IInv
<1>6. CASE Receive
  <2>1. Kept
    BY <1>1, <1>6, ReceiveContentsKeeps, FailedKeeps, PutDoneKeeps, SavedKeeps, ConflictKeeps
       DEF Receive
  <2> QED
    BY <1>1, <2>1 DEF Kept, IInv
<1> QED
  BY <1>2, <1>3, <1>4, <1>5, <1>6 DEF Next

(* The inductive invariant: the texts of a tab, its requests and what the  *)
(* user typed go together, for a user who waits.                           *)
THEOREM AlwaysIInv == ASSUME Waits PROVE Spec => []IInv
<1>1. IInv /\ [Next]_vars => IInv'
  BY NextIInv
<1> QED
  BY <1>1, InitIInv, PTL DEF Spec

-----------------------------------------------------------------------------

(* LateContentsOnly, of a step. *)
OnlyLate ==
  FocusShown /\ ~FocusShown'
    => \E m \in net : m.kind = "got" /\ m.tab # focus /\ shown' = m.tab

(* Of all steps, whatever the user waits for, only the contents of a tab   *)
(* the user has left take the editor from the tab in front.                *)
THEOREM OnlyLateContents == Spec => LateContentsOnly
<1>1. Next => OnlyLate
  <2> SUFFICES ASSUME Next, FocusShown, ~FocusShown'
               PROVE  \E m \in net : m.kind = "got" /\ m.tab # focus /\ shown' = m.tab
    BY DEF OnlyLate
  <2>1. ~(UNCHANGED <<focus, shown>>)
    BY DEF FocusShown
  <2>2. \A t : ~SwitchTo(t)
    BY SwitchShows
  <2>3. \A gone : ~Remove(gone)
    BY RemoveShows
  <2>4. ~User
    BY <2>1, <2>2, <2>3
       DEF User, Open, Close, Save, Switch, ChangeRevision, Type, CloseAll, CloseAnyway,
           RevisionAnyway, RetryLoad, RetrySave, bar
  <2>5. ~Serve /\ ~\E t \in Tab : PushHeld(t) \/ OthersCommit(t)
    BY <2>1 DEF Serve, PushHeld, OthersCommit, bar
  <2>6. PICK m \in net : ReceiveContents(m)
    BY <2>1, <2>4, <2>5
       DEF Next, Receive, LoadFailed, PutDone, SaveFailed, Saved, Conflict, bar
  <2> QED
    BY <2>6 DEF ReceiveContents, FocusShown
<1>2. Spec => [][OnlyLate]_vars
  BY <1>1, PTL DEF Spec
<1> QED
  BY <1>2 DEF LateContentsOnly, OnlyLate

(* A tab that says it is not modified holds a text of which there is a     *)
(* commit: in the master, or in the user's clone if its push was refused.  *)
THEOREM UnmodifiedIsSaved == ASSUME Waits PROVE Spec => []UnmodifiedMeansSaved
<1>1. IInv => UnmodifiedMeansSaved
  <2> SUFFICES ASSUME IInv, NEW t \in open, t \in loaded, ~IsModified(t)
               PROVE  session[t] \in Recorded(t)
    BY DEF UnmodifiedMeansSaved
  <2>1. t \in Tab
    BY DEF IInv, TypeOK
  <2>2. original[t] \in Recorded(t) /\ session[t] = original[t]
    BY <2>1, TextsOf DEF IsModified, InHand
  <2> QED
    BY <2>2
<1> QED
  BY <1>1, AlwaysIInv, PTL

(* What the user typed and has not saved is in the editor, through every   *)
(* switch, close, failure, retry and late answer.                          *)
THEOREM EditsAreKept == ASSUME Waits PROVE Spec => []EditsKept
<1>1. IInv => EditsKept
  <2> SUFFICES ASSUME IInv, NEW t \in open, unsaved[t] # Nothing, t \notin conflicted
               PROVE  session[t] = unsaved[t]
    BY DEF EditsKept
  <2>1. t \in Tab
    BY DEF IInv, TypeOK
  <2> QED
    BY <2>1, TextsOf DEF InHand
<1> QED
  BY <1>1, AlwaysIInv, PTL

(* ClosesOnlySaved, of a step. *)
UserAgreed ==
  \A t \in open \ open' :
    unsaved[t] # Nothing /\ t \notin conflicted
      => \/ offer = [kind |-> "close", tab |-> t]
         \/ offer.kind = "closeall"

(* No step closes a tab with an unsaved text unless the user has answered  *)
(* the question about it.                                                  *)
THEOREM OnlySavedTabsClose == ASSUME Waits PROVE Spec => ClosesOnlySaved
<1>1. IInv /\ [Next]_vars => [UserAgreed]_vars
  <2> SUFFICES ASSUME IInv, Next, NEW t \in open \ open', unsaved[t] # Nothing, t \notin conflicted
               PROVE  offer = [kind |-> "close", tab |-> t] \/ offer.kind = "closeall"
    BY DEF UserAgreed
  <2>1. t \in open /\ IsModified(t)
    BY NothingTyped
  <2>2. CASE User
    <3>1. CASE \E s \in Tab : Open(s)
      BY <3>1 DEF Open
    <3>2. CASE \E s \in Tab : Close(s)
      <4>1. PICK s \in Tab : Close(s)
        BY <3>2
      <4>2. ~IsModified(s) /\ open' = open \ {s}
        BY <4>1, RemoveShows DEF Close, IInv
      <4> QED
        BY <2>1, <4>2
    <3>3. CASE CloseAll
      BY <2>1, <3>3 DEF CloseAll
    <3>4. CASE CloseAnyway
      <4>1. CASE offer.kind = "close" /\ Remove({offer.tab})
        <5>1. t = offer.tab
          BY <4>1 DEF Remove
        <5>2. offer \in Offer
          BY DEF IInv, TypeOK
        <5> QED
          BY <4>1, <5>1, <5>2, OfferFields
      <4> QED
        BY <3>4, <4>1 DEF CloseAnyway
    <3>5. CASE UNCHANGED open
      BY <3>5
    <3> QED
      BY <2>2, <3>1, <3>2, <3>3, <3>4, <3>5
         DEF User, Save, Switch, ChangeRevision, Type, RevisionAnyway, RetryLoad, RetrySave, bar
  <2>3. CASE Serve \/ (\E s \in Tab : PushHeld(s) \/ OthersCommit(s))
    BY <2>3 DEF Serve, PushHeld, OthersCommit, bar
  <2>4. CASE Receive
    BY <2>4
       DEF Receive, ReceiveContents, LoadFailed, PutDone, SaveFailed, Saved, Conflict, bar
  <2> QED
    BY <2>2, <2>3, <2>4 DEF Next
<1>2. Spec => [][UserAgreed]_vars
  BY <1>1, AlwaysIInv, PTL DEF Spec
<1> QED
  BY <1>2 DEF ClosesOnlySaved, UserAgreed

=============================================================================
