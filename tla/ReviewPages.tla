---------------------------- MODULE ReviewPages ----------------------------
(***************************************************************************)
(* The page on which a team describes itself, and the page on which an     *)
(* administrator accepts or rejects what teams say of themselves. What the *)
(* server makes of both is the module TeamStatus.                          *)
(***************************************************************************)
EXTENDS CalendarPage

CONSTANTS
    Fields,         \* fields of a team's status
    FirstReviews    \* FirstReviews[t]: the fields of a team that wait for a verdict

ASSUME ReviewsAssumption ==
    /\ FirstReviews \in [Teams -> SUBSET Fields]

----------------------------------------------------------------------------
(* The administrator's page: the team reviewed, the teams to choose from,  *)
(* and the rows of the table, which say whose items they are.              *)

NoAdmin == [team |-> None, teams |-> {}, rows |-> {}, nth |-> 0]

(* Mutant of GetItemsToReview: the rows of the team before stay.           *)
GetMoreItems(w, t) ==
    Ask([w EXCEPT !.admin = [@ EXCEPT !.team = t, !.nth = w.admin.nth + 1]],
        [kind |-> "items", team |-> t, nth |-> w.admin.nth + 1])

(* _getItemsToReview(): the table is emptied first.                        *)
GetItemsToReview(w, t) ==
    Ask([w EXCEPT !.admin = [@ EXCEPT !.team = t, !.rows = {}, !.nth = w.admin.nth + 1]],
        [kind |-> "items", team |-> t, nth |-> w.admin.nth + 1])

OpenAdmin(w) ==
    SwitchTo(IF IsOpen(w, "admin") THEN w ELSE Ask(AddTab(w, "admin"), [kind |-> "teams"]),
             "admin")
CloseAdmin(w) == RemoveTab(Blur(w, "admin"), "admin")

ToReview(w) == {t \in Teams : w.reviews[t] # {}}

(* _receiveGetTeamsToReview(): a single team is gone to at once. *)
ReceiveTeams(w) ==
    LET clear == [w EXCEPT !.admin = [@ EXCEPT !.team = None, !.rows = {}, !.teams = {}]]
    IN IF Cardinality(ToReview(w)) = 1 THEN GetItemsToReview(clear, CHOOSE t \in ToReview(w) : TRUE)
       ELSE Say([clear EXCEPT !.admin.teams = ToReview(w)])

(* _receiveGetItemsToReview(): the items are added to the table. *)
Rows(t, fields, nth) == [team : {t}, field : fields, nth : {nth}]
ReceiveItems(w, m) == [w EXCEPT !.admin.rows = @ \cup Rows(m.team, w.reviews[m.team], m.nth)]

(* The buttons of a row are disabled while its verdict is on its way.      *)
Sent(w, row) == \E m \in w.net : m.kind = "verdict" /\ m.row = row
AdminKinds == {"teams", "items"}

ShowsAdmin == Busy("admin", AdminKinds) /\ win' = OpenAdmin(win)
ChoosesTeam(t) == /\ Busy("admin", AdminKinds) /\ win.cur = "admin" /\ t \in win.admin.teams
                  /\ win' = GetItemsToReview(win, t)

(* _setReview(): of the row, but of the team the page has now. *)
Judges(row) ==
    /\ Busy("admin", AdminKinds) /\ win.cur = "admin"
    /\ row \in win.admin.rows /\ ~Sent(win, row)
    /\ win' = Ask(win, [kind |-> "verdict", team |-> win.admin.team, row |-> row])

GotTeams(m) == Arrives /\ win' = ReceiveTeams(Answered(m))
GotItems(m) == Arrives /\ win' = ReceiveItems(Answered(m), m)
FailAdmin(m) == Fails(m) /\ win' = Say(Answered(m))

(* The server refuses a verdict about no team, or about a value that is    *)
(* not what this team says; another team may say the same.                 *)
GotVerdict(m) == /\ Arrives /\ m.team # None
                 /\ win' = [Answered(m) EXCEPT !.admin.rows = @ \ {m.row},
                                               !.reviews[m.team] = @ \ {m.row.field}]

AdminSteps ==
    \/ ShowsAdmin
    \/ \E t \in Teams : ChoosesTeam(t)
    \/ \E row \in win.admin.rows : Judges(row)
    \/ \E m \in Waiting({"teams"}) : GotTeams(m) \/ FailAdmin(m)
    \/ \E m \in Waiting({"items"}) : GotItems(m) \/ FailAdmin(m)
    \/ \E m \in Waiting({"verdict"}) : GotVerdict(m) \/ FailAdmin(m)

----------------------------------------------------------------------------
(* The team's page. Texts are named by the team they are about and by what *)
(* was typed: <<t, 0>> is what was there, 1 a text that is not valid.      *)

Text == Teams \X 0 .. 2
NoStatus == [form |-> None, image |-> FALSE, error |-> FALSE, nth |-> 0, ro |-> FALSE,
             failed |-> FALSE]      \* history: something has failed

GetStatus(w) == Ask(w, [kind |-> "status", team |-> w.team])

OpenStatus(w) ==
    IF IsOpen(w, "review") THEN SwitchTo(w, "review")
    ELSE IF w.team = None THEN Say(w)
    ELSE SwitchTo(GetStatus(AddTab([w EXCEPT !.status.form = None, !.status.image = FALSE,
                                               !.status.ro = w.team \in ReadOnly], "review")),
                  "review")
CloseStatus(w) == RemoveTab(Blur(w, "review"), "review")

(* saveStatus(): the text if it is valid, for the team of now; the image,  *)
(* if one is chosen, whether the text is valid or not.                     *)
SaveStatus(w) ==
    LET form == w.status.form
        fresh == [w EXCEPT !.status.error = FALSE, !.status.nth = @ + 1]
        put == IF form # None /\ form[2] = 1 THEN Say(fresh)
               ELSE Ask(fresh, [kind |-> "text", team |-> w.team, text |-> form,
                                nth |-> fresh.status.nth])
    IN IF w.status.image THEN Ask(put, [kind |-> "image", team |-> w.team,
                                        nth |-> fresh.status.nth])
       ELSE put

StatusKinds == {"status", "text", "image"}
OnStatus == habit = "status" /\ win.cur = "review" /\ ~win.status.ro

ShowsStatus == Busy("status", StatusKinds) /\ win' = OpenStatus(win)
TypesStatus(n) ==
    /\ OnStatus /\ Moves(Waiting(StatusKinds) # {})
    /\ win' = [win EXCEPT !.status.form = <<IF @ = None THEN win.team ELSE @[1], n>>]
ChoosesImage == /\ OnStatus /\ Moves(Waiting(StatusKinds) # {})
                /\ win' = [win EXCEPT !.status.image = TRUE]
SavesStatus == OnStatus /\ Acts(Waiting(StatusKinds) # {}) /\ win' = SaveStatus(win)

(* The fields that are filled in, or emptied, are those of the text and the*)
(* image: _setReviewState() has put it among them, and no answer has one.  *)
GotStatus(m) == /\ Arrives
                /\ win' = [Answered(m) EXCEPT !.status.form = win.texts[m.team],
                                              !.status.image = FALSE]
FailStatus(m) == Fails(m) /\ win' = Say([Answered(m) EXCEPT !.status.form = None,
                                                            !.status.image = FALSE,
                                                            !.status.failed = TRUE])

(* A text that is empty is not sent; a failed image makes this a failure.  *)
(* The server takes nothing for a team that is read only.                  *)
GotText(m) ==
    /\ Arrives /\ m.team \notin ReadOnly
    /\ win' = LET stored == Say([Answered(m) EXCEPT
                                    !.texts[m.team] = IF m.text = None THEN @ ELSE m.text])
              IN IF win.status.error THEN [stored EXCEPT !.status.failed = TRUE]
                 ELSE GetStatus(stored)
GotImage(m) ==
    /\ Arrives /\ m.team \notin ReadOnly
    /\ win' = IF win.status.error THEN Answered(m)
              ELSE Say([Answered(m) EXCEPT !.status.image = FALSE])
FailSave(m) == Fails(m) /\ win' = Say([Answered(m) EXCEPT !.status.error = TRUE,
                                                          !.status.failed = TRUE])

StatusSteps ==
    \/ ShowsStatus \/ ChoosesImage \/ SavesStatus
    \/ \E n \in 1 .. 2 : TypesStatus(n)
    \/ \E m \in Waiting({"status"}) : GotStatus(m) \/ FailStatus(m)
    \/ \E m \in Waiting({"text"}) : GotText(m) \/ FailSave(m)
    \/ \E m \in Waiting({"image"}) : GotImage(m) \/ FailSave(m)

----------------------------------------------------------------------------
(* Nobody judges or describes a team in the name of another. Unless the    *)
(* user was hasty, or left the page open while the team changed, every     *)
(* verdict on its way is about the team of its row, and every text about   *)
(* the team it was shown or typed for; and unless something failed, a text *)
(* that is shown and not typed is what the server has (admin.js:133-228,   *)
(* team-status.js:35-70, 199-218, 255-293).                                *)
ReviewsOwn ==
    raced = {} =>
        /\ \A m \in Waiting({"verdict"}) : m.team = m.row.team
        /\ \A m \in Waiting({"text"}) : m.text = None \/ m.text[1] = m.team
        /\ (IsOpen(win, "review") /\ Waiting(StatusKinds) = {} /\ ~win.status.failed
              /\ win.status.form # None /\ win.status.form[2] = 0)
           => win.status.form = win.texts[win.team]

=============================================================================
