---------------------------- MODULE SettingsPage ----------------------------
(***************************************************************************)
(* The user's settings: the form that edits them, and their way to the     *)
(* server, which stores all of them at each change. The setting of a       *)
(* project to load can be filled in only while the one it depends upon     *)
(* says so; whatever the fields hold is saved.                             *)
(***************************************************************************)
EXTENDS SearchPage

CONSTANT FirstSettings     \* what the server has stored when the page is loaded

(* How a team or a project is chosen at the start: the last one, a fixed   *)
(* one or none; the fixed ones; and the last team.                         *)
Ways == {"last", "load", "none"}
Settings == [teamauto : Ways, teamload : Teams \cup {None}, teamlast : Teams \cup {None},
             projauto : Ways, projload : Projects \cup {None}]

ASSUME SettingsAssumption == FirstSettings \in Settings

NoSettings == [mine |-> FirstSettings, server |-> FirstSettings,
               form |-> FirstSettings, enabled |-> {},
               failed |-> FALSE]     \* history: the last put failed

Put(w, loud) == Ask(w, [kind |-> "put", settings |-> w.settings.mine, loud |-> loud])

(* Mutant of SetSettings: only what is set is sent.                        *)
SetSettingsAlone(w, new, names, loud) ==
    LET set == [n \in DOMAIN w.settings.mine |->
                   IF n \in names THEN new[n] ELSE w.settings.mine[n]]
        sent == [n \in DOMAIN set |-> IF n \in names THEN new[n] ELSE FirstSettings[n]]
        put == [kind |-> "put", settings |-> sent, loud |-> loud]
    IN IF set # w.settings.mine THEN Ask([w EXCEPT !.settings.mine = set], put)
       ELSE IF loud THEN Say(w) ELSE w

(* set_settings(): the whole of the settings is put when one has changed.  *)
SetSettings(w, new, names, loud) ==
    LET set == [n \in DOMAIN w.settings.mine |->
                   IF n \in names THEN new[n] ELSE w.settings.mine[n]]
    IN IF set # w.settings.mine THEN Put([w EXCEPT !.settings.mine = set], loud)
       ELSE IF loud THEN Say(w) ELSE w

(* _checkDepends(): which of the fixed choices can be filled in. *)
Enabled(form) == {n \in {"teamload", "projload"} :
                    \/ n = "teamload" /\ form.teamauto = "load"
                    \/ n = "projload" /\ form.projauto = "load"}

(* A list shows the value that is set if it offers it, nothing if not, and *)
(* its first entry if none is set.                                         *)
Shown(value, options) == IF value = None /\ options # {} THEN CHOOSE x \in options : TRUE
                         ELSE IF value \in options THEN value ELSE None

(* init(): the form is filled only when the page is opened. *)
OpenSettings(w) ==
    LET mine == w.settings.mine
        form == [mine EXCEPT !.teamload = Shown(mine.teamload, Teams),
                             !.projload = Shown(mine.projload, Listed(w))]
    IN IF IsOpen(w, "settings") THEN SwitchTo(w, "settings")
       ELSE SwitchTo(AddTab([w EXCEPT !.settings.form = form, !.settings.enabled = Enabled(form)],
                            "settings"), "settings")
CloseSettings(w) == RemoveTab(Blur(w, "settings"), "settings")

(* get_setting(), for the team to start with; the form's default is "last".*)
TeamToLoad(s) == CASE s.teamauto = "last" -> s.teamlast
                   [] s.teamauto = "load" -> s.teamload
                   [] s.teamauto = "none" -> None

----------------------------------------------------------------------------
ShowsSettings == Busy("settings", {}) /\ win' = OpenSettings(win)

(* The user changes one field, whose dependants follow. *)
FillsForm(n, value) ==
    /\ Busy("settings", {}) /\ win.cur = "settings" /\ value # win.settings.form[n]
    /\ n \in {"teamload", "projload"} => n \in win.settings.enabled
    /\ LET form == [win.settings.form EXCEPT ![n] = value]
       IN win' = [win EXCEPT !.settings.form = form, !.settings.enabled = Enabled(form)]

(* saveSettings(): the fields that are disabled are saved as well. *)
SavesSettings ==
    /\ Busy("settings", {"put"}) /\ win.cur = "settings"
    /\ win' = SetSettings(win, win.settings.form, DOMAIN win.settings.form \ {"teamlast"}, TRUE)

GotPut(m) == /\ Arrives
             /\ win' = LET stored == [Answered(m) EXCEPT !.settings.server = m.settings,
                                                         !.settings.failed = FALSE]
                       IN IF m.loud THEN Say(stored) ELSE stored

(* The server may have stored them all the same. *)
FailPut(m, stored) ==
    /\ Fails(m)
    /\ win' = LET lost == [Answered(m) EXCEPT !.settings.failed = TRUE,
                              !.settings.server = IF stored THEN m.settings ELSE @]
              IN IF m.loud THEN Offer(lost, "put", None) ELSE lost

PressPut == Moves(Waiting({"put"}) # {}) /\ Pressed("put") /\ win' = Put(Unbuttoned, TRUE)

SettingsSteps ==
    \/ ShowsSettings \/ SavesSettings \/ PressPut
    \/ \E way \in Ways, n \in {"teamauto", "projauto"} : FillsForm(n, way)
    \/ \E t \in Teams : FillsForm("teamload", t)
    \/ \E p \in Listed(win) : FillsForm("projload", p)

(* Puts are answered whatever the user is busy with. *)
SettingsAnswers == \E m \in Waiting({"put"}) : GotPut(m) \/ \E b \in BOOLEAN : FailPut(m, b)

----------------------------------------------------------------------------
(* Unless the user was hasty, once nothing is on its way and the last put  *)
(* did not fail, the server has the user's settings, all of them, although *)
(* each change names a few (gui.js:407-435); and a field of the form can   *)
(* be filled in exactly when what it depends upon says so                  *)
(* (settings.js:333-362).                                                  *)
SettingsStored ==
    LET s == win.settings
    IN /\ (raced = {} /\ Waiting({"put"}) = {} /\ ~s.failed) => s.server = s.mine
       /\ IsOpen(win, "settings") => /\ "teamload" \in s.enabled <=> s.form.teamauto = "load"
                                     /\ "projload" \in s.enabled <=> s.form.projauto = "load"

=============================================================================
