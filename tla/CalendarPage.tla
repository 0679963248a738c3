---------------------------- MODULE CalendarPage ----------------------------
(***************************************************************************)
(* The calendar of the project page: the days of a month on which the      *)
(* project has revisions, the revisions of the day picked, and the one     *)
(* that the file list is to show.                                          *)
(***************************************************************************)
EXTENDS LogPages

CONSTANTS
    DaysIn,      \* DaysIn[m]: how many days the m-th month has
    Today,       \* <<month, day>>
    Dates        \* Dates[p]: the dates of a project's revisions, oldest first

Months == 1 .. Len(DaysIn)

ASSUME CalendarAssumption ==
    /\ DaysIn \in Seq(Nat \ {0})
    /\ Today[1] \in Months /\ Today[2] \in 1 .. DaysIn[Today[1]]
    /\ Dates \in [Projects -> Seq(Months \X Nat)]

NoCalendar == [proj |-> None, month |-> Today[1], day |-> Today[2], logs |-> {},
               marked |-> {}, offered |-> {}, live |-> FALSE, rev |-> HEAD,
               failed |-> FALSE]     \* history: the last request failed

Log(p) == {<<p, i>> : i \in DOMAIN Dates[p]}
Month(r) == Dates[r[1]][r[2]][1]
Day(r) == Dates[r[1]][r[2]][2]

(* init(): the month is drawn with no day marked, and its log asked for.   *)
DrawCal(w) ==
    LET c == [w.cal EXCEPT !.logs = {}, !.day = 1, !.marked = {}, !.offered = {},
                           !.failed = FALSE]
    IN IF c.proj = None THEN [w EXCEPT !.cal = c]
       ELSE Ask([w EXCEPT !.cal = c], [kind |-> "dates", project |-> c.proj])

ChangeCalendar(w, p) ==
    DrawCal([w EXCEPT !.cal = [@ EXCEPT !.proj = p, !.month = Today[1], !.day = Today[2]]])

(* setMonth(): a day that the month does not have is one of the next.      *)
SetMonth(c, m) == IF c.day <= DaysIn[m] THEN [c EXCEPT !.month = m]
                  ELSE [c EXCEPT !.month = m + 1, !.day = @ - DaysIn[m]]

(* Mutant of ReceiveDates: the days of every month are marked.             *)
ReceiveDatesOfAll(w, m) ==
    IF Log(m.project) = {} THEN [w EXCEPT !.cal.logs = {}]
    ELSE [w EXCEPT !.cal.logs = Log(m.project),
                   !.cal.marked = @ \cup {Day(r) : r \in Log(m.project)}]

(* _receiveDates(), processDates() and updateCal(): whatever project the   *)
(* answer is about, its days are marked beside those that are.             *)
ReceiveDates(w, m) ==
    IF Log(m.project) = {} THEN [w EXCEPT !.cal.logs = {}]
    ELSE [w EXCEPT !.cal.logs = Log(m.project),
                   !.cal.marked = @ \cup {Day(r) : r \in {s \in Log(m.project) :
                                                            Month(s) = w.cal.month}}]

----------------------------------------------------------------------------
OnCalendar == Busy("calendar", {"dates"}) /\ win.cur = "projects"

ChoosesProject(p) == /\ OnCalendar /\ p # win.cal.proj
                     /\ win' = ChangeCalendar(win, p)

ChangesMonth(dir) ==
    /\ OnCalendar /\ win.cal.proj # None
    /\ win.cal.month + dir \in Months
    /\ LET c == SetMonth(win.cal, win.cal.month + dir)
       IN c.month \in Months /\ win' = DrawCal([win EXCEPT !.cal = c])

(* change_day(): the revisions of that day of any month are offered. *)
ChangesDay(d) ==
    /\ habit = "calendar" /\ Moves(Waiting({"dates"}) # {}) /\ win.cur = "projects"
    /\ d \in win.cal.marked
    /\ win' = Say([win EXCEPT !.cal = [@ EXCEPT !.day = d, !.live = TRUE,
                                 !.offered = {r \in win.cal.logs : Day(r) = d}]])

(* _load_new_rev() *)
LoadsRevision(r) ==
    /\ habit = "calendar" /\ Moves(Waiting({"dates"}) # {}) /\ win.cal.live
    /\ r \in win.cal.offered
    /\ win' = Say([win EXCEPT !.cal.rev = r])
LoadsHead ==
    /\ OnCalendar /\ win.cal.live
    /\ win' = DrawCal(Say([win EXCEPT !.cal = [@ EXCEPT !.rev = HEAD, !.month = Today[1],
                                                        !.day = Today[2]]]))

GotDates(m) == Arrives /\ win' = ReceiveDates(Answered(m), m)
FailDates(m) == Fails(m) /\ win' = [Answered(m) EXCEPT !.cal.failed = TRUE]

CalendarSteps ==
    \/ \E p \in Projects : p \in Listed(win) /\ ChoosesProject(p)
    \/ \E dir \in {-1, 1} : ChangesMonth(dir)
    \/ \E d \in win.cal.marked : ChangesDay(d)
    \/ \E r \in win.cal.offered : LoadsRevision(r)
    \/ LoadsHead
    \/ \E m \in Waiting({"dates"}) : GotDates(m) \/ FailDates(m)

----------------------------------------------------------------------------
(* Unless the user was hasty, once it has its answer the calendar marks    *)
(* the days of the month it shows on which its project has revisions, all  *)
(* of these days and no other, and offers revisions of its project only    *)
(* (calendar.js:111-185, 187-217).                                         *)
CalendarShown ==
    LET c == win.cal
    IN (raced = {} /\ c.proj # None /\ Waiting({"dates"}) = {} /\ ~c.failed)
       => /\ c.marked = {Day(r) : r \in {s \in Log(c.proj) : Month(s) = c.month}}
          /\ c.logs = Log(c.proj) /\ c.offered \subseteq Log(c.proj)

=============================================================================
