------------------------------- MODULE MCPages -------------------------------
(* A small window for TLC: two teams, of which one is read only, with two  *)
(* projects in one of them and one in the other, and three files.          *)
EXTENDS Pages

CONSTANTS t1, t2, p1, p2, f1, f2, f3, q1, q2, me, her

MCMaxEvents == "menu" :> 6 @@ "edit" :> 4 @@ "search" :> 4 @@ "errors" :> 3 @@ "logs" :> 3
               @@ "calendar" :> 6 @@ "settings" :> 6 @@ "admin" :> 6 @@ "status" :> 5
               @@ "files" :> 3

MCOpened == [h \in DOMAIN MCMaxEvents |->
                CASE h = "edit" -> Files
                  [] h \in {"errors", "logs"} -> {f1, f2}
                  [] h = "search" -> {f2}
                  [] h = "files" -> {f1}
                  [] OTHER -> {}]

MCTrees == (t1 :> (p1 :> {f1, f2} @@ p2 :> {f3})) @@ (t2 :> (p1 :> {f1} @@ p2 :> {}))
MCWords == f1 :> {q1} @@ f2 :> {q1, q2} @@ f3 :> {q2}
MCNamed == f1 :> {q2} @@ f2 :> {} @@ f3 :> {q1} @@ p1 :> {q1} @@ p2 :> {}
MCFirstSettings == [teamauto |-> "last", teamload |-> None, teamlast |-> t1,
                    projauto |-> "last", projload |-> None]
MCProjectOf == f1 :> p1 @@ f2 :> p1 @@ f3 :> p2
MCFirstCommits == f1 :> <<me, her, me>> @@ f2 :> <<her>> @@ f3 :> <<>>
MCDaysIn == <<2, 1, 2>>
MCToday == <<3, 2>>
MCDates == p1 :> <<<<1, 2>>, <<3, 1>>, <<3, 2>>>> @@ p2 :> <<<<2, 1>>>>
MCFirstReviews == t1 :> {"name", "image"} @@ t2 :> {"name"}
MCPlaceOf == f1 :> <<"/", "a.py">> @@ f2 :> <<"/lib/", "a.py">> @@ f3 :> <<"/", "new">>

=============================================================================
