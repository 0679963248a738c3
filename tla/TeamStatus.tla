----------------------------- MODULE TeamStatus -----------------------------
(***************************************************************************)
(* The public status of a team and its review: include/team-status.php as  *)
(* modules/team.php and modules/admin.php use it.                          *)
(*                                                                         *)
(* A team's status is one JSON file.  Every request loads the whole file,  *)
(* changes its copy and saves the whole copy, without any lock: saving     *)
(* truncates the file and then writes it.  A file that is missing, empty   *)
(* or torn loads as no data at all.  The image is uploaded to a file of    *)
(* its own, the status holding its md5, and copied to the public folder    *)
(* when a reviewer approves it.                                            *)
(***************************************************************************)
EXTENDS Naturals, FiniteSets

CONSTANTS Process,     \* the PHP processes serving requests
          Field,       \* the text fields
          image,       \* the item that is not a text
          Value,       \* the texts, and the images (md5 told apart by content)
          None,        \* not set; no file
          MaxRequests  \* bound: requests served

Item == Field \union {image}
NoEntry == [draft |-> None, live |-> None, reviewed |-> FALSE]
Entry ==   \* what is live or reviewed has a draft
  {NoEntry} \union [draft : Value, live : Value \union {None}, reviewed : BOOLEAN]
Data == [Item -> Entry]
NoData == [i \in Item |-> NoEntry]

ASSUME ImageAssumption == image \notin Field
ASSUME NoneAssumption == None \notin Value \union Item
ASSUME MaxRequestsAssumption == MaxRequests \in Nat

VARIABLES
  file,      \* what loading the status file gives
  upload,    \* the uploaded image
  liveImage, \* the image in the public folder
  seen,      \* seen[i]: the value the reviewer was last shown for i
  pc,        \* pc[p]: what p does next
  copy,      \* copy[p]: p's copy of the status
  review,    \* review[p]: the item and value p was asked to approve
  requests,  \* requests served so far
  approved,  \* history: what a reviewer has called valid
  judged     \* history: what a reviewer has judged either way

images == <<upload, liveImage>>
history == <<approved, judged>>
vars == <<file, images, seen, pc, copy, review, requests, history>>

Location == {"idle", "uploaded", "loaded", "truncated", "saved"}
NoReview == [item |-> None, value |-> None]

TypeOK ==
  /\ file \in Data
  /\ upload \in Value \union {None}
  /\ liveImage \in Value \union {None}
  /\ seen \in [Item -> Value \union {None}]
  /\ pc \in [Process -> Location]
  /\ copy \in [Process -> Data]
  /\ review \in [Process -> [item : Item \union {None}, value : Value \union {None}]]
  /\ requests \in 0..MaxRequests
  /\ approved \subseteq Item \X Value
  /\ judged \subseteq Item \X Value

Init ==
  /\ file = NoData
  /\ upload = None
  /\ liveImage = None
  /\ seen = [i \in Item |-> None]
  /\ pc = [p \in Process |-> "idle"]
  /\ copy = [p \in Process |-> NoData]
  /\ review = [p \in Process |-> NoReview]
  /\ requests = 0
  /\ approved = {}
  /\ judged = {}

-----------------------------------------------------------------------------
(* Helpers *)

Served(p) ==
  /\ pc[p] = "idle"
  /\ requests < MaxRequests
  /\ requests' = requests + 1

GoTo(p, location) == pc' = [pc EXCEPT ![p] = location]

(* setDraft(): a changed draft is to be reviewed again. *)
Drafted(e, v) ==
  IF e.draft = v THEN e ELSE [draft |-> v, live |-> e.live, reviewed |-> FALSE]

(* Mutant of Reviewed: the last verdict stands until the next one. *)
ReviewedEarly(e, valid) ==
  [draft |-> e.draft,
   live |-> IF valid \/ e.reviewed THEN e.draft ELSE e.live,
   reviewed |-> TRUE]

(* setReviewState() *)
Reviewed(e, valid) ==
  [draft |-> e.draft, live |-> IF valid THEN e.draft ELSE e.live, reviewed |-> TRUE]

(* itemsForReview() *)
ToReview(d) == {i \in Item : d[i].draft # None /\ ~d[i].reviewed}

-----------------------------------------------------------------------------
(* The team *)

(* Mutant of PutStatus: fields that are not posted are cleared. *)
PutStatusAll(p) ==
  \E posted \in [Field -> Value \union {None}] :
    /\ Served(p)
    /\ copy' = [copy EXCEPT ![p] =
         [i \in Item |-> IF i \in Field THEN Drafted(file[i], posted[i]) ELSE file[i]]]
    /\ GoTo(p, "loaded")
    /\ UNCHANGED <<file, images, seen, review, history>>

(* putStatus(): the fields posted are changed in a copy of the file. *)
PutStatus(p) ==
  \E posted \in [Field -> Value \union {None}] :
    /\ Served(p)
    /\ copy' = [copy EXCEPT ![p] =
         [i \in Item |-> IF i \in Field /\ posted[i] # None
                         THEN Drafted(file[i], posted[i]) ELSE file[i]]]
    /\ GoTo(p, "loaded")
    /\ UNCHANGED <<file, images, seen, review, history>>

(* putStatusImage(): first the image file, ... *)
UploadImage(p) ==
  \E v \in Value :
    /\ Served(p)
    /\ upload' = v
    /\ GoTo(p, "uploaded")
    /\ UNCHANGED <<file, liveImage, seen, copy, review, history>>

(* ... then the status, with the md5 the file has by now. *)
DraftImage(p) ==
  /\ pc[p] = "uploaded"
  /\ copy' = [copy EXCEPT ![p] = [file EXCEPT ![image] = Drafted(@, upload)]]
  /\ GoTo(p, "loaded")
  /\ UNCHANGED <<file, images, seen, review, requests, history>>

-----------------------------------------------------------------------------
(* The reviewer *)

(* getItemsToReview(): of the image, the uploaded file itself is shown. *)
ShowItems ==
  /\ seen' = [i \in Item |->
       IF i \notin ToReview(file) THEN None
       ELSE IF i = image THEN upload ELSE file[i].draft]
  /\ UNCHANGED <<file, images, pc, copy, review, requests, history>>

(* Mutant of SetItemReviewState: whatever draft there is is reviewed. *)
SetItemReviewStateAny(p) ==
  \E i \in Item, valid \in BOOLEAN :
    /\ Served(p)
    /\ seen[i] # None
    /\ file[i].draft # None
    /\ copy' = [copy EXCEPT ![p] = [file EXCEPT ![i] = Reviewed(@, valid)]]
    /\ review' = [review EXCEPT ![p] =
         IF valid THEN [item |-> i, value |-> seen[i]] ELSE NoReview]
    /\ judged' = judged \union {<<i, seen[i]>>}
    /\ approved' = IF valid THEN approved \union {<<i, seen[i]>>} ELSE approved
    /\ GoTo(p, "loaded")
    /\ UNCHANGED <<file, images, seen>>

(* setItemReviewState(): a verdict on a value shown earlier, refused when  *)
(* it is not the draft any more.                                           *)
SetItemReviewState(p) ==
  \E i \in Item, valid \in BOOLEAN :
    /\ Served(p)
    /\ seen[i] # None
    /\ file[i].draft = seen[i]
    /\ copy' = [copy EXCEPT ![p] = [file EXCEPT ![i] = Reviewed(@, valid)]]
    /\ review' = [review EXCEPT ![p] =
         IF valid THEN [item |-> i, value |-> seen[i]] ELSE NoReview]
    /\ judged' = judged \union {<<i, seen[i]>>}
    /\ approved' = IF valid THEN approved \union {<<i, seen[i]>>} ELSE approved
    /\ GoTo(p, "loaded")
    /\ UNCHANGED <<file, images, seen>>

(* Mutant of CopyImage: the file is not compared with what was reviewed. *)
CopyImageUnchecked(p) ==
  /\ pc[p] = "saved"
  /\ liveImage' = IF review[p].item = image THEN upload ELSE liveImage
  /\ review' = [review EXCEPT ![p] = NoReview]
  /\ GoTo(p, "idle")
  /\ UNCHANGED <<file, upload, seen, copy, requests, history>>

(* saveImageFromReview(), for a valid image: nobody looks at its result. *)
CopyImage(p) ==
  /\ pc[p] = "saved"
  /\ liveImage' = IF review[p].item = image /\ review[p].value = upload
                    THEN upload ELSE liveImage
  /\ review' = [review EXCEPT ![p] = NoReview]
  /\ GoTo(p, "idle")
  /\ UNCHANGED <<file, upload, seen, copy, requests, history>>

-----------------------------------------------------------------------------
(* save(): file_put_contents of the copy *)

Truncate(p) ==
  /\ pc[p] = "loaded"
  /\ file' = NoData
  /\ GoTo(p, "truncated")
  /\ UNCHANGED <<images, seen, copy, review, requests, history>>

(* If another request has written since this one truncated the file, the   *)
(* longer text's tail may remain, and the file is not JSON any more.       *)
Write(p) ==
  /\ pc[p] = "truncated"
  /\ file' \in IF file = NoData THEN {copy[p]} ELSE {copy[p], NoData}
  /\ copy' = [copy EXCEPT ![p] = NoData]
  /\ GoTo(p, "saved")
  /\ UNCHANGED <<images, seen, review, requests, history>>

(* The process is killed. *)
Killed(p) ==
  /\ pc[p] # "idle"
  /\ copy' = [copy EXCEPT ![p] = NoData]
  /\ review' = [review EXCEPT ![p] = NoReview]
  /\ GoTo(p, "idle")
  /\ UNCHANGED <<file, images, seen, requests, history>>

Next ==
  \/ ShowItems
  \/ \E p \in Process :
       \/ PutStatus(p) \/ UploadImage(p) \/ DraftImage(p)
       \/ SetItemReviewState(p) \/ CopyImage(p)
       \/ Truncate(p) \/ Write(p) \/ Killed(p)

Spec == Init /\ [][Next]_vars

-----------------------------------------------------------------------------
(* Properties *)

(* The public sees only what a reviewer has called valid: however requests *)
(* load and save over each other, no value gets live unapproved.           *)
LiveWasApproved ==
  \A i \in Item : file[i].live # None => <<i, file[i].live>> \in approved

(* So with the image file, which is replaced without the status knowing.   *)
LiveImageApproved == liveImage # None => <<image, liveImage>> \in approved

(* A draft counts as reviewed only if a reviewer has judged that very      *)
(* value: a new draft always comes up for review.                          *)
ReviewedWasJudged ==
  \A i \in Item : file[i].reviewed => <<i, file[i].draft>> \in judged

-----------------------------------------------------------------------------
(* The inductive invariant behind them: it speaks of the copies requests   *)
(* hold as well, which may be saved at any later time.                     *)

Sound(d) ==
  \A i \in Item :
    /\ d[i].live # None => <<i, d[i].live>> \in approved
    /\ d[i].reviewed => <<i, d[i].draft>> \in judged

DataInv == Sound(file) /\ \A p \in Process : Sound(copy[p])

ImageInv ==
  /\ liveImage # None => <<image, liveImage>> \in approved
  /\ \A p \in Process :
       review[p].item # None => <<review[p].item, review[p].value>> \in approved

UploadInv == \A p \in Process : pc[p] = "uploaded" => upload # None

IInv == TypeOK /\ DataInv /\ ImageInv /\ UploadInv
=============================================================================
