--------------------------- MODULE TeamStatusProofs ---------------------------
(***************************************************************************)
(* Proofs about TeamStatus for any number of requests, fields and values:  *)
(* nothing gets public, or counts as reviewed, that a reviewer has not     *)
(* judged.                                                                 *)
(***************************************************************************)
EXTENDS TeamStatus, TLAPS

(* The entries of data are closed under what a draft and a verdict do. *)
LEMMA EntryClosed ==
  ASSUME NEW e \in Entry, NEW v \in Value, NEW valid \in BOOLEAN
  PROVE  /\ Drafted(e, v) \in Entry
         /\ e.draft # None => Reviewed(e, valid) \in Entry
<1>1. Drafted(e, v) \in Entry
  BY DEF Drafted, Entry, NoEntry
<1>2. ASSUME e.draft # None PROVE Reviewed(e, valid) \in Entry
  BY <1>2, NoneAssumption DEF Reviewed, Entry, NoEntry
<1> QED
  BY <1>1, <1>2

LEMMA NoDataSound == NoData \in Data /\ Sound(NoData)
  BY DEF NoData, NoEntry, Data, Entry, Sound

LEMMA InitIInv == Init => IInv
<1> SUFFICES ASSUME Init PROVE IInv
  OBVIOUS
<1>1. TypeOK
  BY NoDataSound, MaxRequestsAssumption
     DEF Init, TypeOK, Location, NoReview
<1>2. DataInv
  BY NoDataSound DEF Init, DataInv
<1>3. ImageInv
  BY DEF Init, ImageInv, NoReview
<1> QED
  BY <1>1, <1>2, <1>3 DEF IInv, Init, UploadInv

(* A request loads a copy and drafts new values in it. *)
LEMMA PutStatusIInv ==
  ASSUME IInv, NEW p \in Process, PutStatus(p)
  PROVE  IInv'
<1> USE DEF IInv
<1>1. PICK posted \in [Field -> Value \union {None}] :
        /\ copy' = [copy EXCEPT ![p] =
             [i \in Item |-> IF i \in Field /\ posted[i] # None
                             THEN Drafted(file[i], posted[i]) ELSE file[i]]]
        /\ pc' = [pc EXCEPT ![p] = "loaded"]
        /\ requests < MaxRequests /\ requests' = requests + 1
        /\ UNCHANGED <<file, images, seen, review, history>>
  BY DEF PutStatus, Served, GoTo
<1> DEFINE d == [i \in Item |-> IF i \in Field /\ posted[i] # None
                                THEN Drafted(file[i], posted[i]) ELSE file[i]]
<1>2. d \in Data
  BY <1>1, EntryClosed DEF TypeOK, Data
<1>3. Sound(d)
  BY <1>1 DEF DataInv, Sound, Drafted, TypeOK, Data
<1>4. copy' = [copy EXCEPT ![p] = d]
  BY <1>1
<1> HIDE DEF d
<1>5. TypeOK'
  BY <1>1, <1>2, <1>4, MaxRequestsAssumption DEF TypeOK, images, history, Location
<1>6. DataInv'
  BY <1>1, <1>3, <1>4 DEF DataInv, Sound, history, TypeOK
<1>7. ImageInv'
  BY <1>1 DEF ImageInv, images, history
<1>8. UploadInv'
  BY <1>1 DEF UploadInv, images, TypeOK
<1> QED
  BY <1>5, <1>6, <1>7, <1>8

LEMMA UploadImageIInv ==
  ASSUME IInv, NEW p \in Process, UploadImage(p)
  PROVE  IInv'
<1> USE DEF IInv, UploadImage, Served, GoTo, history
<1>1. TypeOK'
  BY MaxRequestsAssumption DEF TypeOK, Location
<1>2. DataInv'
  BY DEF DataInv, Sound
<1>3. ImageInv'
  BY DEF ImageInv
<1>4. UploadInv'
  BY NoneAssumption DEF UploadInv
<1> QED
  BY <1>1, <1>2, <1>3, <1>4

(* The status refers to whatever image the file holds by now. *)
LEMMA DraftImageIInv ==
  ASSUME IInv, NEW p \in Process, DraftImage(p)
  PROVE  IInv'
<1> USE DEF IInv
<1> DEFINE d == [file EXCEPT ![image] = Drafted(@, upload)]
<1>1. /\ copy' = [copy EXCEPT ![p] = d]
      /\ pc' = [pc EXCEPT ![p] = "loaded"]
      /\ UNCHANGED <<file, images, seen, review, requests, history>>
  BY DEF DraftImage, GoTo
<1>2. d \in Data
  BY EntryClosed DEF TypeOK, Data, Item, UploadInv, DraftImage
<1>3. Sound(d)
  BY DEF DataInv, Sound, Drafted, TypeOK, Data, Item
<1> HIDE DEF d
<1>5. TypeOK'
  BY <1>1, <1>2 DEF TypeOK, images, history, Location
<1>6. DataInv'
  BY <1>1, <1>3 DEF DataInv, Sound, history, TypeOK
<1>7. ImageInv'
  BY <1>1 DEF ImageInv, images, history
<1>8. UploadInv'
  BY <1>1 DEF UploadInv, images, TypeOK
<1> QED
  BY <1>5, <1>6, <1>7, <1>8

LEMMA ShowItemsIInv ==
  ASSUME IInv, ShowItems
  PROVE  IInv'
<1> USE DEF IInv, ShowItems, images, history
<1>1. seen' \in [Item -> Value \union {None}]
  BY DEF TypeOK, Data, Entry, NoEntry
<1>2. TypeOK'
  BY <1>1 DEF TypeOK
<1>3. DataInv' /\ ImageInv' /\ UploadInv'
  BY DEF DataInv, Sound, ImageInv, UploadInv
<1> QED
  BY <1>2, <1>3

(* A verdict is on the value the reviewer was shown, which is the draft.   *)
LEMMA SetItemReviewStateIInv ==
  ASSUME IInv, NEW p \in Process, SetItemReviewState(p)
  PROVE  IInv'
<1> USE DEF IInv
<1>1. PICK i \in Item, valid \in BOOLEAN :
        /\ seen[i] # None /\ file[i].draft = seen[i]
        /\ copy' = [copy EXCEPT ![p] = [file EXCEPT ![i] = Reviewed(@, valid)]]
        /\ review' = [review EXCEPT ![p] =
             IF valid THEN [item |-> i, value |-> seen[i]] ELSE NoReview]
        /\ judged' = judged \union {<<i, seen[i]>>}
        /\ approved' = IF valid THEN approved \union {<<i, seen[i]>>} ELSE approved
        /\ pc' = [pc EXCEPT ![p] = "loaded"]
        /\ requests < MaxRequests /\ requests' = requests + 1
        /\ UNCHANGED <<file, images, seen>>
  BY DEF SetItemReviewState, Served, GoTo
<1> DEFINE d == [file EXCEPT ![i] = Reviewed(@, valid)]
<1>2. d \in Data
  BY <1>1, EntryClosed DEF TypeOK, Data
<1>3. seen[i] \in Value
  BY <1>1 DEF TypeOK
<1>4. /\ approved \subseteq approved' /\ judged \subseteq judged'
      /\ approved' \subseteq Item \X Value /\ judged' \subseteq Item \X Value
  BY <1>1, <1>3 DEF TypeOK
<1>5. ASSUME NEW j \in Item
      PROVE  /\ d[j].live # None => <<j, d[j].live>> \in approved'
             /\ d[j].reviewed => <<j, d[j].draft>> \in judged'
  <2>1. CASE j = i
    BY <1>1, <1>4, <2>1 DEF DataInv, Sound, Reviewed, TypeOK, Data
  <2>2. CASE j # i
    BY <1>1, <1>4, <2>2 DEF DataInv, Sound, TypeOK, Data
  <2> QED
    BY <2>1, <2>2
<1>6. copy' = [copy EXCEPT ![p] = d]
  BY <1>1
<1> HIDE DEF d
<1>7. TypeOK'
  <2>1. copy' \in [Process -> Data]
    BY <1>2, <1>6 DEF TypeOK
  <2>2. review' \in [Process -> [item : Item \union {None}, value : Value \union {None}]]
    BY <1>1, <1>3 DEF TypeOK, NoReview
  <2> QED
    BY <1>1, <1>4, <2>1, <2>2, MaxRequestsAssumption DEF TypeOK, images, Location
<1>8. DataInv'
  BY <1>1, <1>4, <1>5, <1>6 DEF DataInv, Sound, TypeOK
<1>9. ImageInv'
  BY <1>1, <1>4 DEF ImageInv, images, TypeOK, NoReview
<1>10. UploadInv'
  BY <1>1 DEF UploadInv, images, TypeOK
<1> QED
  BY <1>7, <1>8, <1>9, <1>10

(* What is copied is what was approved, byte for byte. *)
LEMMA CopyImageIInv ==
  ASSUME IInv, NEW p \in Process, CopyImage(p)
  PROVE  IInv'
<1> USE DEF IInv, CopyImage, GoTo, history
<1>1. TypeOK'
  BY DEF TypeOK, Location, NoReview
<1>2. DataInv'
  BY DEF DataInv, Sound
<1>3. image # None
  BY NoneAssumption DEF Item
<1>4. ImageInv'
  BY <1>3 DEF ImageInv, TypeOK, NoReview
<1>5. UploadInv'
  BY DEF UploadInv, TypeOK
<1> QED
  BY <1>1, <1>2, <1>4, <1>5

LEMMA SaveIInv ==
  ASSUME IInv, NEW p \in Process, Truncate(p) \/ Write(p) \/ Killed(p)
  PROVE  IInv'
<1> USE DEF IInv, GoTo, images, history
<1>1. CASE Truncate(p)
  <2>1. TypeOK'
    BY <1>1, NoDataSound DEF Truncate, TypeOK, Location
  <2>2. DataInv'
    BY <1>1, NoDataSound DEF Truncate, DataInv, Sound
  <2>3. ImageInv' /\ UploadInv'
    BY <1>1 DEF Truncate, ImageInv, UploadInv, TypeOK
  <2> QED
    BY <2>1, <2>2, <2>3
<1>2. CASE Write(p)
  <2>1. file' \in {copy[p], NoData}
    BY <1>2 DEF Write
  <2>2. TypeOK'
    BY <1>2, <2>1, NoDataSound DEF Write, TypeOK, Location
  <2>3. DataInv'
    BY <1>2, <2>1, NoDataSound DEF Write, DataInv, Sound, TypeOK
  <2>4. ImageInv' /\ UploadInv'
    BY <1>2 DEF Write, ImageInv, UploadInv, TypeOK
  <2> QED
    BY <2>2, <2>3, <2>4
<1>3. CASE Killed(p)
  <2>1. TypeOK'
    BY <1>3, NoDataSound DEF Killed, TypeOK, Location, NoReview
  <2>2. DataInv'
    BY <1>3, NoDataSound DEF Killed, DataInv, Sound, TypeOK
  <2>3. ImageInv' /\ UploadInv'
    BY <1>3 DEF Killed, ImageInv, UploadInv, TypeOK, NoReview
  <2> QED
    BY <2>1, <2>2, <2>3
<1> QED
  BY <1>1, <1>2, <1>3

LEMMA StutterIInv == IInv /\ UNCHANGED vars => IInv'
  BY DEF IInv, TypeOK, DataInv, Sound, ImageInv, UploadInv, vars, images, history

LEMMA NextIInv == IInv /\ [Next]_vars => IInv'
<1> SUFFICES ASSUME IInv, [Next]_vars PROVE IInv'
  OBVIOUS
<1>1. CASE UNCHANGED vars
  BY <1>1, StutterIInv
<1>2. CASE ShowItems
  BY <1>2, ShowItemsIInv
<1>3. ASSUME NEW p \in Process,
             \/ PutStatus(p) \/ UploadImage(p) \/ DraftImage(p)
             \/ SetItemReviewState(p) \/ CopyImage(p)
             \/ Truncate(p) \/ Write(p) \/ Killed(p)
      PROVE  IInv'
  BY <1>3, PutStatusIInv, UploadImageIInv, DraftImageIInv, SetItemReviewStateIInv,
     CopyImageIInv, SaveIInv
<1> QED
  BY <1>1, <1>2, <1>3 DEF Next

-----------------------------------------------------------------------------
(* IInv is an invariant: whatever copy a request still holds, saving it    *)
(* puts nothing unapproved in the file.                                    *)
THEOREM Invariance == Spec => []IInv
<1>1. Init => IInv
  BY InitIInv
<1>2. IInv /\ [Next]_vars => IInv'
  BY NextIInv
<1> QED
  BY <1>1, <1>2, PTL DEF Spec

(* The variables have their types, and what is live or reviewed has a      *)
(* draft.                                                                  *)
THEOREM TypeCorrect == Spec => []TypeOK
<1>1. IInv => TypeOK
  BY DEF IInv
<1> QED
  BY <1>1, Invariance, PTL

(* The public sees only texts and image names a reviewer has called valid. *)
THEOREM LiveWasApprovedHolds == Spec => []LiveWasApproved
<1>1. IInv => LiveWasApproved
  BY DEF IInv, DataInv, Sound, LiveWasApproved
<1> QED
  BY <1>1, Invariance, PTL

(* The public sees only images a reviewer has called valid. *)
THEOREM LiveImageApprovedHolds == Spec => []LiveImageApproved
<1>1. IInv => LiveImageApproved
  BY DEF IInv, ImageInv, LiveImageApproved
<1> QED
  BY <1>1, Invariance, PTL

(* A new draft always comes up for review. *)
THEOREM ReviewedWasJudgedHolds == Spec => []ReviewedWasJudged
<1>1. IInv => ReviewedWasJudged
  BY DEF IInv, DataInv, Sound, ReviewedWasJudged
<1> QED
  BY <1>1, Invariance, PTL
=============================================================================
