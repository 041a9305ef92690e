---------------------------- MODULE ShowDayProofs ----------------------------
(***************************************************************************)
(* Proofs about the show day, part by part: the running classes and the    *)
(* hosting of the show, entries, the board, planning and the archive.  At  *)
(* the end the parts are put together as MCShowDay does.                   *)
(***************************************************************************)
EXTENDS MCShowDay, LedgerSumsTheorems, SequenceTheorems

(*---------------------------- the live classes ---------------------------*)
\* Most steps change the row of one class; the lemmas say what each leaves of it, and the properties
\* follow from them class by class.

\* A class of the show has a row of its own.
LEMMA PresentRow ==
  ASSUME LiveShowTypeOK, NEW c \in Present
  PROVE  c \in Classes /\ classes[c] \in ClassRow
  BY DEF LiveShowTypeOK, Present, NoClass

\* The three columns of a row, each replaced alone, leave a row.
LEMMA RowUpdates ==
  ASSUME NEW row \in ClassRow
  PROVE  /\ \A ring \in RingNames \cup {"", NoRing} : [row EXCEPT !.ring = ring] \in ClassRow
         /\ \A live \in [status : ClassStatuses, resultsPublished : BOOLEAN] : [row EXCEPT !.live = live] \in ClassRow
         /\ \A placed \in BOOLEAN : [row EXCEPT !.placed = placed] \in ClassRow
  BY DEF ClassRow

\* What get_or_create returns is a live row, and so is that row with a new status or publication.
LEMMA StoredLiveRow ==
  ASSUME LiveShowTypeOK, NEW c \in Present
  PROVE  /\ StoredLive(c) \in [status : ClassStatuses, resultsPublished : BOOLEAN]
         /\ \A status \in ClassStatuses :
              [StoredLive(c) EXCEPT !.status = status] \in [status : ClassStatuses, resultsPublished : BOOLEAN]
         /\ \A publish \in BOOLEAN :
              [StoredLive(c) EXCEPT !.resultsPublished = publish] \in [status : ClassStatuses, resultsPublished : BOOLEAN]
  <1>1. classes[c] \in ClassRow
    BY PresentRow
  <1>2. StoredLive(c) \in [status : ClassStatuses, resultsPublished : BOOLEAN]
    BY <1>1 DEF StoredLive, HasRow, ClassRow, ClassStatuses
  <1> QED BY <1>2

\* A present class keeps its place in the show when its row is replaced by another row.
LEMMA RowReplaced ==
  ASSUME LiveShowTypeOK, NEW c \in Present, NEW row \in ClassRow, classes' = [classes EXCEPT ![c] = row]
  PROVE  /\ classes'[c] = row /\ \A d \in Classes \ {c} : classes'[d] = classes[d]
         /\ Present' = Present
  <1>1. c \in Classes /\ classes \in [Classes -> ClassRow \cup {NoClass}]
    BY PresentRow DEF LiveShowTypeOK
  <1>2. classes'[c] = row /\ \A d \in Classes \ {c} : classes'[d] = classes[d]
    BY <1>1
  <1>3. row.exists /\ classes[c].exists
    BY PresentRow DEF ClassRow, Present
  <1> QED BY <1>1, <1>2, <1>3 DEF Present

\* A ring update replaces the row of its class by one that differs in the ring only.
LEMMA RingStep ==
  ASSUME LiveShowTypeOK, NEW c \in Present, NEW ring \in RingNames \cup {""}, ClassRingUpdate(c, ring)
  PROVE  \E row \in ClassRow : /\ classes' = [classes EXCEPT ![c] = row]
                               /\ row.live = classes[c].live /\ row.placed = classes[c].placed
  <1>1. classes[c] \in ClassRow
    BY PresentRow
  <1>2. StoredRing(c) \in RingNames \cup {"", NoRing}
    BY <1>1 DEF StoredRing, ClassRow
  <1>3. \A r \in RingNames \cup {"", NoRing} :
          /\ [classes[c] EXCEPT !.ring = r] \in ClassRow
          /\ [classes[c] EXCEPT !.ring = r].live = classes[c].live
          /\ [classes[c] EXCEPT !.ring = r].placed = classes[c].placed
    BY <1>1, RowUpdates DEF ClassRow
  <1>4. CASE ring = StoredRing(c) \/ ActiveRingConflict(c, CheckedRing(c, ring))
    BY <1>2, <1>3, <1>4 DEF ClassRingUpdate
  <1>5. CASE ~(ring = StoredRing(c) \/ ActiveRingConflict(c, CheckedRing(c, ring)))
    BY <1>3, <1>5 DEF ClassRingUpdate
  <1> QED BY <1>4, <1>5

\* A status update replaces the row of its class by one with the new status.
LEMMA StatusStep ==
  ASSUME LiveShowTypeOK, NEW c \in Present, NEW status \in ClassStatuses, ClassStatusUpdate(c, status)
  PROVE  \E row \in ClassRow : /\ classes' = [classes EXCEPT ![c] = row]
                               /\ row.live = [StoredLive(c) EXCEPT !.status = status]
                               /\ row.ring = classes[c].ring /\ row.placed = classes[c].placed
  <1>1. classes[c] \in ClassRow /\ [StoredLive(c) EXCEPT !.status = status] \in [status : ClassStatuses, resultsPublished : BOOLEAN]
    BY PresentRow, StoredLiveRow
  <1> DEFINE row == [classes[c] EXCEPT !.live = [StoredLive(c) EXCEPT !.status = status]]
  <1>2. row \in ClassRow
    BY <1>1, RowUpdates
  <1>3. row.live = [StoredLive(c) EXCEPT !.status = status] /\ row.ring = classes[c].ring /\ row.placed = classes[c].placed
    BY <1>1 DEF ClassRow
  <1>4. classes' = [classes EXCEPT ![c] = row]
    BY DEF ClassStatusUpdate
  <1> HIDE DEF row
  <1> QED BY <1>2, <1>3, <1>4

\* A publication of results keeps the status of the class, and releases it only as MayPublishResults allows.
LEMMA PublishStep ==
  ASSUME LiveShowTypeOK, NEW c \in Present, NEW publish \in BOOLEAN, ClassResultsPublicationUpdate(c, publish)
  PROVE  \E row \in ClassRow :
           /\ classes' = [classes EXCEPT ![c] = row]
           /\ row.live = StoredLive(c) \/ row.live = [StoredLive(c) EXCEPT !.resultsPublished = publish]
           /\ row.live # StoredLive(c) => ~publish \/ MayPublishResults(c)
           /\ row.ring = classes[c].ring /\ row.placed = classes[c].placed
  <1>1. /\ classes[c] \in ClassRow /\ StoredLive(c) \in [status : ClassStatuses, resultsPublished : BOOLEAN]
        /\ [StoredLive(c) EXCEPT !.resultsPublished = publish] \in [status : ClassStatuses, resultsPublished : BOOLEAN]
    BY PresentRow, StoredLiveRow
  <1>2. \A live \in [status : ClassStatuses, resultsPublished : BOOLEAN] :
          /\ [classes[c] EXCEPT !.live = live] \in ClassRow
          /\ [classes[c] EXCEPT !.live = live].live = live
          /\ [classes[c] EXCEPT !.live = live].ring = classes[c].ring
          /\ [classes[c] EXCEPT !.live = live].placed = classes[c].placed
    BY <1>1, RowUpdates DEF ClassRow
  <1>3. CASE publish /\ ~MayPublishResults(c)
    BY <1>1, <1>2, <1>3 DEF ClassResultsPublicationUpdate
  <1>4. CASE ~publish \/ MayPublishResults(c)
    BY <1>1, <1>2, <1>4 DEF ClassResultsPublicationUpdate
  <1> QED BY <1>3, <1>4

-----------------------------------------------------------------------------
\* Every request on the running show keeps the shape of its tables.
LEMMA LiveTypeStep ==
  ASSUME LiveShowTypeOK, [LiveShowNext]_liveShowVars
  PROVE  LiveShowTypeOK'
<1>0. /\ showStatus \in ShowStatuses /\ seasonClosed \in BOOLEAN
      /\ classes \in [Classes -> ClassRow \cup {NoClass}] /\ publication \in PublicationRow \cup {NoPublication}
  BY DEF LiveShowTypeOK
<1>1. ASSUME NEW c \in Present, NEW ring \in RingNames \cup {""}, ClassRingUpdate(c, ring) PROVE LiveShowTypeOK'
  <2>1. classes[c] \in ClassRow
    BY PresentRow
  <2>2. StoredRing(c) \in RingNames \cup {"", NoRing}
    BY <2>1 DEF StoredRing, ClassRow
  <2>3. [classes[c] EXCEPT !.ring = StoredRing(c)] \in ClassRow /\ [classes[c] EXCEPT !.ring = ring] \in ClassRow
    BY <2>1, <2>2, RowUpdates
  <2>4. PICK row \in ClassRow : classes' = [classes EXCEPT ![c] = row]
    <3>1. CASE ring = StoredRing(c) \/ ActiveRingConflict(c, CheckedRing(c, ring))
      BY <1>1, <3>1, <2>3 DEF ClassRingUpdate
    <3>2. CASE ~(ring = StoredRing(c) \/ ActiveRingConflict(c, CheckedRing(c, ring)))
      BY <1>1, <3>2, <2>3 DEF ClassRingUpdate
    <3> QED BY <3>1, <3>2
  <2>5. classes' \in [Classes -> ClassRow \cup {NoClass}]
    BY <1>0, <2>4
  <2> QED BY <1>0, <1>1, <2>5 DEF ClassRingUpdate, LiveShowTypeOK
<1>2. ASSUME NEW c \in Present, NEW status \in ClassStatuses, ClassStatusUpdate(c, status) PROVE LiveShowTypeOK'
  <2>1. [classes[c] EXCEPT !.live = [StoredLive(c) EXCEPT !.status = status]] \in ClassRow
    BY PresentRow, StoredLiveRow, RowUpdates
  <2>2. classes' \in [Classes -> ClassRow \cup {NoClass}]
    BY <1>0, <1>2, <2>1 DEF ClassStatusUpdate
  <2>3. showStatus' \in ShowStatuses
    BY <1>0, <1>2 DEF ClassStatusUpdate, ShowStatusAfter, ShowStatuses
  <2>4. publication' \in PublicationRow \cup {NoPublication}
    <3>1. c \in Classes
      BY PresentRow
    <3>2. CASE publication = NoPublication
      BY <1>2, <3>2 DEF ClassStatusUpdate, PublicationAfter, NoPublication
    <3>3. CASE publication \in PublicationRow
      <4>1. \A k \in Classes \cup {NoCurrent} : [publication EXCEPT !.current = k] \in PublicationRow
        BY <3>3 DEF PublicationRow
      <4> QED BY <1>2, <3>1, <3>3, <4>1 DEF ClassStatusUpdate, PublicationAfter
    <3> QED BY <1>0, <3>2, <3>3
  <2> QED BY <1>0, <1>2, <2>2, <2>3, <2>4 DEF ClassStatusUpdate, LiveShowTypeOK
<1>3. ASSUME NEW c \in Present, NEW publish \in BOOLEAN, ClassResultsPublicationUpdate(c, publish) PROVE LiveShowTypeOK'
  <2>1. /\ [classes[c] EXCEPT !.live = StoredLive(c)] \in ClassRow
        /\ [classes[c] EXCEPT !.live = [StoredLive(c) EXCEPT !.resultsPublished = publish]] \in ClassRow
    BY PresentRow, StoredLiveRow, RowUpdates
  <2>2. classes' \in [Classes -> ClassRow \cup {NoClass}]
    BY <1>0, <1>3, <2>1 DEF ClassResultsPublicationUpdate
  <2>3. publication' \in PublicationRow \cup {NoPublication}
    <3>1. CASE publish /\ MayPublishResults(c)
      <4>1. publication \in PublicationRow
        BY <1>0, <3>1 DEF MayPublishResults, NoPublication
      <4>2. [publication EXCEPT !.settings.publishResults = TRUE] \in PublicationRow
        BY <4>1 DEF PublicationRow, Settings
      <4> QED BY <1>3, <3>1, <4>2 DEF ClassResultsPublicationUpdate
    <3>2. CASE ~(publish /\ MayPublishResults(c))
      BY <1>0, <1>3, <3>2 DEF ClassResultsPublicationUpdate
    <3> QED BY <3>1, <3>2
  <2> QED BY <1>0, <1>3, <2>2, <2>3 DEF ClassResultsPublicationUpdate, LiveShowTypeOK
<1>4. ASSUME NEW status \in FormStatuses, ShowEdit(status) PROVE LiveShowTypeOK'
  BY <1>0, <1>4, LiveShowAssumption DEF ShowEdit, LiveShowTypeOK
<1>5. ASSUME NEW c \in Classes, ShowClassCreate(c) PROVE LiveShowTypeOK'
  <2>1. [exists |-> TRUE, live |-> NoRow, ring |-> NoRing, placed |-> FALSE] \in ClassRow
    BY DEF ClassRow
  <2> QED BY <1>0, <1>5, <2>1 DEF ShowClassCreate, LiveShowTypeOK
<1>6. ASSUME NEW c \in Present, ShowClassDelete(c) PROVE LiveShowTypeOK'
  <2>1. publication' \in PublicationRow \cup {NoPublication}
    <3>1. CASE publication \in PublicationRow
      <4>1. [publication EXCEPT !.current = NoCurrent] \in PublicationRow
        BY <3>1 DEF PublicationRow
      <4> QED BY <1>6, <3>1, <4>1 DEF ShowClassDelete
    <3>2. CASE publication = NoPublication
      BY <1>6, <3>2 DEF ShowClassDelete, NoPublication
    <3> QED BY <1>0, <3>1, <3>2
  <2> QED BY <1>0, <1>6, <2>1 DEF ShowClassDelete, LiveShowTypeOK
<1>7. ASSUME NEW c \in Present, NEW placed \in BOOLEAN, ShowResultEdit(c, placed) PROVE LiveShowTypeOK'
  <2>1. [classes[c] EXCEPT !.placed = placed] \in ClassRow
    BY PresentRow, RowUpdates
  <2> QED BY <1>0, <1>7, <2>1 DEF ShowResultEdit, LiveShowTypeOK
<1>8. ASSUME NEW settings \in FormSettings, NEW current \in Present \cup {NoCurrent}, PublicationEdit(settings, current)
      PROVE  LiveShowTypeOK'
  <2>1. [exists |-> TRUE, settings |-> settings, current |-> current] \in PublicationRow
    BY LiveShowAssumption DEF PublicationRow, Present
  <2> QED BY <1>0, <1>8, <2>1 DEF PublicationEdit, LiveShowTypeOK
<1>9. ASSUME NEW closed \in BOOLEAN, SeasonClosing(closed) PROVE LiveShowTypeOK'
  BY <1>0, <1>9 DEF SeasonClosing, LiveShowTypeOK
<1>10. CASE UNCHANGED liveShowVars
  BY <1>0, <1>10 DEF liveShowVars, LiveShowTypeOK
<1> QED BY <1>1, <1>2, <1>3, <1>4, <1>5, <1>6, <1>7, <1>8, <1>9, <1>10 DEF LiveShowNext

\* The tables keep their shape.
THEOREM TypeCorrect == LiveShowSpec => []LiveShowTypeOK
<1>1. LiveShowInit => LiveShowTypeOK
  BY DEF LiveShowInit, LiveShowTypeOK, ShowStatuses
<1>2. LiveShowTypeOK /\ [LiveShowNext]_liveShowVars => LiveShowTypeOK'
  BY LiveTypeStep
<1> QED BY <1>1, <1>2, PTL DEF LiveShowSpec

-----------------------------------------------------------------------------
\* The publication's pointer is a class of the show, shown or not.
PointerHolds == publication.exists => publication.current \in Present \cup {NoCurrent}

\* Every request on the running show keeps the pointer on a class.
LEMMA PointerStep ==
  ASSUME LiveShowTypeOK, PointerHolds, [LiveShowNext]_liveShowVars
  PROVE  PointerHolds'
<1>0. classes \in [Classes -> ClassRow \cup {NoClass}] /\ publication \in PublicationRow \cup {NoPublication}
  BY DEF LiveShowTypeOK
<1>1. ASSUME NEW c \in Present, NEW ring \in RingNames \cup {""}, ClassRingUpdate(c, ring) PROVE PointerHolds'
  <2>1. Present' = Present
    BY <1>1, RingStep, RowReplaced
  <2> QED BY <1>1, <2>1 DEF ClassRingUpdate, PointerHolds
<1>2. ASSUME NEW c \in Present, NEW status \in ClassStatuses, ClassStatusUpdate(c, status) PROVE PointerHolds'
  <2>1. Present' = Present
    BY <1>2, StatusStep, RowReplaced
  <2>2. publication'.exists => publication'.current \in {publication.current, c, NoCurrent} /\ publication.exists
    <3>1. CASE publication = NoPublication
      BY <1>2, <3>1 DEF ClassStatusUpdate, PublicationAfter, NoPublication
    <3>2. CASE publication \in PublicationRow
      BY <1>2, <3>2 DEF ClassStatusUpdate, PublicationAfter, PublicationRow
    <3> QED BY <1>0, <3>1, <3>2
  <2> QED BY <2>1, <2>2 DEF PointerHolds
<1>3. ASSUME NEW c \in Present, NEW publish \in BOOLEAN, ClassResultsPublicationUpdate(c, publish) PROVE PointerHolds'
  <2>1. Present' = Present
    BY <1>3, PublishStep, RowReplaced
  <2>2. publication'.exists => publication'.current = publication.current /\ publication.exists
    <3>1. CASE publication = NoPublication
      BY <1>3, <3>1 DEF ClassResultsPublicationUpdate, MayPublishResults, NoPublication
    <3>2. CASE publication \in PublicationRow
      BY <1>3, <3>2 DEF ClassResultsPublicationUpdate, PublicationRow
    <3> QED BY <1>0, <3>1, <3>2
  <2> QED BY <2>1, <2>2 DEF PointerHolds
<1>4. ASSUME NEW status \in FormStatuses, ShowEdit(status) PROVE PointerHolds'
  BY <1>4 DEF ShowEdit, PointerHolds, Present
<1>5. ASSUME NEW c \in Classes, ShowClassCreate(c) PROVE PointerHolds'
  <2>1. Present \subseteq Present'
    BY <1>0, <1>5 DEF ShowClassCreate, Present
  <2> QED BY <1>5, <2>1 DEF ShowClassCreate, PointerHolds
<1>6. ASSUME NEW c \in Present, ShowClassDelete(c) PROVE PointerHolds'
  <2>1. Present' = Present \ {c}
    BY <1>0, <1>6, PresentRow DEF ShowClassDelete, Present, NoClass
  <2>2. publication'.exists => publication.exists /\ publication'.current \in {publication.current, NoCurrent} \ {c}
    <3>1. CASE publication = NoPublication
      BY <1>6, <3>1 DEF ShowClassDelete, NoPublication
    <3>2. CASE publication \in PublicationRow
      BY <1>6, <3>2, PresentRow, LiveShowAssumption DEF ShowClassDelete, PublicationRow, NoCurrent
    <3> QED BY <1>0, <3>1, <3>2
  <2> QED BY <2>1, <2>2 DEF PointerHolds
<1>7. ASSUME NEW c \in Present, NEW placed \in BOOLEAN, ShowResultEdit(c, placed) PROVE PointerHolds'
  <2>1. Present' = Present
    BY <1>0, <1>7, PresentRow DEF ShowResultEdit, Present
  <2> QED BY <1>7, <2>1 DEF ShowResultEdit, PointerHolds
<1>8. ASSUME NEW settings \in FormSettings, NEW current \in Present \cup {NoCurrent}, PublicationEdit(settings, current)
      PROVE  PointerHolds'
  BY <1>8 DEF PublicationEdit, PointerHolds, Present
<1>9. ASSUME NEW closed \in BOOLEAN, SeasonClosing(closed) PROVE PointerHolds'
  BY <1>9 DEF SeasonClosing, PointerHolds, Present
<1>10. CASE UNCHANGED liveShowVars
  BY <1>10 DEF liveShowVars, PointerHolds, Present
<1> QED BY <1>1, <1>2, <1>3, <1>4, <1>5, <1>6, <1>7, <1>8, <1>9, <1>10 DEF LiveShowNext

\* Deleting classes, starting them and editing the publication never leaves the page pointing at a
\* class that is gone (publication.py, show_class_live.py).
THEOREM CurrentStaysAClass == LiveShowSpec => []CurrentClassExists
<1>1. LiveShowInit => PointerHolds
  BY DEF LiveShowInit, PointerHolds, NoPublication
<1>2. LiveShowTypeOK /\ PointerHolds /\ [LiveShowNext]_liveShowVars => PointerHolds'
  BY PointerStep
<1>3. PointerHolds => CurrentClassExists
  BY DEF PointerHolds, CurrentClassExists, PublicCurrentClass, LiveShown, Published
<1> QED BY <1>1, <1>2, <1>3, TypeCorrect, PTL DEF LiveShowSpec

-----------------------------------------------------------------------------
\* Nothing starts and nothing is revealed where the row stays as it is.
LEMMA QuietRow ==
  ASSUME NEW c \in Classes, classes'[c] = classes[c]
  PROVE  ~Starts(c) /\ ~Revealed(c)
  <1>1. ~Starts(c)
    BY DEF Starts, Status
  <1>2. ~Revealed(c)
    BY DEF Revealed, PublicResults, Published, Present, HasRow
  <1> QED BY <1>1, <1>2

\* A class that comes or goes in a step neither starts nor is revealed in it.
LEMMA ComingAndGoing ==
  ASSUME NEW c \in Classes, ~classes[c].exists \/ ~classes'[c].exists
  PROVE  ~Starts(c) /\ ~Revealed(c)
  BY DEF Starts, Revealed, PublicResults, Present

\* Only a status update starts a class, and only the class it is about.
LEMMA WhoStarts ==
  ASSUME LiveShowTypeOK, [LiveShowNext]_liveShowVars, NEW c \in Classes, Starts(c)
  PROVE  c \in Present /\ ClassStatusUpdate(c, "in_progress")
  <1>0. classes \in [Classes -> ClassRow \cup {NoClass}] /\ c \in Present
    BY DEF LiveShowTypeOK, Present, Starts
  <1>1. classes'[c] # classes[c] /\ classes'[c].exists
    BY QuietRow, ComingAndGoing
  <1>2. ASSUME NEW d \in Present, NEW ring \in RingNames \cup {""}, ClassRingUpdate(d, ring) PROVE FALSE
    <2>1. PICK row \in ClassRow : classes' = [classes EXCEPT ![d] = row] /\ row.live = classes[d].live
      BY <1>2, RingStep
    <2>2. d = c /\ classes'[c].live = classes[c].live
      BY <1>1, <2>1, RowReplaced
    <2> QED BY <2>2 DEF Starts, Status
  <1>3. ASSUME NEW d \in Present, NEW status \in ClassStatuses, ClassStatusUpdate(d, status)
        PROVE  ClassStatusUpdate(c, "in_progress")
    <2>1. PICK row \in ClassRow : /\ classes' = [classes EXCEPT ![d] = row]
                                  /\ row.live = [StoredLive(d) EXCEPT !.status = status]
      BY <1>3, StatusStep
    <2>2. d = c /\ classes'[c].live = [StoredLive(c) EXCEPT !.status = status]
      BY <1>1, <2>1, RowReplaced
    <2>3. classes'[c].live.status = status
      BY <2>2, <1>0, StoredLiveRow
    <2> QED BY <1>3, <2>2, <2>3 DEF Starts, Status
  <1>4. ASSUME NEW d \in Present, NEW publish \in BOOLEAN, ClassResultsPublicationUpdate(d, publish) PROVE FALSE
    <2>1. PICK row \in ClassRow : /\ classes' = [classes EXCEPT ![d] = row]
                                  /\ row.live = StoredLive(d) \/ row.live = [StoredLive(d) EXCEPT !.resultsPublished = publish]
      BY <1>4, PublishStep
    <2>2. d = c /\ (classes'[c].live = StoredLive(c) \/ classes'[c].live = [StoredLive(c) EXCEPT !.resultsPublished = publish])
      BY <1>1, <2>1, RowReplaced
    <2>3. classes'[c].live.status = StoredLive(c).status
      BY <2>2, <1>0, StoredLiveRow
    <2>4. StoredLive(c).status \in {classes[c].live.status, "not_started"}
      BY DEF StoredLive
    <2> QED BY <2>3, <2>4 DEF Starts, Status
  <1>5. ASSUME NEW d \in Classes, ShowClassCreate(d) PROVE FALSE
    <2>1. d # c /\ classes' = [classes EXCEPT ![d] = [exists |-> TRUE, live |-> NoRow, ring |-> NoRing, placed |-> FALSE]]
      BY <1>0, <1>5 DEF ShowClassCreate
    <2> QED BY <1>0, <1>1, <2>1
  <1>6. ASSUME NEW d \in Present, ShowClassDelete(d) PROVE FALSE
    <2>1. classes' = [classes EXCEPT ![d] = NoClass]
      BY <1>6 DEF ShowClassDelete
    <2>2. d = c /\ classes'[c] = NoClass
      BY <1>0, <1>1, <2>1
    <2> QED BY <1>1, <2>2 DEF NoClass
  <1>7. ASSUME NEW d \in Present, NEW placed \in BOOLEAN, ShowResultEdit(d, placed) PROVE FALSE
    <2>1. classes' = [classes EXCEPT ![d] = [classes[d] EXCEPT !.placed = placed]]
      BY <1>7 DEF ShowResultEdit
    <2>2. d = c /\ classes'[c] = [classes[c] EXCEPT !.placed = placed]
      BY <1>0, <1>1, <2>1
    <2>3. classes'[c].live = classes[c].live
      BY <1>0, <2>2, PresentRow DEF ClassRow
    <2> QED BY <2>3 DEF Starts, Status
  <1>8. ASSUME \/ \E status \in FormStatuses : ShowEdit(status)
               \/ \E settings \in FormSettings, current \in Present \cup {NoCurrent} : PublicationEdit(settings, current)
               \/ \E closed \in BOOLEAN : SeasonClosing(closed)
               \/ UNCHANGED liveShowVars
        PROVE  FALSE
    BY <1>1, <1>8 DEF ShowEdit, PublicationEdit, SeasonClosing, liveShowVars
  <1> QED BY <1>0, <1>2, <1>3, <1>4, <1>5, <1>6, <1>7, <1>8 DEF LiveShowNext

\* A class that starts finds its ring free.
LEMMA StartStep ==
  ASSUME LiveShowTypeOK, [LiveShowNext]_liveShowVars, NEW c \in Classes, Starts(c),
         NEW d \in Present \ {c}, Status(d)' \in ActiveStatuses, RingOf(d)' = RingOf(c)'
  PROVE  FALSE
<1>1. c \in Present /\ ClassStatusUpdate(c, "in_progress")
  BY WhoStarts
<1>2. "in_progress" \in ClassStatuses
  BY DEF ClassStatuses
<1>3. PICK row \in ClassRow : classes' = [classes EXCEPT ![c] = row] /\ row.ring = classes[c].ring
  BY <1>1, <1>2, StatusStep
<1>4. classes'[c] = row /\ classes'[d] = classes[d]
  BY <1>1, <1>3, RowReplaced DEF Present
<1>5. Status(d) \in ActiveStatuses /\ RingOf(d) = RingOf(c)
  BY <1>3, <1>4 DEF Status, RingOf
<1> QED BY <1>1, <1>5 DEF ClassStatusUpdate, ActiveRingConflict

\* A class goes to "in progress" only in a ring where no other class is running or paused
\* (show_class_live_status_update), although rings change under classes that run.
THEOREM StartsAreFree == LiveShowSpec => ClassesStartInFreeRings
<1>1. LiveShowTypeOK /\ [LiveShowNext]_liveShowVars
        => [\A c \in Classes : Starts(c) => ~ \E d \in Present \ {c} : Status(d)' \in ActiveStatuses /\ RingOf(d)' = RingOf(c)'
           ]_liveShowVars
  BY StartStep
<1> QED BY <1>1, TypeCorrect, PTL DEF LiveShowSpec, ClassesStartInFreeRings

-----------------------------------------------------------------------------
\* A class with a live state and a place that is revealed had its results unpublished before, and
\* has no live state or published results after.
LEMMA WhatRevealed ==
  ASSUME LiveShowTypeOK, NEW c \in Classes, Revealed(c), classes[c].placed
  PROVE  /\ c \in Present /\ HasRow(c) /\ ~classes[c].live.resultsPublished
         /\ classes[c] \in ClassRow /\ StoredLive(c) = classes[c].live
         /\ classes'[c].live = NoRow \/ classes'[c].live.resultsPublished
  BY PresentRow DEF Revealed, PublicResults, Published, Present, HasRow, StoredLive

\* A class with a place that a request reveals is released by it.
LEMMA RevealStep ==
  ASSUME LiveShowTypeOK, [LiveShowNext]_liveShowVars, NEW c \in Classes, Revealed(c), classes[c].placed
  PROVE  ReleasedNow(c)
<1>0. /\ c \in Present /\ HasRow(c) /\ ~classes[c].live.resultsPublished
      /\ classes[c] \in ClassRow /\ StoredLive(c) = classes[c].live
      /\ classes'[c].live = NoRow \/ classes'[c].live.resultsPublished
  BY WhatRevealed
<1>1. classes'[c] # classes[c] /\ classes'[c].exists
  BY QuietRow, ComingAndGoing
<1>2. classes'[c].live # classes[c].live
  BY <1>0 DEF HasRow
<1>3. ASSUME NEW d \in Present, NEW ring \in RingNames \cup {""}, ClassRingUpdate(d, ring) PROVE FALSE
  <2>1. PICK row \in ClassRow : classes' = [classes EXCEPT ![d] = row] /\ row.live = classes[d].live
    BY <1>3, RingStep
  <2> QED BY <1>1, <1>2, <2>1, RowReplaced
<1>4. ASSUME NEW d \in Present, NEW status \in ClassStatuses, ClassStatusUpdate(d, status) PROVE FALSE
  <2>1. PICK row \in ClassRow : /\ classes' = [classes EXCEPT ![d] = row]
                                /\ row.live = [StoredLive(d) EXCEPT !.status = status]
    BY <1>4, StatusStep
  <2>2. d = c /\ classes'[c].live = [classes[c].live EXCEPT !.status = status]
    BY <1>0, <1>1, <2>1, RowReplaced
  <2>3. classes[c].live \in [status : ClassStatuses, resultsPublished : BOOLEAN]
    BY <1>0, StoredLiveRow
  <2>4. ~classes'[c].live.resultsPublished /\ classes'[c].live.status \in ClassStatuses
    BY <1>0, <2>2, <2>3
  <2> QED BY <1>0, <2>4 DEF NoRow, ClassStatuses
<1>5. ASSUME NEW d \in Present, NEW publish \in BOOLEAN, ClassResultsPublicationUpdate(d, publish)
      PROVE  ReleasedNow(c)
  <2>1. PICK row \in ClassRow :
          /\ classes' = [classes EXCEPT ![d] = row]
          /\ row.live = StoredLive(d) \/ row.live = [StoredLive(d) EXCEPT !.resultsPublished = publish]
          /\ row.live # StoredLive(d) => ~publish \/ MayPublishResults(d)
    BY <1>5, PublishStep
  <2>2. /\ d = c /\ classes'[c].live = [classes[c].live EXCEPT !.resultsPublished = publish]
        /\ ~publish \/ MayPublishResults(c)
    BY <1>0, <1>1, <1>2, <2>1, RowReplaced
  <2>3. classes[c].live \in [status : ClassStatuses, resultsPublished : BOOLEAN]
    BY <1>0, StoredLiveRow
  <2>4. classes'[c].live.resultsPublished = publish /\ classes'[c].live.status \in ClassStatuses
    BY <2>2, <2>3
  <2>5. publish
    BY <1>0, <2>4 DEF NoRow, ClassStatuses
  <2> QED BY <1>0, <2>2, <2>4, <2>5 DEF ReleasedNow, MayPublishResults
<1>6. ASSUME NEW d \in Classes, ShowClassCreate(d) PROVE FALSE
  <2>1. d # c /\ classes' = [classes EXCEPT ![d] = [exists |-> TRUE, live |-> NoRow, ring |-> NoRing, placed |-> FALSE]]
    BY <1>0, <1>6 DEF ShowClassCreate
  <2> QED BY <1>1, <2>1 DEF LiveShowTypeOK
<1>7. ASSUME NEW d \in Present, ShowClassDelete(d) PROVE FALSE
  <2>1. classes' = [classes EXCEPT ![d] = NoClass]
    BY <1>7 DEF ShowClassDelete
  <2>2. d = c /\ classes'[c] = NoClass
    BY <1>1, <2>1 DEF LiveShowTypeOK
  <2> QED BY <1>1, <2>2 DEF NoClass
<1>8. ASSUME NEW d \in Present, NEW placed \in BOOLEAN, ShowResultEdit(d, placed) PROVE FALSE
  <2>1. classes' = [classes EXCEPT ![d] = [classes[d] EXCEPT !.placed = placed]]
    BY <1>8 DEF ShowResultEdit
  <2>2. d = c /\ classes'[c] = [classes[c] EXCEPT !.placed = placed]
    BY <1>1, <2>1 DEF LiveShowTypeOK
  <2>3. classes'[c].live = classes[c].live
    BY <1>0, <2>2 DEF ClassRow
  <2> QED BY <1>2, <2>3
<1>9. ASSUME \/ \E status \in FormStatuses : ShowEdit(status)
             \/ \E settings \in FormSettings, current \in Present \cup {NoCurrent} : PublicationEdit(settings, current)
             \/ \E closed \in BOOLEAN : SeasonClosing(closed)
             \/ UNCHANGED liveShowVars
      PROVE  FALSE
  BY <1>1, <1>9 DEF ShowEdit, PublicationEdit, SeasonClosing, liveShowVars
<1> QED BY <1>3, <1>4, <1>5, <1>6, <1>7, <1>8, <1>9 DEF LiveShowNext

\* Running the show never publishes placings: while the publication stays as it is, a class appears
\* on the results page only by its own publication, once complete, or by a saved placing
\* (show_class_results_publication_update, publication.py).
THEOREM NothingRevealedByRunning == LiveShowSpec => RunningNeverReveals
<1>1. LiveShowTypeOK /\ [LiveShowNext]_liveShowVars
        => [\A c \in Classes : Revealed(c) => ~classes[c].placed \/ ReleasedNow(c)]_liveShowVars
  BY RevealStep
<1> QED BY <1>1, TypeCorrect, PTL DEF LiveShowSpec, RunningNeverReveals

-----------------------------------------------------------------------------
\* No request changes the classes of a season that stays archived.
LEMMA ArchiveStep ==
  ASSUME [LiveShowNext]_liveShowVars, seasonClosed, seasonClosed'
  PROVE  UNCHANGED classes
BY DEF LiveShowNext, ClassRingUpdate, ClassStatusUpdate, ClassResultsPublicationUpdate, ShowEdit, ShowClassCreate,
       ShowClassDelete, ShowResultEdit, PublicationEdit, SeasonClosing, liveShowVars

\* The classes of an archived season stay as they are, whatever is posted (_ensure_season_open).
THEOREM ArchiveIsFrozen == LiveShowSpec => ArchivedClassesAreFrozen
<1>1. [LiveShowNext]_liveShowVars => [seasonClosed /\ seasonClosed' => UNCHANGED classes]_liveShowVars
  BY ArchiveStep
<1> QED BY <1>1, PTL DEF LiveShowSpec, ArchivedClassesAreFrozen

\* No request changes both the classes and the status of a finished show.
LEMMA FinishStep ==
  ASSUME [LiveShowNext]_liveShowVars, showStatus \in {"complete", "cancelled"}, classes' # classes
  PROVE  showStatus' = showStatus
<1>1. ASSUME NEW c \in Present, NEW status \in ClassStatuses, ClassStatusUpdate(c, status)
      PROVE  showStatus' = showStatus
  BY <1>1 DEF ClassStatusUpdate, ShowStatusAfter
<1> QED BY <1>1 DEF LiveShowNext, ClassRingUpdate, ClassResultsPublicationUpdate, ShowEdit, ShowClassCreate,
           ShowClassDelete, ShowResultEdit, PublicationEdit, SeasonClosing, liveShowVars

\* No class that starts takes a complete or cancelled show back into progress
\* (show_class_live_status_update).
THEOREM FinishedStaysFinished == LiveShowSpec => FinishedShowStaysFinished
<1>1. [LiveShowNext]_liveShowVars
        => [(showStatus \in {"complete", "cancelled"} /\ classes' # classes) => showStatus' = showStatus]_liveShowVars
  BY FinishStep
<1> QED BY <1>1, PTL DEF LiveShowSpec, FinishedShowStaysFinished
(*----------------------------- hosting a show ----------------------------*)
CheckpointRows == (1..MaxCheckpoints) \X Checkpoint
DutyRows == (1..MaxCheckpoints) \X Duty
\* Checkpoints of a plan are stamped while complete.
Stamped(plan) == \A c \in plan.checkpoints : c[2].stamped <=> c[2].status = "complete"
HostInv == HostShowTypeOK /\ CheckpointsAreStamped

\* The plan a request edits is a plan, stamped as the stored one.
LEMMA PlanIsSound ==
  ASSUME HostInv
  PROVE  Plan \in HostPlan /\ Stamped(Plan)
<1>1. EmptyPlan \in HostPlan /\ EmptyPlan.checkpoints = {}
  BY DEF EmptyPlan, HostPlan, FamilyPage
<1>2. CASE hostPlan = NoPlan
  BY <1>1, <1>2 DEF Plan, NoPlan, Stamped
<1>3. CASE hostPlan \in HostPlan
  <2>1. hostPlan.exists
    BY <1>3 DEF HostPlan
  <2> QED BY <1>3, <2>1 DEF Plan, HostInv, CheckpointsAreStamped, Stamped
<1> QED BY <1>2, <1>3 DEF HostInv, HostShowTypeOK

\* A stored plan is the plan.
LEMMA StoredPlan ==
  ASSUME HostInv, hostPlan.exists
  PROVE  hostPlan = Plan
BY DEF Plan

\* The parts of a plan, each replaced alone, leave a plan; only checkpoints bear on the stamps.
LEMMA PlanUpdates ==
  ASSUME NEW plan \in HostPlan
  PROVE  /\ \A staff \in SUBSET StaffRoles :
              [plan EXCEPT !.staff = staff] \in HostPlan /\ [plan EXCEPT !.staff = staff].checkpoints = plan.checkpoints
         /\ \A rows \in SUBSET CheckpointRows :
              [plan EXCEPT !.checkpoints = rows] \in HostPlan /\ [plan EXCEPT !.checkpoints = rows].checkpoints = rows
         /\ \A rows \in SUBSET DutyRows :
              [plan EXCEPT !.duties = rows] \in HostPlan /\ [plan EXCEPT !.duties = rows].checkpoints = plan.checkpoints
         /\ \A page \in FamilyPage :
              [plan EXCEPT !.family = page] \in HostPlan /\ [plan EXCEPT !.family = page].checkpoints = plan.checkpoints
         /\ plan.staff \subseteq StaffRoles /\ plan.checkpoints \subseteq CheckpointRows /\ plan.duties \subseteq DutyRows
BY DEF HostPlan, CheckpointRows, DutyRows

\* Saving a stamped plan keeps the plan stamped.
LEMMA PlanSaved ==
  ASSUME HostInv, NEW u \in Hosts, NEW new \in HostPlan, Stamped(new), EditPlan(u, new)
  PROVE  HostInv'
<1>1. hostPlan' \in HostPlan /\ Stamped(hostPlan')
  BY DEF EditPlan
<1>2. HostShowTypeOK'
  BY <1>1 DEF EditPlan, HostInv, HostShowTypeOK
<1>3. CheckpointsAreStamped'
  BY <1>1 DEF Stamped, CheckpointsAreStamped
<1> QED BY <1>2, <1>3 DEF HostInv

\* One checkpoint added, or put in the place of another, is stamped as its status says.
LEMMA CheckpointSaved ==
  ASSUME HostInv, NEW old \in SUBSET Plan.checkpoints, NEW k \in 1..MaxCheckpoints, NEW status \in CheckpointStatuses,
         NEW stamped \in BOOLEAN, stamped <=> status = "complete"
  PROVE  LET new == [Plan EXCEPT !.checkpoints = (Plan.checkpoints \ old) \cup {<<k, [status |-> status, stamped |-> stamped]>>}]
         IN new \in HostPlan /\ Stamped(new)
<1> DEFINE row == <<k, [status |-> status, stamped |-> stamped]>>
           rows == (Plan.checkpoints \ old) \cup {row}
<1>1. Plan \in HostPlan /\ Stamped(Plan)
  BY PlanIsSound
<1>2. [status |-> status, stamped |-> stamped] \in Checkpoint
  BY DEF Checkpoint
<1>3. row \in CheckpointRows /\ row[2].status = status /\ row[2].stamped = stamped
  BY <1>2 DEF CheckpointRows
<1> HIDE DEF row
<1>4. rows \subseteq CheckpointRows
  BY <1>1, <1>3, PlanUpdates
<1>5. \A c \in rows : c[2].stamped <=> c[2].status = "complete"
  BY <1>1, <1>3 DEF Stamped
<1> HIDE DEF rows
<1>6. [Plan EXCEPT !.checkpoints = rows] \in HostPlan /\ [Plan EXCEPT !.checkpoints = rows].checkpoints = rows
  BY <1>1, <1>4, PlanUpdates
<1>7. Stamped([Plan EXCEPT !.checkpoints = rows])
  BY <1>5, <1>6 DEF Stamped
<1> QED BY <1>6, <1>7 DEF rows, row

\* One duty added, or put in the place of another.
LEMMA DutySaved ==
  ASSUME HostInv, NEW old \in SUBSET Plan.duties, NEW k \in 1..MaxCheckpoints, NEW status \in DutyStatuses,
         NEW relieved \in Hosts \cup {"nobody"}
  PROVE  LET new == [Plan EXCEPT !.duties = (Plan.duties \ old) \cup {<<k, [status |-> status, relieved |-> relieved]>>}]
         IN new \in HostPlan /\ Stamped(new)
<1> DEFINE rows == (Plan.duties \ old) \cup {<<k, [status |-> status, relieved |-> relieved]>>}
<1>1. Plan \in HostPlan /\ Stamped(Plan)
  BY PlanIsSound
<1>2. [status |-> status, relieved |-> relieved] \in Duty
  BY DEF Duty
<1>3. rows \subseteq DutyRows
  BY <1>1, <1>2, PlanUpdates DEF DutyRows
<1> HIDE DEF rows
<1>4. [Plan EXCEPT !.duties = rows] \in HostPlan /\ [Plan EXCEPT !.duties = rows].checkpoints = Plan.checkpoints
  BY <1>1, <1>3, PlanUpdates
<1>5. Stamped([Plan EXCEPT !.duties = rows])
  BY <1>1, <1>4 DEF Stamped
<1> QED BY <1>4, <1>5 DEF rows

\* Every request on the host plan, its managers and its closing keeps the plan stamped.
LEMMA HostStepInv ==
  ASSUME HostInv, LiveShowTypeOK, [HostShowNext]_<<liveShowVars, hostVars>>
  PROVE  HostInv'
<1>0. Plan \in HostPlan /\ Stamped(Plan)
  BY PlanIsSound
<1>1. ASSUME NEW u \in Hosts, HostPlanOpen(u) PROVE HostInv'
  BY <1>0, <1>1, PlanSaved DEF HostPlanOpen
<1>2. ASSUME NEW u \in Hosts, NEW role \in StaffRoles, HostStaffAdd(u, role) \/ HostStaffRemove(u, role) PROVE HostInv'
  <2>1. PICK staff \in SUBSET StaffRoles : EditPlan(u, [Plan EXCEPT !.staff = staff])
    <3>1. CASE HostStaffAdd(u, role)
      <4>1. Plan.staff \cup {role} \in SUBSET StaffRoles
        BY <1>0, PlanUpdates
      <4> QED BY <3>1, <4>1 DEF HostStaffAdd
    <3>2. CASE HostStaffRemove(u, role)
      <4>1. Plan.staff \ {role} \in SUBSET StaffRoles
        BY <1>0, PlanUpdates
      <4> QED BY <3>2, <4>1, StoredPlan DEF HostStaffRemove
    <3> QED BY <1>2, <3>1, <3>2
  <2>2. [Plan EXCEPT !.staff = staff] \in HostPlan /\ Stamped([Plan EXCEPT !.staff = staff])
    BY <1>0, PlanUpdates DEF Stamped
  <2> QED BY <2>1, <2>2, PlanSaved
<1>3. ASSUME NEW u \in Hosts, NEW k \in 1..MaxCheckpoints, NEW status \in CheckpointStatuses, HostCheckpointAdd(u, k, status)
      PROVE  HostInv'
  <2>1. IsComplete(status) \in BOOLEAN /\ (IsComplete(status) <=> status = "complete")
    BY DEF IsComplete
  <2>2. EditPlan(u, [Plan EXCEPT !.checkpoints = (Plan.checkpoints \ {}) \cup {<<k, [status |-> status, stamped |-> IsComplete(status)]>>}])
    BY <1>3 DEF HostCheckpointAdd
  <2> QED BY <2>1, <2>2, CheckpointSaved, PlanSaved
<1>4. ASSUME NEW u \in Hosts, hostPlan.exists, NEW c \in hostPlan.checkpoints, NEW status \in CheckpointStatuses,
             HostCheckpointEdit(u, c, status)
      PROVE  HostInv'
  <2>1. IsComplete(status) \in BOOLEAN /\ (IsComplete(status) <=> status = "complete")
    BY DEF IsComplete
  <2>2. c[1] \in 1..MaxCheckpoints /\ {c} \in SUBSET Plan.checkpoints
    BY <1>0, <1>4, StoredPlan, PlanUpdates DEF CheckpointRows
  <2>3. EditPlan(u, [Plan EXCEPT !.checkpoints = (Plan.checkpoints \ {c}) \cup {<<c[1], [status |-> status, stamped |-> IsComplete(status)]>>}])
    BY <1>4, StoredPlan DEF HostCheckpointEdit
  <2> QED BY <2>1, <2>2, <2>3, CheckpointSaved, PlanSaved
<1>5. ASSUME NEW u \in Hosts, hostPlan.exists, NEW c \in hostPlan.checkpoints, HostCheckpointComplete(u, c)
      PROVE  HostInv'
  <2>1. "complete" \in CheckpointStatuses /\ TRUE \in BOOLEAN /\ (TRUE <=> "complete" = "complete")
    BY DEF CheckpointStatuses
  <2>2. c[1] \in 1..MaxCheckpoints /\ {c} \in SUBSET Plan.checkpoints
    BY <1>0, <1>5, StoredPlan, PlanUpdates DEF CheckpointRows
  <2>3. EditPlan(u, [Plan EXCEPT !.checkpoints = (Plan.checkpoints \ {c}) \cup {<<c[1], [status |-> "complete", stamped |-> TRUE]>>}])
    BY <1>5, StoredPlan DEF HostCheckpointComplete
  <2> QED BY <2>1, <2>2, <2>3, CheckpointSaved, PlanSaved
<1>6. ASSUME NEW u \in Hosts, NEW k \in 1..MaxCheckpoints, HostDutyAdd(u, k, "planned") PROVE HostInv'
  <2>1. "planned" \in DutyStatuses
    BY DEF DutyStatuses
  <2>2. EditPlan(u, [Plan EXCEPT !.duties = (Plan.duties \ {}) \cup {<<k, [status |-> "planned", relieved |-> "nobody"]>>}])
    BY <1>6 DEF HostDutyAdd
  <2> QED BY <2>1, <2>2, DutySaved, PlanSaved
<1>7. ASSUME NEW u \in Hosts, hostPlan.exists, NEW d \in hostPlan.duties, NEW status \in {"active", "handed_off"},
             HostDutyStatus(u, d, status)
      PROVE  HostInv'
  <2>1. status \in DutyStatuses
    BY DEF DutyStatuses
  <2>2. d \in DutyRows /\ {d} \in SUBSET Plan.duties
    BY <1>0, <1>7, StoredPlan, PlanUpdates
  <2>3. d[1] \in 1..MaxCheckpoints /\ (IF status = "handed_off" THEN u ELSE d[2].relieved) \in Hosts \cup {"nobody"}
    BY <2>2 DEF DutyRows, Duty
  <2>4. EditPlan(u, [Plan EXCEPT !.duties = (Plan.duties \ {d})
                      \cup {<<d[1], [status |-> status, relieved |-> IF status = "handed_off" THEN u ELSE d[2].relieved]>>}])
    BY <1>7, StoredPlan DEF HostDutyStatus
  <2> QED BY <2>1, <2>2, <2>3, <2>4, DutySaved, PlanSaved
<1>8. ASSUME NEW u \in Hosts, hostPlan.exists, NEW d \in hostPlan.duties, NEW r \in {u, "nobody"}, HostDutyEdit(u, d, "planned", r)
      PROVE  HostInv'
  <2>1. "planned" \in DutyStatuses
    BY DEF DutyStatuses
  <2>2. d \in DutyRows /\ {d} \in SUBSET Plan.duties
    BY <1>0, <1>8, StoredPlan, PlanUpdates
  <2>3. d[1] \in 1..MaxCheckpoints
    BY <2>2 DEF DutyRows
  <2>4. EditPlan(u, [Plan EXCEPT !.duties = (Plan.duties \ {d}) \cup {<<d[1], [status |-> "planned", relieved |-> r]>>}])
    BY <1>8, StoredPlan DEF HostDutyEdit
  <2> QED BY <2>1, <2>2, <2>3, <2>4, DutySaved, PlanSaved
<1>9. ASSUME NEW u \in Hosts, NEW p \in BOOLEAN, HostFamilyPublicationEdit(u, [published |-> p, sections |-> Sections])
      PROVE  HostInv'
  <2> DEFINE page == [published |-> p, sections |-> Sections]
  <2>1. page \in FamilyPage
    BY DEF FamilyPage
  <2>2. EditPlan(u, [Plan EXCEPT !.family = page])
    BY <1>9 DEF HostFamilyPublicationEdit
  <2> HIDE DEF page
  <2>3. [Plan EXCEPT !.family = page] \in HostPlan /\ Stamped([Plan EXCEPT !.family = page])
    BY <1>0, <2>1, PlanUpdates DEF Stamped
  <2> QED BY <2>2, <2>3, PlanSaved
<1>10. ASSUME NEW u \in Hosts, NEW m \in Hosts, ManagerAdd(u, m) \/ ManagerRemove(u, m) PROVE HostInv'
  BY <1>10 DEF ManagerAdd, ManagerRemove, HostInv, HostShowTypeOK, CheckpointsAreStamped
<1>11. ASSUME NEW u \in Hosts, HostShowMarkComplete(u) \/ HostShowReopen(u) PROVE HostInv'
  BY <1>11 DEF HostShowMarkComplete, HostShowReopen, SetStatus, HostInv, HostShowTypeOK, CheckpointsAreStamped
<1>12. ASSUME NEW u \in Hosts, NEW role \in BOOLEAN, NEW status \in FormStatuses, HostRoleEdit(u, role, status) PROVE HostInv'
  BY <1>12 DEF HostRoleEdit, HostInv, HostShowTypeOK, CheckpointsAreStamped
<1>13. CASE UNCHANGED hostVars
  BY <1>13 DEF hostVars, HostInv, HostShowTypeOK, CheckpointsAreStamped
<1>14. CASE UNCHANGED <<liveShowVars, hostVars>>
  BY <1>13, <1>14
<1> QED BY <1>1, <1>2, <1>3, <1>4, <1>5, <1>6, <1>7, <1>8, <1>9, <1>10, <1>11, <1>12, <1>13, <1>14 DEF HostShowNext

\* What hosting does to the classes: nothing; only the status of the show and of the season move.
LEMMA HostingKeepsClasses ==
  ASSUME [HostShowNext]_<<liveShowVars, hostVars>>, LiveShowTypeOK
  PROVE  UNCHANGED <<classes, publication>> /\ showStatus' \in ShowStatuses /\ seasonClosed' \in BOOLEAN
<1>1. showStatus \in ShowStatuses /\ seasonClosed \in BOOLEAN
  BY DEF LiveShowTypeOK
<1>2. CASE UNCHANGED liveShowVars
  BY <1>1, <1>2 DEF liveShowVars
<1>3. ASSUME NEW u \in Hosts, NEW new, EditPlan(u, new) PROVE UNCHANGED liveShowVars
  BY <1>3 DEF EditPlan
<1>4. ASSUME NEW u \in Hosts, NEW m \in Hosts, ManagerAdd(u, m) \/ ManagerRemove(u, m) PROVE UNCHANGED liveShowVars
  BY <1>4 DEF ManagerAdd, ManagerRemove
<1>5. ASSUME NEW u \in Hosts, HostShowMarkComplete(u) \/ HostShowReopen(u)
      PROVE  UNCHANGED <<classes, publication>> /\ showStatus' \in ShowStatuses /\ seasonClosed' \in BOOLEAN
  BY <1>1, <1>5 DEF HostShowMarkComplete, HostShowReopen, SetStatus, ShowStatuses
<1>6. ASSUME NEW u \in Hosts, NEW role \in BOOLEAN, NEW status \in FormStatuses, HostRoleEdit(u, role, status)
      PROVE  UNCHANGED <<classes, publication>> /\ showStatus' \in ShowStatuses /\ seasonClosed' \in BOOLEAN
  BY <1>1, <1>6, LiveShowAssumption DEF HostRoleEdit
<1>7. ASSUME NEW closed \in BOOLEAN, SeasonClosing(closed)
      PROVE  UNCHANGED <<classes, publication>> /\ showStatus' \in ShowStatuses /\ seasonClosed' \in BOOLEAN
  BY <1>1, <1>7 DEF SeasonClosing
<1>8. CASE UNCHANGED <<liveShowVars, hostVars>>
  BY <1>2, <1>8
<1> QED BY <1>2, <1>3, <1>4, <1>5, <1>6, <1>7, <1>8
      DEF HostShowNext, HostPlanOpen, HostStaffAdd, HostStaffRemove, HostCheckpointAdd, HostCheckpointEdit, HostCheckpointComplete,
          HostDutyAdd, HostDutyStatus, HostDutyEdit, HostFamilyPublicationEdit

\* So it keeps the tables of the running show and the pointer of its publication.
LEMMA HostingKeepsLive ==
  ASSUME LiveShowTypeOK, PointerHolds, [HostShowNext]_<<liveShowVars, hostVars>>
  PROVE  LiveShowTypeOK' /\ PointerHolds'
<1>1. UNCHANGED <<classes, publication>> /\ showStatus' \in ShowStatuses /\ seasonClosed' \in BOOLEAN
  BY HostingKeepsClasses
<1>2. LiveShowTypeOK'
  BY <1>1 DEF LiveShowTypeOK
<1>3. PointerHolds'
  BY <1>1 DEF PointerHolds, Present
<1> QED BY <1>2, <1>3

\* Whoever changes the plan of a show that stays closed manages the team, not just the show.
LEMMA ClosedShowStays ==
  ASSUME HostInv, [HostShowNext]_<<liveShowVars, hostVars>>, HostShowClosed, HostShowClosed', hostPlan' # hostPlan
  PROVE  CanManage(HostFacts[updatedBy'])
<1>1. ASSUME NEW u \in Hosts, NEW new, EditPlan(u, new) PROVE CanManage(HostFacts[updatedBy'])
  BY <1>1 DEF EditPlan, ManagesHost
<1> QED BY <1>1
      DEF HostShowNext, HostPlanOpen, HostStaffAdd, HostStaffRemove, HostCheckpointAdd, HostCheckpointEdit, HostCheckpointComplete,
          HostDutyAdd, HostDutyStatus, HostDutyEdit, HostFamilyPublicationEdit, ManagerAdd, ManagerRemove, HostShowMarkComplete,
          HostShowReopen, SetStatus, HostRoleEdit, hostVars

\* A show starts without a host plan.
LEMMA HostInitInv == HostShowInit => HostInv
BY DEF HostShowInit, HostInv, HostShowTypeOK, CheckpointsAreStamped, NoPlan
(*-------------------------------- entries --------------------------------*)
EntriesInv == ShowEntriesTypeOK /\ OnePointsRider /\ PointsRidersScore /\ TracksMatchLevel

\* A row that may stand in the table beside the rows of `rest`.
Fits(e, rest) ==
  /\ e \in EntryRow
  /\ (e.track = "regular") <=> (competitionLevel = "regular")
  /\ e.pointRider => e.type # "individual" /\ e.track = "regular" /\ TeamPoints(e.class)
  /\ \A o \in rest : /\ Key(o) # Key(e)
                     /\ ~(e.pointRider /\ o.pointRider /\ o.class = e.class /\ LevelOf[o.rider] = LevelOf[e.rider])

\* A row that fits, added or put in the place of others, keeps the table sound.
LEMMA FittingRow ==
  ASSUME EntriesInv, NEW old \in SUBSET entries, NEW e, Fits(e, entries \ old),
         entries' = (entries \ old) \cup {e}, UNCHANGED <<competitionLevel, assigned, scale>>
  PROVE  EntriesInv'
<1>1. entries \subseteq EntryRow /\ \A p, o \in entries : Key(p) = Key(o) => p = o
  BY DEF EntriesInv, ShowEntriesTypeOK
<1>2. entries' \subseteq EntryRow /\ \A p, o \in entries' : Key(p) = Key(o) => p = o
  BY <1>1 DEF Fits
<1>3. ShowEntriesTypeOK'
  BY <1>2 DEF EntriesInv, ShowEntriesTypeOK, Key
<1>4. OnePointsRider'
  <2> SUFFICES ASSUME NEW p \in entries', NEW o \in entries', p.pointRider, o.pointRider, p.class = o.class,
                      LevelOf[p.rider] = LevelOf[o.rider]
               PROVE  p = o
    BY DEF OnePointsRider
  <2>1. CASE p \in entries \ old /\ o \in entries \ old
    BY <2>1 DEF EntriesInv, OnePointsRider
  <2>2. CASE p = e \/ o = e
    BY <2>2 DEF Fits
  <2> QED BY <2>1, <2>2
<1>5. PointsRidersScore'
  BY DEF EntriesInv, PointsRidersScore, Fits, TeamPoints
<1>6. TracksMatchLevel'
  BY DEF EntriesInv, TracksMatchLevel, Fits
<1> QED BY <1>3, <1>4, <1>5, <1>6 DEF EntriesInv

\* Fewer rows are as sound.
LEMMA FewerRows ==
  ASSUME EntriesInv, entries' \subseteq entries, UNCHANGED <<competitionLevel, assigned, scale>>
  PROVE  EntriesInv'
BY DEF EntriesInv, ShowEntriesTypeOK, OnePointsRider, PointsRidersScore, TracksMatchLevel, TeamPoints, Key

\* The designation and the result of a row can be written without another row.
LEMMA MarkedRows ==
  ASSUME NEW e \in EntryRow
  PROVE  /\ \A b \in BOOLEAN : LET n == [e EXCEPT !.pointRider = b] IN
              /\ n \in EntryRow /\ Key(n) = Key(e) /\ n.class = e.class /\ n.rider = e.rider /\ n.track = e.track
              /\ n.type = e.type /\ n.pointRider = b
         /\ \A place \in Places, points \in Nat : LET n == [e EXCEPT !.place = place, !.points = points] IN
              /\ n \in EntryRow /\ Key(n) = Key(e) /\ n.class = e.class /\ n.rider = e.rider /\ n.track = e.track
              /\ n.type = e.type /\ n.pointRider = e.pointRider
BY DEF EntryRow, Key

\* What the form makes of a row is a row, on the track the level asks for.
LEMMA FormRows ==
  ASSUME NEW e \in EntryRow, NEW type \in FormTypes, NEW track \in {"individual", "team"}
  PROVE  /\ FromForm(e, type, track) \in EntryRow
         /\ FromForm(e, type, track).class = e.class /\ FromForm(e, type, track).rider = e.rider
         /\ competitionLevel = "regular" => /\ FromForm(e, type, track).track = "regular"
                                            /\ FromForm(e, type, track).pointRider = e.pointRider
BY ShowEntriesAssumption DEF FromForm, EntryRow, EntryTypes, Tracks

\* What clean writes keeps the key; the designation of a regular row of a season class stays.
LEMMA NormalRows ==
  ASSUME NEW e \in EntryRow
  PROVE  /\ Normal(e) \in EntryRow /\ Key(Normal(e)) = Key(e)
         /\ Normal(e).class = e.class /\ Normal(e).rider = e.rider /\ Normal(e).track = e.track
         /\ Normal(e).pointRider => e.pointRider /\ SeasonClass(e.class)
         /\ SeasonClass(e.class) /\ e.track = "regular" => Normal(e) = e
<1>1. CASE ~SeasonClass(e.class)
  BY <1>1 DEF Normal, EntryRow, Key, EntryTypes
<1>2. CASE SeasonClass(e.class) /\ e.track = "individual"
  BY <1>2 DEF Normal, EntryRow, Key, EntryTypes
<1>3. CASE SeasonClass(e.class) /\ e.track = "team"
  BY <1>3 DEF Normal, EntryRow, Key, EntryTypes
<1>4. CASE SeasonClass(e.class) /\ e.track = "regular"
  BY <1>4 DEF Normal
<1> QED BY <1>1, <1>2, <1>3, <1>4 DEF EntryRow, Tracks

\* A row that clean accepts fits beside all rows but the one it replaces.
LEMMA CleanRowFits ==
  ASSUME EntriesInv, NEW e \in EntryRow, competitionLevel = "regular" => e.track = "regular",
         NEW key, Saved(e, key), NEW old \in SUBSET entries, \A o \in entries \ old : Key(o) # key
  PROVE  Fits(Normal(e), entries \ old)
<1> DEFINE n == Normal(e)
<1>1. /\ n \in EntryRow /\ Key(n) = Key(e) /\ n.class = e.class /\ n.rider = e.rider /\ n.track = e.track
      /\ n.pointRider => e.pointRider /\ SeasonClass(e.class)
      /\ SeasonClass(e.class) /\ e.track = "regular" => n = e
  BY NormalRows
<1> HIDE DEF n
<1>2. EntryClean(e, key) /\ \A o \in entries \ old : Key(o) # Key(e)
  BY DEF Saved
<1>3. (e.track = "regular") <=> (competitionLevel = "regular")
  <2>1. CASE SeasonClass(e.class)
    BY <1>2, <2>1 DEF EntryClean, SeasonClassAllows
  <2>2. CASE ~SeasonClass(e.class)
    BY <1>2, <2>2 DEF EntryClean, ShowOnlyEligible
  <2> QED BY <2>1, <2>2
<1>4. ASSUME n.pointRider
      PROVE  /\ n = e /\ e.type # "individual" /\ e.track = "regular" /\ TeamPoints(e.class)
             /\ SameTeamPointRiders(e, key) = {}
  <2>1. e.pointRider /\ SeasonClass(e.class)
    BY <1>1, <1>4
  <2>2. SeasonClassAllows(e, key) /\ TeamPoints(e.class)
    BY <1>2, <2>1 DEF EntryClean
  <2>3. competitionLevel = "regular"
    BY <2>1, <2>2 DEF SeasonClassAllows
  <2> QED BY <1>1, <2>1, <2>2, <2>3 DEF SeasonClassAllows
<1>5. ASSUME n.pointRider, NEW o \in entries \ old, o.pointRider, o.class = n.class, LevelOf[o.rider] = LevelOf[n.rider]
      PROVE  FALSE
  <2>1. o.track = "regular"
    BY <1>5 DEF EntriesInv, PointsRidersScore
  <2>2. o \in SameTeamPointRiders(e, key)
    BY <1>4, <1>5, <2>1 DEF SameTeamPointRiders
  <2> QED BY <1>4, <1>5, <2>2
<1> QED BY <1>1, <1>2, <1>3, <1>4, <1>5 DEF Fits, n

\* A designation is written for a row of a class with team points at the regular season.
LEMMA PointRiderSetInv ==
  ASSUME EntriesInv, NEW e \in entries, PointRiderSet(e)
  PROVE  EntriesInv'
<1>0. /\ entries \subseteq EntryRow /\ \A p, o \in entries : Key(p) = Key(o) => p = o
      /\ e \in EntryRow /\ competitionLevel = "regular" /\ UNCHANGED <<competitionLevel, assigned, scale>>
  BY DEF EntriesInv, ShowEntriesTypeOK, PointRiderSet
<1>1. \A p \in entries : p.track = "regular" /\ (p.pointRider => p.type # "individual" /\ TeamPoints(p.class))
  BY <1>0 DEF EntriesInv, TracksMatchLevel, PointsRidersScore
<1>2. CASE ~TeamPoints(e.class)
  <2> DEFINE n == [e EXCEPT !.pointRider = FALSE]
  <2>1. n \in EntryRow /\ Key(n) = Key(e) /\ n.track = e.track /\ ~n.pointRider
    BY <1>0, MarkedRows
  <2>2. entries' = (entries \ {e}) \cup {n}
    BY <1>2 DEF PointRiderSet
  <2> HIDE DEF n
  <2>3. Fits(n, entries \ {e})
    BY <1>0, <1>1, <2>1 DEF Fits
  <2> QED BY <1>0, <2>2, <2>3, FittingRow
<1>3. CASE TeamPoints(e.class)
  <2> DEFINE others  == {o \in entries : o.class = e.class /\ o.pointRider /\ Key(o) # Key(e)
                                           /\ LevelOf[o.rider] = LevelOf[e.rider]}
             cleared == {[o EXCEPT !.pointRider = FALSE] : o \in others}
             chosen  == [e EXCEPT !.pointRider = TRUE, !.type = IF @ = "individual" THEN "both" ELSE @]
             refused == SeasonClass(e.class) /\ <<e.rider, e.class>> \notin assigned
             saved   == IF refused THEN e ELSE chosen
  <2>1. entries' = (entries \ (others \cup {e})) \cup cleared \cup {saved}
    BY <1>3 DEF PointRiderSet
  <2>2. /\ chosen \in EntryRow /\ Key(chosen) = Key(e) /\ chosen.track = e.track /\ chosen.pointRider
        /\ chosen.type # "individual" /\ chosen.class = e.class /\ chosen.rider = e.rider
    BY <1>0 DEF EntryRow, Key, EntryTypes
  <2>3. /\ saved \in EntryRow /\ Key(saved) = Key(e) /\ saved.track = "regular" /\ saved.class = e.class /\ saved.rider = e.rider
        /\ saved.pointRider => saved.type # "individual" /\ TeamPoints(saved.class)
    <3>1. CASE refused
      BY <1>0, <1>1, <3>1
    <3>2. CASE ~refused
      BY <1>0, <1>1, <1>3, <2>2, <3>2
    <3> QED BY <3>1, <3>2
  <2>4. \A c \in cleared : \E o \in others : /\ c \in EntryRow /\ Key(c) = Key(o) /\ c.track = "regular" /\ ~c.pointRider
                                             /\ c.class = o.class /\ c.rider = o.rider
    <3> SUFFICES ASSUME NEW o \in others PROVE LET c == [o EXCEPT !.pointRider = FALSE] IN
                   /\ c \in EntryRow /\ Key(c) = Key(o) /\ c.track = "regular" /\ ~c.pointRider
                   /\ c.class = o.class /\ c.rider = o.rider
      OBVIOUS
    <3>1. o \in EntryRow /\ o.track = "regular"
      BY <1>0, <1>1
    <3> QED BY <3>1 DEF EntryRow, Key
  <2>5. \A c \in cleared : \A d \in cleared : Key(c) = Key(d) => c = d
    <3> SUFFICES ASSUME NEW o \in others, NEW p \in others,
                        Key([o EXCEPT !.pointRider = FALSE]) = Key([p EXCEPT !.pointRider = FALSE])
                 PROVE  o = p
      BY Zenon
    <3>1. o \in EntryRow /\ p \in EntryRow
      BY <1>0
    <3>2. Key(o) = Key(p)
      BY <3>1, MarkedRows
    <3> QED BY <1>0, <3>2
  <2>6. others \subseteq entries /\ \A o \in others : Key(o) # Key(e)
    OBVIOUS
  <2>7. \A p \in entries : (p.pointRider /\ p.class = e.class /\ LevelOf[p.rider] = LevelOf[e.rider] /\ Key(p) # Key(e)) => p \in others
    OBVIOUS
  <2> HIDE DEF others, cleared, chosen, refused, saved
  <2>8. entries' \subseteq EntryRow /\ \A p, o \in entries' : Key(p) = Key(o) => p = o
    <3>1. entries' \subseteq EntryRow
      BY <1>0, <2>1, <2>3, <2>4
    <3> SUFFICES ASSUME NEW p \in entries', NEW o \in entries', Key(p) = Key(o) PROVE p = o
      BY <3>1
    <3>2. \A c \in cleared : Key(c) # Key(e) /\ \A q \in entries \ (others \cup {e}) : Key(q) # Key(c)
      BY <1>0, <2>4, <2>6
    <3> QED BY <1>0, <2>1, <2>3, <2>5, <3>2
  <2>9. ShowEntriesTypeOK'
    BY <1>0, <2>8 DEF EntriesInv, ShowEntriesTypeOK, Key
  <2>10. OnePointsRider'
    <3> SUFFICES ASSUME NEW p \in entries', NEW o \in entries', p.pointRider, o.pointRider, p.class = o.class,
                        LevelOf[p.rider] = LevelOf[o.rider]
                 PROVE  p = o
      BY DEF OnePointsRider
    <3>1. p \notin cleared /\ o \notin cleared
      BY <2>4
    <3>2. CASE p \in entries /\ o \in entries
      BY <3>2 DEF EntriesInv, OnePointsRider
    <3>3. CASE p = saved /\ o \in entries \ (others \cup {e})
      BY <1>0, <2>3, <2>7, <3>3
    <3>4. CASE o = saved /\ p \in entries \ (others \cup {e})
      BY <1>0, <2>3, <2>7, <3>4
    <3> QED BY <2>1, <3>1, <3>2, <3>3, <3>4
  <2>11. PointsRidersScore'
    BY <1>0, <1>1, <2>1, <2>3, <2>4 DEF PointsRidersScore, TeamPoints
  <2>12. TracksMatchLevel'
    BY <1>0, <1>1, <2>1, <2>3, <2>4 DEF TracksMatchLevel
  <2> QED BY <2>9, <2>10, <2>11, <2>12 DEF EntriesInv
<1> QED BY <1>2, <1>3

\* A show starts without entries.
LEMMA EntriesInitInv == ShowEntriesInit => EntriesInv
BY DEF ShowEntriesInit, EntriesInv, ShowEntriesTypeOK, OnePointsRider, PointsRidersScore, TracksMatchLevel

\* The row an entry form creates is clean as it came.
LEMMA CreatedFits ==
  ASSUME EntriesInv, NEW c \in ShowClasses, NEW r \in Riders, NEW type \in FormTypes, NEW track \in {"individual", "team"},
         ShowEntryCreate(c, r, type, track)
  PROVE  \E e \in EntryRow : Fits(Normal(e), entries \ {}) /\ entries' = (entries \ {}) \cup {Normal(e)}
<1> DEFINE row == [class |-> c, rider |-> r, track |-> "regular", type |-> type, pointRider |-> FALSE,
                   scratched |-> FALSE, place |-> 0, points |-> 0]
           e == FromForm(row, type, track)
<1>1. row \in EntryRow
  BY ShowEntriesAssumption DEF EntryRow, Tracks, EntryTypes, Places
<1> HIDE DEF row
<1>2. e \in EntryRow /\ (competitionLevel = "regular" => e.track = "regular")
  BY <1>1, FormRows
<1>3. Saved(e, Key(e)) /\ entries' = entries \cup {Normal(e)} /\ \A o \in entries : Key(o) # Key(e)
  BY DEF ShowEntryCreate, row
<1> HIDE DEF e
<1>4. Fits(Normal(e), entries \ {})
  BY <1>2, <1>3, CleanRowFits
<1> QED BY <1>2, <1>3, <1>4

\* The form puts a row in the place of the old one that fits there.
EditedTo(old, e) ==
  /\ Fits(Normal(e), entries \ {old}) /\ entries' = (entries \ {old}) \cup {Normal(e)}
  /\ competitionLevel = "regular" => e.track = "regular" /\ e.pointRider = old.pointRider

\* The row an entry form edits, in the place of the old one.
LEMMA EditedFits ==
  ASSUME EntriesInv, NEW old \in entries, NEW c \in ShowClasses, NEW r \in Riders, NEW type \in FormTypes,
         NEW track \in {"individual", "team"},
         \E scratched \in BOOLEAN : ShowEntryEdit(old, c, r, type, track, scratched)
  PROVE  \E e \in EntryRow : EditedTo(old, e)
<1> PICK scratched \in BOOLEAN : ShowEntryEdit(old, c, r, type, track, scratched)
  OBVIOUS
<1> DEFINE row == [old EXCEPT !.class = c, !.rider = r, !.scratched = scratched]
           e == FromForm(row, type, track)
<1>0. old \in EntryRow /\ \A p, o \in entries : Key(p) = Key(o) => p = o
  BY DEF EntriesInv, ShowEntriesTypeOK
<1>1. row \in EntryRow /\ row.pointRider = old.pointRider
  BY <1>0 DEF EntryRow
<1>2. Saved(e, Key(old)) /\ entries' = (entries \ {old}) \cup {Normal(e)}
  BY DEF ShowEntryEdit
<1> HIDE DEF row
<1>3. e \in EntryRow /\ (competitionLevel = "regular" => e.track = "regular" /\ e.pointRider = old.pointRider)
  BY <1>1, FormRows
<1> HIDE DEF e
<1>4. \A o \in entries \ {old} : Key(o) # Key(old)
  BY <1>0
<1>5. Fits(Normal(e), entries \ {old})
  BY <1>2, <1>3, <1>4, CleanRowFits
<1> QED BY <1>2, <1>3, <1>5 DEF EditedTo

\* The points a result is saved with.
LEMMA PointsAreNat ==
  ASSUME EntriesInv, NEW e \in entries, NEW place \in Places, NEW manual \in BOOLEAN
  PROVE  PointsFor(e, place, manual, 1) \in Nat
<1>1. scale \in [1..MaxPlace -> Nat]
  BY ShowEntriesAssumption DEF EntriesInv, ShowEntriesTypeOK
<1>2. place > 0 => place \in 1..MaxPlace
  BY ShowEntriesAssumption DEF Places
<1> QED BY <1>1, <1>2 DEF PointsFor

\* Every request on entries, levels, results and assignments keeps the table sound.
LEMMA EntriesStepInv ==
  ASSUME EntriesInv, [ShowEntriesNext]_showEntriesVars
  PROVE  EntriesInv'
<1>0. /\ entries \subseteq EntryRow /\ \A p, o \in entries : Key(p) = Key(o) => p = o
  BY DEF EntriesInv, ShowEntriesTypeOK
<1>1. ASSUME NEW c \in ShowClasses, NEW r \in Riders, NEW type \in FormTypes, NEW track \in {"individual", "team"},
             ShowEntryCreate(c, r, type, track)
      PROVE  EntriesInv'
  <2>1. UNCHANGED <<competitionLevel, assigned, scale>>
    BY <1>1 DEF ShowEntryCreate
  <2>2. {} \in SUBSET entries
    OBVIOUS
  <2> QED BY <1>1, <2>1, <2>2, CreatedFits, FittingRow
<1>2. ASSUME NEW old \in entries, NEW c \in ShowClasses, NEW r \in Riders, NEW type \in FormTypes,
             NEW track \in {"individual", "team"},
             \E scratched \in BOOLEAN : ShowEntryEdit(old, c, r, type, track, scratched)
      PROVE  EntriesInv'
  <2>1. UNCHANGED <<competitionLevel, assigned, scale>>
    BY <1>2 DEF ShowEntryEdit
  <2>2. {old} \in SUBSET entries
    OBVIOUS
  <2>3. PICK e \in EntryRow : EditedTo(old, e)
    BY <1>2, EditedFits
  <2> QED BY <2>1, <2>2, <2>3, FittingRow DEF EditedTo
<1>3. ASSUME NEW e \in entries, ShowEntryDelete(e) PROVE EntriesInv'
  BY <1>3, FewerRows DEF ShowEntryDelete
<1>4. ASSUME NEW e \in entries, PointRiderSet(e) PROVE EntriesInv'
  BY <1>4, PointRiderSetInv
<1>5. ASSUME NEW e \in entries, NEW n \in EntryRow, Key(n) = Key(e), n.class = e.class, n.rider = e.rider, n.track = e.track,
             n.type = e.type, n.pointRider => e.pointRider
      PROVE  Fits(n, entries \ {e})
  <2>1. (n.track = "regular") <=> (competitionLevel = "regular")
    BY <1>5 DEF EntriesInv, TracksMatchLevel
  <2>2. n.pointRider => n.type # "individual" /\ n.track = "regular" /\ TeamPoints(n.class)
    BY <1>5 DEF EntriesInv, PointsRidersScore
  <2>3. \A o \in entries \ {e} : Key(o) # Key(n)
    BY <1>0, <1>5
  <2>4. \A o \in entries \ {e} : ~(n.pointRider /\ o.pointRider /\ o.class = n.class /\ LevelOf[o.rider] = LevelOf[n.rider])
    BY <1>5 DEF EntriesInv, OnePointsRider
  <2> QED BY <1>5, <2>1, <2>2, <2>3, <2>4 DEF Fits
<1>6. ASSUME NEW e \in entries, PointRiderClear(e) PROVE EntriesInv'
  <2> DEFINE n == [e EXCEPT !.pointRider = FALSE]
  <2>1. /\ n \in EntryRow /\ Key(n) = Key(e) /\ n.class = e.class /\ n.rider = e.rider /\ n.track = e.track
        /\ n.type = e.type /\ ~n.pointRider
    BY <1>0, MarkedRows
  <2>2. entries' = (entries \ {e}) \cup {n} /\ UNCHANGED <<competitionLevel, assigned, scale>>
    BY <1>6 DEF PointRiderClear
  <2> HIDE DEF n
  <2>3. Fits(n, entries \ {e})
    BY <1>5, <2>1
  <2>4. {e} \in SUBSET entries
    OBVIOUS
  <2> QED BY <2>2, <2>3, <2>4, FittingRow
<1>7. ASSUME NEW e \in entries, NEW place \in Places, NEW manual \in ManualPoints, ShowResultSave(e, place, manual, 1)
      PROVE  EntriesInv'
  <2> DEFINE n == [e EXCEPT !.place = place, !.points = PointsFor(e, place, manual, 1)]
  <2>0. PointsFor(e, place, manual, 1) \in Nat
    BY PointsAreNat, ShowEntriesAssumption
  <2>1. /\ n \in EntryRow /\ Key(n) = Key(e) /\ n.class = e.class /\ n.rider = e.rider /\ n.track = e.track
        /\ n.type = e.type /\ n.pointRider = e.pointRider
    BY <1>0, <2>0 DEF EntryRow, Key
  <2>2. entries' = (entries \ {e}) \cup {n} /\ UNCHANGED <<competitionLevel, assigned, scale>>
    BY <1>7 DEF ShowResultSave
  <2> HIDE DEF n
  <2>3. Fits(n, entries \ {e})
    BY <1>5, <2>1
  <2>4. {e} \in SUBSET entries
    OBVIOUS
  <2> QED BY <2>2, <2>3, <2>4, FittingRow
<1>8. ASSUME NEW level \in {"regular", "regional"}, ShowLevelEdit(level) PROVE EntriesInv'
  BY <1>8 DEF ShowLevelEdit, EntriesInv, ShowEntriesTypeOK, OnePointsRider, PointsRidersScore, TracksMatchLevel, TeamPoints, Key
<1>9. ASSUME NEW s \in Scales, ScoringSettings(s) PROVE EntriesInv'
  BY <1>9 DEF ScoringSettings, EntriesInv, ShowEntriesTypeOK, OnePointsRider, PointsRidersScore, TracksMatchLevel, TeamPoints, Key
<1>10. ASSUME NEW r \in ReassignedRiders, NEW cs \in SUBSET ShowClasses, AssignClasses(r, cs) PROVE EntriesInv'
  <2>1. assigned' \subseteq Riders \X ShowClasses
    BY <1>10, ShowEntriesAssumption DEF AssignClasses, EntriesInv, ShowEntriesTypeOK
  <2> QED BY <1>10, <2>1 DEF AssignClasses, EntriesInv, ShowEntriesTypeOK, OnePointsRider, PointsRidersScore, TracksMatchLevel,
             TeamPoints, Key
<1>11. CASE UNCHANGED showEntriesVars
  BY <1>11, FewerRows DEF showEntriesVars
<1> QED BY <1>1, <1>2, <1>3, <1>4, <1>6, <1>7, <1>8, <1>9, <1>10, <1>11 DEF ShowEntriesNext

\* A designation that goes goes to another row of the team in the class, or with its row, or alone, or because
\* the row named instead was refused.
LEMMA DesignationMoves ==
  ASSUME EntriesInv, ShowEntriesNext, NEW e \in entries, NEW o \in entries', e.pointRider, Key(o) = Key(e), ~o.pointRider,
         ~ \E n \in entries' : n.pointRider /\ n.class = e.class /\ LevelOf[n.rider] = LevelOf[e.rider]
  PROVE  \/ \E n \in entries : Key(n) # Key(e) /\ n.class = e.class /\ <<n.rider, n.class>> \notin assigned
         \/ entries' \ entries = {[e EXCEPT !.pointRider = FALSE]}
<1>0. /\ entries \subseteq EntryRow /\ \A p, q \in entries : Key(p) = Key(q) => p = q
      /\ e \in EntryRow
  BY DEF EntriesInv, ShowEntriesTypeOK
<1>1. e \notin entries' /\ o \notin entries
  BY <1>0
<1>2. TeamPoints(e.class) /\ SeasonClass(e.class) /\ competitionLevel = "regular" /\ e.track = "regular"
  <2>1. TeamPoints(e.class) /\ e.track = "regular" /\ competitionLevel = "regular"
    BY DEF EntriesInv, PointsRidersScore, TracksMatchLevel
  <2>2. e.class \in ShowClasses
    BY <1>0 DEF EntryRow
  <2> QED BY <2>1, <2>2, ShowEntriesAssumption DEF TeamPoints, SeasonClass
<1>3. ASSUME NEW c \in ShowClasses, NEW r \in Riders, NEW type \in FormTypes, NEW track \in {"individual", "team"},
             ShowEntryCreate(c, r, type, track)
      PROVE  FALSE
  BY <1>1, <1>3, CreatedFits
<1>4. ASSUME NEW old \in entries, NEW c \in ShowClasses, NEW r \in Riders, NEW type \in FormTypes,
             NEW track \in {"individual", "team"},
             \E scratched \in BOOLEAN : ShowEntryEdit(old, c, r, type, track, scratched)
      PROVE  FALSE
  <2>0. PICK x \in EntryRow : EditedTo(old, x)
    BY <1>4, EditedFits
  <2>1. /\ entries' = (entries \ {old}) \cup {Normal(x)}
        /\ competitionLevel = "regular" => x.track = "regular" /\ x.pointRider = old.pointRider
    BY <2>0 DEF EditedTo
  <2>2. old = e /\ o = Normal(x)
    BY <1>1, <2>1
  <2>3. x.class = e.class
    BY <2>2, NormalRows DEF Key
  <2>4. Normal(x) = x
    BY <1>2, <2>1, <2>3, NormalRows
  <2> QED BY <1>2, <2>1, <2>2, <2>4
<1>5. ASSUME NEW x \in entries, ShowEntryDelete(x) PROVE FALSE
  BY <1>1, <1>5 DEF ShowEntryDelete
<1>6. ASSUME NEW x \in entries, PointRiderSet(x)
      PROVE  \E n \in entries : Key(n) # Key(e) /\ n.class = e.class /\ <<n.rider, n.class>> \notin assigned
  <2> DEFINE others  == {p \in entries : p.class = x.class /\ p.pointRider /\ Key(p) # Key(x)
                                           /\ LevelOf[p.rider] = LevelOf[x.rider]}
             cleared == {[p EXCEPT !.pointRider = FALSE] : p \in others}
             chosen  == [x EXCEPT !.pointRider = TRUE, !.type = IF @ = "individual" THEN "both" ELSE @]
             refused == SeasonClass(x.class) /\ <<x.rider, x.class>> \notin assigned
  <2>1. CASE ~TeamPoints(x.class)
    <3>1. entries' = (entries \ {x}) \cup {[x EXCEPT !.pointRider = FALSE]}
      BY <1>6, <2>1 DEF PointRiderSet
    <3> QED BY <1>1, <1>2, <2>1, <3>1
  <2>2. CASE TeamPoints(x.class)
    <3>1. entries' = (entries \ (others \cup {x})) \cup cleared \cup {IF refused THEN x ELSE chosen}
      BY <1>6, <2>2 DEF PointRiderSet
    <3>2. chosen.pointRider /\ chosen.class = x.class /\ chosen.rider = x.rider
      BY <1>0 DEF EntryRow
    <3>3. e \in others \cup {x}
      BY <1>1, <3>1
    <3>4. x.class = e.class /\ LevelOf[x.rider] = LevelOf[e.rider]
      BY <3>3
    <3>5. refused
      BY <3>1, <3>2, <3>4
    <3>6. e # x
      BY <1>1, <3>1, <3>5
    <3> QED BY <1>0, <3>4, <3>5, <3>6
  <2> QED BY <2>1, <2>2
<1>7. ASSUME NEW x \in entries, PointRiderClear(x) PROVE entries' \ entries = {[e EXCEPT !.pointRider = FALSE]}
  <2>1. entries' = (entries \ {x}) \cup {[x EXCEPT !.pointRider = FALSE]}
    BY <1>7 DEF PointRiderClear
  <2>2. x = e
    BY <1>1, <2>1
  <2>3. o = [e EXCEPT !.pointRider = FALSE]
    BY <1>1, <2>1, <2>2
  <2> QED BY <1>1, <2>1, <2>2, <2>3
<1>8. ASSUME NEW x \in entries, NEW place \in Places, NEW manual \in ManualPoints, ShowResultSave(x, place, manual, 1)
      PROVE  FALSE
  <2>0. PointsFor(x, place, manual, 1) \in Nat
    BY PointsAreNat, ShowEntriesAssumption
  <2>1. entries' = (entries \ {x}) \cup {[x EXCEPT !.place = place, !.points = PointsFor(x, place, manual, 1)]}
    BY <1>8 DEF ShowResultSave
  <2>2. x = e /\ o = [e EXCEPT !.place = place, !.points = PointsFor(e, place, manual, 1)]
    BY <1>1, <2>1
  <2>3. o.pointRider = e.pointRider
    BY <1>0, <2>0, <2>2 DEF EntryRow
  <2> QED BY <2>3
<1>9. ASSUME \/ \E level \in {"regular", "regional"} : ShowLevelEdit(level)
             \/ \E s \in Scales : ScoringSettings(s)
             \/ \E r \in ReassignedRiders, cs \in SUBSET ShowClasses : AssignClasses(r, cs)
      PROVE  FALSE
  BY <1>1, <1>9 DEF ShowLevelEdit, ScoringSettings, AssignClasses
<1> QED BY <1>3, <1>4, <1>5, <1>6, <1>7, <1>8, <1>9 DEF ShowEntriesNext

(*---------------------------- show-day board -----------------------------*)

\* A row bound to a participant names its legacy rider, and a notice an update and one of its readers.
BoardInv ==
  /\ ShowBoardTypeOK /\ OneStatusPerRider
  /\ \A s \in statusRows : s.participant = "none" \/ s.rider = LegacyRiderOf[s.participant]
  /\ \A n \in notices : n[2] \in 1..Len(dayUpdates) /\ n[1] \in Recipients(n[3])

\* A time moved by less than a day wraps at midnight at most once, either way.
LEMMA WrapsOnce ==
  ASSUME NEW d \in Nat \ {0}, NEW t \in 0..d - 1, NEW m \in -d + 1..d - 1
  PROVE  (t + m) % d = (IF t + m < 0 THEN t + m + d ELSE IF t + m < d THEN t + m ELSE t + m - d)
<1> DEFINE r == IF t + m < 0 THEN t + m + d ELSE IF t + m < d THEN t + m ELSE t + m - d
<1>1. r \in 0..d - 1
  OBVIOUS
<1>2. \E q \in {-1, 0, 1} : t + m = q * d + r
  <2>1. CASE t + m < 0
    BY <2>1
  <2>2. CASE t + m \in 0..d - 1
    BY <2>2
  <2>3. CASE t + m >= d
    BY <2>3
  <2> QED BY <2>1, <2>2, <2>3
<1> QED BY <1>1, <1>2

\* A shift can be taken back, for every time of day the schedule may hold.
LEMMA ShiftsReverse == ShowBoardTypeOK => ShiftsAreReversible
<1> SUFFICES ASSUME ShowBoardTypeOK, NEW c \in BoardClasses, NEW m \in Shifts, ScheduleTime(c) # NoTime
             PROVE  /\ Shifted(ScheduleTime(c), m) \in TimesOfDay
                    /\ Shifted(Shifted(ScheduleTime(c), m), -m) = ScheduleTime(c)
  BY DEF ShiftsAreReversible
<1> DEFINE t == ScheduleTime(c)
<1>0. DayLength \in Nat \ {0} /\ m \in -DayLength + 1..DayLength - 1 /\ -m \in -DayLength + 1..DayLength - 1
  BY ShowBoardAssumption
<1>1. t \in 0..DayLength - 1
  BY <1>0 DEF ShowBoardTypeOK, ScheduleRow, ScheduleTime, TimesOfDay, NoTime
<1> HIDE DEF t
<1>2. (t + m) % DayLength = (IF t + m < 0 THEN t + m + DayLength ELSE IF t + m < DayLength THEN t + m ELSE t + m - DayLength)
  BY <1>0, <1>1, WrapsOnce
<1>3. (t + m) % DayLength \in 0..DayLength - 1
  BY <1>0, <1>1, <1>2
<1> DEFINE v == (t + m) % DayLength
<1> HIDE DEF v
<1>4. (v + (-m)) % DayLength
        = (IF v + (-m) < 0 THEN v + (-m) + DayLength ELSE IF v + (-m) < DayLength THEN v + (-m) ELSE v + (-m) - DayLength)
  BY <1>0, <1>3, WrapsOnce DEF v
<1>5. (v + (-m)) % DayLength = t
  BY <1>0, <1>1, <1>2, <1>3, <1>4 DEF v
<1> QED BY <1>3, <1>5 DEF Shifted, TimesOfDay, t, v

\* Whoever is told of an update can read it.
LEMMA NoticesRead == BoardInv => NoticesAreReadable
BY DEF BoardInv, NoticesAreReadable, VisibleUpdates

\* What a check-in leaves: the rows of other riders, and one row that names the participant, its
\* legacy rider and the status reported.
LEMMA CheckedIn ==
  ASSUME BoardInv, NEW u \in Logins, NEW p \in Participants, NEW status, RiderStatusUpdate(u, p, status)
  PROVE  \E found \in SUBSET statusRows :
           LET new == [participant |-> p, rider |-> LegacyRiderOf[p], status |-> status]
           IN /\ statusRows' = (statusRows \ found) \cup {new}
              /\ RowsOf(p) \subseteq found
              /\ \A s \in statusRows \ found : s.rider # LegacyRiderOf[p] \/ s.rider = "none"
<1> DEFINE own   == RowsOf(p)
           found == IF own # {} THEN own ELSE AdoptableRows(p)
           row(s) == [participant |-> p, rider |-> IF s.rider = "none" THEN LegacyRiderOf[p] ELSE s.rider, status |-> status]
           new   == [participant |-> p, rider |-> LegacyRiderOf[p], status |-> status]
           saved == IF found = {} THEN {new} ELSE {row(s) : s \in found}
<1>0. p # "none"
  BY ShowBoardAssumption
<1>1. \A s \in found : s \in statusRows /\ (s.rider = LegacyRiderOf[p] \/ s.rider = "none")
  BY <1>0 DEF BoardInv, RowsOf, AdoptableRows
<1>2. own \subseteq found
  OBVIOUS
<1>3. /\ \A s \in statusRows \ found, n \in saved : s.rider # n.rider \/ s.rider = "none"
      /\ statusRows' = (statusRows \ found) \cup saved
  BY DEF RiderStatusUpdate
<1> HIDE DEF found
<1>4. \A s \in found : row(s) = new
  BY <1>1
<1>5. saved = {new}
  BY <1>4
<1>6. \A s \in statusRows \ found : s.rider # LegacyRiderOf[p] \/ s.rider = "none"
  BY <1>3, <1>5
<1>7. found \in SUBSET statusRows
  BY <1>1
<1> QED BY <1>2, <1>3, <1>5, <1>6, <1>7

\* A check-in keeps one status for a rider, and the board prints it.
LEMMA CheckInKeeps ==
  ASSUME BoardInv, NEW u \in Logins, NEW p \in Participants, NEW status \in RiderStatuses, RiderStatusUpdate(u, p, status)
  PROVE  /\ BoardInv'
         /\ \A s \in statusRows' \ statusRows, q \in Participants :
              (s.participant = q \/ (s.rider # "none" /\ s.rider = LegacyRiderOf[q])) => BoardStatus(q)' = s.status
<1> DEFINE new == [participant |-> p, rider |-> LegacyRiderOf[p], status |-> status]
<1>0. p # "none" /\ \A q \in Participants : LegacyRiderOf[p] = LegacyRiderOf[q] => p = q \/ LegacyRiderOf[p] = "none"
  BY ShowBoardAssumption
<1>1. PICK found \in SUBSET statusRows :
        /\ statusRows' = (statusRows \ found) \cup {new}
        /\ RowsOf(p) \subseteq found
        /\ \A s \in statusRows \ found : s.rider # LegacyRiderOf[p] \/ s.rider = "none"
  BY CheckedIn
<1>2. UNCHANGED <<schedule, dayUpdates, notices, spectator>>
  BY DEF RiderStatusUpdate
<1>3. new \in StatusRow
  BY DEF StatusRow, Legacy
<1>4. \A s \in statusRows \ found : s.participant # p
  BY <1>1 DEF RowsOf
<1>5. new.participant = p /\ new.rider = LegacyRiderOf[p] /\ new.status = status
  OBVIOUS
<1> HIDE DEF new
<1>6. ShowBoardTypeOK'
  BY <1>1, <1>2, <1>3 DEF BoardInv, ShowBoardTypeOK
<1>7. OneStatusPerRider'
  BY <1>1, <1>4, <1>5 DEF BoardInv, OneStatusPerRider
<1>8. \A s \in statusRows' : s.participant = "none" \/ s.rider = LegacyRiderOf[s.participant]
  BY <1>1, <1>5 DEF BoardInv
<1>9. \A n \in notices' : n[2] \in 1..Len(dayUpdates') /\ n[1] \in Recipients(n[3])
  BY <1>2 DEF BoardInv
<1>10. BoardInv'
  BY <1>6, <1>7, <1>8, <1>9 DEF BoardInv, Recipients, FamilyOf
<1>11. {s \in statusRows' : s.participant = p} = {new}
  BY <1>1, <1>4, <1>5
<1>12. BoardStatus(p)' = status
  BY <1>5, <1>11 DEF BoardStatus, RowsOf
<1>13. ASSUME NEW s \in statusRows' \ statusRows, NEW q \in Participants,
              s.participant = q \/ (s.rider # "none" /\ s.rider = LegacyRiderOf[q])
       PROVE  BoardStatus(q)' = s.status
  <2>1. s = new
    BY <1>1, <1>13
  <2>2. q = p
    BY <1>0, <1>5, <1>13, <2>1
  <2> QED BY <1>5, <1>12, <2>1, <2>2
<1> QED BY <1>10, <1>13

\* The schedule form, the reset and the shift keep times of day; the form moves one class only, and
\* the reset and the shift leave every baseline.
LEMMA ScheduleKeeps ==
  ASSUME BoardInv, ScheduleStep
  PROVE  /\ BoardInv'
         /\ Cardinality({c \in BoardClasses : schedule'[c] # schedule[c]}) > 1
              => \A c \in BoardClasses : schedule'[c].prize = schedule[c].prize
<1> DEFINE moved == {c \in BoardClasses : schedule'[c] # schedule[c]}
<1>0. DayLength \in Nat \ {0} /\ {NoTime, 0, DayLength - 1} \subseteq TimesOfDay \cup {NoTime}
  BY ShowBoardAssumption DEF TimesOfDay
<1>1. schedule \in [BoardClasses -> ScheduleRow] /\ \A c \in BoardClasses : schedule[c] \in ScheduleRow
  BY DEF BoardInv, ShowBoardTypeOK
<1>2. ASSUME UNCHANGED <<statusRows, dayUpdates, notices, spectator>>, schedule' \in [BoardClasses -> ScheduleRow] PROVE BoardInv'
  BY <1>2 DEF BoardInv, ShowBoardTypeOK, OneStatusPerRider, Recipients, FamilyOf
<1>3. ASSUME NEW u \in Logins, NEW c \in BoardClasses, NEW prize \in {NoTime, 0, DayLength - 1},
             NEW estimate \in {NoTime, 0, DayLength - 1}, ScheduleSave(u, c, prize, estimate)
      PROVE  BoardInv' /\ ~(Cardinality(moved) > 1)
  <2>1. schedule' = [schedule EXCEPT ![c] = [prize |-> prize, estimate |-> estimate]]
    BY <1>3 DEF ScheduleSave
  <2>2. [prize |-> prize, estimate |-> estimate] \in ScheduleRow
    BY <1>0 DEF ScheduleRow
  <2>3. BoardInv'
    BY <1>1, <1>2, <1>3, <2>1, <2>2 DEF ScheduleSave
  <2>4. moved \subseteq {c}
    BY <1>1, <2>1
  <2>5. IsFiniteSet({c}) /\ Cardinality({c}) = 1
    BY FS_Singleton
  <2>6. Cardinality(moved) \in Nat /\ Cardinality(moved) <= 1
    BY <2>4, <2>5, FS_Subset, FS_CardinalityType
  <2> QED BY <2>3, <2>6
<1>4. ASSUME NEW u \in Logins, ScheduleReset(u) PROVE BoardInv' /\ \A c \in BoardClasses : schedule'[c].prize = schedule[c].prize
  <2>1. \A c \in BoardClasses : schedule'[c] = IF c \in Editable(u) THEN [schedule[c] EXCEPT !.estimate = schedule[c].prize]
                                               ELSE schedule[c]
    BY <1>4 DEF ScheduleReset
  <2>2. \A c \in BoardClasses : [schedule[c] EXCEPT !.estimate = schedule[c].prize] \in ScheduleRow
    BY <1>1 DEF ScheduleRow
  <2>3. \A c \in BoardClasses : [schedule[c] EXCEPT !.estimate = schedule[c].prize].prize = schedule[c].prize
    BY <1>1 DEF ScheduleRow
  <2>4. schedule' \in [BoardClasses -> ScheduleRow]
    BY <1>1, <1>4, <2>2 DEF ScheduleReset
  <2> QED BY <1>2, <1>4, <2>1, <2>3, <2>4 DEF ScheduleReset
<1>5. ASSUME NEW u \in Logins, NEW start \in BoardClasses, NEW m \in Shifts, ScheduleShift(u, start, m)
      PROVE  BoardInv' /\ \A c \in BoardClasses : schedule'[c].prize = schedule[c].prize
  <2> DEFINE hit(c) == c \in Editable(u) /\ c >= start /\ ScheduleTime(c) # NoTime
             at(c)  == Shifted(ScheduleTime(c), m)
  <2>0. ShiftsAreReversible
    BY ShiftsReverse DEF BoardInv
  <2>1. \A c \in BoardClasses : ScheduleTime(c) # NoTime => at(c) \in TimesOfDay
    BY <2>0 DEF ShiftsAreReversible
  <2>2. schedule' = [c \in BoardClasses |-> IF hit(c) THEN [schedule[c] EXCEPT !.estimate = at(c)] ELSE schedule[c]]
    BY <1>5 DEF ScheduleShift
  <2> HIDE DEF at
  <2>3. \A c \in BoardClasses : hit(c) => /\ [schedule[c] EXCEPT !.estimate = at(c)] \in ScheduleRow
                                          /\ [schedule[c] EXCEPT !.estimate = at(c)].prize = schedule[c].prize
    BY <1>1, <2>1 DEF ScheduleRow
  <2> HIDE DEF hit
  <2>4. schedule' \in [BoardClasses -> ScheduleRow] /\ \A c \in BoardClasses : schedule'[c].prize = schedule[c].prize
    BY <1>1, <2>2, <2>3
  <2> QED BY <1>2, <1>5, <2>4 DEF ScheduleShift
<1> QED BY <1>3, <1>4, <1>5 DEF ScheduleStep

\* A request about an update keeps the notices sent, and sends new ones for an update that is there.
LEMMA UpdatesKeep ==
  ASSUME BoardInv, UpdateStep
  PROVE  BoardInv' /\ notices \subseteq notices'
<1>0. /\ dayUpdates \in Seq(DayUpdateRow) /\ Len(dayUpdates) \in Nat /\ Len(dayUpdates) <= MaxUpdates /\ MaxUpdates \in Nat
      /\ notices \subseteq Logins \X (1..MaxUpdates) \X Audiences
      /\ \A n \in notices : n[2] \in 1..Len(dayUpdates) /\ n[1] \in Recipients(n[3])
  BY ShowBoardAssumption DEF BoardInv, ShowBoardTypeOK
<1>1. ASSUME NEW k \in 1..MaxUpdates, NEW a \in Audiences, NEW notify \in BOOLEAN, Deliver(k, a, notify)
      PROVE  /\ notices \subseteq notices' /\ notices' \subseteq Logins \X (1..MaxUpdates) \X Audiences
             /\ \A n \in notices' : n \in notices \/ (n[2] = k /\ n[1] \in Recipients(n[3]))
  <2>1. Recipients(a) \subseteq Logins
    BY DEF Recipients
  <2> HIDE DEF Recipients
  <2>2. \A n \in {<<u, k, a>> : u \in Recipients(a)} : /\ n \in Logins \X (1..MaxUpdates) \X Audiences
                                                        /\ n[2] = k /\ n[1] \in Recipients(n[3])
    BY <2>1
  <2> QED BY <1>0, <1>1, <2>2 DEF Deliver
<1>2. ASSUME UNCHANGED <<statusRows, schedule, spectator>>, dayUpdates' \in Seq(DayUpdateRow), Len(dayUpdates') \in Nat,
             Len(dayUpdates') <= MaxUpdates, Len(dayUpdates) <= Len(dayUpdates'),
             notices' \subseteq Logins \X (1..MaxUpdates) \X Audiences,
             \A n \in notices' : n \in notices \/ (n[2] \in 1..Len(dayUpdates') /\ n[1] \in Recipients(n[3]))
      PROVE  BoardInv'
  <2>1. ShowBoardTypeOK'
    BY <1>2 DEF BoardInv, ShowBoardTypeOK
  <2>2. OneStatusPerRider'
    BY <1>2 DEF BoardInv, OneStatusPerRider
  <2>3. \A n \in notices' : n[2] \in 1..Len(dayUpdates') /\ n[1] \in Recipients(n[3])
    BY <1>0, <1>2
  <2> QED BY <1>2, <2>1, <2>2, <2>3 DEF BoardInv, Recipients, FamilyOf
<1>3. ASSUME NEW u \in Logins, NEW a \in Audiences, NEW p \in BOOLEAN, NEW notify \in BOOLEAN, ShowDayUpdateAdd(u, a, p, notify)
      PROVE  BoardInv' /\ notices \subseteq notices'
  <2>1. /\ Len(dayUpdates) < MaxUpdates /\ dayUpdates' = Append(dayUpdates, [audience |-> a, published |-> p])
        /\ Deliver(Len(dayUpdates) + 1, a, p /\ notify) /\ UNCHANGED <<statusRows, schedule, spectator>>
    BY <1>3 DEF ShowDayUpdateAdd
  <2>2. [audience |-> a, published |-> p] \in DayUpdateRow
    BY DEF DayUpdateRow
  <2>3. dayUpdates' \in Seq(DayUpdateRow) /\ Len(dayUpdates') = Len(dayUpdates) + 1
    BY <1>0, <2>1, <2>2
  <2>4. Len(dayUpdates) + 1 \in 1..MaxUpdates /\ (p /\ notify) \in BOOLEAN
    BY <1>0, <2>1
  <2>5. /\ notices \subseteq notices' /\ notices' \subseteq Logins \X (1..MaxUpdates) \X Audiences
        /\ \A n \in notices' : n \in notices \/ (n[2] = Len(dayUpdates) + 1 /\ n[1] \in Recipients(n[3]))
    BY <1>1, <2>1, <2>4
  <2> QED BY <1>0, <1>2, <2>1, <2>3, <2>4, <2>5
<1>4. ASSUME NEW u \in Logins, NEW k \in 1..Len(dayUpdates), NEW a \in Audiences, NEW p \in BOOLEAN, NEW notify \in BOOLEAN,
             ShowDayUpdateEdit(u, k, a, p, notify)
      PROVE  BoardInv' /\ notices \subseteq notices'
  <2>1. /\ dayUpdates' = [dayUpdates EXCEPT ![k] = [audience |-> a, published |-> p]]
        /\ Deliver(k, a, p /\ notify) /\ UNCHANGED <<statusRows, schedule, spectator>>
    BY <1>4 DEF ShowDayUpdateEdit
  <2>2. [audience |-> a, published |-> p] \in DayUpdateRow
    BY DEF DayUpdateRow
  <2>3. dayUpdates' \in Seq(DayUpdateRow) /\ Len(dayUpdates') = Len(dayUpdates)
    BY <1>0, <2>1, <2>2
  <2>4. k \in 1..MaxUpdates /\ (p /\ notify) \in BOOLEAN
    BY <1>0
  <2>5. /\ notices \subseteq notices' /\ notices' \subseteq Logins \X (1..MaxUpdates) \X Audiences
        /\ \A n \in notices' : n \in notices \/ (n[2] = k /\ n[1] \in Recipients(n[3]))
    BY <1>1, <2>1, <2>4
  <2> QED BY <1>0, <1>2, <2>1, <2>3, <2>4, <2>5
<1>5. ASSUME NEW u \in Logins, NEW k \in 1..Len(dayUpdates), ShowDayUpdateRetract(u, k)
      PROVE  BoardInv' /\ notices \subseteq notices'
  <2>0. dayUpdates[k] \in DayUpdateRow
    BY <1>0
  <2>1. [dayUpdates[k] EXCEPT !.published = FALSE] \in DayUpdateRow
    BY <2>0 DEF DayUpdateRow
  <2>2. dayUpdates' = [dayUpdates EXCEPT ![k] = [dayUpdates[k] EXCEPT !.published = FALSE]]
    BY <1>5 DEF ShowDayUpdateRetract
  <2>3. dayUpdates' \in Seq(DayUpdateRow) /\ Len(dayUpdates') = Len(dayUpdates)
    BY <1>0, <2>1, <2>2
  <2> QED BY <1>0, <1>2, <1>5, <2>3 DEF ShowDayUpdateRetract
<1> QED BY <1>3, <1>4, <1>5 DEF UpdateStep

\* An entry added at the end leaves those before it.
LEMMA AppendKeeps ==
  ASSUME NEW S, NEW s \in Seq(S), NEW x \in S
  PROVE  Append(s, x) \in Seq(S) /\ \A i \in 1..Len(s) : Append(s, x)[i] = s[i]
BY AppendProperties

\* Of the requests about spectator updates only a new delay both adds a row and changes older ones:
\* it withdraws the delays of its ring and comes first on the page.
LEMMA SpectatorKeeps ==
  ASSUME BoardInv, SpectatorStep
  PROVE  /\ BoardInv'
         /\ (Len(spectator') = Len(spectator) + 1 /\ spectator # <<>> /\ \E i \in 1..Len(spectator) : spectator'[i] # spectator[i])
              => /\ Len(spectator') \in SpectatorPage'
                 /\ \A i \in 1..Len(spectator) :
                      ~(spectator'[i].active /\ spectator'[i].delay /\ spectator'[i].ring = "Main ring")
<1>0. spectator \in Seq(SpectatorRow) /\ Len(spectator) \in Nat /\ \A i \in 1..Len(spectator) : spectator[i] \in SpectatorRow
  BY DEF BoardInv, ShowBoardTypeOK
<1>1. ASSUME UNCHANGED <<statusRows, schedule, dayUpdates, notices>>, spectator' \in Seq(SpectatorRow) PROVE BoardInv'
  BY <1>1 DEF BoardInv, ShowBoardTypeOK, OneStatusPerRider, Recipients, FamilyOf
<1>2. ASSUME NEW u \in Logins, NEW d \in BOOLEAN, NEW ring \in {"", "Main ring"}, SpectatorAnnouncementAdd(u, d, ring)
      PROVE  BoardInv' /\ \A i \in 1..Len(spectator) : spectator'[i] = spectator[i]
  <2> DEFINE new == [delay |-> d, ring |-> ring, active |-> TRUE]
  <2>1. spectator' = Append(spectator, new)
    BY <1>2 DEF SpectatorAnnouncementAdd
  <2>2. new \in SpectatorRow
    BY DEF SpectatorRow
  <2> HIDE DEF new
  <2>3. Append(spectator, new) \in Seq(SpectatorRow) /\ \A i \in 1..Len(spectator) : Append(spectator, new)[i] = spectator[i]
    BY <1>0, <2>2, AppendKeeps
  <2>4. spectator' \in Seq(SpectatorRow) /\ \A i \in 1..Len(spectator) : spectator'[i] = spectator[i]
    BY <2>1, <2>3
  <2> QED BY <1>1, <1>2, <2>4 DEF SpectatorAnnouncementAdd
<1>3. ASSUME NEW u \in Logins, NEW cleared \in BOOLEAN, SpectatorRingDelay(u, cleared)
      PROVE  /\ BoardInv'
             /\ Len(spectator') = Len(spectator) + 1
                  => /\ Len(spectator') \in SpectatorPage'
                     /\ \A i \in 1..Len(spectator) :
                          ~(spectator'[i].active /\ spectator'[i].delay /\ spectator'[i].ring = "Main ring")
  <2> DEFINE rest  == Superseded(spectator, "Main ring")
             delay == [delay |-> TRUE, ring |-> "Main ring", active |-> TRUE]
             row(i) == [spectator[i] EXCEPT !.active = spectator[i].active /\ ~(spectator[i].delay /\ spectator[i].ring = "Main ring")]
  <2>1. \A i \in 1..Len(spectator) : row(i) \in SpectatorRow /\ ~(row(i).active /\ row(i).delay /\ row(i).ring = "Main ring")
    BY <1>0 DEF SpectatorRow
  <2>2. rest = [i \in 1..Len(spectator) |-> row(i)]
    BY DEF Superseded
  <2> HIDE DEF row, rest
  <2>a. rest \in [1..Len(spectator) -> SpectatorRow] /\ \A i \in 1..Len(spectator) : rest[i] = row(i)
    BY <2>1, <2>2
  <2>3. rest \in Seq(SpectatorRow) /\ Len(rest) = Len(spectator) /\ \A i \in 1..Len(spectator) : rest[i] = row(i)
    BY <1>0, <2>a
  <2>4. UNCHANGED <<statusRows, schedule, dayUpdates, notices>> /\ spectator' = IF cleared THEN rest ELSE Append(rest, delay)
    BY <1>3 DEF SpectatorRingDelay, rest
  <2>5. delay \in SpectatorRow /\ delay.active
    BY DEF SpectatorRow
  <2> HIDE DEF delay
  <2>6. CASE cleared
    <3>1. spectator' = rest /\ Len(spectator') # Len(spectator) + 1
      BY <1>0, <2>3, <2>4, <2>6
    <3>2. BoardInv'
      BY <1>1, <2>3, <2>4, <3>1
    <3> QED BY <3>1, <3>2
  <2>7. CASE ~cleared
    <3> DEFINE n == Len(spectator) + 1
    <3>1. /\ spectator' \in Seq(SpectatorRow) /\ Len(spectator') = n /\ spectator'[n] = delay
          /\ \A i \in 1..Len(spectator) : spectator'[i] = row(i)
      BY <1>0, <2>3, <2>4, <2>5, <2>7
    <3> DEFINE later == {j \in n + 1..Len(spectator') : spectator'[j].active}
    <3>2. later = {}
      BY <1>0, <3>1
    <3>3. Cardinality({}) = 0 /\ 0 < PageSize
      BY FS_EmptySet, ShowBoardAssumption
    <3>4. Cardinality(later) < PageSize
      BY <3>2, <3>3
    <3>5. n \in 1..Len(spectator') /\ spectator'[n].active
      BY <1>0, <2>5, <3>1
    <3>6. n \in SpectatorPage'
      BY <3>4, <3>5 DEF SpectatorPage
    <3>7. Len(spectator') \in SpectatorPage'
      BY <3>1, <3>6
    <3>8. BoardInv'
      BY <1>1, <2>4, <3>1
    <3> HIDE DEF n
    <3> QED BY <2>1, <3>1, <3>7, <3>8
  <2> QED BY <2>6, <2>7
<1>4. ASSUME NEW u \in Logins, NEW i \in 1..Len(spectator), SpectatorDismiss(u, i)
      PROVE  BoardInv' /\ Len(spectator') = Len(spectator)
  <2>1. [spectator[i] EXCEPT !.active = FALSE] \in SpectatorRow
    BY <1>0 DEF SpectatorRow
  <2>2. spectator' = [spectator EXCEPT ![i] = [spectator[i] EXCEPT !.active = FALSE]]
    BY <1>4 DEF SpectatorDismiss
  <2>3. spectator' \in Seq(SpectatorRow) /\ Len(spectator') = Len(spectator)
    BY <1>0, <2>1, <2>2
  <2> QED BY <1>1, <1>4, <2>3 DEF SpectatorDismiss
<1>5. Len(spectator) # Len(spectator) + 1
  BY <1>0
<1> QED BY <1>2, <1>3, <1>4, <1>5 DEF SpectatorStep

\* Nothing happened to the board, so nothing changes.
LEMMA BoardStays == BoardInv /\ UNCHANGED showBoardVars => BoardInv'
BY DEF showBoardVars, BoardInv, ShowBoardTypeOK, OneStatusPerRider, Recipients, FamilyOf

\* The rows of earlier releases are of different riders.
LEMMA BoardInitInv == ShowBoardInit => BoardInv
<1> SUFFICES ASSUME ShowBoardInit PROVE BoardInv
  OBVIOUS
<1>1. MaxUpdates \in Nat /\ DayLength \in Nat \ {0}
  BY ShowBoardAssumption
<1>2. \A s \in statusRows : s \in StatusRow /\ s.participant = "none"
  BY DEF ShowBoardInit, StatusRow, RiderStatuses
<1>3. \A s, t \in statusRows : s.rider = t.rider => s = t
  BY DEF ShowBoardInit
<1>4. \A c \in BoardClasses : [prize |-> NoTime, estimate |-> NoTime] \in ScheduleRow
  BY DEF ScheduleRow
<1>5. ShowBoardTypeOK
  BY <1>1, <1>2, <1>4 DEF ShowBoardInit, ShowBoardTypeOK
<1> QED BY <1>2, <1>3, <1>5 DEF BoardInv, OneStatusPerRider, ShowBoardInit

(*----------------------------- planning a show ---------------------------*)

PlanInv == ShowPlanningTypeOK /\ StarterItemsOnce

\* An item that is open has no owner, so it is on nobody's list.
LEMMA OpenIsUnowned == PlanInv => OpenItemsHaveNoOwner
<1> SUFFICES ASSUME PlanInv, NEW u \in Planners, NEW v \in Planners, NEW i \in OpenVolunteers(u), i \in MyAssignments(v)
             PROVE  FALSE
  BY DEF OpenItemsHaveNoOwner
<1>1. Owner(items[i]) = "nobody" /\ v \in {items[i].claimed, items[i].assigned}
  BY DEF OpenVolunteers, MyAssignments
<1>2. v # "nobody"
  BY ShowPlanningAssumption
<1> QED BY <1>1, <1>2 DEF Owner

\* The rows a request writes over one item, or adds to the end.
RewritesItem(i, new) == new \in PlanningItem /\ new.title = items[i].title /\ items' = [items EXCEPT ![i] = new]

\* An item that keeps its title keeps the starter items apart.
LEMMA RewriteKeeps ==
  ASSUME PlanInv, planner' \in Owners, NEW i \in DOMAIN items, NEW new, RewritesItem(i, new)
  PROVE  PlanInv' /\ items'[i] = new /\ \A j \in DOMAIN items : j # i => items'[j] = items[j]
<1>1. /\ items \in Seq(PlanningItem) /\ new \in PlanningItem /\ new.title = items[i].title
      /\ items' = [items EXCEPT ![i] = new]
  BY DEF PlanInv, ShowPlanningTypeOK, RewritesItem
<1>2. DOMAIN items' = DOMAIN items /\ items' \in Seq(PlanningItem)
  BY <1>1
<1>3. \A j \in DOMAIN items : items'[j].title = items[j].title
  BY <1>1
<1>4. StarterItemsOnce'
  BY <1>2, <1>3 DEF PlanInv, StarterItemsOnce
<1> QED BY <1>1, <1>2, <1>4 DEF PlanInv, ShowPlanningTypeOK

\* Generating the starter plan adds what is missing, once, and leaves the items there.
LEMMA SeedKeeps ==
  ASSUME PlanInv, NEW u \in Planners, SeedDefaults(u)
  PROVE  PlanInv' /\ \A j \in DOMAIN items : j \in DOMAIN items' /\ items'[j] = items[j]
<1> DEFINE gap == {k \in DOMAIN Defaults : Defaults[k] \notin Titles}
           starter(k) == [title |-> Defaults[k], level |-> "all", assigned |-> "nobody", claimed |-> "nobody",
                          completed |-> FALSE, family |-> TRUE]
<1>1. PICK missing \in SetToSeqs(gap) : items' = items \o [k \in DOMAIN missing |-> starter(missing[k])]
  BY DEF SeedDefaults
<1>2. items \in Seq(PlanningItem) /\ StarterItemsOnce /\ DOMAIN items = 1..Len(items) /\ Len(items) \in Nat
  BY DEF PlanInv, ShowPlanningTypeOK
<1>3. /\ DOMAIN Defaults = 1..Len(Defaults) /\ Len(Defaults) \in Nat
      /\ \A j, k \in DOMAIN Defaults : Defaults[j] = Defaults[k] => j = k
      /\ \A k \in DOMAIN Defaults : Defaults[k] \in ToSet(Defaults)
  BY ShowPlanningAssumption DEF ToSet
<1>4. Cardinality(gap) \in Nat
  <2>1. IsFiniteSet(1..Len(Defaults))
    BY <1>3, FS_Interval
  <2>2. gap \subseteq 1..Len(Defaults)
    BY <1>3
  <2> QED BY <2>1, <2>2, FS_Subset, FS_CardinalityType
<1> DEFINE n == Cardinality(gap)
           new == [k \in DOMAIN missing |-> starter(missing[k])]
<1> HIDE DEF n
<1>5. DOMAIN missing = 1..n /\ \A j \in 1..n : missing[j] \in gap /\ \A k \in 1..n : missing[j] = missing[k] => j = k
  BY <1>1 DEF SetToSeqs, n
<1>6. \A k \in gap : starter(k) \in PlanningItem /\ starter(k).title = Defaults[k]
  BY <1>3 DEF PlanningItem, ItemLevels, Owners
<1> HIDE DEF starter, gap
<1>7. new \in Seq(PlanningItem) /\ Len(new) = n /\ \A j \in 1..n : new[j] = starter(missing[j])
  BY <1>4, <1>5, <1>6 DEF n
<1> HIDE DEF new
<1>8. /\ items' \in Seq(PlanningItem) /\ DOMAIN items' = 1..Len(items) + n
      /\ \A j \in 1..Len(items) : items'[j] = items[j]
      /\ \A j \in 1..Len(items) + n : j > Len(items) => items'[j] = new[j - Len(items)]
  BY <1>1, <1>2, <1>4, <1>7 DEF n, new
<1>9. \A j \in 1..Len(items) + n : j > Len(items) =>
        j - Len(items) \in 1..n /\ missing[j - Len(items)] \in gap /\ items'[j].title = Defaults[missing[j - Len(items)]]
  BY <1>2, <1>4, <1>5, <1>6, <1>7, <1>8 DEF n
<1>10. \A k \in gap, j \in 1..Len(items) : Defaults[k] # items[j].title
  BY <1>2 DEF gap, Titles
<1>11. \A k \in gap : k \in DOMAIN Defaults
  BY DEF gap
<1>12. ASSUME NEW i \in DOMAIN items', NEW j \in DOMAIN items', items'[i].title = items'[j].title,
              items'[i].title \in ToSet(Defaults)
       PROVE  i = j
  <2>1. CASE i <= Len(items) /\ j <= Len(items)
    BY <1>2, <1>8, <1>12, <2>1 DEF StarterItemsOnce
  <2>2. CASE i <= Len(items) /\ j > Len(items)
    BY <1>2, <1>8, <1>9, <1>10, <1>12, <2>2
  <2>3. CASE i > Len(items) /\ j <= Len(items)
    BY <1>2, <1>8, <1>9, <1>10, <1>12, <2>3
  <2>4. CASE i > Len(items) /\ j > Len(items)
    <3>1. missing[i - Len(items)] = missing[j - Len(items)]
      BY <1>3, <1>8, <1>9, <1>11, <1>12, <2>4
    <3>2. i - Len(items) = j - Len(items)
      BY <1>5, <1>8, <1>9, <2>4, <3>1
    <3> QED BY <1>2, <1>4, <1>8, <3>2 DEF n
  <2> QED BY <1>2, <1>4, <1>8, <2>1, <2>2, <2>3, <2>4 DEF n
<1>13. planner' \in Owners
  BY DEF SeedDefaults, Owners
<1>14. \A j \in DOMAIN items : j \in DOMAIN items' /\ items'[j] = items[j]
  BY <1>2, <1>4, <1>8 DEF n
<1> QED BY <1>8, <1>12, <1>13, <1>14 DEF PlanInv, ShowPlanningTypeOK, StarterItemsOnce

\* What a planning request may do to an item that is there: change its claim only to release it,
\* by the claimant or by who manages it, and its level only between levels the planner has.
ItemsRespected ==
  \A i \in DOMAIN items :
    /\ (items[i].claimed # "nobody" /\ items'[i].claimed # items[i].claimed)
         => items'[i].claimed = "nobody" /\ (planner' = items[i].claimed \/ ManagesItem(planner', items[i]))
    /\ items'[i].level # items[i].level => {items[i].level, items'[i].level} \subseteq PlanningLevels(PlannerFacts[planner'])

\* Every planning request keeps the starter items apart, the claims and the levels.
LEMMA PlanningKeeps ==
  ASSUME PlanInv, ShowPlanningNext
  PROVE  PlanInv' /\ ItemsRespected
<1>0. items \in Seq(PlanningItem) /\ \A i \in DOMAIN items : items[i] \in PlanningItem
  BY DEF PlanInv, ShowPlanningTypeOK
<1>1. ASSUME NEW u \in Planners, SeedDefaults(u) PROVE PlanInv' /\ ItemsRespected
  BY <1>1, SeedKeeps DEF ItemsRespected
<1>2. ASSUME NEW u \in Planners, NEW level \in ItemLevels, NEW a \in {"nobody", u}, NEW f \in BOOLEAN,
             ItemAdd(u, [type |-> "volunteer", name |-> "other"], level, a, f)
      PROVE  PlanInv' /\ ItemsRespected
  <2> DEFINE title == [type |-> "volunteer", name |-> "other"]
             new   == [title |-> title, level |-> level, assigned |-> a, claimed |-> "nobody", completed |-> FALSE, family |-> f]
  <2>1. items' = Append(items, new) /\ planner' \in Owners
    BY <1>2 DEF ItemAdd, Owners
  <2>2. title \in {[type |-> t, name |-> "other"] : t \in ItemTypes} /\ title.name = "other"
    BY DEF ItemTypes
  <2>3. title \notin ToSet(Defaults)
    BY <2>2, ShowPlanningAssumption
  <2> HIDE DEF title
  <2>4. new \in PlanningItem /\ new.title = title
    BY <2>2 DEF PlanningItem, Owners
  <2> HIDE DEF new
  <2>5. /\ items' \in Seq(PlanningItem) /\ DOMAIN items' = 1..Len(items) + 1 /\ DOMAIN items = 1..Len(items)
        /\ items'[Len(items) + 1] = new /\ \A j \in 1..Len(items) : items'[j] = items[j]
    BY <1>0, <2>1, <2>4, AppendProperties
  <2>6. StarterItemsOnce'
    BY <2>3, <2>4, <2>5 DEF PlanInv, StarterItemsOnce
  <2> QED BY <2>1, <2>5, <2>6 DEF PlanInv, ShowPlanningTypeOK, ItemsRespected
<1>3. ASSUME NEW u \in Planners, NEW i \in DOMAIN items, NEW level \in ItemLevels, NEW a \in {"nobody", u}, NEW f \in BOOLEAN,
             ItemEdit(u, i, level, a, f)
      PROVE  PlanInv' /\ ItemsRespected
  <2> DEFINE new == [items[i] EXCEPT !.level = level, !.assigned = a, !.family = f]
  <2>1. items' = [items EXCEPT ![i] = new] /\ planner' \in Owners /\ planner' = u
    BY <1>0, <1>3 DEF ItemEdit, Owners
  <2>2. new \in PlanningItem /\ new.title = items[i].title /\ new.claimed = items[i].claimed /\ new.level = level
    BY <1>0 DEF PlanningItem, Owners
  <2> HIDE DEF new
  <2>3. PlanInv' /\ items'[i] = new /\ \A j \in DOMAIN items : j # i => items'[j] = items[j]
    BY <2>1, <2>2, RewriteKeeps DEF RewritesItem
  <2>4. {items[i].level, level} \subseteq PlanningLevels(PlannerFacts[u])
    BY <1>3 DEF ItemEdit, ManagesItem
  <2> QED BY <2>1, <2>2, <2>3, <2>4 DEF ItemsRespected
<1>4. ASSUME NEW u \in Planners, NEW i \in DOMAIN items, NEW clear \in BOOLEAN, ItemClaim(u, i, clear)
      PROVE  PlanInv' /\ ItemsRespected
  <2> DEFINE manages == ManagesItem(u, items[i])
             was == items[i].claimed
             now == IF clear /\ (was = u \/ manages) THEN "nobody" ELSE IF was = "nobody" THEN u ELSE was
             new == [items[i] EXCEPT !.claimed = now]
  <2>1. items' = [items EXCEPT ![i] = new] /\ planner' \in Owners /\ planner' = u
    BY <1>0, <1>4 DEF ItemClaim, Owners
  <2>2. now \in Owners
    BY <1>0 DEF PlanningItem, Owners
  <2>3. was # "nobody" /\ now # was => now = "nobody" /\ (u = was \/ manages)
    OBVIOUS
  <2> HIDE DEF now, manages
  <2>4. new \in PlanningItem /\ new.title = items[i].title /\ new.claimed = now /\ new.level = items[i].level
    BY <1>0, <2>2 DEF PlanningItem
  <2> HIDE DEF new
  <2>5. PlanInv' /\ items'[i] = new /\ \A j \in DOMAIN items : j # i => items'[j] = items[j]
    BY <2>1, <2>4, RewriteKeeps DEF RewritesItem
  <2> QED BY <2>1, <2>3, <2>4, <2>5 DEF ItemsRespected, manages
<1>5. ASSUME NEW u \in Planners, NEW i \in DOMAIN items, ItemComplete(u, i) PROVE PlanInv' /\ ItemsRespected
  <2> DEFINE new == [items[i] EXCEPT !.completed = ~items[i].completed]
  <2>1. items' = [items EXCEPT ![i] = new] /\ planner' \in Owners
    BY <1>0, <1>5 DEF ItemComplete, Owners
  <2>2. new \in PlanningItem /\ new.title = items[i].title /\ new.claimed = items[i].claimed /\ new.level = items[i].level
    BY <1>0 DEF PlanningItem
  <2> HIDE DEF new
  <2>3. PlanInv' /\ items'[i] = new /\ \A j \in DOMAIN items : j # i => items'[j] = items[j]
    BY <2>1, <2>2, RewriteKeeps DEF RewritesItem
  <2> QED BY <2>2, <2>3 DEF ItemsRespected
<1> QED BY <1>1, <1>2, <1>3, <1>4, <1>5 DEF ShowPlanningNext

\* Nothing happened to the plan, so nothing changes.
LEMMA PlanStays == PlanInv /\ UNCHANGED showPlanningVars => PlanInv' /\ ItemsRespected
BY DEF showPlanningVars, PlanInv, ShowPlanningTypeOK, StarterItemsOnce, ItemsRespected

\* The plan of a show starts empty.
LEMMA PlanInitInv == ShowPlanningInit => PlanInv
BY DEF ShowPlanningInit, PlanInv, ShowPlanningTypeOK, StarterItemsOnce, Owners

(*------------- who may enter the Varsity Open Championship ----------------*)

\* A table of finitely many riders with numbers for keys, points and places.
Ranks(table) ==
  /\ DOMAIN table \subseteq Int /\ IsFiniteSet(DOMAIN table)
  /\ \A r \in DOMAIN table : table[r] \in [total : Int, h1Place : Int]

\* Sorting by points, H1 place and key is a strict total order, and being ahead does not look at the key.
LEMMA VocOrder ==
  ASSUME NEW table, Ranks(table), NEW q \in DOMAIN table, NEW r \in DOMAIN table, NEW s \in DOMAIN table
  PROVE  /\ ~VocBefore(table, q, q) /\ ~VocAhead(table, q, q)
         /\ VocBefore(table, q, r) \/ VocBefore(table, r, q) \/ q = r
         /\ VocBefore(table, q, r) => ~VocBefore(table, r, q)
         /\ VocBefore(table, q, r) /\ VocBefore(table, r, s) => VocBefore(table, q, s)
         /\ VocBefore(table, q, r) => VocAhead(table, q, r) \/ VocTied(table, q, r)
         /\ VocBefore(table, q, r) => ~VocAhead(table, r, q)
         /\ VocBefore(table, q, r) /\ VocAhead(table, r, s) => VocAhead(table, q, s)
         /\ VocAhead(table, q, r) /\ VocBefore(table, r, s) => VocAhead(table, q, s)
         /\ VocTied(table, q, r) => ~VocAhead(table, q, r) /\ (VocAhead(table, q, s) <=> VocAhead(table, r, s))
         /\ VocTied(table, q, r) => (VocAhead(table, s, q) <=> VocAhead(table, s, r))
         /\ VocTied(table, q, r) => VocTied(table, r, q)
<1>1. /\ q \in Int /\ r \in Int /\ s \in Int
      /\ table[q] \in [total : Int, h1Place : Int] /\ table[r] \in [total : Int, h1Place : Int]
      /\ table[s] \in [total : Int, h1Place : Int]
  BY DEF Ranks
<1>2. VocTied(table, q, r) <=> table[q].total = table[r].total /\ table[q].h1Place = table[r].h1Place
  BY <1>1 DEF VocTied
<1>3. VocTied(table, q, s) <=> table[q].total = table[s].total /\ table[q].h1Place = table[s].h1Place
  BY <1>1 DEF VocTied
<1>4. VocTied(table, r, s) <=> table[r].total = table[s].total /\ table[r].h1Place = table[s].h1Place
  BY <1>1 DEF VocTied
<1>5. VocTied(table, r, q) <=> VocTied(table, q, r)
  BY DEF VocTied
<1>6. VocTied(table, q, q)
  BY DEF VocTied
<1> DEFINE tq == table[q].total
           tr == table[r].total
           ts == table[s].total
           hq == table[q].h1Place
           hr == table[r].h1Place
           hs == table[s].h1Place
<1>7. tq \in Int /\ tr \in Int /\ ts \in Int /\ hq \in Int /\ hr \in Int /\ hs \in Int
  BY <1>1
<1>8. /\ VocAhead(table, q, r) <=> tq > tr \/ (tq = tr /\ hq < hr)
      /\ VocAhead(table, r, q) <=> tr > tq \/ (tr = tq /\ hr < hq)
      /\ VocAhead(table, q, s) <=> tq > ts \/ (tq = ts /\ hq < hs)
      /\ VocAhead(table, s, q) <=> ts > tq \/ (ts = tq /\ hs < hq)
      /\ VocAhead(table, r, s) <=> tr > ts \/ (tr = ts /\ hr < hs)
      /\ VocAhead(table, s, r) <=> ts > tr \/ (ts = tr /\ hs < hr)
      /\ VocAhead(table, q, q) <=> tq > tq \/ (tq = tq /\ hq < hq)
  BY DEF VocAhead
<1> HIDE DEF tq, tr, ts, hq, hr, hs
<1>9. (VocTied(table, q, r) <=> tq = tr /\ hq = hr) /\ (VocTied(table, q, s) <=> tq = ts /\ hq = hs)
      /\ (VocTied(table, r, s) <=> tr = ts /\ hr = hs)
  BY <1>2, <1>3, <1>4 DEF tq, tr, ts, hq, hr, hs
<1> QED BY <1>1, <1>5, <1>6, <1>7, <1>8, <1>9 DEF VocBefore

\* The table can be sorted: a rider's position is one more than the riders before it.
LEMMA VocSorts ==
  ASSUME NEW table, Ranks(table)
  PROVE  \E s \in SetToSeqs(DOMAIN table) : \A i, j \in DOMAIN s : i < j => VocBefore(table, s[i], s[j])
<1> DEFINE S == DOMAIN table
           n == Cardinality(S)
           first(r) == {q \in S : VocBefore(table, q, r)}
           pos == [r \in S |-> Cardinality(first(r)) + 1]
<1>1. IsFiniteSet(S) /\ n \in Nat
  BY FS_CardinalityType DEF Ranks
<1>2. \A r \in S : first(r) \in SUBSET S /\ r \notin first(r) /\ IsFiniteSet(first(r))
  BY <1>1, VocOrder, FS_Subset
<1>3. ASSUME NEW q \in S, NEW r \in S, VocBefore(table, q, r)
      PROVE  pos[q] < pos[r]
  <2>1. first(q) \cup {q} \in SUBSET first(r)
    BY <1>3, VocOrder
  <2>2. Cardinality(first(q) \cup {q}) = Cardinality(first(q)) + 1
    BY <1>2, FS_AddElement
  <2>3. Cardinality(first(q) \cup {q}) <= Cardinality(first(r))
    BY <1>2, <2>1, FS_Subset
  <2>4. Cardinality(first(q)) \in Nat /\ Cardinality(first(r)) \in Nat
    BY <1>2, FS_CardinalityType
  <2> QED BY <2>2, <2>3, <2>4
<1>4. ASSUME NEW r \in S
      PROVE  pos[r] \in 1..n
  <2>1. first(r) \cup {r} \in SUBSET S
    BY <1>2
  <2>2. Cardinality(first(r) \cup {r}) = Cardinality(first(r)) + 1
    BY <1>2, FS_AddElement
  <2>3. Cardinality(first(r) \cup {r}) <= n
    BY <1>1, <2>1, FS_Subset
  <2>4. Cardinality(first(r)) \in Nat
    BY <1>2, FS_CardinalityType
  <2> QED BY <1>1, <2>2, <2>3, <2>4
<1>5. \A q, r \in S : pos[q] = pos[r] => q = r
  <2> SUFFICES ASSUME NEW q \in S, NEW r \in S, pos[q] = pos[r] PROVE q = r
    OBVIOUS
  <2>1. pos[q] \in Int /\ pos[r] \in Int
    BY <1>4
  <2>2. ~VocBefore(table, q, r) /\ ~VocBefore(table, r, q)
    BY <1>3, <2>1
  <2> QED BY <2>2, VocOrder
<1> HIDE DEF pos
<1>6. pos \in [S -> 1..n]
  BY <1>4 DEF pos
<1>7. pos \in Injection(S, 1..n)
  BY <1>5, <1>6 DEF Injection, IsInjective
<1>8. IsFiniteSet(1..n) /\ Cardinality(1..n) = n
  BY <1>1, FS_Interval
<1>9. pos \in Surjection(S, 1..n)
  BY <1>7, <1>8, FS_Injection
<1>10. \A i \in 1..n : \E r \in S : pos[r] = i
  BY <1>9 DEF Surjection
<1> DEFINE s == [i \in 1..n |-> CHOOSE r \in S : pos[r] = i]
<1>11. \A i \in 1..n : s[i] \in S /\ pos[s[i]] = i
  BY <1>10
<1>12. s \in [1..n -> S] /\ DOMAIN s = 1..n
  BY <1>11
<1> HIDE DEF s
<1>13. s \in SetToSeqs(S)
  BY <1>11, <1>12 DEF SetToSeqs
<1>14. ASSUME NEW i \in DOMAIN s, NEW j \in DOMAIN s, i < j PROVE VocBefore(table, s[i], s[j])
  <2>1. s[i] \in S /\ s[j] \in S /\ pos[s[i]] = i /\ pos[s[j]] = j /\ i \in Int /\ j \in Int
    BY <1>1, <1>11, <1>12
  <2>2. ~VocBefore(table, s[j], s[i])
    BY <1>3, <1>14, <2>1
  <2>3. s[i] # s[j]
    BY <1>14, <2>1
  <2> QED BY <2>1, <2>2, <2>3, VocOrder
<1> QED BY <1>13, <1>14

\* The ranked list holds each rider once, in order.
LEMMA VocIsRanked ==
  ASSUME NEW table, Ranks(table)
  PROVE  LET s == VocRanked(table)
             n == Cardinality(DOMAIN table)
         IN /\ n \in Nat /\ s \in [1..n -> DOMAIN table] /\ Len(s) = n /\ s \in Seq(DOMAIN table)
            /\ \A i, j \in 1..n : s[i] = s[j] => i = j
            /\ \A i, j \in 1..n : i < j => VocBefore(table, s[i], s[j])
            /\ \A r \in DOMAIN table : \E i \in 1..n : s[i] = r
<1> DEFINE s == VocRanked(table)
           S == DOMAIN table
           n == Cardinality(S)
<1>1. s \in SetToSeqs(S) /\ \A i, j \in DOMAIN s : i < j => VocBefore(table, s[i], s[j])
  BY VocSorts DEF VocRanked
<1>2. IsFiniteSet(S) /\ n \in Nat
  BY FS_CardinalityType DEF Ranks
<1> HIDE DEF s
<1>3. s \in [1..n -> S] /\ DOMAIN s = 1..n /\ \A i, j \in 1..n : s[i] = s[j] => i = j
  BY <1>1 DEF SetToSeqs
<1>4. s \in Injection(1..n, S)
  BY <1>3 DEF Injection, IsInjective
<1>5. Cardinality(1..n) = n
  BY <1>2, FS_Interval
<1>6. s \in Surjection(1..n, S)
  BY <1>2, <1>4, <1>5, FS_Injection
<1>7. \A r \in S : \E i \in 1..n : s[i] = r
  BY <1>6 DEF Surjection
<1>8. s \in Seq(S) /\ Len(s) = n
  BY <1>2, <1>3
<1> QED BY <1>1, <1>2, <1>3, <1>7, <1>8 DEF s

\* The place of a row in the ranking, against the cutoff: it is before it or tied with the row there.
WithinCut(table, cutoff, i) == i <= cutoff \/ VocTied(table, VocRanked(table)[i], VocRanked(table)[cutoff])

\* The rows from the cutoff to a row that ties with it all tie.
LEMMA VocTiesRun ==
  ASSUME NEW table, Ranks(table), NEW cutoff \in Nat \ {0}, NEW i \in 1..Cardinality(DOMAIN table)
  PROVE  WithinCut(table, cutoff, i)
           <=> i <= cutoff \/ \A j \in cutoff + 1..i : VocTied(table, VocRanked(table)[j], VocRanked(table)[cutoff])
<1> DEFINE s == VocRanked(table)
           n == Cardinality(DOMAIN table)
<1>1. /\ n \in Nat /\ \A j \in 1..n : s[j] \in DOMAIN table
      /\ \A j, k \in 1..n : j < k => VocBefore(table, s[j], s[k])
  BY VocIsRanked
<1> HIDE DEF s, n
<1>2. ASSUME i > cutoff, VocTied(table, s[i], s[cutoff]), NEW j \in cutoff + 1..i PROVE VocTied(table, s[j], s[cutoff])
  <2>1. i \in 1..n /\ cutoff \in 1..n /\ j \in 1..n /\ cutoff < j /\ j <= i
    BY <1>1, <1>2 DEF n
  <2>2. s[i] \in DOMAIN table /\ s[cutoff] \in DOMAIN table /\ s[j] \in DOMAIN table
    BY <1>1, <2>1
  <2>3. VocBefore(table, s[cutoff], s[j]) /\ (j = i \/ VocBefore(table, s[j], s[i]))
    BY <1>1, <2>1
  <2>4. CASE j = i
    BY <1>2, <2>4
  <2>5. CASE VocBefore(table, s[j], s[i])
    <3>1. ~VocAhead(table, s[cutoff], s[i])
      BY <1>2, <2>2, VocOrder
    <3>2. ~VocAhead(table, s[cutoff], s[j])
      BY <2>2, <2>5, <3>1, VocOrder
    <3>3. VocTied(table, s[cutoff], s[j])
      BY <2>2, <2>3, <3>2, VocOrder
    <3> QED BY <2>2, <3>3, VocOrder
  <2> QED BY <2>3, <2>4, <2>5
<1>3. i \in Nat /\ (i <= cutoff \/ i \in cutoff + 1..i)
  BY <1>1 DEF n
<1> QED BY <1>2, <1>3 DEF WithinCut, s

\* Fewer than cutoff riders are ahead of a row exactly when the row is within the cut.
LEMMA VocAheadCount ==
  ASSUME NEW table, Ranks(table), NEW cutoff \in Nat \ {0}, NEW i \in 1..Cardinality(DOMAIN table)
  PROVE  Cardinality({q \in DOMAIN table : VocAhead(table, q, VocRanked(table)[i])}) < cutoff <=> WithinCut(table, cutoff, i)
<1> DEFINE s == VocRanked(table)
           n == Cardinality(DOMAIN table)
           A == {q \in DOMAIN table : VocAhead(table, q, s[i])}
           J == {j \in 1..n : VocAhead(table, s[j], s[i])}
           f == [j \in J |-> s[j]]
<1>1. /\ n \in Nat /\ \A j \in 1..n : s[j] \in DOMAIN table
      /\ \A j, k \in 1..n : s[j] = s[k] => j = k
      /\ \A j, k \in 1..n : j < k => VocBefore(table, s[j], s[k])
      /\ \A r \in DOMAIN table : \E j \in 1..n : s[j] = r
  BY VocIsRanked
<1>2. i \in 1..n
  OBVIOUS
<1> HIDE DEF s, n
<1>3. f \in [J -> A] /\ (\A j, k \in J : f[j] = f[k] => j = k) /\ \A q \in A : \E j \in J : f[j] = q
  BY <1>1
<1>4. ExistsBijection(J, A)
  BY <1>3 DEF ExistsBijection, Bijection, Injection, Surjection, IsInjective
<1>5. IsFiniteSet(1..n) /\ J \in SUBSET (1..n)
  BY <1>1, FS_Interval
<1>6. IsFiniteSet(J)
  BY <1>5, FS_Subset
<1>7. Cardinality(A) = Cardinality(J) /\ Cardinality(J) \in Nat
  BY <1>4, <1>6, FS_Bijection, FS_CardinalityType
<1>8. \A j \in J : j < i
  <2> SUFFICES ASSUME NEW j \in J, j >= i PROVE FALSE
    BY <1>1, <1>2
  <2>1. s[j] \in DOMAIN table /\ s[i] \in DOMAIN table /\ (i = j \/ VocBefore(table, s[i], s[j]))
    BY <1>1, <1>2
  <2> QED BY <2>1, VocOrder
<1>9. \A m \in 0..n : IsFiniteSet(1..m) /\ Cardinality(1..m) = m
  BY <1>1, FS_Interval
<1>10. ASSUME NEW m \in 0..n, J \subseteq 1..m PROVE Cardinality(J) <= m
  BY <1>9, <1>10, FS_Subset
<1>11. ASSUME NEW m \in 0..n, 1..m \subseteq J PROVE m <= Cardinality(J)
  BY <1>6, <1>9, <1>11, FS_Subset
<1> HIDE DEF J, A
<1>12. CASE i <= cutoff
  <2>1. J \subseteq 1..(i - 1) /\ i - 1 \in 0..n
    BY <1>1, <1>2, <1>8 DEF J
  <2>2. Cardinality(J) <= i - 1
    BY <1>10, <2>1
  <2> QED BY <1>1, <1>2, <1>7, <1>12, <2>2 DEF WithinCut, A, s
<1>13. CASE i > cutoff
  <2>0. cutoff \in 1..n /\ s[cutoff] \in DOMAIN table /\ s[i] \in DOMAIN table /\ VocBefore(table, s[cutoff], s[i])
    BY <1>1, <1>2, <1>13
  <2>1. CASE VocTied(table, s[i], s[cutoff])
    <3>1. ASSUME NEW j \in J, j >= cutoff PROVE FALSE
      <4>1. j \in 1..n /\ s[j] \in DOMAIN table /\ VocAhead(table, s[j], s[i])
        BY <1>1 DEF J
      <4>2. VocAhead(table, s[j], s[cutoff])
        BY <2>0, <2>1, <4>1, VocOrder
      <4>3. j = cutoff \/ VocBefore(table, s[cutoff], s[j])
        BY <1>1, <2>0, <3>1, <4>1
      <4> QED BY <2>0, <4>1, <4>2, <4>3, VocOrder
    <3>2. J \subseteq 1..(cutoff - 1) /\ cutoff - 1 \in 0..n
      BY <1>1, <2>0, <3>1 DEF J
    <3>3. Cardinality(J) <= cutoff - 1
      BY <1>10, <3>2
    <3> QED BY <1>7, <2>1, <3>3 DEF WithinCut, A, s
  <2>2. CASE ~VocTied(table, s[i], s[cutoff])
    <3>1. VocAhead(table, s[cutoff], s[i])
      BY <2>0, <2>2, VocOrder
    <3>2. ASSUME NEW j \in 1..cutoff PROVE j \in J
      <4>1. j \in 1..n /\ s[j] \in DOMAIN table /\ (j = cutoff \/ VocBefore(table, s[j], s[cutoff]))
        BY <1>1, <2>0
      <4>2. VocAhead(table, s[j], s[i])
        BY <2>0, <3>1, <4>1, VocOrder
      <4> QED BY <4>1, <4>2 DEF J
    <3>3. cutoff \in 0..n /\ cutoff <= Cardinality(J)
      BY <1>1, <1>11, <2>0, <3>2
    <3> QED BY <1>7, <1>13, <2>2, <3>3 DEF WithinCut, A, s
  <2> QED BY <2>1, <2>2
<1> QED BY <1>1, <1>2, <1>12, <1>13

\* The list the code returns is the beginning of the ranking, up to the last row within the cut.
LEMMA VocListCuts ==
  ASSUME NEW table, Ranks(table), NEW cutoff \in Nat \ {0}
  PROVE  \E m \in 0..Cardinality(DOMAIN table) :
           /\ VocList(table, cutoff) \in Seq(DOMAIN table) /\ Len(VocList(table, cutoff)) = m
           /\ \A i \in 1..m : VocList(table, cutoff)[i] = VocRanked(table)[i]
           /\ \A i \in 1..Cardinality(DOMAIN table) : i <= m <=> WithinCut(table, cutoff, i)
<1> DEFINE s == VocRanked(table)
           n == Cardinality(DOMAIN table)
           kept == {i \in 1..Len(s) : i <= cutoff \/ \A j \in cutoff + 1..i : VocTied(table, s[j], s[cutoff])}
           list == IF Len(s) <= cutoff THEN s ELSE SubSeq(s, 1, Cardinality(kept))
<1>1. n \in Nat /\ s \in Seq(DOMAIN table) /\ Len(s) = n
  BY VocIsRanked
<1>2. VocList(table, cutoff) = list
  BY DEF VocList
<1>3. \A i \in 1..n : WithinCut(table, cutoff, i) <=> i <= cutoff \/ \A j \in cutoff + 1..i : VocTied(table, s[j], s[cutoff])
  BY VocTiesRun
<1>4. CASE n <= cutoff
  <2>1. list = s /\ n \in 0..n /\ \A i \in 1..n : i <= n <=> WithinCut(table, cutoff, i)
    BY <1>1, <1>4 DEF WithinCut
  <2> HIDE DEF list, s
  <2> QED BY <1>1, <1>2, <2>1 DEF s
<1>5. CASE n > cutoff
  <2> HIDE DEF s, n
  <2>1. kept \in SUBSET (1..n) /\ IsFiniteSet(1..n) /\ cutoff \in kept
    BY <1>1, <1>5, FS_Interval
  <2>a. IsFiniteSet(kept)
    BY <2>1, FS_Subset
  <2>b. 1..n \subseteq Int
    BY <1>1
  <2>2. IsFiniteSet(kept) /\ kept \in SUBSET Int /\ kept # {}
    BY <2>1, <2>a, <2>b
  <2> HIDE DEF kept
  <2>3. PICK m \in kept : \A x \in kept : x <= m
    BY <2>2, FiniteMax
  <2>4. m \in 1..n
    BY <2>1, <2>3
  <2>5. \A i \in 1..n : i \in kept <=> WithinCut(table, cutoff, i)
    BY <1>1, <1>3 DEF kept
  <2>6. \A i \in 1..m : i \in kept
    BY <1>1, <2>3, <2>4 DEF kept
  <2>c. \A i \in kept : i \in 1..m
    BY <1>1, <2>1, <2>3, <2>4
  <2>7. kept = 1..m
    BY <2>6, <2>c
  <2>8. Cardinality(kept) = m
    BY <1>1, <2>4, <2>7, FS_Interval
  <2>d. ~(Len(s) <= cutoff)
    BY <1>1, <1>5
  <2>9. list = SubSeq(s, 1, m)
    BY <2>8, <2>d
  <2>e. m \in 1..Len(s) + 1 /\ m \in Int
    BY <1>1, <2>4
  <2>g. \A i \in 1..m : i \in 1..n
    BY <1>1, <2>4
  <2>f. 1 \in Int /\ \A i \in 1..m : s[i] \in DOMAIN table
    BY <1>1, <2>g
  <2>10. list \in Seq(DOMAIN table) /\ Len(list) = m /\ \A i \in 1..m : list[i] = s[i]
    <3>1. SubSeq(s, 1, m) \in Seq(DOMAIN table)
      BY <2>e, <2>f, SubSeqProperties
    <3>2. Len(SubSeq(s, 1, m)) = m /\ \A i \in 1..m : SubSeq(s, 1, m)[i] = s[i]
      BY <1>1, <2>4, <2>e
    <3> QED BY <2>9, <3>1, <3>2
  <2>11. m \in 0..n /\ \A i \in 1..n : i <= m <=> WithinCut(table, cutoff, i)
    BY <1>1, <2>4, <2>5, <2>7
  <2> HIDE DEF list
  <2> QED BY <1>2, <2>10, <2>11 DEF s, n
<1> QED BY <1>1, <1>4, <1>5

\* The rule and its marks, for every table and cutoff: nobody behind the cutoff is listed, nobody
\* tied with it is left out, and the rows marked are those among which a judge's card must decide.
THEOREM VocRule ==
  ASSUME NEW table, Ranks(table), NEW cutoff \in Nat \ {0}
  PROVE  VocListIsTheRule(table, cutoff) /\ VocMarksAreUndecided(table, cutoff)
<1> DEFINE s == VocRanked(table)
           n == Cardinality(DOMAIN table)
           list == VocList(table, cutoff)
           C == VocCandidates(table, cutoff)
<1>1. /\ n \in Nat /\ \A j \in 1..n : s[j] \in DOMAIN table
      /\ \A j, k \in 1..n : s[j] = s[k] => j = k
      /\ \A j, k \in 1..n : j < k => VocBefore(table, s[j], s[k])
      /\ \A r \in DOMAIN table : \E j \in 1..n : s[j] = r
  BY VocIsRanked
<1>2. PICK m \in 0..n : /\ list \in Seq(DOMAIN table) /\ Len(list) = m /\ \A i \in 1..m : list[i] = s[i]
                        /\ \A i \in 1..n : i <= m <=> WithinCut(table, cutoff, i)
  BY VocListCuts
<1>3. \A i \in 1..n : s[i] \in C <=> i <= m
  BY <1>1, <1>2, VocAheadCount DEF VocCandidates
<1>4. C \subseteq DOMAIN table
  BY DEF VocCandidates
<1> HIDE DEF s, n, list, C
<1>5. ToSet(list) = {s[i] : i \in 1..m}
  <2>1. DOMAIN list = 1..m
    BY <1>2
  <2>2. ToSet(list) = {list[i] : i \in 1..m}
    BY <2>1 DEF ToSet
  <2>3. \A i \in 1..m : list[i] = s[i]
    BY <1>2
  <2> QED BY <2>2, <2>3
<1>6. C = {s[i] : i \in 1..m}
  <2>1. \A r \in C : \E i \in 1..m : r = s[i]
    <3> TAKE r \in C
    <3>1. PICK i \in 1..n : s[i] = r
      BY <1>1, <1>4
    <3>2. i \in 1..m
      BY <1>1, <1>2, <1>3, <3>1
    <3> QED BY <3>1, <3>2
  <2>2. \A i \in 1..m : s[i] \in C
    BY <1>1, <1>2, <1>3
  <2> QED BY <2>1, <2>2
<1>7. VocListIsTheRule(table, cutoff)
  BY <1>5, <1>6 DEF VocListIsTheRule, list, C
<1>8. Cardinality(C) = m
  <2> DEFINE f == [i \in 1..m |-> s[i]]
  <2>1. f \in [1..m -> C] /\ (\A j, k \in 1..m : f[j] = f[k] => j = k) /\ \A q \in C : \E j \in 1..m : f[j] = q
    BY <1>1, <1>6
  <2>2. ExistsBijection(1..m, C)
    BY <2>1 DEF ExistsBijection, Bijection, Injection, Surjection, IsInjective
  <2>3. IsFiniteSet(1..m) /\ Cardinality(1..m) = m
    BY <1>1, FS_Interval
  <2> QED BY <2>2, <2>3, FS_Bijection
<1>9. ASSUME NEW r \in DOMAIN table
      PROVE  r \in VocMarked(table, cutoff)
               <=> r \in C /\ Cardinality(C) > cutoff /\ ~ \E q \in C : VocAhead(table, r, q)
  <2>1. CASE m <= cutoff
    <3>1. VocMarked(table, cutoff) = {}
      BY <1>2, <2>1 DEF VocMarked, list
    <3> QED BY <1>1, <1>2, <1>8, <2>1, <3>1
  <2>2. CASE m > cutoff
    <3>0. cutoff \in 1..m /\ cutoff \in 1..n /\ list[cutoff] = s[cutoff] /\ s[cutoff] \in DOMAIN table /\ s[cutoff] \in C
      <4>1. m \in Nat /\ m <= n /\ n \in Nat
        BY <1>1
      <4>2. cutoff \in 1..m /\ cutoff \in 1..n
        BY <2>2, <4>1
      <4>3. list[cutoff] = s[cutoff]
        BY <1>2, <4>2
      <4>4. s[cutoff] \in DOMAIN table
        BY <1>1, <4>2
      <4>5. s[cutoff] \in C
        BY <1>3, <2>2, <4>1, <4>2
      <4> QED BY <4>2, <4>3, <4>4, <4>5
    <3>1. VocMarked(table, cutoff) = {q \in C : VocTied(table, q, s[cutoff])}
      BY <1>2, <1>5, <1>6, <2>2, <3>0 DEF VocMarked, list
    <3>2. ASSUME r \in C, VocTied(table, r, s[cutoff]), NEW q \in C, VocAhead(table, r, q) PROVE FALSE
      <4>1. PICK k \in 1..m : q = s[k]
        BY <1>6
      <4>2. k \in 1..n /\ s[k] \in DOMAIN table
        BY <1>1, <1>2
      <4>3. VocAhead(table, s[cutoff], s[k])
        BY <3>0, <3>2, <4>1, <4>2, VocOrder
      <4>4. ~(k <= cutoff)
        <5> SUFFICES ASSUME k <= cutoff PROVE FALSE
          OBVIOUS
        <5>1. k = cutoff \/ VocBefore(table, s[k], s[cutoff])
          BY <1>1, <3>0, <4>2
        <5> QED BY <3>0, <4>2, <4>3, <5>1, VocOrder
      <4>5. VocTied(table, s[k], s[cutoff])
        BY <1>2, <4>2, <4>4 DEF WithinCut, s
      <4> QED BY <3>0, <4>2, <4>3, <4>5, VocOrder
    <3>3. ASSUME r \in C, ~VocTied(table, r, s[cutoff]) PROVE VocAhead(table, r, s[cutoff])
      <4>1. PICK i \in 1..m : r = s[i]
        BY <1>6, <3>3
      <4>2. i \in 1..n /\ WithinCut(table, cutoff, i)
        BY <1>1, <1>2
      <4>3. i <= cutoff
        BY <3>3, <4>1, <4>2 DEF WithinCut, s
      <4>4. i # cutoff
        BY <3>3, <4>1 DEF VocTied
      <4>5. VocBefore(table, s[i], s[cutoff])
        BY <1>1, <3>0, <4>2, <4>3, <4>4
      <4> QED BY <1>1, <3>0, <3>3, <4>1, <4>2, <4>5, VocOrder
    <3> QED BY <1>8, <2>2, <3>0, <3>1, <3>2, <3>3
  <2> QED BY <1>1, <1>2, <2>1, <2>2
<1>10. VocMarksAreUndecided(table, cutoff)
  BY <1>9 DEF VocMarksAreUndecided, C
<1> QED BY <1>7, <1>10

(*---------------------------- past seasons -------------------------------*)

\* A row of a preview: the riders and classes it names are rows there can be, and a class it
\* will create has a squad.
PreviewRow ==
  [number : Numbers \cup {NoNumber}, name : FullNames, meet : Meets, track : RideTracks, points : Nat,
   rider : RosterIds \cup {NoId}, createRider : BOOLEAN, level : SeatLevels \cup {""}, setNumber : BOOLEAN,
   class : ClassIds \cup {NoId}, className : ClassNames, createClass : BOOLEAN, assign : BOOLEAN,
   errors : BOOLEAN, duplicate : BOOLEAN]
Previewed == {row \in PreviewRow : row.createClass => row.level # ""}

RideRow == [show : MeetRows, class : ClassIds, rider : RosterIds, track : RideTracks, scratched : BOOLEAN,
            pointRider : BOOLEAN, result : Nat \cup {NoResult}]
ShowStates == {"none", "planning", "complete"}
Archive == [riders : [RosterIds -> RosterRider], seats : [RosterIds -> Seat], classes : [ClassIds -> ClassTaught],
            meets : [MeetRows -> ShowStates], showClasses : SUBSET (MeetRows \X ClassIds), results : SUBSET RideRow]

\* No two entries for one ride, every entry in a class row, and every class row in a show that is there.
RidesPlaced(db) ==
  /\ \A e, o \in db.results : RideKey(e) = RideKey(o) => e = o
  /\ \A e \in db.results : <<e.show, e.class>> \in db.showClasses
  /\ \A sc \in db.showClasses : db.meets[sc[1]] # "none"

HistInv ==
  /\ archive \in Archive /\ RidesPlaced(archive)
  /\ previews \in [Importers -> Seq(Previewed)]

\* What is assumed of the rows there can be, one fact at a time.
LEMMA HistoryRows ==
  /\ RosterIds \subseteq Nat /\ 0 \notin RosterIds /\ IsFiniteSet(RosterIds)
  /\ ClassIds \subseteq Nat /\ 0 \notin ClassIds
  /\ FullNames \subseteq Nat /\ Numbers \subseteq Nat /\ Scores \subseteq Nat
  /\ \A file \in Files : file \in Seq(SourceLine)
  /\ \A lines \in Templates : lines \in Seq(SourceLine)
<1>1. RosterIds \subseteq Nat /\ 0 \notin RosterIds /\ IsFiniteSet(RosterIds) /\ ClassIds \subseteq Nat /\ 0 \notin ClassIds
  BY HistoryAssumption DEF NoId
<1>2. FullNames \subseteq Nat /\ Numbers \subseteq Nat /\ Scores \subseteq Nat
  BY HistoryAssumption
<1>3. Files \subseteq Seq(SourceLine) /\ Templates \subseteq Seq(SourceLine)
  BY HistoryAssumption
<1> QED BY <1>1, <1>2, <1>3

\* The roster is ordered by name and then by row, without ties.
LEMMA RosterOrders ==
  ASSUME NEW db, db.riders \in [RosterIds -> RosterRider], NEW q \in RosterIds, NEW r \in RosterIds, NEW s \in RosterIds
  PROVE  /\ InRosterOrder(db, q, q)
         /\ InRosterOrder(db, q, r) \/ InRosterOrder(db, r, q)
         /\ InRosterOrder(db, q, r) /\ InRosterOrder(db, r, s) => InRosterOrder(db, q, s)
<1>1. db.riders[q].name \in Nat /\ db.riders[r].name \in Nat /\ db.riders[s].name \in Nat
  <2>1. \A x \in RosterRider : x.name \in Nat
    <3>1. FullNames \subseteq Nat
      BY HistoryRows
    <3>2. ASSUME NEW x \in RosterRider PROVE x.name \in FullNames \/ x.name = 0
      BY DEF RosterRider, NoName
    <3>3. \A x \in FullNames : x \in Nat
      BY <3>1
    <3> QED BY <3>2, <3>3
  <2>2. db.riders[q] \in RosterRider /\ db.riders[r] \in RosterRider /\ db.riders[s] \in RosterRider
    OBVIOUS
  <2> QED BY <2>1, <2>2
<1>2. q \in Nat /\ r \in Nat /\ s \in Nat
  BY HistoryAssumption
<1> QED BY <1>1, <1>2 DEF InRosterOrder

\* So some riders of the roster have a first and a last one.
LEMMA RosterEnds ==
  ASSUME NEW db, db.riders \in [RosterIds -> RosterRider], NEW rs \in SUBSET RosterIds, rs # {}
  PROVE  FirstRider(db, rs) \in rs /\ LastRider(db, rs) \in rs
<1> DEFINE F == {T \in SUBSET rs : T = {} \/ ( /\ \E r \in T : \A q \in T : InRosterOrder(db, r, q)
                                               /\ \E r \in T : \A q \in T : InRosterOrder(db, q, r) )}
<1>1. {} \in F
  OBVIOUS
<1>2. ASSUME NEW T \in SUBSET rs, NEW x \in rs, T \in F PROVE T \cup {x} \in F
  <2>1. CASE T = {}
    <3>1. InRosterOrder(db, x, x)
      BY RosterOrders
    <3> QED BY <2>1, <3>1
  <2>2. CASE T # {}
    <3>1. PICK a \in T : \A q \in T : InRosterOrder(db, a, q)
      BY <1>2, <2>2
    <3>2. PICK b \in T : \A q \in T : InRosterOrder(db, q, b)
      BY <1>2, <2>2
    <3>3. \E r \in T \cup {x} : \A q \in T \cup {x} : InRosterOrder(db, r, q)
      <4>1. CASE InRosterOrder(db, a, x)
        BY <3>1, <4>1
      <4>2. CASE ~InRosterOrder(db, a, x)
        <5>1. InRosterOrder(db, x, a) /\ InRosterOrder(db, x, x)
          BY <4>2, RosterOrders
        <5>2. \A q \in T : InRosterOrder(db, x, q)
          BY <3>1, <5>1, RosterOrders
        <5> QED BY <5>1, <5>2
      <4> QED BY <4>1, <4>2
    <3>4. \E r \in T \cup {x} : \A q \in T \cup {x} : InRosterOrder(db, q, r)
      <4>1. CASE InRosterOrder(db, x, b)
        BY <3>2, <4>1
      <4>2. CASE ~InRosterOrder(db, x, b)
        <5>1. InRosterOrder(db, b, x) /\ InRosterOrder(db, x, x)
          BY <4>2, RosterOrders
        <5>2. \A q \in T : InRosterOrder(db, q, x)
          BY <3>2, <5>1, RosterOrders
        <5> QED BY <5>1, <5>2
      <4> QED BY <4>1, <4>2
    <3> QED BY <3>3, <3>4
  <2> QED BY <2>1, <2>2
<1>3. IsFiniteSet(rs)
  BY HistoryAssumption, FS_Subset
<1> HIDE DEF F
<1>4. rs \in F
  BY <1>1, <1>2, <1>3, FiniteSetInduction
<1>5. (\E r \in rs : \A q \in rs : InRosterOrder(db, r, q)) /\ \E r \in rs : \A q \in rs : InRosterOrder(db, q, r)
  BY <1>4 DEF F
<1> QED BY <1>5 DEF FirstRider, LastRider

\* The rider a source line is matched to is on the roster, or nobody.
LEMMA MatchedOnRoster ==
  ASSUME NEW db, db.riders \in [RosterIds -> RosterRider], NEW line
  PROVE  MatchedRider(db, line) \in RosterIds \cup {NoId}
<1> DEFINE named == {r \in Named(db, line.name) : ~Ambiguous(db, line.name)
                       /\ (line.number = NoNumber \/ db.riders[r].number \in {NoNumber, line.number})}
<1>1. NumberHolders(db, line.number) \in SUBSET RosterIds
  BY DEF NumberHolders, RosterRiders
<1>2. NumberHolders(db, line.number) # {} => LastRider(db, NumberHolders(db, line.number)) \in RosterIds
  BY <1>1, RosterEnds
<1>3. named \subseteq RosterIds
  BY DEF Named, RosterRiders
<1> QED BY <1>2, <1>3 DEF MatchedRider

\* The squad of a line is that of the rider's seat, of the class's wording or of the rider's grade.
LEMMA SquadIsLevel ==
  ASSUME NEW db \in Archive, NEW line \in SourceLine, NEW r \in RosterIds \cup {NoId}
  PROVE  SquadOf(db, line, r) \in SeatLevels \cup {""} /\ SeatOf(db, r) \in Seat
<1>1. db.seats \in [RosterIds -> Seat]
  BY DEF Archive
<1>2. SeatOf(db, r) \in Seat
  BY <1>1 DEF SeatOf, Seat
<1>3. line.class \in ClassNames
  BY DEF SourceLine
<1>4. NamedLevel[line.class] \in SeatLevels \cup {""} /\ (r # NoId => GradeLevel[r] \in SeatLevels \cup {""})
  BY <1>3, HistoryAssumption
<1>5. InferredLevel(line.class, r) \in SeatLevels \cup {""}
  BY <1>4 DEF InferredLevel
<1> QED BY <1>2, <1>5 DEF SquadOf, Seat

\* A resolved line is a row of a preview.
LEMMA ResolvedIsRow ==
  ASSUME NEW db \in Archive, NEW line \in SourceLine, NEW bootstrap \in BOOLEAN
  PROVE  Resolved(db, line, bootstrap) \in Previewed
<1> DEFINE r        == MatchedRider(db, line)
           seat     == SeatOf(db, r)
           level    == SquadOf(db, line, r)
           fitting  == Compatible(db, line.class, level)
           c        == IF Cardinality(fitting) = 1 THEN CHOOSE d \in fitting : TRUE ELSE NoId
           newClass == fitting = {} /\ bootstrap /\ level # ""
           refused  == RiderRefused(db, line, r, bootstrap)
           noClass  == \/ Cardinality(fitting) > 1
                       \/ c # NoId /\ seat.held /\ c \notin seat.classes /\ ~bootstrap
                       \/ fitting = {} /\ ~newClass
           barred   == line.track = "team" /\ line.class \in WalkTrot
           create   == r = NoId /\ ~refused
           number   == r # NoId /\ line.number # NoNumber /\ db.riders[r].number = NoNumber /\ ~refused
           assign   == newClass \/ (c # NoId /\ seat.held /\ c \notin seat.classes /\ bootstrap)
           errors   == refused \/ noClass \/ barred
           row      == [number |-> line.number, name |-> line.name, meet |-> line.meet, track |-> line.track,
                        points |-> line.points, rider |-> r, createRider |-> create, level |-> level,
                        setNumber |-> number, class |-> c, className |-> line.class, createClass |-> newClass,
                        assign |-> assign, errors |-> errors, duplicate |-> FALSE]
<1>1. r \in RosterIds \cup {NoId}
  BY MatchedOnRoster DEF Archive
<1>2. level \in SeatLevels \cup {""}
  BY <1>1, SquadIsLevel
<1>3. c \in ClassIds \cup {NoId}
  <2>1. fitting \subseteq ClassIds
    BY DEF Compatible, Taught
  <2>2. CASE Cardinality(fitting) = 1 /\ fitting # {}
    BY <2>1, <2>2
  <2>3. CASE fitting = {}
    <3>1. Cardinality({}) = 0
      BY FS_EmptySet
    <3> QED BY <2>3, <3>1
  <2>4. CASE Cardinality(fitting) # 1
    BY <2>4
  <2> QED BY <2>2, <2>3, <2>4
<1>4. Resolved(db, line, bootstrap) = row
  BY DEF Resolved
<1>5. create \in BOOLEAN /\ number \in BOOLEAN /\ newClass \in BOOLEAN /\ assign \in BOOLEAN /\ errors \in BOOLEAN
  OBVIOUS
<1>6. newClass => level # ""
  OBVIOUS
<1>7. /\ line.number \in Numbers \cup {NoNumber} /\ line.name \in FullNames /\ line.meet \in Meets
      /\ line.track \in RideTracks /\ line.points \in Nat /\ line.class \in ClassNames
  BY DEF SourceLine
<1> HIDE DEF r, level, c, create, number, newClass, assign, errors
<1>8. row \in PreviewRow
  BY <1>1, <1>2, <1>3, <1>5, <1>7 DEF PreviewRow
<1>9. row.createClass => row.level # ""
  BY <1>6
<1> QED BY <1>4, <1>8, <1>9 DEF Previewed

\* Fields of the right kinds make a row of the portal's own form.
LEMMA TemplateFields ==
  ASSUME NEW line \in SourceLine, NEW errors, errors \in BOOLEAN, NEW track \in RideTracks,
         NEW r \in RosterIds \cup {NoId}, NEW c \in ClassIds \cup {NoId}
  PROVE  [number |-> NoNumber, name |-> line.name, meet |-> line.meet, track |-> track, points |-> line.points,
          rider |-> r, createRider |-> FALSE, level |-> "", setNumber |-> FALSE, class |-> c, className |-> line.class,
          createClass |-> FALSE, assign |-> FALSE, errors |-> errors, duplicate |-> FALSE] \in Previewed
<1>1. /\ line.name \in FullNames /\ line.meet \in Meets /\ line.points \in Nat /\ line.class \in ClassNames
  BY DEF SourceLine
<1>2. FALSE \in BOOLEAN /\ "" \in SeatLevels \cup {""} /\ NoNumber \in Numbers \cup {NoNumber}
  OBVIOUS
<1> QED BY <1>1, <1>2 DEF PreviewRow, Previewed

\* A line of the portal's own form is a row of a preview.
LEMMA TemplateIsRow ==
  ASSUME NEW db \in Archive, NEW line \in SourceLine
  PROVE  TemplateLine(db, line) \in Previewed
<1> DEFINE seated == {r \in Named(db, line.name) : db.seats[r].held}
           r      == IF Cardinality(seated) = 1 THEN CHOOSE q \in seated : TRUE ELSE NoId
           having == {c \in SeatOf(db, r).classes : db.classes[c].name = line.class}
           c      == IF Cardinality(having) = 1 THEN CHOOSE d \in having : TRUE ELSE NoId
           track  == IF line.meet \in RegularMeets THEN "regular" ELSE line.track
           barred == track = "team" /\ line.class \in WalkTrot
           errors == r = NoId \/ c = NoId \/ barred \/ track \notin TracksOf(line.meet)
           row    == [number |-> NoNumber, name |-> line.name, meet |-> line.meet, track |-> track, points |-> line.points,
                      rider |-> r, createRider |-> FALSE, level |-> "", setNumber |-> FALSE, class |-> c,
                      className |-> line.class, createClass |-> FALSE, assign |-> FALSE, errors |-> errors,
                      duplicate |-> FALSE]
<1>0. Cardinality({}) = 0
  BY FS_EmptySet
<1>1. seated \subseteq RosterIds
  BY DEF Named, RosterRiders
<1>2. r \in RosterIds \cup {NoId}
  <2>1. CASE seated = {}
    BY <1>0, <2>1
  <2>2. CASE seated # {}
    BY <1>1, <2>2
  <2> QED BY <2>1, <2>2
<1>3. having \subseteq ClassIds
  <2>1. SeatOf(db, r) \in Seat
    BY <1>2, SquadIsLevel
  <2> QED BY <2>1 DEF Seat
<1>4. c \in ClassIds \cup {NoId}
  <2> HIDE DEF having
  <2>1. CASE having = {}
    <3>1. Cardinality(having) # 1
      BY <1>0, <2>1
    <3> QED BY <3>1
  <2>2. CASE having # {}
    BY <1>3, <2>2
  <2> QED BY <2>1, <2>2
<1>5. TemplateLine(db, line) = row
  BY DEF TemplateLine
<1>6. /\ line.name \in FullNames /\ line.meet \in Meets /\ line.track \in RideTracks /\ line.points \in Nat
      /\ line.class \in ClassNames
  BY DEF SourceLine
<1>7. track \in RideTracks /\ errors \in BOOLEAN
  BY <1>6 DEF RideTracks
<1> HIDE DEF r, c, track, errors
<1>8. row \in Previewed
  BY <1>2, <1>4, <1>7, TemplateFields
<1> QED BY <1>5, <1>8

\* Marking repeated and recorded rows keeps them rows.
LEMMA MarkedAreRows ==
  ASSUME NEW db, NEW rows \in Seq(Previewed)
  PROVE  Marked(db, rows) \in Seq(Previewed)
<1> DEFINE wrong(i) == rows[i].errors \/ \E j \in 1..(i - 1) : PreviewedRide(rows[j]) = PreviewedRide(rows[i])
           twice(i) == ~wrong(i) /\ AlreadyRecorded(db, rows[i].rider, rows[i].class, rows[i])
           row(i)   == [rows[i] EXCEPT !.errors = wrong(i), !.duplicate = twice(i)]
<1>0. \A x \in Previewed : x.errors \in BOOLEAN
  BY DEF Previewed, PreviewRow
<1>1. \A i \in DOMAIN rows : rows[i] \in Previewed /\ rows[i].errors \in BOOLEAN
  BY <1>0
<1>2. \A i \in DOMAIN rows : wrong(i) \in BOOLEAN /\ twice(i) \in BOOLEAN
  BY <1>1
<1>3. Marked(db, rows) = [i \in DOMAIN rows |-> row(i)]
  BY DEF Marked
<1> HIDE DEF wrong, twice
<1>4. \A i \in DOMAIN rows : row(i) \in Previewed
  BY <1>1, <1>2 DEF Previewed, PreviewRow
<1> HIDE DEF row
<1>5. DOMAIN rows = 1..Len(rows) /\ Len(rows) \in Nat
  OBVIOUS
<1>6. Marked(db, rows) \in [1..Len(rows) -> Previewed]
  BY <1>3, <1>4, <1>5
<1> QED BY <1>5, <1>6

\* So both previews are rows.
LEMMA PreviewsAreRows ==
  ASSUME NEW db \in Archive
  PROVE  /\ \A file \in Files, bootstrap \in BOOLEAN : AccessIeaPreview(db, file, bootstrap) \in Seq(Previewed)
         /\ \A lines \in Templates : TemplatePreview(db, lines) \in Seq(Previewed)
<1>1. ASSUME NEW file \in Files, NEW bootstrap \in BOOLEAN PROVE AccessIeaPreview(db, file, bootstrap) \in Seq(Previewed)
  <2> DEFINE rows == [i \in DOMAIN file |-> Resolved(db, file[i], bootstrap)]
  <2>0. file \in Seq(SourceLine)
    BY HistoryRows
  <2>1. file \in Seq(SourceLine) /\ DOMAIN file = 1..Len(file) /\ Len(file) \in Nat
    BY <2>0
  <2>2. \A i \in 1..Len(file) : file[i] \in SourceLine
    BY <2>1
  <2>3. \A i \in 1..Len(file) : Resolved(db, file[i], bootstrap) \in Previewed
    BY <2>2, ResolvedIsRow
  <2>4. rows \in [1..Len(file) -> Previewed]
    BY <2>1, <2>3
  <2>5. rows \in Seq(Previewed)
    BY <2>1, <2>4
  <2> HIDE DEF rows
  <2>6. Marked(db, rows) \in Seq(Previewed)
    BY <2>5, MarkedAreRows
  <2> QED BY <2>6 DEF AccessIeaPreview, rows
<1>2. ASSUME NEW lines \in Templates PROVE TemplatePreview(db, lines) \in Seq(Previewed)
  <2> DEFINE rows == [i \in DOMAIN lines |-> TemplateLine(db, lines[i])]
  <2>0. lines \in Seq(SourceLine)
    BY HistoryRows
  <2>1. lines \in Seq(SourceLine) /\ DOMAIN lines = 1..Len(lines) /\ Len(lines) \in Nat
    BY <2>0
  <2>2. \A i \in 1..Len(lines) : lines[i] \in SourceLine
    BY <2>1
  <2>3. \A i \in 1..Len(lines) : TemplateLine(db, lines[i]) \in Previewed
    BY <2>2, TemplateIsRow
  <2>4. rows \in [1..Len(lines) -> Previewed]
    BY <2>1, <2>3
  <2>5. rows \in Seq(Previewed)
    BY <2>1, <2>4
  <2> HIDE DEF rows
  <2>6. Marked(db, rows) \in Seq(Previewed)
    BY <2>5, MarkedAreRows
  <2> QED BY <2>6 DEF TemplatePreview, rows
<1> QED BY <1>1, <1>2

\* The tables during a commit, with the rider, class and show at hand.
Work == [ok : BOOLEAN, rider : RosterIds \cup {NoId}, class : ClassIds \cup {NoId}, show : MeetRows \cup {NoShow},
         riders : [RosterIds -> RosterRider], seats : [RosterIds -> Seat], classes : [ClassIds -> ClassTaught],
         meets : [MeetRows -> ShowStates], showClasses : SUBSET (MeetRows \X ClassIds), results : SUBSET RideRow]

SameRides(new, db) == new.results = db.results /\ new.showClasses = db.showClasses /\ new.meets = db.meets
HasRider(db) == db.ok => db.rider \in RosterIds
HasClass(db) == db.ok => db.class \in ClassIds

\* What a commit writes into its tables, one field at a time.
LEMMA WorkWrites ==
  ASSUME NEW db \in Work
  PROVE  /\ Failed(db) \in Work /\ SameRides(Failed(db), db) /\ ~Failed(db).ok
         /\ \A r \in RosterIds : LET new == [db EXCEPT !.rider = r]
                                 IN new \in Work /\ SameRides(new, db) /\ new.rider = r /\ new.ok = db.ok
         /\ \A c \in ClassIds : LET new == [db EXCEPT !.class = c]
                                IN new \in Work /\ SameRides(new, db) /\ new.rider = db.rider /\ new.ok = db.ok /\ new.class = c
         /\ \A riders \in [RosterIds -> RosterRider] :
              LET new == [db EXCEPT !.riders = riders]
              IN new \in Work /\ SameRides(new, db) /\ new.rider = db.rider /\ new.ok = db.ok /\ new.class = db.class
         /\ \A seats \in [RosterIds -> Seat] :
              LET new == [db EXCEPT !.seats = seats]
              IN new \in Work /\ SameRides(new, db) /\ new.rider = db.rider /\ new.ok = db.ok /\ new.class = db.class
         /\ \A classes2 \in [ClassIds -> ClassTaught] :
              LET new == [db EXCEPT !.classes = classes2]
              IN new \in Work /\ SameRides(new, db) /\ new.rider = db.rider /\ new.ok = db.ok /\ new.class = db.class
<1>1. Failed(db) \in Work /\ SameRides(Failed(db), db) /\ ~Failed(db).ok
  BY DEF Work, Failed, SameRides
<1>2. ASSUME NEW r \in RosterIds
      PROVE  LET new == [db EXCEPT !.rider = r] IN new \in Work /\ SameRides(new, db) /\ new.rider = r /\ new.ok = db.ok
  BY DEF Work, SameRides
<1>3. ASSUME NEW c \in ClassIds
      PROVE  LET new == [db EXCEPT !.class = c]
             IN new \in Work /\ SameRides(new, db) /\ new.rider = db.rider /\ new.ok = db.ok /\ new.class = c
  BY DEF Work, SameRides
<1>4. ASSUME NEW riders \in [RosterIds -> RosterRider]
      PROVE  LET new == [db EXCEPT !.riders = riders]
             IN new \in Work /\ SameRides(new, db) /\ new.rider = db.rider /\ new.ok = db.ok /\ new.class = db.class
  BY DEF Work, SameRides
<1>5. ASSUME NEW seats \in [RosterIds -> Seat]
      PROVE  LET new == [db EXCEPT !.seats = seats]
             IN new \in Work /\ SameRides(new, db) /\ new.rider = db.rider /\ new.ok = db.ok /\ new.class = db.class
  BY DEF Work, SameRides
<1>6. ASSUME NEW classes2 \in [ClassIds -> ClassTaught]
      PROVE  LET new == [db EXCEPT !.classes = classes2]
             IN new \in Work /\ SameRides(new, db) /\ new.rider = db.rider /\ new.ok = db.ok /\ new.class = db.class
  BY DEF Work, SameRides
<1> QED BY <1>1, <1>2, <1>3, <1>4, <1>5, <1>6

\* The free row the code takes is one of the free rows.
LEMMA FirstFree == ASSUME NEW S \in SUBSET Nat, S # {} PROVE Min(S) \in S
<1> DEFINE B == {m \in Nat : \A x \in S : x > m \/ \E y \in S : \A z \in S : y <= z}
<1>1. SUFFICES \E y \in S : \A z \in S : y <= z
  BY DEF Min
<1>2. SUFFICES ASSUME ~ \E y \in S : \A z \in S : y <= z PROVE FALSE
  OBVIOUS
<1> DEFINE N == {m \in Nat : \A x \in S : x >= m}
<1>3. 0 \in N
  OBVIOUS
<1>4. ASSUME NEW m \in Nat, m \in N PROVE m + 1 \in N
  <2>1. m \notin S
    BY <1>2, <1>4
  <2> QED BY <1>4, <2>1
<1> HIDE DEF N
<1>5. Nat \subseteq N
  BY <1>3, <1>4, NatSetInduction
<1>6. PICK x \in S : TRUE
  OBVIOUS
<1>7. x + 1 \in N /\ x \in Nat
  BY <1>5
<1> QED BY <1>7 DEF N

\* The rider of a row is found or made.
LEMMA RiderCommitted ==
  ASSUME NEW db \in Work, NEW row \in Previewed
  PROVE  LET new == CommitRider(db, row) IN new \in Work /\ SameRides(new, db) /\ HasRider(new)
<1> DEFINE byNumber == NumberHolders(db, row.number)
           byName   == {r \in RosterRiders(db) : db.riders[r].name = row.name}
           free     == RosterIds \ RosterRiders(db)
           made     == [db EXCEPT !.rider = Min(free),
                                  !.riders[Min(free)] = [exists |-> TRUE, name |-> row.name, alias |-> NoName,
                                                         number |-> row.number]]
<1>1. db.riders \in [RosterIds -> RosterRider]
  BY DEF Work
<1>2. row.rider \in RosterIds \cup {NoId} /\ row.name \in FullNames /\ row.number \in Numbers \cup {NoNumber}
  BY DEF Previewed, PreviewRow
<1>3. byNumber \in SUBSET RosterIds /\ byName \in SUBSET RosterIds
  BY DEF NumberHolders, RosterRiders
<1>4. /\ byNumber # {} => FirstRider(db, byNumber) \in RosterIds
      /\ byName # {} => FirstRider(db, byName) \in RosterIds
  BY <1>1, <1>3, RosterEnds
<1>5. ASSUME NEW r \in RosterIds
      PROVE  LET new == [db EXCEPT !.rider = r] IN new \in Work /\ SameRides(new, db) /\ HasRider(new)
  BY WorkWrites DEF HasRider
<1>6. Failed(db) \in Work /\ SameRides(Failed(db), db) /\ HasRider(Failed(db))
  BY WorkWrites DEF HasRider
<1>7. CASE free # {}
  <2>1. free \in SUBSET Nat
    BY HistoryRows
  <2>2. Min(free) \in RosterIds
    BY <1>7, <2>1, FirstFree
  <2> DEFINE id == Min(free)
             person == [exists |-> TRUE, name |-> row.name, alias |-> NoName, number |-> row.number]
  <2>3. person \in RosterRider
    BY <1>2 DEF RosterRider
  <2>4. made = [db EXCEPT !.rider = id, !.riders = [db.riders EXCEPT ![id] = person]]
    BY DEF Work
  <2> HIDE DEF id, person
  <2>5. [db.riders EXCEPT ![id] = person] \in [RosterIds -> RosterRider]
    BY <1>1, <2>3
  <2> DEFINE after == [db.riders EXCEPT ![id] = person]
  <2> HIDE DEF after
  <2>6. LET new == [db EXCEPT !.rider = id, !.riders = after] IN new \in Work /\ SameRides(new, db) /\ HasRider(new)
    BY <2>2, <2>5 DEF Work, SameRides, HasRider, id, after
  <2>7. made \in Work /\ SameRides(made, db) /\ HasRider(made)
    BY <2>4, <2>6 DEF after
  <2> QED BY <1>2, <1>4, <1>5, <1>6, <1>7, <2>7 DEF CommitRider
<1>8. CASE free = {}
  BY <1>2, <1>4, <1>5, <1>6, <1>8 DEF CommitRider
<1> QED BY <1>7, <1>8

\* The number, the seat and the class of a row are written without touching the rides.
LEMMA NumberCommitted ==
  ASSUME NEW db \in Work, NEW row \in Previewed, HasRider(db)
  PROVE  LET new == CommitNumber(db, row) IN new \in Work /\ SameRides(new, db) /\ HasRider(new)
<1>1. Failed(db) \in Work /\ SameRides(Failed(db), db) /\ HasRider(Failed(db))
  BY WorkWrites DEF HasRider
<1>2. db \in Work /\ SameRides(db, db) /\ HasRider(db)
  BY DEF SameRides
<1>3. CASE db.ok
  <2>1. db.rider \in RosterIds /\ db.riders \in [RosterIds -> RosterRider]
    BY <1>3 DEF HasRider, Work
  <2>2. row.number \in Numbers \cup {NoNumber}
    BY DEF Previewed, PreviewRow
  <2> DEFINE id == db.rider
             person == [db.riders[id] EXCEPT !.number = row.number]
             riders == [db.riders EXCEPT ![id] = person]
             made == [db EXCEPT !.riders[db.rider].number = row.number]
  <2>3. person \in RosterRider
    BY <2>1, <2>2 DEF RosterRider
  <2>4. riders \in [RosterIds -> RosterRider]
    BY <2>1, <2>3
  <2>5. made = [db EXCEPT !.riders = riders]
    BY <2>1 DEF Work
  <2> HIDE DEF person, riders
  <2>6. LET new == [db EXCEPT !.riders = riders]
        IN new \in Work /\ SameRides(new, db) /\ new.rider = db.rider /\ new.ok = db.ok
    BY <2>4, WorkWrites
  <2>7. made \in Work /\ SameRides(made, db) /\ HasRider(made)
    BY <2>1, <2>5, <2>6 DEF HasRider
  <2> QED BY <1>1, <1>2, <2>7 DEF CommitNumber
<1>4. CASE ~db.ok
  BY <1>2, <1>4 DEF CommitNumber
<1> QED BY <1>3, <1>4

\* The seat is there or made, and keeps its squad.
LEMMA SeatCommitted ==
  ASSUME NEW db \in Work, NEW row \in Previewed, HasRider(db)
  PROVE  LET new == CommitSeat(db, row) IN new \in Work /\ SameRides(new, db) /\ HasRider(new)
<1>1. Failed(db) \in Work /\ SameRides(Failed(db), db) /\ HasRider(Failed(db))
  BY WorkWrites DEF HasRider
<1>2. db \in Work /\ SameRides(db, db) /\ HasRider(db)
  BY DEF SameRides
<1>3. CASE db.ok /\ row.level \in SeatLevels
  <2>1. db.rider \in RosterIds /\ db.seats \in [RosterIds -> Seat]
    BY <1>3 DEF HasRider, Work
  <2> DEFINE id == db.rider
             seat == [held |-> TRUE, level |-> row.level, classes |-> {}]
             seats == [db.seats EXCEPT ![id] = seat]
             made == [db EXCEPT !.seats[db.rider] = [held |-> TRUE, level |-> row.level, classes |-> {}]]
  <2>3. seat \in Seat
    BY <1>3 DEF Seat
  <2>4. seats \in [RosterIds -> Seat]
    BY <2>1, <2>3
  <2>5. made = [db EXCEPT !.seats = seats]
    BY <2>1 DEF Work
  <2> HIDE DEF seats
  <2>6. LET new == [db EXCEPT !.seats = seats]
        IN new \in Work /\ SameRides(new, db) /\ new.rider = db.rider /\ new.ok = db.ok
    BY <2>4, WorkWrites
  <2>7. made \in Work /\ SameRides(made, db) /\ HasRider(made)
    BY <2>1, <2>5, <2>6 DEF HasRider
  <2> QED BY <1>1, <1>2, <1>3, <2>7 DEF CommitSeat
<1>4. CASE ~db.ok
  BY <1>2, <1>4 DEF CommitSeat
<1>5. CASE db.ok /\ row.level \notin SeatLevels
  BY <1>1, <1>2, <1>5 DEF CommitSeat
<1> QED BY <1>3, <1>4, <1>5

\* The class is the one previewed, one of its name and squad, or a new one.
LEMMA ClassCommitted ==
  ASSUME NEW db \in Work, NEW row \in Previewed, HasRider(db)
  PROVE  LET new == CommitClass(db, row) IN new \in Work /\ SameRides(new, db) /\ HasRider(new) /\ HasClass(new)
<1> DEFINE Good(new) == new \in Work /\ SameRides(new, db) /\ HasRider(new) /\ HasClass(new)
           found == {c \in Taught(db) : db.classes[c].name = row.className
                                         /\ db.classes[c].level \in {row.level, "both"}}
           free  == ClassIds \ Taught(db)
<1>1. Good(Failed(db))
  BY WorkWrites DEF HasRider, HasClass
<1>2. ~db.ok => Good(db)
  BY DEF SameRides, HasRider, HasClass
<1>3. ASSUME NEW c \in ClassIds PROVE Good([db EXCEPT !.class = c])
  <2>1. LET new == [db EXCEPT !.class = c]
        IN new \in Work /\ SameRides(new, db) /\ new.rider = db.rider /\ new.ok = db.ok /\ new.class = c
    BY WorkWrites
  <2> QED BY <2>1 DEF HasRider, HasClass
<1>4. row.class \in ClassIds \cup {NoId} /\ row.className \in ClassNames
      /\ (row.createClass => row.level \in SeatLevels)
  BY DEF Previewed, PreviewRow
<1>5. found \in SUBSET Nat /\ found \subseteq ClassIds /\ free \in SUBSET Nat /\ free \subseteq ClassIds
  BY HistoryRows DEF Taught
<1>6. (found # {} => Min(found) \in ClassIds) /\ (free # {} => Min(free) \in ClassIds)
  BY <1>5, FirstFree
<1>7. ASSUME free # {}, row.createClass
      PROVE  Good([db EXCEPT !.class = Min(free),
                             !.classes[Min(free)] = [exists |-> TRUE, name |-> row.className, level |-> row.level]])
  <2> DEFINE id == Min(free)
             class == [exists |-> TRUE, name |-> row.className, level |-> row.level]
             classes2 == [db.classes EXCEPT ![id] = class]
             made == [db EXCEPT !.class = Min(free), !.classes[Min(free)] = class]
  <2>1. id \in ClassIds /\ db.classes \in [ClassIds -> ClassTaught]
    BY <1>6, <1>7 DEF Work
  <2>2. class \in ClassTaught
    BY <1>4, <1>7 DEF ClassTaught
  <2> HIDE DEF class, id
  <2>3. classes2 \in [ClassIds -> ClassTaught]
    BY <2>1, <2>2
  <2>4. made = [db EXCEPT !.class = id, !.classes = classes2]
    BY DEF Work, id
  <2> HIDE DEF classes2
  <2>5. Good([db EXCEPT !.class = id, !.classes = classes2])
    BY <2>1, <2>3 DEF Work, SameRides, HasRider, HasClass
  <2> QED BY <2>4, <2>5 DEF class
<1> HIDE DEF Good
<1>8. CASE ~db.ok
  BY <1>2, <1>8 DEF CommitClass, Good
<1>9. CASE db.ok /\ row.class # NoId
  BY <1>3, <1>4, <1>9 DEF CommitClass, Good
<1>10. CASE db.ok /\ row.class = NoId
  <2>1. Good(CommitClass(db, row))
    BY <1>1, <1>3, <1>6, <1>7, <1>10 DEF CommitClass
  <2> QED BY <2>1 DEF Good
<1> QED BY <1>8, <1>9, <1>10

\* The rider is assigned to the class, or the commit fails.
LEMMA AssignmentCommitted ==
  ASSUME NEW db \in Work, NEW row \in Previewed, HasRider(db), HasClass(db)
  PROVE  LET new == CommitAssignment(db, row) IN new \in Work /\ SameRides(new, db) /\ HasRider(new) /\ HasClass(new)
<1>1. Failed(db) \in Work /\ SameRides(Failed(db), db) /\ HasRider(Failed(db)) /\ HasClass(Failed(db))
  BY WorkWrites DEF HasRider, HasClass
<1>2. db \in Work /\ SameRides(db, db) /\ HasRider(db) /\ HasClass(db)
  BY DEF SameRides
<1>3. CASE db.ok
  <2>1. db.rider \in RosterIds /\ db.class \in ClassIds /\ db.seats \in [RosterIds -> Seat]
    BY <1>3 DEF HasRider, HasClass, Work
  <2> DEFINE id == db.rider
             seat == [db.seats[id] EXCEPT !.classes = @ \cup {db.class}]
             seats == [db.seats EXCEPT ![id] = seat]
             made == [db EXCEPT !.seats[db.rider].classes = @ \cup {db.class}]
  <2>3. seat \in Seat
    BY <2>1 DEF Seat
  <2>4. seats \in [RosterIds -> Seat]
    BY <2>1, <2>3
  <2>5. made = [db EXCEPT !.seats = seats]
    BY <2>1 DEF Work
  <2> HIDE DEF seats
  <2>6. LET new == [db EXCEPT !.seats = seats]
        IN new \in Work /\ SameRides(new, db) /\ new.rider = db.rider /\ new.ok = db.ok /\ new.class = db.class
    BY <2>4, WorkWrites
  <2>7. made \in Work /\ SameRides(made, db) /\ HasRider(made) /\ HasClass(made)
    BY <2>1, <2>5, <2>6 DEF HasRider, HasClass
  <2> QED BY <1>1, <1>2, <2>7 DEF CommitAssignment
<1>4. CASE ~db.ok
  BY <1>2, <1>4 DEF CommitAssignment
<1> QED BY <1>3, <1>4

\* The show of a row is there once it is committed, and no show goes.
HasShow(db) == db.ok => db.show \in MeetRows /\ db.meets[db.show] # "none"

\* The show is one of the meet, or a new historical one.
LEMMA ShowCommitted ==
  ASSUME NEW db \in Work, NEW row \in Previewed, NEW historicalFirst \in BOOLEAN, HasRider(db), HasClass(db)
  PROVE  LET new == CommitShow(db, row, historicalFirst)
         IN /\ new \in Work /\ HasRider(new) /\ HasClass(new) /\ HasShow(new)
            /\ new.results = db.results /\ new.showClasses = db.showClasses
            /\ \A s \in MeetRows : db.meets[s] # "none" => new.meets[s] # "none"
<1> DEFINE there == {s \in MeetRows : s.meet = row.meet /\ db.meets[s] # "none"}
           first == [meet |-> row.meet, historical |-> historicalFirst]
           show  == IF there = {} THEN [meet |-> row.meet, historical |-> TRUE]
                    ELSE IF first \in there THEN first ELSE CHOOSE s \in there : TRUE
           state == IF show.historical THEN "complete" ELSE db.meets[show]
           meets2 == [db.meets EXCEPT ![show] = state]
           made  == [db EXCEPT !.show = show, !.meets = meets2]
<1>1. row.meet \in Meets /\ db.meets \in [MeetRows -> ShowStates]
  BY DEF Previewed, PreviewRow, Work
<1>2. show \in MeetRows /\ (~show.historical => db.meets[show] # "none")
  <2>1. CASE there = {}
    BY <1>1, <2>1 DEF MeetRows
  <2>2. CASE there # {}
    <3>1. show \in there
      BY <2>2
    <3> HIDE DEF show
    <3> QED BY <3>1
  <2> QED BY <2>1, <2>2
<1>3. CommitShow(db, row, historicalFirst) = IF ~db.ok THEN db ELSE made
  BY <1>1, <1>2 DEF CommitShow, Work
<1> HIDE DEF show
<1>4. state \in ShowStates /\ state # "none"
  BY <1>1, <1>2 DEF ShowStates
<1> HIDE DEF state
<1>5. /\ meets2 \in [MeetRows -> ShowStates] /\ meets2[show] # "none"
      /\ \A s \in MeetRows : db.meets[s] # "none" => meets2[s] # "none"
  BY <1>1, <1>2, <1>4
<1> HIDE DEF meets2
<1>6. /\ made \in Work /\ made.ok = db.ok /\ made.rider = db.rider /\ made.class = db.class /\ made.show = show
      /\ made.meets = meets2 /\ made.results = db.results /\ made.showClasses = db.showClasses
  BY <1>2, <1>5 DEF Work
<1> HIDE DEF made
<1>7. CASE db.ok
  BY <1>2, <1>3, <1>5, <1>6, <1>7 DEF HasRider, HasClass, HasShow
<1>8. CASE ~db.ok
  BY <1>3, <1>8 DEF HasRider, HasClass, HasShow
<1> QED BY <1>7, <1>8

\* Every class row with an entry keeps one.
Covers(new, db) == \A e \in db.results : \E o \in new.results : o.show = e.show /\ o.class = e.class

\* A ride replaces the one it repeats, in a class row of a show that is there.
LEMMA RidePlaced ==
  ASSUME NEW db, db.results \in SUBSET RideRow, RidesPlaced(db),
         NEW new \in RideRow, NEW after,
         after.results = {e \in db.results : RideKey(e) # RideKey(new)} \cup {new},
         after.showClasses = db.showClasses \cup {<<new.show, new.class>>},
         after.meets[new.show] # "none",
         \A sc \in db.showClasses : after.meets[sc[1]] # "none"
  PROVE  RidesPlaced(after) /\ Covers(after, db)
<1>1. \A e, o \in after.results : RideKey(e) = RideKey(o) => e = o
  BY DEF RidesPlaced
<1>2. \A e \in after.results : <<e.show, e.class>> \in after.showClasses
  BY DEF RidesPlaced
<1>3. \A sc \in after.showClasses : after.meets[sc[1]] # "none"
  OBVIOUS
<1>4. ASSUME NEW e \in db.results PROVE \E o \in after.results : o.show = e.show /\ o.class = e.class
  <2>1. CASE RideKey(e) = RideKey(new)
    <3>1. e.show = new.show /\ e.class = new.class
      BY <2>1 DEF RideKey
    <3> QED BY <3>1
  <2>2. CASE RideKey(e) # RideKey(new)
    BY <2>2
  <2> QED BY <2>1, <2>2
<1> QED BY <1>1, <1>2, <1>3, <1>4 DEF RidesPlaced, Covers

\* The result is written for the ride it belongs to, unless one is recorded there.
LEMMA ResultCommitted ==
  ASSUME NEW db \in Work, NEW row \in Previewed, HasRider(db), HasClass(db), HasShow(db), RidesPlaced(db)
  PROVE  LET new == CommitResult(db, row) IN new \in Work /\ RidesPlaced(new) /\ Covers(new, db)
<1> DEFINE ride == [show |-> db.show, class |-> db.class, rider |-> db.rider, track |-> row.track,
                    scratched |-> FALSE, pointRider |-> FALSE, result |-> row.points]
           kept == \E e \in db.results : RideKey(e) = RideKey(ride) /\ e.result # NoResult
           results2 == IF kept THEN db.results ELSE {e \in db.results : RideKey(e) # RideKey(ride)} \cup {ride}
           rows2 == db.showClasses \cup {<<db.show, db.class>>}
           made == [db EXCEPT !.showClasses = rows2, !.results = results2]
<1>1. CASE ~db.ok
  <2>1. CommitResult(db, row) = db
    BY <1>1 DEF CommitResult
  <2> QED BY <2>1 DEF Covers
<1>2. CASE db.ok
  <2>1. /\ db.rider \in RosterIds /\ db.class \in ClassIds /\ db.show \in MeetRows /\ db.meets[db.show] # "none"
        /\ row.track \in RideTracks /\ row.points \in Nat
    BY <1>2 DEF HasRider, HasClass, HasShow, Previewed, PreviewRow
  <2>2. ride \in RideRow
    BY <2>1 DEF RideRow
  <2>3. db.results \in SUBSET RideRow /\ db.showClasses \in SUBSET (MeetRows \X ClassIds)
    BY DEF Work
  <2>4. ride.show = db.show /\ ride.class = db.class
    OBVIOUS
  <2>5. CommitResult(db, row) = made
    BY <1>2 DEF CommitResult, Work
  <2> HIDE DEF ride
  <2>6. results2 \in SUBSET RideRow /\ rows2 \in SUBSET (MeetRows \X ClassIds)
    BY <2>1, <2>2, <2>3
  <2> HIDE DEF results2, rows2, kept
  <2>7. made \in Work /\ made.results = results2 /\ made.showClasses = rows2 /\ made.meets = db.meets
    BY <2>6 DEF Work
  <2> HIDE DEF made
  <2>8. \A sc \in db.showClasses : made.meets[sc[1]] # "none"
    BY <2>7 DEF RidesPlaced
  <2>9. CASE kept
    <3>1. made.results = db.results
      BY <2>7, <2>9 DEF results2
    <3>2. \A sc \in made.showClasses : made.meets[sc[1]] # "none"
      BY <2>1, <2>7, <2>8 DEF rows2
    <3>3. \A e \in made.results : <<e.show, e.class>> \in made.showClasses
      BY <2>7, <3>1 DEF rows2, RidesPlaced
    <3>4. RidesPlaced(made)
      BY <3>1, <3>2, <3>3 DEF RidesPlaced
    <3>5. Covers(made, db)
      BY <3>1 DEF Covers
    <3> QED BY <2>5, <2>7, <3>4, <3>5
  <2>10. CASE ~kept
    <3>1. made.results = {e \in db.results : RideKey(e) # RideKey(ride)} \cup {ride}
      BY <2>7, <2>10 DEF results2
    <3>2. made.showClasses = db.showClasses \cup {<<ride.show, ride.class>>}
      BY <2>4, <2>7 DEF rows2
    <3>3. made.meets[ride.show] # "none"
      BY <2>1, <2>4, <2>7
    <3>4. RidesPlaced(made) /\ Covers(made, db)
      BY <2>2, <2>3, <2>8, <3>1, <3>2, <3>3, RidePlaced
    <3> QED BY <2>5, <2>7, <3>4
  <2> QED BY <2>9, <2>10
<1> QED BY <1>1, <1>2

\* What a commit keeps, row by row: the tables are tables, the rides are placed and none is lost.
Sound(new, db) == new \in Work /\ RidesPlaced(new) /\ Covers(new, db)

\* Class rows that keep an entry in one step and in the next keep one in both.
LEMMA CoversChain ==
  ASSUME NEW a, NEW b, NEW c, Covers(a, b), Covers(b, c)
  PROVE  Covers(a, c)
BY DEF Covers

\* Tables that differ in nothing a ride is about keep the rides.
LEMMA RidesStayPlaced ==
  ASSUME NEW new, NEW db, new.results = db.results, new.showClasses = db.showClasses, RidesPlaced(db),
         \A sc \in db.showClasses : new.meets[sc[1]] # "none"
  PROVE  RidesPlaced(new) /\ Covers(new, db)
BY DEF RidesPlaced, Covers

\* One row, through its seven look-ups: whatever fails on the way leaves the tables sound.
LEMMA RowCommitted ==
  ASSUME NEW db \in Work, NEW row \in Previewed, NEW historicalFirst \in BOOLEAN, RidesPlaced(db)
  PROVE  Sound(CommitRow(db, row, historicalFirst), db)
<1> DEFINE d1 == CommitRider(db, row)
           d2 == CommitNumber(d1, row)
           d3 == CommitSeat(d2, row)
           d4 == CommitClass(d3, row)
           d5 == CommitAssignment(d4, row)
           d6 == CommitShow(d5, row, historicalFirst)
           d7 == CommitResult(d6, row)
<1>1. d1 \in Work /\ SameRides(d1, db) /\ HasRider(d1)
  BY RiderCommitted
<1> HIDE DEF d1
<1>2. d2 \in Work /\ SameRides(d2, d1) /\ HasRider(d2)
  BY <1>1, NumberCommitted
<1> HIDE DEF d2
<1>3. d3 \in Work /\ SameRides(d3, d2) /\ HasRider(d3)
  BY <1>2, SeatCommitted
<1> HIDE DEF d3
<1>4. d4 \in Work /\ SameRides(d4, d3) /\ HasRider(d4) /\ HasClass(d4)
  BY <1>3, ClassCommitted
<1> HIDE DEF d4
<1>5. d5 \in Work /\ SameRides(d5, d4) /\ HasRider(d5) /\ HasClass(d5)
  BY <1>4, AssignmentCommitted
<1> HIDE DEF d5
<1>6. d5.results = db.results /\ d5.showClasses = db.showClasses /\ d5.meets = db.meets
  BY <1>1, <1>2, <1>3, <1>4, <1>5 DEF SameRides
<1>7. /\ d6 \in Work /\ HasRider(d6) /\ HasClass(d6) /\ HasShow(d6)
      /\ d6.results = d5.results /\ d6.showClasses = d5.showClasses
      /\ \A s \in MeetRows : d5.meets[s] # "none" => d6.meets[s] # "none"
  BY <1>5, ShowCommitted
<1> HIDE DEF d6
<1>8. \A sc \in db.showClasses : d6.meets[sc[1]] # "none"
  <2>1. \A sc \in db.showClasses : sc[1] \in MeetRows
    BY DEF Work
  <2>2. \A sc \in db.showClasses : db.meets[sc[1]] # "none"
    BY DEF RidesPlaced
  <2> QED BY <1>6, <1>7, <2>1, <2>2
<1>9. RidesPlaced(d6) /\ Covers(d6, db)
  BY <1>6, <1>7, <1>8, RidesStayPlaced
<1>10. d7 \in Work /\ RidesPlaced(d7) /\ Covers(d7, d6)
  BY <1>7, <1>9, ResultCommitted
<1> HIDE DEF d7
<1>11. Sound(d7, db)
  BY <1>9, <1>10, CoversChain DEF Sound
<1>12. Sound(db, db)
  BY DEF Sound, Covers
<1>13. Sound(Failed(db), db)
  <2>1. Failed(db) \in Work /\ SameRides(Failed(db), db)
    BY WorkWrites
  <2>2. RidesPlaced(Failed(db)) /\ Covers(Failed(db), db)
    BY <2>1, RidesStayPlaced DEF SameRides, RidesPlaced
  <2> QED BY <2>1, <2>2 DEF Sound
<1>14. CommitRow(db, row, historicalFirst) \in {db, Failed(db), d7}
  BY DEF CommitRow, d1, d2, d3, d4, d5, d6, d7
<1> QED BY <1>11, <1>12, <1>13, <1>14

\* The tables after each of the first n rows of a commit.
IsCommit(g, db, rows, historicalFirst, n) ==
  g = [i \in 0..n |-> IF i = 0 THEN db ELSE CommitRow(g[i - 1], rows[i], historicalFirst)]

\* The rows can be committed one after the other, however many they are.
LEMMA CommitsExist ==
  ASSUME NEW db, NEW rows, NEW historicalFirst
  PROVE  \A n \in Nat : \E g : IsCommit(g, db, rows, historicalFirst, n)
<1> DEFINE S == {m \in Nat : \E g : IsCommit(g, db, rows, historicalFirst, m)}
<1>1. 0 \in S
  <2>1. IsCommit([i \in 0..0 |-> db], db, rows, historicalFirst, 0)
    BY DEF IsCommit
  <2> QED BY <2>1
<1>2. ASSUME NEW m \in Nat, m \in S PROVE m + 1 \in S
  <2>1. PICK g : IsCommit(g, db, rows, historicalFirst, m)
    BY <1>2
  <2> DEFINE h == [i \in 0..(m + 1) |-> IF i = m + 1 THEN CommitRow(g[m], rows[m + 1], historicalFirst) ELSE g[i]]
  <2>2. ASSUME NEW i \in 0..(m + 1)
        PROVE  h[i] = IF i = 0 THEN db ELSE CommitRow(h[i - 1], rows[i], historicalFirst)
    <3>1. CASE i = m + 1
      BY <3>1
    <3>2. CASE i # m + 1
      <4>1. i \in 0..m /\ h[i] = g[i] /\ (i # 0 => h[i - 1] = g[i - 1])
        BY <3>2
      <4> QED BY <2>1, <4>1 DEF IsCommit
    <3> QED BY <3>1, <3>2
  <2>3. h = [i \in 0..(m + 1) |-> h[i]]
    OBVIOUS
  <2> HIDE DEF h
  <2>4. IsCommit(h, db, rows, historicalFirst, m + 1)
    BY <2>2, <2>3 DEF IsCommit
  <2> QED BY <2>4
<1> HIDE DEF S
<1>3. Nat \subseteq S
  BY <1>1, <1>2, NatSetInduction
<1> QED BY <1>3 DEF S

\* A commit is the last of them.
LEMMA CommitIsTheLast ==
  ASSUME NEW db, NEW rows, NEW historicalFirst, Len(rows) \in Nat
  PROVE  \E g : IsCommit(g, db, rows, historicalFirst, Len(rows)) /\ Committed(db, rows, historicalFirst) = g[Len(rows)]
<1> DEFINE g == CHOOSE g : IsCommit(g, db, rows, historicalFirst, Len(rows))
<1>1. IsCommit(g, db, rows, historicalFirst, Len(rows))
  BY CommitsExist, Zenon
<1>2. Committed(db, rows, historicalFirst) = g[Len(rows)]
  BY DEF Committed, IsCommit
<1> QED BY <1>1, <1>2, Zenon

\* And so a whole commit, however many rows it has.
LEMMA AllCommitted ==
  ASSUME NEW db \in Work, NEW rows \in Seq(Previewed), NEW historicalFirst \in BOOLEAN, RidesPlaced(db)
  PROVE  Sound(Committed(db, rows, historicalFirst), db)
<1>0. Len(rows) \in Nat /\ \A n \in 1..Len(rows) : rows[n] \in Previewed
  OBVIOUS
<1>1. PICK g : /\ IsCommit(g, db, rows, historicalFirst, Len(rows))
               /\ Committed(db, rows, historicalFirst) = g[Len(rows)]
  BY <1>0, CommitIsTheLast
<1>2. \A n \in 0..Len(rows) : g[n] = IF n = 0 THEN db ELSE CommitRow(g[n - 1], rows[n], historicalFirst)
  BY <1>1 DEF IsCommit
<1> DEFINE N == {n \in Nat : n <= Len(rows) => Sound(g[n], db)}
<1>3. 0 \in N
  BY <1>0, <1>2 DEF Sound, Covers
<1>4. ASSUME NEW n \in Nat, n \in N PROVE n + 1 \in N
  <2>1. SUFFICES ASSUME n + 1 <= Len(rows) PROVE Sound(g[n + 1], db)
    OBVIOUS
  <2>2. Sound(g[n], db) /\ n + 1 \in 1..Len(rows) /\ n + 1 \in 0..Len(rows) /\ (n + 1) - 1 = n /\ n + 1 # 0
    BY <1>0, <1>4, <2>1
  <2>3. g[n + 1] = CommitRow(g[n], rows[n + 1], historicalFirst) /\ rows[n + 1] \in Previewed
    BY <1>0, <1>2, <2>2
  <2>4. g[n] \in Work /\ RidesPlaced(g[n]) /\ Covers(g[n], db)
    BY <2>2 DEF Sound
  <2>5. Sound(CommitRow(g[n], rows[n + 1], historicalFirst), g[n])
    BY <2>3, <2>4, RowCommitted
  <2> QED BY <2>3, <2>4, <2>5, CoversChain DEF Sound
<1> HIDE DEF N
<1>5. Nat \subseteq N
  BY <1>3, <1>4, NatSetInduction
<1>6. Sound(g[Len(rows)], db)
  BY <1>0, <1>5 DEF N
<1> QED BY <1>1, <1>6

\* A commit opens on the tables and writes tables back.
LEMMA CommitOnTables ==
  ASSUME NEW db \in Archive, RidesPlaced(db), NEW rows \in Seq(Previewed), NEW historicalFirst \in BOOLEAN
  PROVE  LET new == Tables(Committed(Opened(db), rows, historicalFirst))
         IN new \in Archive /\ RidesPlaced(new) /\ Covers(new, db)
<1> DEFINE open == Opened(db)
           done == Committed(open, rows, historicalFirst)
           new == Tables(done)
<1>1. open \in Work /\ open.results = db.results /\ open.showClasses = db.showClasses /\ open.meets = db.meets
  BY DEF Opened, Archive, Work
<1> HIDE DEF open
<1>2. RidesPlaced(open)
  BY <1>1 DEF RidesPlaced
<1>3. done \in Work /\ RidesPlaced(done) /\ Covers(done, open)
  BY <1>1, <1>2, AllCommitted DEF Sound
<1> HIDE DEF done
<1>4. /\ new \in Archive /\ new.results = done.results /\ new.showClasses = done.showClasses /\ new.meets = done.meets
  BY <1>3 DEF Tables, Work, Archive
<1> HIDE DEF new
<1>5. RidesPlaced(new) /\ Covers(new, db)
  BY <1>1, <1>3, <1>4 DEF RidesPlaced, Covers
<1> QED BY <1>4, <1>5 DEF new, done, open

\* A class row that loses its last entry goes, and a show that loses its last entry with it.
EmptiedGo(new, db) ==
  \A sc \in db.showClasses :
    ( /\ sc[1].historical
      /\ \E e \in db.results : <<e.show, e.class>> = sc
      /\ ~ \E e \in new.results : <<e.show, e.class>> = sc )
    => /\ sc \notin new.showClasses
       /\ (~ \E e \in new.results : e.show = sc[1]) => new.meets[sc[1]] = "none"

\* What a step keeps of the tables.
Kept(new, db) == new \in Archive /\ RidesPlaced(new) /\ EmptiedGo(new, db)

\* Where every class row keeps an entry, none is emptied.
LEMMA CoveredGoes ==
  ASSUME NEW new, NEW db, Covers(new, db)
  PROVE  EmptiedGo(new, db)
<1>1. SUFFICES ASSUME NEW sc \in db.showClasses, NEW e \in db.results, <<e.show, e.class>> = sc
               PROVE  \E o \in new.results : <<o.show, o.class>> = sc
  BY DEF EmptiedGo
<1>2. PICK o \in new.results : o.show = e.show /\ o.class = e.class
  BY DEF Covers
<1> QED BY <1>1, <1>2

\* Steps that leave the rides and the shows alone.
LEMMA SameRidesKept ==
  ASSUME NEW db, RidesPlaced(db), NEW new \in Archive, SameRides(new, db)
  PROVE  Kept(new, db)
<1>1. RidesPlaced(new) /\ Covers(new, db)
  BY DEF SameRides, RidesPlaced, Covers
<1> QED BY <1>1, CoveredGoes DEF Kept

\* Imports: previews are rows, commits keep the tables sound.
LEMMA ImportKeeps ==
  ASSUME HistInv, ImportStep
  PROVE  Kept(archive', archive) /\ previews' \in [Importers -> Seq(Previewed)]
<1>0. archive \in Archive /\ RidesPlaced(archive) /\ previews \in [Importers -> Seq(Previewed)]
  BY DEF HistInv
<1>1. archive' = archive => Kept(archive', archive)
  <2>1. SameRides(archive, archive)
    BY DEF SameRides
  <2>2. Kept(archive, archive)
    BY <1>0, <2>1, SameRidesKept
  <2> QED BY <2>2
<1>2. ASSUME NEW m \in Importers, NEW rows \in Seq(Previewed), ImportPreview(m, rows)
      PROVE  Kept(archive', archive) /\ previews' \in [Importers -> Seq(Previewed)]
  BY <1>0, <1>1, <1>2 DEF ImportPreview
<1>3. ASSUME NEW m \in Importers, NEW file \in Files, NEW bootstrap \in BOOLEAN,
             ImportPreview(m, AccessIeaPreview(archive, file, bootstrap))
      PROVE  Kept(archive', archive) /\ previews' \in [Importers -> Seq(Previewed)]
  <2>1. AccessIeaPreview(archive, file, bootstrap) \in Seq(Previewed)
    BY <1>0, PreviewsAreRows
  <2> QED BY <1>2, <1>3, <2>1
<1>4. ASSUME NEW m \in Importers, NEW lines \in Templates, ImportPreview(m, TemplatePreview(archive, lines))
      PROVE  Kept(archive', archive) /\ previews' \in [Importers -> Seq(Previewed)]
  <2>1. TemplatePreview(archive, lines) \in Seq(Previewed)
    BY <1>0, PreviewsAreRows
  <2> QED BY <1>2, <1>4, <2>1
<1>5. << >> \in Seq(Previewed)
  OBVIOUS
<1>6. ASSUME NEW m \in Importers, NEW historicalFirst \in BOOLEAN, ImportCommit(m, historicalFirst)
      PROVE  Kept(archive', archive) /\ previews' \in [Importers -> Seq(Previewed)]
  <2>1. archive' = Tables(Committed(Opened(archive), previews[m], historicalFirst))
    BY <1>6 DEF ImportCommit
  <2>2. previews[m] \in Seq(Previewed)
    BY <1>0
  <2>3. archive' \in Archive /\ RidesPlaced(archive') /\ Covers(archive', archive)
    BY <1>0, <2>1, <2>2, CommitOnTables
  <2>4. previews' \in [Importers -> Seq(Previewed)]
    BY <1>0, <1>5, <1>6 DEF ImportCommit
  <2> QED BY <2>3, <2>4, CoveredGoes DEF Kept
<1>7. ASSUME NEW m \in Importers, ImportClear(m)
      PROVE  Kept(archive', archive) /\ previews' \in [Importers -> Seq(Previewed)]
  BY <1>0, <1>1, <1>5, <1>7 DEF ImportClear
<1> QED BY <1>3, <1>4, <1>6, <1>7 DEF ImportStep

\* A class row without entries goes, and only that one.
LEMMA EmptiedRow ==
  ASSUME NEW db \in Archive, NEW show, NEW c
  PROVE  LET new == WithoutEmptied(db, show, c)
         IN /\ new \in Archive /\ new.results = db.results /\ new.meets = db.meets /\ new.riders = db.riders
            /\ new.seats = db.seats /\ new.classes = db.classes
            /\ IF \E e \in db.results : e.show = show /\ e.class = c THEN new.showClasses = db.showClasses
               ELSE new.showClasses = db.showClasses \ {<<show, c>>}
BY DEF WithoutEmptied, Archive

\* Results entered, moved and deleted rider by rider.
LEMMA AddKeeps ==
  ASSUME HistInv, NEW r \in RosterIds, NEW meet \in Meets, NEW c \in ClassIds, NEW track \in RideTracks,
         NEW points \in Scores, HistoricalResultAdd(r, meet, c, track, points)
  PROVE  Kept(archive', archive)
<1> DEFINE show == [meet |-> meet, historical |-> TRUE]
           ride == [show |-> show, class |-> c, rider |-> r, track |-> track,
                    scratched |-> FALSE, pointRider |-> FALSE, result |-> points]
<1>0. archive \in Archive /\ RidesPlaced(archive)
  BY DEF HistInv
<1>1. show \in MeetRows /\ points \in Nat
  BY HistoryRows DEF MeetRows
<1> HIDE DEF show
<1>2. ride \in RideRow /\ ride.show = show /\ ride.class = c
  BY <1>1 DEF RideRow
<1>3. archive' = [archive EXCEPT !.meets[show] = "complete", !.showClasses = @ \cup {<<show, c>>},
                                 !.results = {e \in @ : RideKey(e) # RideKey(ride)} \cup {ride}]
  BY DEF HistoricalResultAdd, show
<1> HIDE DEF ride
<1>4. /\ archive.results \in SUBSET RideRow /\ archive.showClasses \in SUBSET (MeetRows \X ClassIds)
      /\ archive.meets \in [MeetRows -> ShowStates]
  BY <1>0 DEF Archive
<1> DEFINE results2 == {e \in archive.results : RideKey(e) # RideKey(ride)} \cup {ride}
           rows2 == archive.showClasses \cup {<<show, c>>}
           meets2 == [archive.meets EXCEPT ![show] = "complete"]
<1>5. results2 \in SUBSET RideRow /\ rows2 \in SUBSET (MeetRows \X ClassIds) /\ meets2 \in [MeetRows -> ShowStates]
  BY <1>1, <1>2, <1>4 DEF ShowStates
<1>6. archive' = [archive EXCEPT !.meets = meets2, !.showClasses = rows2, !.results = results2]
  BY <1>0, <1>3 DEF Archive
<1>7. meets2[show] # "none" /\ \A s \in MeetRows : archive.meets[s] # "none" => meets2[s] # "none"
  BY <1>1, <1>4
<1>8. results2 = {e \in archive.results : RideKey(e) # RideKey(ride)} \cup {ride}
  OBVIOUS
<1>9. rows2 = archive.showClasses \cup {<<ride.show, ride.class>>}
  BY <1>2
<1> HIDE DEF results2, rows2, meets2
<1>10. archive' \in Archive /\ archive'.results = results2 /\ archive'.showClasses = rows2 /\ archive'.meets = meets2
  BY <1>0, <1>5, <1>6 DEF Archive
<1>11. \A sc \in archive.showClasses : archive'.meets[sc[1]] # "none"
  <2>1. \A sc \in archive.showClasses : sc[1] \in MeetRows /\ archive.meets[sc[1]] # "none"
    BY <1>0, <1>4 DEF RidesPlaced
  <2> QED BY <1>7, <1>10, <2>1
<1>12. archive'.meets[ride.show] # "none"
  BY <1>2, <1>7, <1>10
<1>13. RidesPlaced(archive') /\ Covers(archive', archive)
  <2>1. /\ archive'.results = {e \in archive.results : RideKey(e) # RideKey(ride)} \cup {ride}
        /\ archive'.showClasses = archive.showClasses \cup {<<ride.show, ride.class>>}
    BY <1>8, <1>9, <1>10
  <2> QED BY <1>0, <1>2, <1>4, <1>11, <1>12, <2>1, RidePlaced
<1> QED BY <1>10, <1>13, CoveredGoes DEF Kept

\* A moved result leaves its old class row only with entries; its show keeps the moved one.
LEMMA EditKeeps ==
  ASSUME HistInv, NEW e \in archive.results, NEW c \in ClassIds, NEW track \in RideTracks,
         NEW points \in Scores, HistoricalResultEdit(e, c, track, points)
  PROVE  Kept(archive', archive)
<1> DEFINE new == [e EXCEPT !.class = c, !.track = track, !.scratched = FALSE, !.pointRider = FALSE, !.result = points]
           results2 == (archive.results \ {e}) \cup {new}
           rows2 == archive.showClasses \cup {<<e.show, c>>}
           moved == [archive EXCEPT !.showClasses = rows2, !.results = results2]
<1>0. archive \in Archive /\ RidesPlaced(archive)
  BY DEF HistInv
<1>1. e \in RideRow /\ archive.results \in SUBSET RideRow /\ archive.showClasses \in SUBSET (MeetRows \X ClassIds)
      /\ points \in Nat
  BY <1>0, HistoryRows DEF Archive
<1>2. new \in RideRow /\ new.show = e.show /\ new.class = c /\ e.show \in MeetRows
  BY <1>1 DEF RideRow
<1>3. ~ \E o \in archive.results \ {e} : RideKey(o) = RideKey(new)
  BY DEF HistoricalResultEdit
<1>4. archive' = WithoutEmptied(moved, e.show, e.class)
  <2>1. moved = [archive EXCEPT !.showClasses = @ \cup {<<e.show, c>>}, !.results = (@ \ {e}) \cup {new}]
    BY <1>0 DEF Archive
  <2> HIDE DEF new, moved
  <2> QED BY <2>1 DEF HistoricalResultEdit, new
<1> HIDE DEF new
<1>5. results2 \in SUBSET RideRow /\ rows2 \in SUBSET (MeetRows \X ClassIds)
  BY <1>1, <1>2
<1>6. new \in results2 /\ <<new.show, new.class>> \in rows2
  BY <1>2
<1>7. \A o \in results2 : <<o.show, o.class>> \in rows2
  <2>1. \A o \in archive.results : <<o.show, o.class>> \in archive.showClasses
    BY <1>0 DEF RidesPlaced
  <2> QED BY <1>6, <2>1
<1>8. \A o, p \in results2 : RideKey(o) = RideKey(p) => o = p
  <2>1. \A o, p \in archive.results : RideKey(o) = RideKey(p) => o = p
    BY <1>0 DEF RidesPlaced
  <2>2. ASSUME NEW o \in results2, NEW p \in results2, RideKey(o) = RideKey(p) PROVE o = p
    BY <1>3, <2>1, <2>2
  <2> QED BY <2>2
<1>9. \A sc \in rows2 : archive.meets[sc[1]] # "none"
  <2>1. \A sc \in archive.showClasses : archive.meets[sc[1]] # "none"
    BY <1>0 DEF RidesPlaced
  <2>2. <<e.show, e.class>> \in archive.showClasses
    BY <1>0 DEF RidesPlaced
  <2>3. archive.meets[e.show] # "none"
    BY <2>1, <2>2
  <2> QED BY <2>1, <2>3
<1>10. \A o \in archive.results : (o.show # e.show \/ o.class # e.class) => o \in results2
  OBVIOUS
<1> HIDE DEF results2, rows2
<1>11. moved \in Archive /\ moved.showClasses = rows2 /\ moved.results = results2 /\ moved.meets = archive.meets
  BY <1>0, <1>5 DEF Archive
<1> HIDE DEF moved
<1>12. /\ archive' \in Archive /\ archive'.results = results2 /\ archive'.meets = archive.meets
       /\ IF \E o \in results2 : o.show = e.show /\ o.class = e.class THEN archive'.showClasses = rows2
          ELSE archive'.showClasses = rows2 \ {<<e.show, e.class>>}
  BY <1>4, <1>11, EmptiedRow
<1>13. RidesPlaced(archive')
  <2>1. \A o \in results2 : <<o.show, o.class>> \in archive'.showClasses
    BY <1>7, <1>12
  <2>2. \A sc \in archive'.showClasses : archive'.meets[sc[1]] # "none"
    BY <1>9, <1>12
  <2> QED BY <1>8, <1>12, <2>1, <2>2 DEF RidesPlaced
<1>14. EmptiedGo(archive', archive)
  <2>1. SUFFICES ASSUME NEW sc \in archive.showClasses, NEW o \in archive.results, <<o.show, o.class>> = sc,
                        ~ \E p \in results2 : <<p.show, p.class>> = sc
                 PROVE  sc \notin archive'.showClasses /\ \E p \in results2 : p.show = sc[1]
    BY <1>12 DEF EmptiedGo
  <2>2. o \notin results2
    BY <2>1
  <2>3. o.show = e.show /\ o.class = e.class
    BY <1>10, <2>2
  <2>4. sc = <<e.show, e.class>> /\ sc[1] = e.show
    BY <2>1, <2>3
  <2>5. ~ \E p \in results2 : p.show = e.show /\ p.class = e.class
    BY <2>1, <2>4
  <2>6. sc \notin archive'.showClasses
    BY <1>12, <2>4, <2>5
  <2> QED BY <1>2, <1>6, <2>4, <2>6
<1> QED BY <1>12, <1>13, <1>14 DEF Kept

\* A deleted result takes an emptied class row with it, and an emptied show with its class rows.
LEMMA DeleteKeeps ==
  ASSUME HistInv, NEW e \in archive.results, HistoricalResultDelete(e)
  PROVE  Kept(archive', archive)
<1> DEFINE results2 == archive.results \ {e}
           cut  == [archive EXCEPT !.results = results2]
           gone == WithoutEmptied(cut, e.show, e.class)
           bare == ~ \E o \in gone.results : o.show = e.show
<1>0. archive \in Archive /\ RidesPlaced(archive)
  BY DEF HistInv
<1>1. e \in RideRow /\ archive.results \in SUBSET RideRow /\ archive.showClasses \in SUBSET (MeetRows \X ClassIds)
      /\ archive.meets \in [MeetRows -> ShowStates]
  BY <1>0 DEF Archive
<1>2. e.show \in MeetRows
  BY <1>1 DEF RideRow
<1>3. cut = [archive EXCEPT !.results = @ \ {e}]
  BY <1>0 DEF Archive
<1>4. archive' = IF bare THEN [gone EXCEPT !.meets[e.show] = "none", !.showClasses = {sc \in @ : sc[1] # e.show}]
                 ELSE gone
  <2> HIDE DEF cut
  <2> QED BY <1>3 DEF HistoricalResultDelete
<1>5. results2 \in SUBSET RideRow /\ \A o \in archive.results : o # e => o \in results2
  BY <1>1
<1>6. results2 \subseteq archive.results
  OBVIOUS
<1> HIDE DEF results2
<1>7. cut \in Archive /\ cut.results = results2 /\ cut.showClasses = archive.showClasses /\ cut.meets = archive.meets
  BY <1>0, <1>5 DEF Archive
<1> HIDE DEF cut
<1>8. /\ gone \in Archive /\ gone.results = results2 /\ gone.meets = archive.meets
      /\ IF \E o \in results2 : o.show = e.show /\ o.class = e.class THEN gone.showClasses = archive.showClasses
         ELSE gone.showClasses = archive.showClasses \ {<<e.show, e.class>>}
  BY <1>7, EmptiedRow
<1> HIDE DEF gone
<1>9. \A o \in results2 : <<o.show, o.class>> \in gone.showClasses
  <2>1. \A o \in results2 : <<o.show, o.class>> \in archive.showClasses
    BY <1>0, <1>6 DEF RidesPlaced
  <2> QED BY <1>8, <2>1
<1>10. \A sc \in gone.showClasses : sc \in archive.showClasses /\ sc[1] \in MeetRows /\ archive.meets[sc[1]] # "none"
  BY <1>0, <1>1, <1>8 DEF RidesPlaced
<1>11. \A o, p \in results2 : RideKey(o) = RideKey(p) => o = p
  BY <1>0, <1>6 DEF RidesPlaced
<1>12. ASSUME NEW sc \in archive.showClasses, NEW o \in archive.results, <<o.show, o.class>> = sc,
              ~ \E p \in results2 : <<p.show, p.class>> = sc
       PROVE  sc = <<e.show, e.class>> /\ sc \notin gone.showClasses
  <2>1. o = e
    BY <1>5, <1>12
  <2>2. sc = <<e.show, e.class>>
    BY <1>12, <2>1
  <2>3. ~ \E p \in results2 : p.show = e.show /\ p.class = e.class
    BY <1>12, <2>2
  <2> QED BY <1>8, <2>2, <2>3
<1>13. CASE bare
  <2> DEFINE meets2 == [archive.meets EXCEPT ![e.show] = "none"]
             rows2 == {sc \in gone.showClasses : sc[1] # e.show}
  <2>1. archive' = [gone EXCEPT !.meets = meets2, !.showClasses = rows2]
    BY <1>4, <1>8, <1>13 DEF Archive
  <2>2. meets2 \in [MeetRows -> ShowStates] /\ meets2[e.show] = "none"
        /\ \A s \in MeetRows : s # e.show => meets2[s] = archive.meets[s]
    BY <1>1, <1>2 DEF ShowStates
  <2>3. rows2 \in SUBSET (MeetRows \X ClassIds)
    BY <1>8 DEF Archive
  <2>4. \A sc \in rows2 : sc \in gone.showClasses /\ sc[1] # e.show
    OBVIOUS
  <2>5. \A sc \in gone.showClasses : sc[1] # e.show => sc \in rows2
    OBVIOUS
  <2> HIDE DEF meets2, rows2
  <2>6. archive' \in Archive /\ archive'.results = results2 /\ archive'.showClasses = rows2 /\ archive'.meets = meets2
    BY <1>8, <2>1, <2>2, <2>3 DEF Archive
  <2>7. \A o \in results2 : <<o.show, o.class>> \in rows2
    <3>1. ASSUME NEW o \in results2 PROVE o.show # e.show
      BY <1>8, <1>13, <3>1
    <3> QED BY <1>9, <2>5, <3>1
  <2>8. \A sc \in rows2 : meets2[sc[1]] # "none"
    BY <1>10, <2>2, <2>4
  <2>9. RidesPlaced(archive')
    BY <1>11, <2>6, <2>7, <2>8 DEF RidesPlaced
  <2>10. EmptiedGo(archive', archive)
    <3>1. SUFFICES ASSUME NEW sc \in archive.showClasses, NEW o \in archive.results, <<o.show, o.class>> = sc,
                          ~ \E p \in results2 : <<p.show, p.class>> = sc
                   PROVE  sc \notin rows2 /\ meets2[sc[1]] = "none"
      BY <2>6 DEF EmptiedGo
    <3>2. sc = <<e.show, e.class>> /\ sc \notin gone.showClasses
      BY <1>12, <3>1
    <3>3. sc[1] = e.show
      BY <3>2
    <3> QED BY <2>2, <2>4, <3>2, <3>3
  <2> QED BY <2>6, <2>9, <2>10 DEF Kept
<1>14. CASE ~bare
  <2>1. archive' = gone
    BY <1>4, <1>14
  <2>2. RidesPlaced(archive')
    BY <1>8, <1>9, <1>10, <1>11, <2>1 DEF RidesPlaced
  <2>3. \E p \in results2 : p.show = e.show
    BY <1>8, <1>14
  <2>4. EmptiedGo(archive', archive)
    <3>1. SUFFICES ASSUME NEW sc \in archive.showClasses, NEW o \in archive.results, <<o.show, o.class>> = sc,
                          ~ \E p \in results2 : <<p.show, p.class>> = sc
                   PROVE  sc \notin gone.showClasses /\ \E p \in results2 : p.show = sc[1]
      BY <1>8, <2>1 DEF EmptiedGo
    <3>2. sc = <<e.show, e.class>> /\ sc \notin gone.showClasses
      BY <1>12, <3>1
    <3>3. sc[1] = e.show
      BY <3>2
    <3> QED BY <2>3, <3>2, <3>3
  <2> QED BY <1>8, <2>1, <2>2, <2>4 DEF Kept
<1> QED BY <1>13, <1>14

\* So the three requests about single results keep the tables sound.
LEMMA ResultsKeep ==
  ASSUME HistInv, ResultStep
  PROVE  Kept(archive', archive) /\ previews' \in [Importers -> Seq(Previewed)]
<1>1. previews' = previews
  BY DEF ResultStep, HistoricalResultAdd, HistoricalResultEdit, HistoricalResultDelete
<1>2. Kept(archive', archive)
  BY AddKeeps, EditKeeps, DeleteKeeps DEF ResultStep
<1> QED BY <1>1, <1>2 DEF HistInv

\* What the rest of the portal does to the roster leaves the rides alone.
LEMMA RosterKeeps ==
  ASSUME HistInv, UNCHANGED previews,
         \/ \E riders \in [RosterIds -> RosterRider] : archive' = [archive EXCEPT !.riders = riders]
         \/ \E seats \in [RosterIds -> Seat] : archive' = [archive EXCEPT !.seats = seats]
         \/ \E classes2 \in [ClassIds -> ClassTaught] : archive' = [archive EXCEPT !.classes = classes2]
  PROVE  Kept(archive', archive)
<1>0. archive \in Archive /\ RidesPlaced(archive)
  BY DEF HistInv
<1>1. ASSUME NEW riders \in [RosterIds -> RosterRider], archive' = [archive EXCEPT !.riders = riders]
      PROVE  archive' \in Archive /\ SameRides(archive', archive)
  BY <1>0, <1>1 DEF Archive, SameRides
<1>2. ASSUME NEW seats \in [RosterIds -> Seat], archive' = [archive EXCEPT !.seats = seats]
      PROVE  archive' \in Archive /\ SameRides(archive', archive)
  BY <1>0, <1>2 DEF Archive, SameRides
<1>3. ASSUME NEW classes2 \in [ClassIds -> ClassTaught], archive' = [archive EXCEPT !.classes = classes2]
      PROVE  archive' \in Archive /\ SameRides(archive', archive)
  BY <1>0, <1>3 DEF Archive, SameRides
<1>4. archive' \in Archive /\ SameRides(archive', archive)
  BY <1>1, <1>2, <1>3
<1> QED BY <1>0, <1>4, SameRidesKept

\* A new show of the season calendar.
LEMMA LiveMeetKeeps ==
  ASSUME HistInv, NEW meet \in Meets, LiveMeet(meet)
  PROVE  Kept(archive', archive)
<1> DEFINE show == [meet |-> meet, historical |-> FALSE]
           meets2 == [archive.meets EXCEPT ![show] = "planning"]
<1>0. archive \in Archive /\ RidesPlaced(archive)
  BY DEF HistInv
<1>1. show \in MeetRows /\ archive.meets \in [MeetRows -> ShowStates]
  BY <1>0 DEF MeetRows, Archive
<1>2. archive' = [archive EXCEPT !.meets[show] = "planning"]
  BY DEF LiveMeet
<1> HIDE DEF show
<1>3. archive' = [archive EXCEPT !.meets = meets2]
  BY <1>0, <1>2 DEF Archive
<1>4. meets2 \in [MeetRows -> ShowStates] /\ \A s \in MeetRows : archive.meets[s] # "none" => meets2[s] # "none"
  BY <1>1 DEF ShowStates
<1> HIDE DEF meets2
<1>5. /\ archive' \in Archive /\ archive'.results = archive.results /\ archive'.showClasses = archive.showClasses
      /\ archive'.meets = meets2
  BY <1>0, <1>3, <1>4 DEF Archive
<1>6. \A sc \in archive.showClasses : archive'.meets[sc[1]] # "none"
  <2>1. \A sc \in archive.showClasses : sc[1] \in MeetRows /\ archive.meets[sc[1]] # "none"
    BY <1>0 DEF RidesPlaced, Archive
  <2> QED BY <1>4, <1>5, <2>1
<1>7. RidesPlaced(archive') /\ Covers(archive', archive)
  BY <1>0, <1>5, <1>6, RidesStayPlaced
<1> QED BY <1>5, <1>7, CoveredGoes DEF Kept

\* An entry in a live show: its ride is new.
LEMMA LiveRideKeeps ==
  ASSUME HistInv, NEW r \in RosterIds, NEW meet \in Meets, NEW c \in ClassIds, NEW track \in RideTracks,
         NEW pointRider \in BOOLEAN, LiveRide(r, meet, c, track, pointRider)
  PROVE  Kept(archive', archive)
<1> DEFINE show == [meet |-> meet, historical |-> FALSE]
           ride == [show |-> show, class |-> c, rider |-> r, track |-> track,
                    scratched |-> FALSE, pointRider |-> pointRider, result |-> NoResult]
           results2 == archive.results \cup {ride}
           rows2 == archive.showClasses \cup {<<show, c>>}
<1>0. archive \in Archive /\ RidesPlaced(archive)
  BY DEF HistInv
<1>1. /\ archive.results \in SUBSET RideRow /\ archive.showClasses \in SUBSET (MeetRows \X ClassIds)
      /\ archive.meets \in [MeetRows -> ShowStates]
  BY <1>0 DEF Archive
<1>2. show \in MeetRows
  BY DEF MeetRows
<1> HIDE DEF show
<1>3. ride \in RideRow /\ ride.show = show /\ ride.class = c
  BY <1>2 DEF RideRow
<1>4. archive.meets[show] # "none" /\ ~ \E e \in archive.results : RideKey(e) = RideKey(ride)
  BY DEF LiveRide, show
<1>5. archive' = [archive EXCEPT !.showClasses = rows2, !.results = results2]
  <2>1. archive' = [archive EXCEPT !.showClasses = @ \cup {<<show, c>>}, !.results = @ \cup {ride}]
    BY DEF LiveRide, show
  <2> HIDE DEF ride
  <2> QED BY <1>0, <2>1 DEF Archive
<1> HIDE DEF ride
<1>6. results2 \in SUBSET RideRow /\ rows2 \in SUBSET (MeetRows \X ClassIds)
  BY <1>1, <1>2, <1>3
<1>7. results2 = {e \in archive.results : RideKey(e) # RideKey(ride)} \cup {ride}
  BY <1>4
<1>8. rows2 = archive.showClasses \cup {<<ride.show, ride.class>>}
  BY <1>3
<1> HIDE DEF results2, rows2
<1>9. /\ archive' \in Archive /\ archive'.results = results2 /\ archive'.showClasses = rows2
      /\ archive'.meets = archive.meets
  BY <1>0, <1>5, <1>6 DEF Archive
<1>10. archive'.meets[ride.show] # "none" /\ \A sc \in archive.showClasses : archive'.meets[sc[1]] # "none"
  BY <1>0, <1>3, <1>4, <1>9 DEF RidesPlaced
<1>11. /\ archive'.results = {e \in archive.results : RideKey(e) # RideKey(ride)} \cup {ride}
       /\ archive'.showClasses = archive.showClasses \cup {<<ride.show, ride.class>>}
  BY <1>7, <1>8, <1>9
<1>12. RidesPlaced(archive') /\ Covers(archive', archive)
  BY <1>0, <1>1, <1>3, <1>10, <1>11, RidePlaced
<1> QED BY <1>9, <1>12, CoveredGoes DEF Kept

\* The result of a live entry is written on the entry.
LEMMA LiveResultKeeps ==
  ASSUME HistInv, NEW e \in archive.results, NEW points \in Scores, LiveResult(e, points)
  PROVE  Kept(archive', archive)
<1> DEFINE ride == [e EXCEPT !.result = points]
           results2 == (archive.results \ {e}) \cup {ride}
<1>0. archive \in Archive /\ RidesPlaced(archive)
  BY DEF HistInv
<1>1. e \in RideRow /\ archive.results \in SUBSET RideRow /\ points \in Nat
  BY <1>0, HistoryRows DEF Archive
<1>2. ride \in RideRow /\ ride.show = e.show /\ ride.class = e.class /\ RideKey(ride) = RideKey(e)
  BY <1>1 DEF RideRow, RideKey
<1>3. archive' = [archive EXCEPT !.results = results2]
  BY <1>0 DEF LiveResult, Archive
<1> HIDE DEF ride
<1>4. results2 \in SUBSET RideRow
  BY <1>1, <1>2
<1>5. \A o, p \in archive.results : RideKey(o) = RideKey(p) => o = p
  BY <1>0 DEF RidesPlaced
<1>6. \A o, p \in results2 : RideKey(o) = RideKey(p) => o = p
  BY <1>2, <1>5
<1>7. \A o \in results2 : <<o.show, o.class>> \in archive.showClasses
  BY <1>0, <1>2 DEF RidesPlaced
<1>8. \A o \in archive.results : \E p \in results2 : p.show = o.show /\ p.class = o.class
  BY <1>2
<1> HIDE DEF results2
<1>9. /\ archive' \in Archive /\ archive'.results = results2 /\ archive'.showClasses = archive.showClasses
      /\ archive'.meets = archive.meets
  BY <1>0, <1>3, <1>4 DEF Archive
<1>10. RidesPlaced(archive')
  BY <1>0, <1>6, <1>7, <1>9 DEF RidesPlaced
<1>11. Covers(archive', archive)
  BY <1>8, <1>9 DEF Covers
<1> QED BY <1>9, <1>10, <1>11, CoveredGoes DEF Kept

\* So the rest of the portal keeps the tables sound.
LEMMA PortalKeeps ==
  ASSUME HistInv, PortalStep
  PROVE  Kept(archive', archive) /\ previews' \in [Importers -> Seq(Previewed)]
<1>0. archive \in Archive /\ RidesPlaced(archive)
  BY DEF HistInv
<1>1. previews' = previews
  BY DEF PortalStep, RosterRiderEdit, SeatSave, SeasonClassSave, LiveMeet, LiveRide, LiveResult
<1>2. ASSUME NEW r \in RosterIds, NEW number \in Numbers \cup {NoNumber}, RosterRiderEdit(r, number)
      PROVE  Kept(archive', archive)
  <2> DEFINE riders2 == [archive.riders EXCEPT ![r] = [archive.riders[r] EXCEPT !.number = number]]
  <2>1. archive.riders \in [RosterIds -> RosterRider]
    BY <1>0 DEF Archive
  <2>2. [archive.riders[r] EXCEPT !.number = number] \in RosterRider
    BY <2>1 DEF RosterRider
  <2>3. riders2 \in [RosterIds -> RosterRider]
    BY <2>1, <2>2
  <2>4. archive' = [archive EXCEPT !.riders = riders2]
    BY <1>0, <1>2, <2>1 DEF RosterRiderEdit, Archive
  <2> HIDE DEF riders2
  <2> QED BY <1>1, <2>3, <2>4, RosterKeeps
<1>3. ASSUME NEW r \in RosterIds, NEW level \in SeatLevels \cup {""}, NEW cs \in SUBSET Taught(archive), SeatSave(r, level, cs)
      PROVE  Kept(archive', archive)
  <2> DEFINE seat == [held |-> TRUE, level |-> level, classes |-> cs]
             seats2 == [archive.seats EXCEPT ![r] = seat]
  <2>1. archive.seats \in [RosterIds -> Seat]
    BY <1>0 DEF Archive
  <2>2. seat \in Seat
    BY DEF Seat, Taught
  <2>3. archive' = [archive EXCEPT !.seats = seats2]
    BY <1>0, <1>3 DEF SeatSave, Archive
  <2> HIDE DEF seat
  <2>4. seats2 \in [RosterIds -> Seat]
    BY <2>1, <2>2
  <2> HIDE DEF seats2
  <2> QED BY <1>1, <2>3, <2>4, RosterKeeps
<1>4. ASSUME NEW c \in ClassIds, NEW name \in ClassNames, NEW level \in SeatLevels \cup {"both"}, SeasonClassSave(c, name, level)
      PROVE  Kept(archive', archive)
  <2> DEFINE class == [exists |-> TRUE, name |-> name, level |-> level]
             classes2 == [archive.classes EXCEPT ![c] = class]
  <2>1. archive.classes \in [ClassIds -> ClassTaught]
    BY <1>0 DEF Archive
  <2>2. class \in ClassTaught
    BY DEF ClassTaught
  <2>3. archive' = [archive EXCEPT !.classes = classes2]
    BY <1>0, <1>4 DEF SeasonClassSave, Archive
  <2> HIDE DEF class
  <2>4. classes2 \in [ClassIds -> ClassTaught]
    BY <2>1, <2>2
  <2> HIDE DEF classes2
  <2> QED BY <1>1, <2>3, <2>4, RosterKeeps
<1>5. Kept(archive', archive)
  BY <1>2, <1>3, <1>4, LiveMeetKeeps, LiveRideKeeps, LiveResultKeeps DEF PortalStep
<1> QED BY <1>1, <1>5 DEF HistInv

\* The past seasons: what a step of the part keeps, and what the runs ask of it.
LEMMA HistStepInv ==
  ASSUME HistInv, HistoryNext
  PROVE  HistInv' /\ EmptiedGo(archive', archive)
<1>1. Kept(archive', archive) /\ previews' \in [Importers -> Seq(Previewed)]
  BY ImportKeeps, ResultsKeep, PortalKeeps DEF HistoryNext
<1> QED BY <1>1 DEF Kept, HistInv

\* The other parts leave the past seasons alone.
LEMMA HistStays ==
  ASSUME HistInv, UNCHANGED historyVars
  PROVE  HistInv' /\ EmptiedGo(archive', archive)
<1>1. archive' = archive /\ previews' = previews
  BY DEF historyVars
<1> QED BY <1>1 DEF HistInv, EmptiedGo

\* A season starts with riders and nothing else.
LEMMA HistInitInv == HistoryInit => HistInv
<1>1. SUFFICES ASSUME HistoryInit PROVE HistInv
  OBVIOUS
<1>2. /\ archive.riders \in StartRosters
      /\ archive.seats = [r \in RosterIds |-> [held |-> FALSE, level |-> "", classes |-> {}]]
      /\ archive.classes = [c \in ClassIds |-> [exists |-> FALSE, name |-> "", level |-> "both"]]
      /\ archive.meets = [s \in MeetRows |-> "none"]
      /\ archive.showClasses = {} /\ archive.results = {}
      /\ archive = [riders |-> archive.riders, seats |-> archive.seats, classes |-> archive.classes,
                    meets |-> archive.meets, showClasses |-> archive.showClasses, results |-> archive.results]
  BY <1>1 DEF HistoryInit
<1>3. archive.riders \in [RosterIds -> RosterRider]
  <2>1. StartRosters \subseteq [RosterIds -> RosterRider]
    BY HistoryAssumption
  <2> QED BY <1>2, <2>1
<1>4. archive.seats \in [RosterIds -> Seat]
  <2>1. [held |-> FALSE, level |-> "", classes |-> {}] \in Seat
    BY DEF Seat
  <2> QED BY <1>2, <2>1
<1>5. archive.classes \in [ClassIds -> ClassTaught]
  <2>1. [exists |-> FALSE, name |-> "", level |-> "both"] \in ClassTaught
    BY DEF ClassTaught
  <2> QED BY <1>2, <2>1
<1>6. archive.meets \in [MeetRows -> ShowStates]
  BY <1>2 DEF ShowStates
<1>7. archive.showClasses \in SUBSET (MeetRows \X ClassIds) /\ archive.results \in SUBSET RideRow
  BY <1>2
<1>8. archive \in Archive
  BY <1>2, <1>3, <1>4, <1>5, <1>6, <1>7 DEF Archive
<1>9. RidesPlaced(archive)
  BY <1>2 DEF RidesPlaced
<1>10. previews \in [Importers -> Seq(Previewed)]
  <2>1. << >> \in Seq(Previewed)
    OBVIOUS
  <2> QED BY <1>1, <2>1 DEF HistoryInit
<1> QED BY <1>8, <1>9, <1>10 DEF HistInv

\* What the runs ask of the tables.
LEMMA HistSays == HistInv => HistoryTypeOK /\ RidesHaveTheirShow
<1>1. SUFFICES ASSUME HistInv PROVE HistoryTypeOK /\ RidesHaveTheirShow
  OBVIOUS
<1>2. archive \in Archive /\ RidesPlaced(archive)
  BY <1>1 DEF HistInv
<1>3. \A e \in archive.results : e.track \in RideTracks /\ e.result \in Nat \cup {NoResult}
  <2>1. archive.results \in SUBSET RideRow
    BY <1>2 DEF Archive
  <2> QED BY <2>1 DEF RideRow
<1>4. HistoryTypeOK
  BY <1>2, <1>3 DEF HistoryTypeOK, Archive, RidesPlaced, ShowStates
<1> QED BY <1>2, <1>4 DEF RidesPlaced, RidesHaveTheirShow

(*------------------------ what an import leaves -------------------------*)

\* What a commit may change while it goes: numbers come to a rider only where nobody had them,
\* and no seat but that of the rider at hand is left without a class.
Bare(db) == {r \in RosterIds : db.seats[r].held /\ db.seats[r].classes = {}}
NumbersHeld(new, db) ==
  \A n \in Numbers : \/ NumberHolders(new, n) = NumberHolders(db, n)
                     \/ \E r \in RosterIds : NumberHolders(new, n) \subseteq {r}

\* A row makes a rider only when nobody has the number.
LEMMA RiderAdds ==
  ASSUME NEW db \in Work, NEW row \in Previewed
  PROVE  LET new == CommitRider(db, row)
         IN new.seats = db.seats /\ NumbersHeld(new, db) /\ (new.ok => db.ok)
<1> DEFINE byNumber == NumberHolders(db, row.number)
           byName   == {r \in RosterRiders(db) : db.riders[r].name = row.name}
           free     == RosterIds \ RosterRiders(db)
           id       == Min(free)
           person   == [exists |-> TRUE, name |-> row.name, alias |-> NoName, number |-> row.number]
           riders   == [db.riders EXCEPT ![id] = person]
           made     == [db EXCEPT !.rider = id, !.riders = riders]
           Good(new) == new.seats = db.seats /\ NumbersHeld(new, db) /\ (new.ok => db.ok)
<1>1. Good(Failed(db))
  BY DEF Work, Failed, NumbersHeld, NumberHolders, RosterRiders
<1>2. ASSUME NEW r PROVE Good([db EXCEPT !.rider = r])
  BY DEF Work, NumbersHeld, NumberHolders, RosterRiders
<1>3. ASSUME free # {}, byNumber = {} PROVE Good(made)
  <2>1. id \in free /\ id \in RosterIds
    <3>1. free \in SUBSET Nat
      BY HistoryRows
    <3> HIDE DEF free
    <3>2. id \in free
      BY <1>3, <3>1, FirstFree
    <3> QED BY <3>2 DEF free
  <2>2. db.riders \in [RosterIds -> RosterRider] /\ ~db.riders[id].exists
    BY <2>1 DEF Work, RosterRiders
  <2> HIDE DEF id, free
  <2>3. /\ riders[id] = person /\ \A r \in RosterIds : r # id => riders[r] = db.riders[r]
    BY <2>1, <2>2
  <2>4. person.exists /\ person.number = row.number
    OBVIOUS
  <2> HIDE DEF person, riders
  <2>5. made.riders = riders /\ made.seats = db.seats /\ made.ok = db.ok
    BY DEF Work
  <2> HIDE DEF made
  <2>6. ASSUME NEW n \in Numbers
        PROVE  NumberHolders(made, n) = NumberHolders(db, n) \/ NumberHolders(made, n) \subseteq {id}
    <3>1. ASSUME NEW r \in RosterIds, r # id
          PROVE  r \in NumberHolders(made, n) <=> r \in NumberHolders(db, n)
      BY <2>3, <2>5, <3>1 DEF NumberHolders, RosterRiders
    <3>2. id \notin NumberHolders(db, n) /\ NumberHolders(db, n) \subseteq RosterIds /\ NumberHolders(made, n) \subseteq RosterIds
      BY <2>2 DEF NumberHolders, RosterRiders
    <3>3. CASE n = row.number
      <4>1. NumberHolders(db, n) = {}
        BY <1>3, <3>3
      <4> QED BY <3>1, <3>2, <4>1
    <3>4. CASE n # row.number
      <4>1. id \notin NumberHolders(made, n)
        BY <2>3, <2>4, <2>5, <3>4 DEF NumberHolders, RosterRiders
      <4> QED BY <3>1, <3>2, <4>1
    <3> QED BY <3>3, <3>4
  <2>7. NumbersHeld(made, db)
    BY <2>1, <2>6 DEF NumbersHeld
  <2> QED BY <2>5, <2>7
<1>4. [db EXCEPT !.rider = Min(free),
                 !.riders[Min(free)] = [exists |-> TRUE, name |-> row.name, alias |-> NoName, number |-> row.number]]
        = made
  BY DEF Work
<1> HIDE DEF Good, made, free
<1> QED BY <1>1, <1>2, <1>3, <1>4 DEF CommitRider, Good, free

\* A number is written where the rider has none and nobody else has it.
LEMMA NumberAdds ==
  ASSUME NEW db \in Work, NEW row \in Previewed, HasRider(db)
  PROVE  LET new == CommitNumber(db, row)
         IN new.seats = db.seats /\ NumbersHeld(new, db) /\ (new.ok => db.ok)
<1> DEFINE id     == db.rider
           person == [db.riders[id] EXCEPT !.number = row.number]
           riders == [db.riders EXCEPT ![id] = person]
           made   == [db EXCEPT !.riders = riders]
           Good(new) == new.seats = db.seats /\ NumbersHeld(new, db) /\ (new.ok => db.ok)
<1>1. Good(Failed(db)) /\ Good(db)
  BY DEF Work, Failed, NumbersHeld, NumberHolders, RosterRiders
<1>2. ASSUME db.ok, db.riders[id].number = NoNumber, NumberHolders(db, row.number) \ {id} = {}
      PROVE  Good(made)
  <2>1. id \in RosterIds /\ db.riders \in [RosterIds -> RosterRider] /\ db.riders[id] \in RosterRider
    BY <1>2 DEF Work, HasRider
  <2>2. person.number = row.number /\ person.exists = db.riders[id].exists
    BY <2>1 DEF RosterRider
  <2>3. riders[id] = person /\ \A r \in RosterIds : r # id => riders[r] = db.riders[r]
    BY <2>1
  <2> HIDE DEF person, riders
  <2>5. made.riders = riders /\ made.seats = db.seats /\ made.ok = db.ok
    BY DEF Work
  <2> HIDE DEF made
  <2>6. ASSUME NEW n \in Numbers
        PROVE  NumberHolders(made, n) = NumberHolders(db, n) \/ NumberHolders(made, n) \subseteq {id}
    <3>1. ASSUME NEW r \in RosterIds, r # id
          PROVE  r \in NumberHolders(made, n) <=> r \in NumberHolders(db, n)
      BY <2>3, <2>5, <3>1 DEF NumberHolders, RosterRiders
    <3>2. id \notin NumberHolders(db, n) /\ NumberHolders(db, n) \subseteq RosterIds /\ NumberHolders(made, n) \subseteq RosterIds
      BY <1>2 DEF NumberHolders, RosterRiders
    <3>3. CASE n = row.number
      <4>1. NumberHolders(db, n) = {}
        BY <1>2, <3>2, <3>3
      <4> QED BY <3>1, <3>2, <4>1
    <3>4. CASE n # row.number
      <4>1. id \notin NumberHolders(made, n)
        BY <2>2, <2>3, <2>5, <3>4 DEF NumberHolders, RosterRiders
      <4> QED BY <3>1, <3>2, <4>1
    <3> QED BY <3>3, <3>4
  <2>7. NumbersHeld(made, db)
    BY <2>1, <2>6 DEF NumbersHeld
  <2> QED BY <2>5, <2>7
<1>3. db.ok => [db EXCEPT !.riders[db.rider].number = row.number] = made
  BY DEF Work
<1> HIDE DEF Good, made
<1> QED BY <1>1, <1>2, <1>3 DEF CommitNumber, Good

\* A new seat is that of the rider at hand.
LEMMA SeatAdds ==
  ASSUME NEW db \in Work, NEW row \in Previewed, HasRider(db)
  PROVE  LET new == CommitSeat(db, row)
         IN /\ new.riders = db.riders /\ new.rider = db.rider /\ (new.ok => db.ok)
            /\ Bare(new) \subseteq Bare(db) \cup {db.rider}
<1> DEFINE id    == db.rider
           seat  == [held |-> TRUE, level |-> row.level, classes |-> {}]
           seats == [db.seats EXCEPT ![id] = seat]
           made  == [db EXCEPT !.seats = seats]
           Good(new) == /\ new.riders = db.riders /\ new.rider = db.rider /\ (new.ok => db.ok)
                        /\ Bare(new) \subseteq Bare(db) \cup {db.rider}
<1>1. Good(Failed(db)) /\ Good(db)
  BY DEF Work, Failed, Bare
<1>2. Good(made)
  <2>1. db.seats \in [RosterIds -> Seat]
    BY DEF Work
  <2>2. \A r \in RosterIds : r # id => seats[r] = db.seats[r]
    BY <2>1
  <2> HIDE DEF seats
  <2>3. made.riders = db.riders /\ made.rider = id /\ made.seats = seats /\ made.ok = db.ok
    BY DEF Work
  <2> HIDE DEF made
  <2> QED BY <2>2, <2>3 DEF Bare
<1>3. [db EXCEPT !.seats[db.rider] = [held |-> TRUE, level |-> row.level, classes |-> {}]] = made
  BY DEF Work
<1> HIDE DEF Good, made
<1> QED BY <1>1, <1>2, <1>3 DEF CommitSeat, Good

\* The class is found or made without touching the roster.
LEMMA ClassAdds ==
  ASSUME NEW db \in Work, NEW row \in Previewed
  PROVE  LET new == CommitClass(db, row)
         IN new.riders = db.riders /\ new.seats = db.seats /\ new.rider = db.rider /\ (new.ok => db.ok)
<1>1. Failed(db).riders = db.riders /\ Failed(db).seats = db.seats /\ Failed(db).rider = db.rider /\ ~Failed(db).ok
  BY DEF Work, Failed
<1>2. ASSUME NEW c
      PROVE  LET new == [db EXCEPT !.class = c]
             IN new.riders = db.riders /\ new.seats = db.seats /\ new.rider = db.rider /\ new.ok = db.ok
  BY DEF Work
<1>3. ASSUME NEW c, NEW k
      PROVE  LET new == [db EXCEPT !.class = c, !.classes[c] = k]
             IN new.riders = db.riders /\ new.seats = db.seats /\ new.rider = db.rider /\ new.ok = db.ok
  BY DEF Work
<1> QED BY <1>1, <1>2, <1>3 DEF CommitClass

\* The rider leaves the row with a class, or the commit fails.
LEMMA AssignmentAdds ==
  ASSUME NEW db \in Work, NEW row \in Previewed, HasRider(db)
  PROVE  LET new == CommitAssignment(db, row)
         IN /\ new.riders = db.riders /\ (new.ok => db.ok)
            /\ new.ok => Bare(new) \subseteq Bare(db) \ {db.rider}
<1> DEFINE id    == db.rider
           seat  == [db.seats[id] EXCEPT !.classes = @ \cup {db.class}]
           seats == [db.seats EXCEPT ![id] = seat]
           made  == [db EXCEPT !.seats = seats]
           Good(new) == /\ new.riders = db.riders /\ (new.ok => db.ok)
                        /\ new.ok => Bare(new) \subseteq Bare(db) \ {db.rider}
<1>1. Good(Failed(db))
  BY DEF Work, Failed
<1>2. (~db.ok \/ db.class \in db.seats[db.rider].classes) => Good(db)
  BY DEF Bare
<1>3. db.ok => Good(made)
  <2>1. SUFFICES ASSUME db.ok PROVE Good(made)
    OBVIOUS
  <2>2. id \in RosterIds /\ db.seats \in [RosterIds -> Seat] /\ db.seats[id] \in Seat
    BY <2>1 DEF Work, HasRider
  <2>3. db.class \in seat.classes
    BY <2>2 DEF Seat
  <2>4. seats[id] = seat /\ \A r \in RosterIds : r # id => seats[r] = db.seats[r]
    BY <2>2
  <2> HIDE DEF seat, seats
  <2>5. made.riders = db.riders /\ made.seats = seats /\ made.ok = db.ok
    BY DEF Work
  <2> HIDE DEF made
  <2> QED BY <2>3, <2>4, <2>5 DEF Bare
<1>4. db.ok => [db EXCEPT !.seats[db.rider].classes = @ \cup {db.class}] = made
  BY DEF Work
<1> HIDE DEF Good, made
<1> QED BY <1>1, <1>2, <1>3, <1>4 DEF CommitAssignment, Good

\* Only history shows change, and they become complete.
OnlyCompletes(new, db) ==
  \A s \in MeetRows : new.meets[s] = db.meets[s] \/ (s.historical /\ new.meets[s] = "complete")

\* Recorded results stay, and what is added is recorded.
ResultsOnlyCome(new, db) ==
  /\ \A e \in db.results : e.result # NoResult => e \in new.results
  /\ \A e \in new.results : e.result = NoResult => e \in db.results
  /\ IsFiniteSet(db.results) => IsFiniteSet(new.results)

LEMMA ShowAdds ==
  ASSUME NEW db \in Work, NEW row \in Previewed, NEW historicalFirst \in BOOLEAN
  PROVE  LET new == CommitShow(db, row, historicalFirst)
         IN new.riders = db.riders /\ new.seats = db.seats /\ (new.ok => db.ok) /\ OnlyCompletes(new, db)
<1> DEFINE there == {s \in MeetRows : s.meet = row.meet /\ db.meets[s] # "none"}
           first == [meet |-> row.meet, historical |-> historicalFirst]
           show  == IF there = {} THEN [meet |-> row.meet, historical |-> TRUE]
                    ELSE IF first \in there THEN first ELSE CHOOSE s \in there : TRUE
           state == IF show.historical THEN "complete" ELSE db.meets[show]
           meets2 == [db.meets EXCEPT ![show] = state]
           made  == [db EXCEPT !.show = show, !.meets = meets2]
<1>1. CommitShow(db, row, historicalFirst) = IF ~db.ok THEN db ELSE made
  BY DEF CommitShow, Work
<1>2. \A s \in MeetRows : meets2[s] = db.meets[s] \/ (s.historical /\ meets2[s] = "complete")
  <2> HIDE DEF show
  <2>1. db.meets \in [MeetRows -> ShowStates]
    BY DEF Work
  <2>2. \A s \in MeetRows : s # show => meets2[s] = db.meets[s]
    BY <2>1
  <2>3. show \in MeetRows => meets2[show] = state
    BY <2>1
  <2> QED BY <2>2, <2>3
<1> HIDE DEF show, meets2
<1>3. made.riders = db.riders /\ made.seats = db.seats /\ made.ok = db.ok /\ made.meets = meets2
  BY DEF Work
<1> HIDE DEF made
<1> QED BY <1>1, <1>2, <1>3 DEF OnlyCompletes

\* A result is written where none is recorded.
LEMMA ResultAdds ==
  ASSUME NEW db \in Work, NEW row \in Previewed
  PROVE  LET new == CommitResult(db, row)
         IN /\ new.riders = db.riders /\ new.seats = db.seats /\ new.meets = db.meets /\ (new.ok => db.ok)
            /\ ResultsOnlyCome(new, db)
<1> DEFINE ride == [show |-> db.show, class |-> db.class, rider |-> db.rider, track |-> row.track,
                    scratched |-> FALSE, pointRider |-> FALSE, result |-> row.points]
           kept == \E e \in db.results : RideKey(e) = RideKey(ride) /\ e.result # NoResult
           results2 == IF kept THEN db.results ELSE {e \in db.results : RideKey(e) # RideKey(ride)} \cup {ride}
           rows2 == db.showClasses \cup {<<db.show, db.class>>}
           made == [db EXCEPT !.showClasses = rows2, !.results = results2]
<1>1. CommitResult(db, row) = IF ~db.ok THEN db ELSE made
  BY DEF CommitResult, Work
<1>2. ride.result # NoResult
  <2>1. row.points \in Nat
    BY DEF Previewed, PreviewRow
  <2>2. ride.result = row.points
    OBVIOUS
  <2> QED BY <2>1, <2>2 DEF NoResult
<1> HIDE DEF ride
<1>3. /\ \A e \in db.results : e.result # NoResult => e \in results2
      /\ \A e \in results2 : e.result = NoResult => e \in db.results
  BY <1>2
<1>4. IsFiniteSet(db.results) => IsFiniteSet(results2)
  <2>1. SUFFICES ASSUME IsFiniteSet(db.results) PROVE IsFiniteSet(results2)
    OBVIOUS
  <2> DEFINE rest == {e \in db.results : RideKey(e) # RideKey(ride)}
  <2>2. rest \subseteq db.results
    OBVIOUS
  <2> HIDE DEF rest
  <2>3. IsFiniteSet(rest \cup {ride})
    BY <2>1, <2>2, FS_Subset, FS_AddElement
  <2> QED BY <2>1, <2>3 DEF rest
<1> HIDE DEF results2, rows2
<1>5. made.riders = db.riders /\ made.seats = db.seats /\ made.ok = db.ok /\ made.meets = db.meets /\ made.results = results2
  BY DEF Work
<1> HIDE DEF made
<1>6. ResultsOnlyCome(db, db)
  BY DEF ResultsOnlyCome
<1> QED BY <1>1, <1>3, <1>4, <1>5, <1>6 DEF ResultsOnlyCome

\* What a commit that goes through does to the tables.
OnlyAdds(new, db) ==
  /\ NumbersHeld(new, db) /\ Bare(new) \subseteq Bare(db)
  /\ OnlyCompletes(new, db) /\ ResultsOnlyCome(new, db)

LEMMA OnlyAddsItself == ASSUME NEW db PROVE OnlyAdds(db, db)
BY DEF OnlyAdds, NumbersHeld, OnlyCompletes, ResultsOnlyCome

LEMMA OnlyAddsChain ==
  ASSUME NEW a, NEW b, NEW c, OnlyAdds(a, b), OnlyAdds(b, c)
  PROVE  OnlyAdds(a, c)
<1>1. NumbersHeld(a, c)
  <2>1. SUFFICES ASSUME NEW n \in Numbers
                 PROVE  NumberHolders(a, n) = NumberHolders(c, n) \/ \E r \in RosterIds : NumberHolders(a, n) \subseteq {r}
    BY DEF NumbersHeld
  <2>2. NumberHolders(a, n) = NumberHolders(b, n) \/ \E r \in RosterIds : NumberHolders(a, n) \subseteq {r}
    BY DEF OnlyAdds, NumbersHeld
  <2>3. NumberHolders(b, n) = NumberHolders(c, n) \/ \E r \in RosterIds : NumberHolders(b, n) \subseteq {r}
    BY DEF OnlyAdds, NumbersHeld
  <2> QED BY <2>2, <2>3
<1>2. Bare(a) \subseteq Bare(c)
  BY DEF OnlyAdds
<1>3. OnlyCompletes(a, c)
  BY DEF OnlyAdds, OnlyCompletes
<1>4. ResultsOnlyCome(a, c)
  BY DEF OnlyAdds, ResultsOnlyCome
<1> QED BY <1>1, <1>2, <1>3, <1>4 DEF OnlyAdds

\* Tables with the same riders have the same numbers.
LEMMA SameNumbers ==
  ASSUME NEW new, NEW db, new.riders = db.riders
  PROVE  \A n : NumberHolders(new, n) = NumberHolders(db, n)
BY DEF NumberHolders, RosterRiders

\* One row, through its look-ups.
LEMMA RowAdds ==
  ASSUME NEW db \in Work, NEW row \in Previewed, NEW historicalFirst \in BOOLEAN
  PROVE  LET new == CommitRow(db, row, historicalFirst) IN new.ok => db.ok /\ OnlyAdds(new, db)
<1> DEFINE d1 == CommitRider(db, row)
           d2 == CommitNumber(d1, row)
           d3 == CommitSeat(d2, row)
           d4 == CommitClass(d3, row)
           d5 == CommitAssignment(d4, row)
           d6 == CommitShow(d5, row, historicalFirst)
           d7 == CommitResult(d6, row)
<1>1. d1 \in Work /\ SameRides(d1, db) /\ HasRider(d1) /\ d1.seats = db.seats /\ NumbersHeld(d1, db) /\ (d1.ok => db.ok)
  BY RiderCommitted, RiderAdds
<1> HIDE DEF d1
<1>2. d2 \in Work /\ SameRides(d2, d1) /\ HasRider(d2) /\ d2.seats = d1.seats /\ NumbersHeld(d2, d1) /\ (d2.ok => d1.ok)
  BY <1>1, NumberCommitted, NumberAdds
<1> HIDE DEF d2
<1>3. /\ d3 \in Work /\ SameRides(d3, d2) /\ HasRider(d3) /\ d3.riders = d2.riders /\ (d3.ok => d2.ok)
      /\ d3.rider = d2.rider /\ Bare(d3) \subseteq Bare(d2) \cup {d2.rider}
  BY <1>2, SeatCommitted, SeatAdds
<1> HIDE DEF d3
<1>4. /\ d4 \in Work /\ SameRides(d4, d3) /\ HasRider(d4) /\ HasClass(d4) /\ d4.riders = d3.riders
      /\ d4.seats = d3.seats /\ d4.rider = d3.rider /\ (d4.ok => d3.ok)
  BY <1>3, ClassCommitted, ClassAdds
<1> HIDE DEF d4
<1>5. /\ d5 \in Work /\ SameRides(d5, d4) /\ HasRider(d5) /\ HasClass(d5) /\ d5.riders = d4.riders /\ (d5.ok => d4.ok)
      /\ d5.ok => Bare(d5) \subseteq Bare(d4) \ {d4.rider}
  BY <1>4, AssignmentCommitted, AssignmentAdds
<1> HIDE DEF d5
<1>6. /\ d6 \in Work /\ d6.results = d5.results
      /\ d6.riders = d5.riders /\ d6.seats = d5.seats /\ (d6.ok => d5.ok) /\ OnlyCompletes(d6, d5)
  BY <1>5, ShowCommitted, ShowAdds
<1> HIDE DEF d6
<1>7. /\ d7.riders = d6.riders /\ d7.seats = d6.seats /\ d7.meets = d6.meets /\ (d7.ok => d6.ok)
      /\ ResultsOnlyCome(d7, d6)
  BY <1>6, ResultAdds
<1> HIDE DEF d7
<1>8. d7.ok => db.ok /\ OnlyAdds(d7, db)
  <2>1. SUFFICES ASSUME d7.ok PROVE db.ok /\ OnlyAdds(d7, db)
    OBVIOUS
  <2>2. d6.ok /\ d5.ok /\ db.ok
    BY <1>1, <1>2, <1>3, <1>4, <1>5, <1>6, <1>7, <2>1
  <2>3. d6.results = db.results /\ d5.meets = db.meets
    BY <1>1, <1>2, <1>3, <1>4, <1>5, <1>6 DEF SameRides
  <2>4. OnlyCompletes(d7, db)
    BY <1>6, <1>7, <2>3 DEF OnlyCompletes
  <2>5. ResultsOnlyCome(d7, db)
    BY <1>7, <2>3 DEF ResultsOnlyCome
  <2>6. Bare(d7) \subseteq Bare(db)
    <3>1. Bare(d7) = Bare(d5) /\ Bare(d4) = Bare(d3) /\ Bare(d2) = Bare(db)
      BY <1>1, <1>2, <1>4, <1>6, <1>7 DEF Bare
    <3> QED BY <1>3, <1>4, <1>5, <2>2, <3>1
  <2>7. NumbersHeld(d7, db)
    <3>1. d7.riders = d2.riders
      BY <1>3, <1>4, <1>5, <1>6, <1>7
    <3>2. \A n : NumberHolders(d7, n) = NumberHolders(d2, n)
      BY <3>1, SameNumbers
    <3>3. SUFFICES ASSUME NEW n \in Numbers
                   PROVE  NumberHolders(d7, n) = NumberHolders(db, n) \/ \E r \in RosterIds : NumberHolders(d7, n) \subseteq {r}
      BY DEF NumbersHeld
    <3>4. NumberHolders(d2, n) = NumberHolders(d1, n) \/ \E r \in RosterIds : NumberHolders(d2, n) \subseteq {r}
      BY <1>2 DEF NumbersHeld
    <3>5. NumberHolders(d1, n) = NumberHolders(db, n) \/ \E r \in RosterIds : NumberHolders(d1, n) \subseteq {r}
      BY <1>1 DEF NumbersHeld
    <3> QED BY <3>2, <3>4, <3>5
  <2> QED BY <2>2, <2>4, <2>5, <2>6, <2>7 DEF OnlyAdds
<1>9. ~Failed(db).ok
  BY WorkWrites
<1>10. CommitRow(db, row, historicalFirst) \in {db, Failed(db), d7}
  BY DEF CommitRow, d1, d2, d3, d4, d5, d6, d7
<1>11. OnlyAdds(db, db)
  BY OnlyAddsItself
<1>12. CASE CommitRow(db, row, historicalFirst) = db
  BY <1>11, <1>12
<1>13. CASE CommitRow(db, row, historicalFirst) = Failed(db)
  BY <1>9, <1>13
<1>14. CASE CommitRow(db, row, historicalFirst) = d7
  BY <1>8, <1>14
<1> QED BY <1>10, <1>12, <1>13, <1>14

\* And a whole commit.
LEMMA CommitAdds ==
  ASSUME NEW db \in Archive, RidesPlaced(db), NEW rows \in Seq(Previewed), NEW historicalFirst \in BOOLEAN,
         Committed(Opened(db), rows, historicalFirst).ok
  PROVE  OnlyAdds(Tables(Committed(Opened(db), rows, historicalFirst)), db)
<1> DEFINE open == Opened(db)
           done == Committed(open, rows, historicalFirst)
           new  == Tables(done)
<1>1. /\ open \in Work /\ open.results = db.results /\ open.showClasses = db.showClasses /\ open.meets = db.meets
      /\ open.riders = db.riders /\ open.seats = db.seats
  BY DEF Opened, Archive, Work
<1> HIDE DEF open
<1>2. RidesPlaced(open)
  BY <1>1 DEF RidesPlaced
<1>3. Len(rows) \in Nat /\ \A n \in 1..Len(rows) : rows[n] \in Previewed
  OBVIOUS
<1>4. PICK g : IsCommit(g, open, rows, historicalFirst, Len(rows)) /\ done = g[Len(rows)]
  BY <1>3, CommitIsTheLast
<1>5. \A n \in 0..Len(rows) : g[n] = IF n = 0 THEN open ELSE CommitRow(g[n - 1], rows[n], historicalFirst)
  BY <1>4 DEF IsCommit
<1> DEFINE Fine(n) == Sound(g[n], open) /\ (g[n].ok => OnlyAdds(g[n], open))
           N == {n \in Nat : n <= Len(rows) => Fine(n)}
<1>6. 0 \in N
  <2>1. g[0] = open
    BY <1>3, <1>5
  <2>2. Sound(g[0], open) /\ OnlyAdds(g[0], open)
    BY <1>1, <1>2, <2>1, OnlyAddsItself DEF Sound, Covers
  <2> QED BY <2>2
<1>7. ASSUME NEW n \in Nat, n \in N PROVE n + 1 \in N
  <2>1. SUFFICES ASSUME n + 1 <= Len(rows) PROVE Fine(n + 1)
    OBVIOUS
  <2>2. Fine(n) /\ n + 1 \in 1..Len(rows) /\ n + 1 \in 0..Len(rows) /\ (n + 1) - 1 = n /\ n + 1 # 0
    BY <1>3, <1>7, <2>1
  <2>3. g[n + 1] = CommitRow(g[n], rows[n + 1], historicalFirst) /\ rows[n + 1] \in Previewed
    BY <1>3, <1>5, <2>2
  <2>4. g[n] \in Work /\ RidesPlaced(g[n]) /\ Covers(g[n], open)
    BY <2>2 DEF Sound
  <2>5. Sound(g[n + 1], g[n])
    BY <2>3, <2>4, RowCommitted
  <2>6. Sound(g[n + 1], open)
    BY <2>4, <2>5, CoversChain DEF Sound
  <2>7. g[n + 1].ok => g[n].ok /\ OnlyAdds(g[n + 1], g[n])
    BY <2>3, <2>4, RowAdds
  <2> QED BY <2>2, <2>6, <2>7, OnlyAddsChain
<1> HIDE DEF N
<1>8. Nat \subseteq N
  BY <1>6, <1>7, NatSetInduction
<1>9. OnlyAdds(done, open)
  <2>1. Fine(Len(rows))
    BY <1>3, <1>8 DEF N
  <2>2. done.ok
    BY DEF open
  <2> QED BY <1>4, <2>1, <2>2
<1> HIDE DEF done
<1>10. new.riders = done.riders /\ new.seats = done.seats /\ new.meets = done.meets /\ new.results = done.results
  BY DEF Tables
<1> HIDE DEF new
<1>11. (\A n : NumberHolders(new, n) = NumberHolders(done, n)) /\ (\A n : NumberHolders(open, n) = NumberHolders(db, n))
  BY <1>1, <1>10, SameNumbers
<1>12. NumbersHeld(new, db)
  <2>1. SUFFICES ASSUME NEW n \in Numbers
                 PROVE  NumberHolders(new, n) = NumberHolders(db, n) \/ \E r \in RosterIds : NumberHolders(new, n) \subseteq {r}
    BY DEF NumbersHeld
  <2>2. NumberHolders(done, n) = NumberHolders(open, n) \/ \E r \in RosterIds : NumberHolders(done, n) \subseteq {r}
    BY <1>9 DEF OnlyAdds, NumbersHeld
  <2> QED BY <1>11, <2>2
<1>13. Bare(new) \subseteq Bare(db) /\ OnlyCompletes(new, db) /\ ResultsOnlyCome(new, db)
  BY <1>1, <1>9, <1>10 DEF OnlyAdds, Bare, OnlyCompletes, ResultsOnlyCome
<1>14. OnlyAdds(new, db)
  BY <1>12, <1>13 DEF OnlyAdds
<1> QED BY <1>14 DEF new, done, open

\* A step of the import page adds, if it changes the tables at all.
LEMMA ImportAdds ==
  ASSUME HistInv, ImportStep
  PROVE  OnlyAdds(archive', archive)
<1>0. archive \in Archive /\ RidesPlaced(archive) /\ previews \in [Importers -> Seq(Previewed)]
  BY DEF HistInv
<1>1. archive' = archive => OnlyAdds(archive', archive)
  BY OnlyAddsItself
<1>2. ASSUME NEW m \in Importers, NEW historicalFirst \in BOOLEAN, ImportCommit(m, historicalFirst)
      PROVE  OnlyAdds(archive', archive)
  <2>1. previews[m] \in Seq(Previewed)
    BY <1>0
  <2>2. /\ Committed(Opened(archive), previews[m], historicalFirst).ok
        /\ archive' = Tables(Committed(Opened(archive), previews[m], historicalFirst))
    BY <1>2 DEF ImportCommit
  <2> QED BY <1>0, <2>1, <2>2, CommitAdds
<1>3. \A m, rows : ImportPreview(m, rows) => archive' = archive
  BY DEF ImportPreview
<1>4. \A m : ImportClear(m) => archive' = archive
  BY DEF ImportClear
<1> QED BY <1>1, <1>2, <1>3, <1>4 DEF ImportStep

\* Where a class row is taken out, the entries stay.
LEMMA WithoutEmptiedResults ==
  ASSUME NEW db, NEW show, NEW c
  PROVE  WithoutEmptied(db, show, c).results = db.results
BY DEF WithoutEmptied

\* No step of history makes the recorded rides endless.
ResultsFinite == IsFiniteSet(archive.results)

LEMMA ResultsStayFinite ==
  ASSUME HistInv, HistoryNext, ResultsFinite
  PROVE  ResultsFinite'
<1>0. archive \in Archive /\ IsFiniteSet(archive.results)
  BY DEF HistInv, ResultsFinite
<1>1. ASSUME NEW x, archive'.results \subseteq archive.results \cup {x} PROVE ResultsFinite'
  <2>1. IsFiniteSet(archive.results \cup {x})
    BY <1>0, FS_AddElement
  <2>2. IsFiniteSet(archive'.results)
    BY <1>1, <2>1, FS_Subset
  <2> QED BY <2>2 DEF ResultsFinite
<1>2. archive'.results = archive.results => ResultsFinite'
  BY DEF ResultsFinite
<1>3. CASE ImportStep
  BY <1>0, <1>3, ImportAdds DEF OnlyAdds, ResultsOnlyCome, ResultsFinite
<1>4. CASE ResultStep
  <2>1. ASSUME NEW r \in RosterIds, NEW meet \in Meets, NEW c \in ClassIds, NEW track \in RideTracks, NEW points \in Scores,
               HistoricalResultAdd(r, meet, c, track, points)
        PROVE  ResultsFinite'
    <3> DEFINE show == [meet |-> meet, historical |-> TRUE]
               new == [show |-> show, class |-> c, rider |-> r, track |-> track,
                       scratched |-> FALSE, pointRider |-> FALSE, result |-> points]
    <3>1. archive'.results = {e \in archive.results : RideKey(e) # RideKey(new)} \cup {new}
      <4>1. archive' = [archive EXCEPT !.meets[show] = "complete", !.showClasses = @ \cup {<<show, c>>},
                                       !.results = {e \in @ : RideKey(e) # RideKey(new)} \cup {new}]
        BY <2>1 DEF HistoricalResultAdd
      <4> HIDE DEF show, new
      <4> QED BY <1>0, <4>1 DEF Archive
    <3> HIDE DEF new
    <3>2. archive'.results \subseteq archive.results \cup {new}
      BY <3>1
    <3> QED BY <1>1, <3>2
  <2>2. ASSUME NEW e \in archive.results, NEW c \in ClassIds, NEW track \in RideTracks, NEW points \in Scores,
               HistoricalResultEdit(e, c, track, points)
        PROVE  ResultsFinite'
    <3> DEFINE new == [e EXCEPT !.class = c, !.track = track, !.scratched = FALSE, !.pointRider = FALSE, !.result = points]
               moved == [archive EXCEPT !.showClasses = @ \cup {<<e.show, c>>}, !.results = (@ \ {e}) \cup {new}]
    <3>1. archive' = WithoutEmptied(moved, e.show, e.class)
      BY <2>2 DEF HistoricalResultEdit
    <3> HIDE DEF new
    <3>2. moved.results = (archive.results \ {e}) \cup {new}
      BY <1>0 DEF Archive
    <3> HIDE DEF moved
    <3>3. archive'.results = moved.results
      BY <3>1, WithoutEmptiedResults
    <3>4. archive'.results \subseteq archive.results \cup {new}
      BY <3>2, <3>3
    <3> QED BY <1>1, <3>4
  <2>3. ASSUME NEW e \in archive.results, HistoricalResultDelete(e) PROVE ResultsFinite'
    <3> DEFINE cut == [archive EXCEPT !.results = @ \ {e}]
               gone == WithoutEmptied(cut, e.show, e.class)
    <3>1. cut.results = archive.results \ {e}
      BY <1>0 DEF Archive
    <3>2. /\ (~ \E o \in gone.results : o.show = e.show)
               => archive' = [gone EXCEPT !.meets[e.show] = "none", !.showClasses = {sc \in @ : sc[1] # e.show}]
          /\ ~(~ \E o \in gone.results : o.show = e.show) => archive' = gone
      BY <2>3 DEF HistoricalResultDelete
    <3> HIDE DEF cut
    <3>3. gone.results = cut.results
      BY WithoutEmptiedResults
    <3> HIDE DEF gone
    <3>4. [gone EXCEPT !.meets[e.show] = "none", !.showClasses = {sc \in @ : sc[1] # e.show}].results = gone.results
      OBVIOUS
    <3>5. archive'.results \subseteq archive.results \cup {e}
      BY <3>1, <3>2, <3>3, <3>4
    <3> QED BY <1>1, <3>5
  <2> QED BY <1>4, <2>1, <2>2, <2>3 DEF ResultStep
<1>5. CASE PortalStep
  <2>1. ASSUME NEW r, NEW number, RosterRiderEdit(r, number) PROVE archive'.results = archive.results
    BY <1>0, <2>1 DEF RosterRiderEdit, Archive
  <2>2. ASSUME NEW r, NEW level, NEW cs, SeatSave(r, level, cs) PROVE archive'.results = archive.results
    BY <1>0, <2>2 DEF SeatSave, Archive
  <2>3. ASSUME NEW c, NEW name, NEW level, SeasonClassSave(c, name, level) PROVE archive'.results = archive.results
    BY <1>0, <2>3 DEF SeasonClassSave, Archive
  <2>4. ASSUME NEW meet, LiveMeet(meet) PROVE archive'.results = archive.results
    BY <1>0, <2>4 DEF LiveMeet, Archive
  <2>5. ASSUME NEW r, NEW meet, NEW c, NEW track, NEW pointRider, LiveRide(r, meet, c, track, pointRider) PROVE ResultsFinite'
    <3> DEFINE show == [meet |-> meet, historical |-> FALSE]
               new == [show |-> show, class |-> c, rider |-> r, track |-> track,
                       scratched |-> FALSE, pointRider |-> pointRider, result |-> NoResult]
    <3>1. archive' = [archive EXCEPT !.showClasses = @ \cup {<<show, c>>}, !.results = @ \cup {new}]
      BY <2>5 DEF LiveRide
    <3> HIDE DEF new, show
    <3>2. archive'.results = archive.results \cup {new}
      BY <1>0, <3>1 DEF Archive
    <3> QED BY <1>1, <3>2
  <2>6. ASSUME NEW e, NEW points, LiveResult(e, points) PROVE ResultsFinite'
    <3> DEFINE new == [e EXCEPT !.result = points]
    <3>1. archive' = [archive EXCEPT !.results = (@ \ {e}) \cup {new}]
      BY <2>6 DEF LiveResult
    <3> HIDE DEF new
    <3>2. archive'.results \subseteq archive.results \cup {new}
      BY <1>0, <3>1 DEF Archive
    <3> QED BY <1>1, <3>2
  <2> QED BY <1>2, <1>5, <2>1, <2>2, <2>3, <2>4, <2>5, <2>6 DEF PortalStep
<1> QED BY <1>3, <1>4, <1>5 DEF HistoryNext

\* No rider loses points where recorded results stay.
LEMMA PointsDoNotFall ==
  ASSUME HistInv, HistInv', ResultsFinite, ResultsFinite', ResultsOnlyCome(archive', archive),
         NEW r \in RosterIds, NEW c \in ClassIds
  PROVE  RegularTotal(r, c)' >= RegularTotal(r, c)
<1> DEFINE Counts(e) == /\ e.rider = r /\ e.class = c /\ e.track = "regular" /\ ~e.scratched
                        /\ e.show.meet \in RegularMeets /\ e.result # NoResult
           S == {e \in archive.results : Counts(e)}
           T == {e \in archive'.results : Counts(e)}
           f == [e \in archive.results |-> e.result]
           h == [e \in archive'.results |-> e.result]
<1>1. RegularTotal(r, c) = SumFunctionOnSet(f, S) /\ RegularTotal(r, c)' = SumFunctionOnSet(h, T)
  BY DEF RegularTotal
<1>2. S \subseteq T
  BY DEF ResultsOnlyCome
<1>3. IsFiniteSet(T) /\ IsFiniteSet(S)
  <2>1. T \subseteq archive'.results /\ S \subseteq archive.results
    OBVIOUS
  <2>2. IsFiniteSet(archive.results) /\ IsFiniteSet(archive'.results)
    BY DEF ResultsFinite
  <2> HIDE DEF S, T
  <2> QED BY <2>1, <2>2, FS_Subset
<1>4. \A e \in T : h[e] \in Nat
  <2>1. archive'.results \in SUBSET RideRow
    BY DEF HistInv, Archive
  <2>2. SUFFICES ASSUME NEW e \in T PROVE h[e] \in Nat
    OBVIOUS
  <2>3. e \in RideRow /\ e \in archive'.results /\ e.result # NoResult
    BY <2>1
  <2>4. e.result \in Nat
    BY <2>3 DEF RideRow
  <2> QED BY <2>3, <2>4
<1>5. \A e \in S : f[e] = h[e]
  BY <1>2
<1> HIDE DEF S, T, f, h
<1>6. SumFunctionOnSet(f, S) = SumFunctionOnSet(h, S)
  BY <1>3, <1>5, SumOnExtensional
<1>7. SumFunctionOnSet(h, S) <= SumFunctionOnSet(h, T)
  BY <1>2, <1>3, <1>4, SumOnPart
<1>8. SumFunctionOnSet(h, T) \in Nat /\ SumFunctionOnSet(h, S) \in Nat
  BY <1>2, <1>3, <1>4, SumOnNat
<1> DEFINE x == SumFunctionOnSet(h, S)
           y == SumFunctionOnSet(h, T)
<1>9. RegularTotal(r, c) = x /\ RegularTotal(r, c)' = y /\ x <= y /\ x \in Nat /\ y \in Nat
  BY <1>1, <1>6, <1>7, <1>8
<1> HIDE DEF x, y
<1> QED BY <1>9

\* A number that more riders hold than before is held by one.
LEMMA NumbersStayUnique ==
  ASSUME HistInv, NumbersHeld(archive', archive), NEW n \in Numbers,
         Cardinality(NumberHolders(archive', n)) > Cardinality(NumberHolders(archive, n))
  PROVE  Cardinality(NumberHolders(archive', n)) = 1
<1> DEFINE A == NumberHolders(archive, n)
           B == NumberHolders(archive', n)
<1>1. IsFiniteSet(RosterIds)
  BY HistoryRows
<1>2. A \subseteq RosterIds
  BY DEF NumberHolders, RosterRiders
<1>3. B = A \/ \E r \in RosterIds : B \subseteq {r}
  BY DEF NumbersHeld
<1> HIDE DEF A, B
<1>4. Cardinality(A) \in Nat
  BY <1>1, <1>2, FS_Subset, FS_CardinalityType
<1>5. Cardinality(B) > Cardinality(A)
  BY DEF A, B
<1>6. B # A
  BY <1>4, <1>5
<1>7. ASSUME NEW r \in RosterIds, B \subseteq {r} PROVE Cardinality(B) = 1
  <2>1. B = {} \/ B = {r}
    BY <1>7
  <2>2. Cardinality({}) = 0 /\ Cardinality({r}) = 1
    BY FS_EmptySet, FS_Singleton
  <2>3. B # {}
    BY <1>4, <1>5, <2>2
  <2> QED BY <2>1, <2>2, <2>3
<1>8. PICK r \in RosterIds : B \subseteq {r}
  BY <1>3, <1>6
<1>9. Cardinality(B) = 1
  BY <1>7, <1>8
<1> QED BY <1>9 DEF B

\* Nothing new stands in the way of archiving the season.
LEMMA NoNewIssues ==
  ASSUME HistInv, HistInv', OnlyAdds(archive', archive)
  PROVE  ReadinessIssues' \subseteq ReadinessIssues
<1> DEFINE Shows(db) == {<<"show", s>> : s \in {t \in MeetRows : db.meets[t] \notin {"none", "complete", "cancelled"}}}
           Entries(db) == {<<"entry", RideKey(e)>> : e \in {f \in db.results : ~f.scratched /\ f.result = NoResult}}
           Seats(db) == {<<"seat", r>> : r \in {q \in RosterIds : db.seats[q].held /\ db.seats[q].classes = {}}}
<1>1. ReadinessIssues = (Shows(archive) \cup Entries(archive)) \cup Seats(archive)
  BY DEF ReadinessIssues
<1>2. ReadinessIssues' = (Shows(archive') \cup Entries(archive')) \cup Seats(archive')
  BY DEF ReadinessIssues
<1>3. Shows(archive') \subseteq Shows(archive)
  BY DEF OnlyAdds, OnlyCompletes
<1>4. Entries(archive') \subseteq Entries(archive)
  <2>1. {f \in archive'.results : ~f.scratched /\ f.result = NoResult}
          \subseteq {f \in archive.results : ~f.scratched /\ f.result = NoResult}
    BY DEF OnlyAdds, ResultsOnlyCome
  <2> QED BY <2>1
<1>5. Seats(archive') \subseteq Seats(archive)
  BY DEF OnlyAdds, Bare
<1> HIDE DEF Shows, Entries, Seats
<1> QED BY <1>1, <1>2, <1>3, <1>4, <1>5

\* A commit only adds (_historical_import_commit).
ImportEnds == \E m \in Importers : previews[m] # <<>> /\ previews'[m] = <<>>
OnlyAddsToArchive ==
  /\ \A e \in archive.results : e.result # NoResult => e \in archive'.results
  /\ \A r \in RosterIds, c \in ClassIds : RegularTotal(r, c)' >= RegularTotal(r, c)
  /\ \A s \in MeetRows : ~s.historical => archive'.meets[s] = archive.meets[s]
  /\ \A n \in Numbers : Cardinality(NumberHolders(archive', n)) > Cardinality(NumberHolders(archive, n))
                          => Cardinality(NumberHolders(archive', n)) = 1
  /\ ReadinessIssues' \subseteq ReadinessIssues

LEMMA ImportStepAdds ==
  ASSUME HistInv, HistInv', ResultsFinite, ResultsFinite', HistoryNext, ImportEnds
  PROVE  OnlyAddsToArchive
<1>1. ImportStep
  <2>1. ResultStep => previews' = previews
    BY DEF ResultStep, HistoricalResultAdd, HistoricalResultEdit, HistoricalResultDelete
  <2>2. PortalStep => previews' = previews
    BY DEF PortalStep, RosterRiderEdit, SeatSave, SeasonClassSave, LiveMeet, LiveRide, LiveResult
  <2>3. previews' # previews
    BY DEF ImportEnds
  <2> QED BY <2>1, <2>2, <2>3 DEF HistoryNext
<1>2. OnlyAdds(archive', archive)
  BY <1>1, ImportAdds
<1>3. \A e \in archive.results : e.result # NoResult => e \in archive'.results
  BY <1>2 DEF OnlyAdds, ResultsOnlyCome
<1>4. \A r \in RosterIds, c \in ClassIds : RegularTotal(r, c)' >= RegularTotal(r, c)
  BY <1>2, PointsDoNotFall DEF OnlyAdds
<1>5. \A s \in MeetRows : ~s.historical => archive'.meets[s] = archive.meets[s]
  BY <1>2 DEF OnlyAdds, OnlyCompletes
<1>6. \A n \in Numbers : Cardinality(NumberHolders(archive', n)) > Cardinality(NumberHolders(archive, n))
                          => Cardinality(NumberHolders(archive', n)) = 1
  BY <1>2, NumbersStayUnique DEF OnlyAdds
<1>7. ReadinessIssues' \subseteq ReadinessIssues
  BY <1>2, NoNewIssues
<1> QED BY <1>3, <1>4, <1>5, <1>6, <1>7 DEF OnlyAddsToArchive

(*---------------------------- the whole show day -------------------------*)

\* What holds of all parts together.
ShowDayInv ==
  /\ LiveShowTypeOK /\ PointerHolds
  /\ HostInv /\ EntriesInv /\ BoardInv /\ PlanInv /\ HistInv

\* Whichever part is explored, each component takes one of its own steps or stays.  Hosting alone
\* moves two of them: it writes the status of the running show.
LEMMA PartsMove ==
  ASSUME [ShowDayNext]_showDayVars
  PROVE  /\ \/ [LiveShowNext]_liveShowVars /\ UNCHANGED hostVars
            \/ [HostShowNext]_<<liveShowVars, hostVars>>
         /\ [ShowEntriesNext]_showEntriesVars
         /\ CheckInStep \/ ScheduleStep \/ UpdateStep \/ SpectatorStep \/ UNCHANGED showBoardVars
         /\ ShowPlanningNext \/ UNCHANGED showPlanningVars
         /\ HistoryNext \/ UNCHANGED historyVars
<1>1. CASE UNCHANGED showDayVars
  BY <1>1 DEF showDayVars
<1>2. CASE part = "live" /\ LiveShowNext /\ OnlyLive
  BY <1>2 DEF OnlyLive
<1>3. CASE part = "hosting" /\ HostShowNext /\ OnlyHosting
  BY <1>3 DEF OnlyHosting
<1>4. CASE part = "entries" /\ ShowEntriesNext /\ OnlyEntries
  BY <1>4 DEF OnlyEntries
<1>5. CASE (CheckInStep \/ ScheduleStep \/ UpdateStep \/ SpectatorStep) /\ OnlyBoard
  BY <1>5 DEF OnlyBoard
<1>6. CASE part = "planning" /\ ShowPlanningNext /\ OnlyPlanning
  BY <1>6 DEF OnlyPlanning
<1>7. CASE part = "history" /\ HistoryNext /\ OnlyHistory
  BY <1>7 DEF OnlyHistory
<1> QED BY <1>1, <1>2, <1>3, <1>4, <1>5, <1>6, <1>7 DEF ShowDayNext

\* Each step keeps the parts it is about.
LEMMA ShowDayStep ==
  ASSUME ShowDayInv, [ShowDayNext]_showDayVars
  PROVE  ShowDayInv'
<1>0. LiveShowTypeOK /\ PointerHolds /\ HostInv /\ EntriesInv /\ BoardInv /\ PlanInv /\ HistInv
  BY DEF ShowDayInv
<1>1. LiveShowTypeOK' /\ PointerHolds' /\ HostInv'
  <2>1. CASE [LiveShowNext]_liveShowVars /\ UNCHANGED hostVars
    <3>1. LiveShowTypeOK' /\ PointerHolds'
      BY <1>0, <2>1, LiveTypeStep, PointerStep
    <3>2. HostInv'
      BY <1>0, <2>1 DEF hostVars, HostInv, HostShowTypeOK, CheckpointsAreStamped
    <3> QED BY <3>1, <3>2
  <2>2. CASE [HostShowNext]_<<liveShowVars, hostVars>>
    BY <1>0, <2>2, HostingKeepsLive, HostStepInv
  <2> QED BY <2>1, <2>2, PartsMove
<1>2. EntriesInv'
  BY <1>0, PartsMove, EntriesStepInv
<1>3. BoardInv'
  <2>1. CASE CheckInStep
    <3>1. PICK u \in Logins, p \in Participants, s \in {"expected", "arrived"} : RiderStatusUpdate(u, p, s)
      BY <2>1 DEF CheckInStep
    <3>2. s \in RiderStatuses
      BY DEF RiderStatuses
    <3> QED BY <1>0, <3>1, <3>2, CheckInKeeps
  <2>2. CASE ScheduleStep
    BY <1>0, <2>2, ScheduleKeeps
  <2>3. CASE UpdateStep
    BY <1>0, <2>3, UpdatesKeep
  <2>4. CASE SpectatorStep
    BY <1>0, <2>4, SpectatorKeeps
  <2>5. CASE UNCHANGED showBoardVars
    BY <1>0, <2>5, BoardStays
  <2> QED BY <2>1, <2>2, <2>3, <2>4, <2>5, PartsMove
<1>4. PlanInv'
  BY <1>0, PartsMove, PlanningKeeps, PlanStays
<1>5. HistInv'
  BY <1>0, PartsMove, HistStepInv, HistStays
<1> QED BY <1>1, <1>2, <1>3, <1>4, <1>5 DEF ShowDayInv

\* Every part starts in order.
LEMMA ShowDayInitInv == ShowDayInit => ShowDayInv
<1>1. LiveShowInit => LiveShowTypeOK
  BY DEF LiveShowInit, LiveShowTypeOK, ShowStatuses
<1>2. LiveShowInit => PointerHolds
  BY DEF LiveShowInit, PointerHolds, NoPublication
<1> QED BY <1>1, <1>2, HostInitInv, EntriesInitInv, BoardInitInv, PlanInitInv, HistInitInv DEF ShowDayInit, ShowDayInv

\* The tables of the run are ranks, so the VOC list is the rule on them.
LEMMA VocOnTables == VocListsAreTheRule
<1>1. SUFFICES ASSUME NEW table \in MCTables, NEW cutoff \in 1..2
               PROVE  VocListIsTheRule(table, cutoff) /\ VocMarksAreUndecided(table, cutoff)
  BY DEF VocListsAreTheRule
<1>2. PICK riders \in SUBSET (1..3) : table \in [riders -> [total : {1, 2}, h1Place : {1, 2}]]
  BY DEF MCTables
<1>3. IsFiniteSet(1..3)
  <2>1. \A m, n \in Int : IsFiniteSet(m..n)
    BY FS_Interval
  <2>2. 1 \in Int /\ 3 \in Int
    OBVIOUS
  <2> QED BY <2>1, <2>2, Zenon
<1>4. IsFiniteSet(riders)
  BY <1>3, FS_Subset
<1>5. Ranks(table)
  <2>1. DOMAIN table = riders /\ riders \subseteq Int
    BY <1>2
  <2>2. \A r \in riders : table[r] \in [total : Int, h1Place : Int]
    BY <1>2
  <2> QED BY <1>4, <2>1, <2>2 DEF Ranks
<1> QED BY <1>5, VocRule

\* What holds of a show day between two requests, in every part: types, the current class, team
\* points, tracks, the VOC list, statuses, shifts, notices, checkpoints, starter items, open items
\* and the rides of past seasons (MCShowDay names the code of each).
THEOREM ShowDayInvariantHolds == ShowDaySpec => []ShowDayInvariant
<1>1. ShowDayInv => ShowDayInvariant
  <2>1. SUFFICES ASSUME ShowDayInv PROVE ShowDayInvariant
    OBVIOUS
  <2>2. CurrentClassExists
    BY <2>1 DEF ShowDayInv, PointerHolds, CurrentClassExists, PublicCurrentClass, LiveShown, Published
  <2>3. HostShowTypeOK /\ CheckpointsAreStamped /\ ShowEntriesTypeOK /\ OnePointsRider /\ PointsRidersScore /\ TracksMatchLevel
    BY <2>1 DEF ShowDayInv, HostInv, EntriesInv
  <2>4. ShowBoardTypeOK /\ OneStatusPerRider /\ ShiftsAreReversible /\ NoticesAreReadable
    BY <2>1, ShiftsReverse, NoticesRead DEF ShowDayInv, BoardInv
  <2>5. ShowPlanningTypeOK /\ StarterItemsOnce /\ OpenItemsHaveNoOwner
    BY <2>1, OpenIsUnowned DEF ShowDayInv, PlanInv
  <2>6. HistoryTypeOK /\ RidesHaveTheirShow
    BY <2>1, HistSays DEF ShowDayInv
  <2>7. LiveShowTypeOK
    BY <2>1 DEF ShowDayInv
  <2> QED BY <2>2, <2>3, <2>4, <2>5, <2>6, <2>7, VocOnTables DEF ShowDayInvariant
<1>2. ShowDayInv /\ [ShowDayNext]_showDayVars => ShowDayInv'
  BY ShowDayStep
<1> QED BY <1>1, <1>2, ShowDayInitInv, PTL DEF ShowDaySpec

\* The invariants of all parts hold together (the strengthening behind the two theorems above and
\* below).
THEOREM ShowDayInvHolds == ShowDaySpec => []ShowDayInv
BY ShowDayInitInv, ShowDayStep, PTL DEF ShowDaySpec

\* The live classes on a show day: a step is one of the live show, or of hosting, which leaves the
\* classes and the publication as they are.
LEMMA LivePartSteps ==
  ASSUME ShowDayInv, [ShowDayNext]_showDayVars
  PROVE  /\ \A c \in Classes : Starts(c) => ~ \E d \in Present \ {c} : Status(d)' \in ActiveStatuses /\ RingOf(d)' = RingOf(c)'
         /\ \A c \in Classes : Revealed(c) => ~classes[c].placed \/ ReleasedNow(c)
         /\ seasonClosed /\ seasonClosed' => UNCHANGED classes
         /\ (showStatus \in {"complete", "cancelled"} /\ classes' # classes) => showStatus' = showStatus
<1>0. LiveShowTypeOK
  BY DEF ShowDayInv
<1>1. CASE [LiveShowNext]_liveShowVars
  BY <1>0, <1>1, StartStep, RevealStep, ArchiveStep, FinishStep
<1>2. CASE [HostShowNext]_<<liveShowVars, hostVars>>
  <2>1. classes' = classes
    BY <1>0, <1>2, HostingKeepsClasses
  <2>2. \A c \in Classes : ~Starts(c) /\ ~Revealed(c)
    BY <2>1, QuietRow
  <2> QED BY <2>1, <2>2
<1> QED BY <1>1, <1>2, PartsMove

\* The board on a show day: each of its tables is changed by requests of one kind.
LEMMA BoardPartSteps ==
  ASSUME ShowDayInv, [ShowDayNext]_showDayVars
  PROVE  /\ \A s \in statusRows' \ statusRows, p \in Participants :
              (s.participant = p \/ (s.rider # "none" /\ s.rider = LegacyRiderOf[p])) => BoardStatus(p)' = s.status
         /\ Cardinality({c \in BoardClasses : schedule'[c] # schedule[c]}) > 1
              => \A c \in BoardClasses : schedule'[c].prize = schedule[c].prize
         /\ notices \subseteq notices'
         /\ (Len(spectator') = Len(spectator) + 1 /\ spectator # <<>> /\ \E i \in 1..Len(spectator) : spectator'[i] # spectator[i])
              => /\ Len(spectator') \in SpectatorPage'
                 /\ \A i \in 1..Len(spectator) : ~(spectator'[i].active /\ spectator'[i].delay /\ spectator'[i].ring = "Main ring")
<1> DEFINE Shown == \A s \in statusRows' \ statusRows, p \in Participants :
                      (s.participant = p \/ (s.rider # "none" /\ s.rider = LegacyRiderOf[p])) => BoardStatus(p)' = s.status
           Fixed == Cardinality({c \in BoardClasses : schedule'[c] # schedule[c]}) > 1
                      => \A c \in BoardClasses : schedule'[c].prize = schedule[c].prize
           OneDelay == (Len(spectator') = Len(spectator) + 1 /\ spectator # <<>>
                          /\ \E i \in 1..Len(spectator) : spectator'[i] # spectator[i])
                         => /\ Len(spectator') \in SpectatorPage'
                            /\ \A i \in 1..Len(spectator) :
                                 ~(spectator'[i].active /\ spectator'[i].delay /\ spectator'[i].ring = "Main ring")
<1>0. BoardInv
  BY DEF ShowDayInv
<1>1. statusRows' = statusRows => Shown
  OBVIOUS
<1>2. schedule' = schedule => Fixed
  <2>1. SUFFICES ASSUME schedule' = schedule PROVE Fixed
    OBVIOUS
  <2>2. Cardinality({}) = 0
    BY FS_EmptySet
  <2>3. {c \in BoardClasses : schedule'[c] # schedule[c]} = {}
    BY <2>1
  <2>4. Cardinality({c \in BoardClasses : schedule'[c] # schedule[c]}) = 0
    BY <2>2, <2>3
  <2> QED BY <2>4
<1>3. spectator' = spectator => OneDelay
  OBVIOUS
<1>4. CASE CheckInStep
  <2>1. PICK u \in Logins, p \in Participants, s \in {"expected", "arrived"} : RiderStatusUpdate(u, p, s)
    BY <1>4 DEF CheckInStep
  <2>2. s \in RiderStatuses
    BY DEF RiderStatuses
  <2>3. Shown
    BY <1>0, <2>1, <2>2, CheckInKeeps
  <2>4. UNCHANGED <<schedule, notices, spectator>>
    BY <2>1 DEF RiderStatusUpdate
  <2> HIDE DEF Shown, Fixed, OneDelay
  <2> QED BY <1>2, <1>3, <2>3, <2>4 DEF Shown, Fixed, OneDelay
<1>5. CASE ScheduleStep
  <2>1. Fixed
    BY <1>0, <1>5, ScheduleKeeps
  <2>2. UNCHANGED <<statusRows, notices, spectator>>
    BY <1>5 DEF ScheduleStep, ScheduleSave, ScheduleReset, ScheduleShift
  <2> QED BY <1>1, <1>3, <2>1, <2>2
<1>6. CASE UpdateStep
  <2>1. notices \subseteq notices'
    BY <1>0, <1>6, UpdatesKeep
  <2>2. UNCHANGED <<statusRows, schedule, spectator>>
    BY <1>6 DEF UpdateStep, ShowDayUpdateAdd, ShowDayUpdateEdit, ShowDayUpdateRetract
  <2> QED BY <1>1, <1>2, <1>3, <2>1, <2>2
<1>7. CASE SpectatorStep
  <2>1. OneDelay
    BY <1>0, <1>7, SpectatorKeeps
  <2>2. UNCHANGED <<statusRows, schedule, notices>>
    BY <1>7 DEF SpectatorStep, SpectatorAnnouncementAdd, SpectatorRingDelay, SpectatorDismiss
  <2> QED BY <1>1, <1>2, <2>1, <2>2
<1>8. CASE UNCHANGED showBoardVars
  <2>1. UNCHANGED <<statusRows, schedule, notices, spectator>>
    BY <1>8 DEF showBoardVars
  <2> QED BY <1>1, <1>2, <1>3, <2>1
<1> QED BY <1>4, <1>5, <1>6, <1>7, <1>8, PartsMove

\* Running the show never publishes placings, whoever hosts it (publication.py, show_class_live.py).
THEOREM ShowDayRevealsNothing == ShowDaySpec => RunningNeverReveals
<1>1. ShowDayInv /\ [ShowDayNext]_showDayVars
        => [\A c \in Classes : Revealed(c) => ~classes[c].placed \/ ReleasedNow(c)]_liveShowVars
  BY LivePartSteps
<1> QED BY <1>1, ShowDayInvHolds, PTL DEF ShowDaySpec, RunningNeverReveals

\* A class that starts finds its ring free, whoever hosts the show (show_class_live_status_update).
THEOREM ShowDayStartsAreFree == ShowDaySpec => ClassesStartInFreeRings
<1>1. ShowDayInv /\ [ShowDayNext]_showDayVars
        => [\A c \in Classes : Starts(c) => ~ \E d \in Present \ {c} : Status(d)' \in ActiveStatuses /\ RingOf(d)' = RingOf(c)'
           ]_liveShowVars
  BY LivePartSteps
<1> QED BY <1>1, ShowDayInvHolds, PTL DEF ShowDaySpec, ClassesStartInFreeRings

\* Nothing changes the classes of an archived season, hosting included (_ensure_season_open).
THEOREM ShowDayArchiveIsFrozen == ShowDaySpec => ArchivedClassesAreFrozen
<1>1. ShowDayInv /\ [ShowDayNext]_showDayVars
        => [seasonClosed /\ seasonClosed' => UNCHANGED classes]_liveShowVars
  BY LivePartSteps
<1> QED BY <1>1, ShowDayInvHolds, PTL DEF ShowDaySpec, ArchivedClassesAreFrozen

\* A request that changes classes reopens no finished show (show_class_live_status_update).
THEOREM ShowDayFinishedStays == ShowDaySpec => FinishedShowStaysFinished
<1>1. ShowDayInv /\ [ShowDayNext]_showDayVars
        => [(showStatus \in {"complete", "cancelled"} /\ classes' # classes) => showStatus' = showStatus]_liveShowVars
  BY LivePartSteps
<1> QED BY <1>1, ShowDayInvHolds, PTL DEF ShowDaySpec, FinishedShowStaysFinished

\* A designation moves to another row in one step, and is lost only with its row or its assignment
\* (ShowEntry.clean, point_rider_set).
THEOREM ShowDayDesignationMoves == ShowDaySpec => DesignationMovesWhole
<1>1. ShowDayInv /\ [ShowDayNext]_showDayVars
        => [\A e \in entries, o \in entries' :
             ( /\ e.pointRider /\ Key(o) = Key(e) /\ ~o.pointRider /\ Cardinality(entries') = Cardinality(entries)
               /\ ~ \E n \in entries' : n.pointRider /\ n.class = e.class /\ LevelOf[n.rider] = LevelOf[e.rider])
             => \/ \E n \in entries : Key(n) # Key(e) /\ n.class = e.class /\ <<n.rider, n.class>> \notin assigned
                \/ entries' \ entries = {[e EXCEPT !.pointRider = FALSE]}]_showEntriesVars
  <2>1. SUFFICES ASSUME ShowDayInv, [ShowDayNext]_showDayVars, ShowEntriesNext, NEW e \in entries, NEW o \in entries',
                        e.pointRider, Key(o) = Key(e), ~o.pointRider,
                        ~ \E n \in entries' : n.pointRider /\ n.class = e.class /\ LevelOf[n.rider] = LevelOf[e.rider]
                 PROVE  \/ \E n \in entries : Key(n) # Key(e) /\ n.class = e.class /\ <<n.rider, n.class>> \notin assigned
                        \/ entries' \ entries = {[e EXCEPT !.pointRider = FALSE]}
    BY PartsMove
  <2>2. EntriesInv
    BY <2>1 DEF ShowDayInv
  <2> QED BY <2>1, <2>2, DesignationMoves
<1> QED BY <1>1, ShowDayInvHolds, PTL DEF ShowDaySpec, DesignationMovesWhole

\* After a check-in the board shows the status reported (show_day_rider_status_update).
THEOREM ShowDayCheckInIsShown == ShowDaySpec => CheckInIsShown
<1>1. ShowDayInv /\ [ShowDayNext]_showDayVars
        => [\A s \in statusRows' \ statusRows, p \in Participants :
             (s.participant = p \/ (s.rider # "none" /\ s.rider = LegacyRiderOf[p])) => BoardStatus(p)' = s.status]_showBoardVars
  BY BoardPartSteps
<1> QED BY <1>1, ShowDayInvHolds, PTL DEF ShowDaySpec, CheckInIsShown

\* Shifting or resetting several classes leaves the prize-list times (show_schedule).
THEOREM ShowDayBaselineIsFixed == ShowDaySpec => BaselineIsFixed
<1>1. ShowDayInv /\ [ShowDayNext]_showDayVars
        => [Cardinality({c \in BoardClasses : schedule'[c] # schedule[c]}) > 1
             => \A c \in BoardClasses : schedule'[c].prize = schedule[c].prize]_showBoardVars
  BY BoardPartSteps
<1> QED BY <1>1, ShowDayInvHolds, PTL DEF ShowDaySpec, BaselineIsFixed

\* Notifications sent are kept (show_day_update_edit, show_day_update_retract).
THEOREM ShowDayNoticesAreKept == ShowDaySpec => NoticesAreKept
<1>1. ShowDayInv /\ [ShowDayNext]_showDayVars
        => [notices \subseteq notices']_showBoardVars
  BY BoardPartSteps
<1> QED BY <1>1, ShowDayInvHolds, PTL DEF ShowDaySpec, NoticesAreKept

\* A ring delay replaces the one before it (spectator_ring_delay_update).
THEOREM ShowDayOneDelay == ShowDaySpec => DelayReplacesDelay
<1>1. ShowDayInv /\ [ShowDayNext]_showDayVars
        => [(Len(spectator') = Len(spectator) + 1 /\ spectator # <<>> /\ \E i \in 1..Len(spectator) : spectator'[i] # spectator[i])
             => /\ Len(spectator') \in SpectatorPage'
                /\ \A i \in 1..Len(spectator) : ~(spectator'[i].active /\ spectator'[i].delay /\ spectator'[i].ring = "Main ring")]_showBoardVars
  BY BoardPartSteps
<1> QED BY <1>1, ShowDayInvHolds, PTL DEF ShowDaySpec, DelayReplacesDelay

\* The plan of a closed hosted show is changed only by who manages the team (host_show.py).
THEOREM ShowDayClosedHostShow == ShowDaySpec => ClosedHostShowIsReadOnly
<1>1. ShowDayInv /\ [ShowDayNext]_showDayVars
        => [(HostShowClosed /\ HostShowClosed' /\ hostPlan' # hostPlan) => CanManage(HostFacts[updatedBy'])]_<<liveShowVars, hostVars>>
  <2>1. SUFFICES ASSUME ShowDayInv, [ShowDayNext]_showDayVars, HostShowClosed, HostShowClosed', hostPlan' # hostPlan
                 PROVE  CanManage(HostFacts[updatedBy'])
    OBVIOUS
  <2>2. HostInv
    BY <2>1 DEF ShowDayInv
  <2>3. [HostShowNext]_<<liveShowVars, hostVars>>
    BY <2>1, PartsMove DEF hostVars
  <2> QED BY <2>1, <2>2, <2>3, ClosedShowStays
<1> QED BY <1>1, ShowDayInvHolds, PTL DEF ShowDaySpec, ClosedHostShowIsReadOnly

\* A claimed item goes back only by its owner or by who manages it (show_planning.py).
THEOREM ShowDayClaimsAreHonoured == ShowDaySpec => ClaimsAreHonoured
<1>1. ShowDayInv /\ [ShowDayNext]_showDayVars
        => [\A i \in DOMAIN items : (items[i].claimed # "nobody" /\ items'[i].claimed # items[i].claimed)
             => /\ items'[i].claimed = "nobody"
                /\ planner' = items[i].claimed \/ ManagesItem(planner', items[i])]_showPlanningVars
  <2>1. SUFFICES ASSUME ShowDayInv, [ShowDayNext]_showDayVars PROVE ItemsRespected
    BY DEF ItemsRespected
  <2>2. PlanInv
    BY <2>1 DEF ShowDayInv
  <2> QED BY <2>1, <2>2, PartsMove, PlanningKeeps, PlanStays
<1> QED BY <1>1, ShowDayInvHolds, PTL DEF ShowDaySpec, ClaimsAreHonoured

\* Items change level only between levels their planner manages (show_planning.py).
THEOREM ShowDayPlannersKeepLevel == ShowDaySpec => PlannersKeepToTheirLevel
<1>1. ShowDayInv /\ [ShowDayNext]_showDayVars
        => [\A i \in DOMAIN items : (items'[i].level # items[i].level)
             => {items[i].level, items'[i].level} \subseteq PlanningLevels(PlannerFacts[planner'])]_showPlanningVars
  <2>1. SUFFICES ASSUME ShowDayInv, [ShowDayNext]_showDayVars PROVE ItemsRespected
    BY DEF ItemsRespected
  <2>2. PlanInv
    BY <2>1 DEF ShowDayInv
  <2> QED BY <2>1, <2>2, PartsMove, PlanningKeeps, PlanStays
<1> QED BY <1>1, ShowDayInvHolds, PTL DEF ShowDaySpec, PlannersKeepToTheirLevel

\* A moved or deleted historical result leaves no empty class or show (historical_result_edit, _delete).
THEOREM ShowDayEmptiedShowsGo == ShowDaySpec => EmptiedShowsGo
<1>1. ShowDayInv /\ [ShowDayNext]_showDayVars
        => [\A sc \in archive.showClasses :
             ( /\ sc[1].historical
               /\ \E e \in archive.results : <<e.show, e.class>> = sc
               /\ ~ \E e \in archive'.results : <<e.show, e.class>> = sc )
             => /\ sc \notin archive'.showClasses
                /\ (~ \E e \in archive'.results : e.show = sc[1]) => archive'.meets[sc[1]] = "none"]_historyVars
  <2>1. SUFFICES ASSUME ShowDayInv, [ShowDayNext]_showDayVars PROVE EmptiedGo(archive', archive)
    BY DEF EmptiedGo
  <2>2. HistInv
    BY <2>1 DEF ShowDayInv
  <2> QED BY <2>1, <2>2, PartsMove, HistStepInv, HistStays
<1> QED BY <1>1, ShowDayInvHolds, PTL DEF ShowDaySpec, EmptiedShowsGo

\* No show day makes the recorded rides endless.
LEMMA ShowDayResultsFinite == ShowDaySpec => []ResultsFinite
<1>1. ShowDayInit => ResultsFinite
  <2>1. SUFFICES ASSUME HistoryInit PROVE ResultsFinite
    BY DEF ShowDayInit
  <2>2. archive.results = {}
    BY <2>1 DEF HistoryInit
  <2> QED BY <2>2, FS_EmptySet DEF ResultsFinite
<1>2. ShowDayInv /\ ResultsFinite /\ [ShowDayNext]_showDayVars => ResultsFinite'
  <2>1. SUFFICES ASSUME ShowDayInv, ResultsFinite, [ShowDayNext]_showDayVars PROVE ResultsFinite'
    OBVIOUS
  <2>2. HistInv
    BY <2>1 DEF ShowDayInv
  <2>3. CASE HistoryNext
    BY <2>1, <2>2, <2>3, ResultsStayFinite
  <2>4. CASE UNCHANGED historyVars
    BY <2>1, <2>4 DEF historyVars, ResultsFinite
  <2> QED BY <2>1, <2>3, <2>4, PartsMove
<1> QED BY <1>1, <1>2, ShowDayInvHolds, PTL DEF ShowDaySpec

\* A commit of imported results only adds: recorded results and points stay, shows of the calendar
\* keep their status, no number comes to be held twice and nothing new stands in the way of
\* archiving the season, however the portal changed after the preview (_historical_import_commit).
THEOREM ShowDayImportsOnlyAdd == ShowDaySpec => ImportsOnlyAdd
<1>1. ShowDayInv /\ ShowDayInv' /\ ResultsFinite /\ ResultsFinite' /\ [ShowDayNext]_showDayVars
        => [(\E m \in Importers : previews[m] # <<>> /\ previews'[m] = <<>>) =>
              /\ \A e \in archive.results : e.result # NoResult => e \in archive'.results
              /\ \A r \in RosterIds, c \in ClassIds : RegularTotal(r, c)' >= RegularTotal(r, c)
              /\ \A s \in MeetRows : ~s.historical => archive'.meets[s] = archive.meets[s]
              /\ \A n \in Numbers : Cardinality(NumberHolders(archive', n)) > Cardinality(NumberHolders(archive, n))
                                      => Cardinality(NumberHolders(archive', n)) = 1
              /\ ReadinessIssues' \subseteq ReadinessIssues]_historyVars
  <2>1. SUFFICES ASSUME ShowDayInv, ShowDayInv', ResultsFinite, ResultsFinite', [ShowDayNext]_showDayVars,
                        ~UNCHANGED historyVars, ImportEnds
                 PROVE  OnlyAddsToArchive
    BY DEF ImportEnds, OnlyAddsToArchive
  <2>2. HistInv /\ HistInv'
    BY <2>1 DEF ShowDayInv
  <2> QED BY <2>1, <2>2, PartsMove, ImportStepAdds
<1> QED BY <1>1, ShowDayInvHolds, ShowDayResultsFinite, PTL DEF ShowDaySpec, ImportsOnlyAdd

\* What no request of a show day does, as MCShowDay states it.
THEOREM ShowDayStepsHold == ShowDaySpec => ShowDaySteps
BY ShowDayStartsAreFree, ShowDayArchiveIsFrozen, ShowDayFinishedStays, ShowDayDesignationMoves, ShowDayCheckInIsShown, ShowDayBaselineIsFixed,
   ShowDayNoticesAreKept, ShowDayOneDelay, ShowDayClosedHostShow, ShowDayClaimsAreHonoured, ShowDayPlannersKeepLevel, ShowDayEmptiedShowsGo DEF ShowDaySteps
=============================================================================
