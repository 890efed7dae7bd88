------------------------------ MODULE TabProofs ------------------------------
(***************************************************************************)
(* Proofs about Tab, and the recorder page Practice in it, for any number  *)
(* of recordings, pages opened, essays and questions.                      *)
(*                                                                         *)
(* Page is what holds of the recorder while its page is there, and nothing *)
(* is known of one whose page has gone; Bounds keeps its counters.  Essay  *)
(* relates the calls under way to the page they were made from.            *)
(***************************************************************************)
EXTENDS Tab, TLAPS

Page ==
  mounted =>
    /\ asking => status = "requesting" /\ tracks = {}
    /\ tracks \subseteq {streamRef}
    /\ tracks # {} => status \in {"requesting", "recording"}
    /\ \A t \in Takes : recorder[t] \in {"recording", "stopping"} =>
         status = "recording" /\ t = recorderRef /\ t \in hooked
    /\ timers \subseteq {timerRef}
    /\ timers # {} => status = "recording"
    /\ clip # None => status = "recorded" /\ urlRef = clip
    /\ urls = IF clip = None THEN {} ELSE {clip}
    /\ Busy => status = "recorded" /\ clip = sent

\* A grant of the microphone that is to come finds a take that is free.
Bounds == asking => takes < MaxTakes

PracticeInv == TypeOK /\ Page /\ Bounds

Active(e) == stage[e] \in {"submitAnswer", "gradeAnswer"}

\* What is known of essay e.
Essay(e) ==
  /\ stage[e] = "none" => sender[e] = None
  /\ sender[e] # None => e <= essays /\ sender[e] <= visit
  /\ Active(e) /\ sender[e] = visit =>
       /\ Grading /\ content = text[e]
       /\ \A f \in Essays : sender[f] = visit => f <= e
       /\ \A f \in Essays : Active(f) /\ sender[f] = visit => f = e
  /\ grade = "done" /\ sender[e] = visit => e <= report

Report == grade = "done" => report \in Essays /\ sender[report] = visit

\* A page that loads awaits a request that is to settle.
LoadingIsAwaited == view = "loading" => awaited \in open

TabInv ==
  /\ TabTypeOK /\ PracticeInv
  /\ ListIsShared /\ fetches <= visit /\ LoadingIsAwaited
  /\ Report /\ \A e \in Essays : Essay(e)

-----------------------------------------------------------------------------
(* The recorder page *)

\* A page that is new, or not there, fits.
LEMMA FreshInv == Fresh /\ mounted \in BOOLEAN => PracticeInv
<1> SUFFICES ASSUME Fresh, mounted \in BOOLEAN PROVE PracticeInv
  OBVIOUS
<1> USE MaxTakesIsPositive, NoneIsNoTake DEF Fresh, Busy
<1>1. TypeOK
  <2>1. takes \in 0 .. MaxTakes
    OBVIOUS
  <2>2. {streamRef, recorderRef, timerRef, urlRef, clip} \subseteq Takes \cup {None}
    OBVIOUS
  <2> QED
    BY <2>1, <2>2 DEF TypeOK
<1>2. Page
  BY DEF Page
<1>3. Bounds
  BY DEF Bounds
<1> QED
  BY <1>1, <1>2, <1>3 DEF PracticeInv

\* What the steps of the recorder share: letting go of what a reference names.
LEMMA StoppedType == TypeOK => \A S : /\ Stopped(S) \in [Takes -> {"none", "recording", "stopping", "inactive"}]
                                      /\ \A t \in Takes : Stopped(S)[t] # recorder[t] =>
                                           recorder[t] = "recording" /\ Stopped(S)[t] = "stopping"
  BY DEF Stopped, TypeOK

PracticeStep == Start \/ Stop \/ Reset \/ Submit \/ Unmount \/ Browser \/ \E t \in Takes : OnStop(t)

\* Every step of the page, its buttons and the browser's callbacks, keeps it.
LEMMA PracticeStepInv == ASSUME PracticeInv, PracticeStep PROVE PracticeInv'
<1>0. TypeOK /\ Page /\ Bounds
  BY DEF PracticeInv
<1> USE <1>0, MaxTakesIsPositive, NoneIsNoTake
    DEF Page, Bounds, Busy, Show, Keep, ClearTimer, ReleaseStream, RevokeUrl,
        request, stream, media, timer, url, page
<1>1. CASE Start
  <2>1. TypeOK'
    BY <1>1 DEF Start, TypeOK
  <2>2. Page' /\ Bounds'
    BY <1>1 DEF Start, TypeOK
  <2> QED
    BY <2>1, <2>2 DEF PracticeInv
<1>2. CASE Stop
  <2>1. TypeOK'
    BY <1>2, StoppedType DEF Stop, TypeOK
  <2>2. Page' /\ Bounds'
    BY <1>2, StoppedType DEF Stop, TypeOK
  <2> QED
    BY <2>1, <2>2 DEF PracticeInv
<1>3. CASE Reset
  <2>1. TypeOK'
    BY <1>3, StoppedType DEF Reset, ResetEnabled, TypeOK
  <2>2. recorder' = recorder
    BY <1>3, StoppedType DEF Reset, ResetEnabled, TypeOK
  <2>3. Page' /\ Bounds'
    BY <1>3, <2>2 DEF Reset, ResetEnabled, TypeOK
  <2> QED
    BY <2>1, <2>3 DEF PracticeInv
<1>4. CASE Submit
  <2>1. TypeOK'
    BY <1>4 DEF Submit, TypeOK
  <2>2. Page' /\ Bounds'
    BY <1>4 DEF Submit, TypeOK
  <2> QED
    BY <2>1, <2>2 DEF PracticeInv
<1>5. CASE Unmount
  <2>1. recorder' \in [Takes -> {"none", "recording", "stopping", "inactive"}]
    BY <1>5, StoppedType DEF Unmount
  <2>3. TypeOK'
    BY <1>5, <2>1 DEF Unmount, TypeOK
  <2>2. Page' /\ Bounds'
    BY <1>5 DEF Unmount
  <2> QED
    BY <2>2, <2>3 DEF PracticeInv
<1>6. CASE Denied
  <2>1. TypeOK'
    BY <1>6 DEF Denied, TypeOK
  <2>2. Page' /\ Bounds'
    BY <1>6 DEF Denied, TypeOK
  <2> QED
    BY <2>1, <2>2 DEF PracticeInv
<1>7. CASE Granted
  <2>1. takes' = takes + 1 /\ takes' \in Takes /\ takes' \in 0 .. MaxTakes
    BY <1>7 DEF Granted, TypeOK, Takes
  <2>2. TypeOK'
    BY <1>7, <2>1 DEF Granted, TypeOK
  <2>3. Page' /\ Bounds'
    BY <1>7, <2>1 DEF Granted, TypeOK
  <2> QED
    BY <2>2, <2>3 DEF PracticeInv
<1>8. CASE Unrecordable
  <2>1. takes' = takes + 1 /\ takes' \in Takes /\ takes' \in 0 .. MaxTakes
    BY <1>8 DEF Unrecordable, TypeOK, Takes
  <2>2. TypeOK'
    BY <1>8, <2>1 DEF Unrecordable, TypeOK
  <2>3. Page' /\ Bounds'
    BY <1>8, <2>1 DEF Unrecordable, TypeOK
  <2> QED
    BY <2>2, <2>3 DEF PracticeInv
<1>9. CASE Unplug
  <2>1. TypeOK'
    BY <1>9, StoppedType DEF Unplug, TypeOK
  <2>2. Page' /\ Bounds'
    BY <1>9, StoppedType DEF Unplug, TypeOK
  <2> QED
    BY <2>1, <2>2 DEF PracticeInv
<1>10. CASE Fetched
  <2>1. TypeOK'
    BY <1>10 DEF Fetched, TypeOK
  <2>2. Page' /\ Bounds'
    BY <1>10 DEF Fetched, TypeOK
  <2> QED
    BY <2>1, <2>2 DEF PracticeInv
<1>11. ASSUME NEW t \in Takes, OnStop(t) PROVE PracticeInv'
  <2>1. TypeOK'
    BY <1>11 DEF OnStop, TypeOK
  <2>2. Bounds'
    BY <1>11 DEF OnStop
  <2>3. CASE t \in hooked
    BY <1>11, <2>1, <2>2, <2>3 DEF OnStop, TypeOK, PracticeInv
  <2>4. CASE t \notin hooked
    BY <1>11, <2>1, <2>2, <2>4 DEF OnStop, TypeOK, PracticeInv
  <2> QED
    BY <2>3, <2>4
<1> QED
  BY <1>1, <1>2, <1>3, <1>4, <1>5, <1>6, <1>7, <1>8, <1>9, <1>10, <1>11 DEF PracticeStep, Browser

\* A page that leaves every variable of the recorder alone keeps it too.
LEMMA PracticeStutter == ASSUME PracticeInv, UNCHANGED vars PROVE PracticeInv'
  BY DEF PracticeInv, TypeOK, Page, Bounds, Busy, vars, page, request, stream, media, timer, url

-----------------------------------------------------------------------------
(* The tab *)

\* The tab's own variables have their types.
TabTypes ==
  /\ place \in Places
  /\ visit \in Visits
  /\ view \in {"loading", "ready", "notfound", "error"}
  /\ awaited \in Visits
  /\ inFlight \in Visits \cup {None}
  /\ open \subseteq Visits
  /\ fetches \in Visits
  /\ content \in Texts \cup {Blank}
  /\ grade \in {"idle", "grading", "done", "error"}
  /\ report \in Essays \cup {None}
  /\ essays \in 0 .. MaxEssays
  /\ stage \in [Essays -> {"none", "submitAnswer", "gradeAnswer", "over"}]
  /\ text \in [Essays -> Texts \cup {None}]
  /\ sender \in [Essays -> Visits \cup {None}]
  /\ \A e \in Essays : stage[e] # "none" => text[e] \in Texts

EssaysInv == Report /\ \A e \in Essays : Essay(e)

ListInv == ListIsShared /\ fetches <= visit /\ LoadingIsAwaited

LEMMA Parts == TabInv <=> TabTypes /\ PracticeInv /\ ListInv /\ EssaysInv
  BY DEF TabInv, TabTypeOK, TabTypes, PracticeInv, ListInv, EssaysInv

\* The tab opens on one page, which has asked for the list.
LEMMA TabInitInv == TabInit => TabInv
<1> SUFFICES ASSUME TabInit PROVE TabInv
  OBVIOUS
<1> USE MaxVisitsIsPositive, MaxEssaysIsNat, NoneIsNoNumber DEF TabInit
<1>1. PracticeInv
  BY FreshInv
<1>2. 1 \in Visits /\ 0 \in 0 .. MaxEssays
  BY DEF Visits
<1>3. TabTypes
  <2> USE <1>2
  <2>1. stage \in [Essays -> {"none", "submitAnswer", "gradeAnswer", "over"}]
        /\ text \in [Essays -> Texts \cup {None}] /\ sender \in [Essays -> Visits \cup {None}]
    OBVIOUS
  <2> QED
    BY <2>1 DEF TabTypes
<1>4. ListInv
  BY <1>2, NoneIsNoNumber DEF ListInv, ListIsShared, LoadingIsAwaited, Visits
<1>5. EssaysInv
  BY DEF EssaysInv, Report, Essay, Active
<1> QED
  BY <1>1, <1>3, <1>4, <1>5, Parts

\* Asking for the list joins the request under way or is the only one.
LEMMA GetQuestionsInv ==
  ASSUME TabInv, GetQuestions, visit < MaxVisits, visit' = visit + 1
  PROVE  /\ ListInv'
         /\ awaited' \in Visits /\ inFlight' \in Visits \cup {None} /\ open' \subseteq Visits
         /\ fetches' \in Visits
<1>0. /\ visit \in Nat /\ fetches \in Nat /\ fetches >= 1 /\ MaxVisits \in Nat /\ fetches <= visit
      /\ ListIsShared /\ TabTypes
  BY Parts, MaxVisitsIsPositive DEF TabTypes, Visits, ListInv
<1>1. CASE Shares
  BY <1>0, <1>1 DEF GetQuestions, Shares, ListInv, ListIsShared, LoadingIsAwaited, TabTypes, list
<1>2. CASE ~Shares
  <2>1. /\ fetches' = fetches + 1 /\ inFlight' = fetches' /\ open' = open \cup {fetches'}
        /\ awaited' = fetches'
    BY <1>2 DEF GetQuestions
  <2>2. fetches' \in Visits /\ fetches' <= visit'
    BY <1>0, <2>1 DEF Visits
  <2>3. open = {} /\ fetches' # None
    BY <1>0, <1>2, <2>2, NoneIsNoNumber DEF Shares, ListIsShared, Visits
  <2> QED
    BY <2>1, <2>2, <2>3 DEF ListInv, ListIsShared, LoadingIsAwaited
<1> QED
  BY <1>1, <1>2

\* A link leads to a page of the tab.
LEMMA HrefPlaces == \A q \in Listed : Href(q) \in Places
  BY DEF Href, Places, Listed

\* Opening a page unmounts the one that was there, whose essays are no longer heard.
LEMMA OpenInv == ASSUME TabInv, NEW p \in Places, Open(p) PROVE TabInv'
<1>0. TabTypes /\ PracticeInv /\ ListInv /\ EssaysInv
  BY Parts
<1>1. /\ visit < MaxVisits /\ visit' = visit + 1 /\ place' = p /\ view' = "loading" /\ GetQuestions
      /\ content' = Blank /\ grade' = "idle" /\ report' = None /\ Replace(p)
      /\ UNCHANGED <<essays, stage, text, sender>>
  BY DEF Open, calls
<1>2. visit \in Nat /\ visit' \in Visits
  BY <1>0, <1>1, MaxVisitsIsPositive DEF TabTypes, Visits
<1>3. TabTypes'
  BY <1>0, <1>1, <1>2, GetQuestionsInv DEF TabTypes
<1>4. ListInv'
  BY <1>1, GetQuestionsInv
<1>5. PracticeInv'
  <2>1. CASE mounted
    BY <1>0, <1>1, <2>1, PracticeStepInv DEF Replace, PracticeStep
  <2>2. CASE ~mounted /\ Renewed /\ mounted' = TRUE
    <3>1. Fresh'
      BY <2>2 DEF Renewed, Fresh
    <3>2. (Fresh /\ mounted \in BOOLEAN => PracticeInv)'
      BY FreshInv, PTL
    <3> QED
      BY <2>2, <3>1, <3>2
  <2>3. CASE UNCHANGED vars
    BY <1>0, <2>3, PracticeStutter
  <2> QED
    BY <1>1, <2>1, <2>2, <2>3 DEF Replace
<1>6. EssaysInv'
  <2>1. ASSUME NEW e \in Essays PROVE Essay(e)'
    <3>1. stage[e] = "none" => sender[e] = None
      BY <1>0 DEF EssaysInv, Essay
    <3>2. sender[e] # None => e <= essays /\ sender[e] <= visit /\ sender[e] \in Nat
      BY <1>0 DEF EssaysInv, Essay, TabTypes, Visits
    <3>3. visit' # None
      BY <1>2, NoneIsNoNumber DEF Visits
    <3>4. sender[e] # visit'
      BY <1>1, <1>2, <3>2, <3>3
    <3> QED
      BY <1>1, <1>2, <3>1, <3>2, <3>4 DEF Essay, Active
  <2> QED
    BY <1>1, <2>1 DEF EssaysInv, Report
<1> QED
  BY <1>3, <1>4, <1>5, <1>6, Parts, PTL

\* A request of the list that settles was the one under way, and is let go of.
LEMMA SettleInv == ASSUME TabInv, NEW f \in open, Settle(f) PROVE TabInv'
<1>0. TabTypes /\ PracticeInv /\ ListInv /\ EssaysInv
  BY Parts
<1>1. /\ open' = open \ {f} /\ inFlight' = None
      /\ view' \in {view, "ready", "notfound", "error"} /\ (awaited = f => view' # "loading")
      /\ UNCHANGED <<vars, place, visit, awaited, fetches, form, calls>>
  BY DEF Settle, Forgotten, Shown
<1>2. TabTypes'
  BY <1>0, <1>1 DEF TabTypes, form, calls
<1>3. ListInv'
  BY <1>0, <1>1 DEF ListInv, ListIsShared, LoadingIsAwaited
<1>4. PracticeInv'
  BY <1>0, <1>1, PracticeStutter
<1>5. EssaysInv'
  BY <1>0, <1>1 DEF EssaysInv, Report, Essay, Active, Grading, form, calls
<1>6. (TabInv <=> TabTypes /\ PracticeInv /\ ListInv /\ EssaysInv)'
  BY Parts, PTL
<1> QED
  BY <1>2, <1>3, <1>4, <1>5, <1>6

\* What the learner types changes no essay under way: the text can be edited only
\* when none of this page is.
LEMMA EditInv == ASSUME TabInv, NEW t \in Texts \cup {Blank}, Edit(t) PROVE TabInv'
<1>0. TabTypes /\ PracticeInv /\ ListInv /\ EssaysInv
  BY Parts
<1>1. /\ content' = t /\ ~Grading
      /\ UNCHANGED <<vars, place, visit, loading, list, grade, report, calls>>
  BY DEF Edit, Editable
<1>2. TabTypes'
  BY <1>0, <1>1 DEF TabTypes, loading, list, calls
<1>3. ListInv'
  BY <1>0, <1>1 DEF ListInv, ListIsShared, LoadingIsAwaited, loading, list
<1>4. PracticeInv'
  BY <1>0, <1>1, PracticeStutter
<1>5. EssaysInv'
  BY <1>0, <1>1 DEF EssaysInv, Report, Essay, Active, Grading, calls
<1>6. (TabInv <=> TabTypes /\ PracticeInv /\ ListInv /\ EssaysInv)'
  BY Parts, PTL
<1> QED
  BY <1>2, <1>3, <1>4, <1>5, <1>6

\* An essay is submitted only when no other of this page is under way.
LEMMA SubmitEssayInv == ASSUME TabInv, SubmitEssay PROVE TabInv'
<1>0. TabTypes /\ PracticeInv /\ ListInv /\ EssaysInv
  BY Parts
<1>1. /\ content # Blank /\ ~Grading /\ essays < MaxEssays /\ essays' = essays + 1
      /\ grade' = "grading" /\ report' = None
      /\ stage' = [stage EXCEPT ![essays'] = "submitAnswer"]
      /\ text' = [text EXCEPT ![essays'] = content]
      /\ sender' = [sender EXCEPT ![essays'] = visit]
      /\ UNCHANGED <<vars, place, visit, loading, list, content>>
  BY DEF SubmitEssay, CanSubmit
<1> PICK n \in Essays : n = essays'
  BY <1>0, <1>1, MaxEssaysIsNat DEF TabTypes, Essays
<1>2. /\ essays \in Nat /\ essays' \in 0 .. MaxEssays /\ n = essays + 1 /\ content \in Texts
      /\ \A e \in Essays : e \in Nat
  BY <1>0, <1>1, MaxEssaysIsNat DEF TabTypes, Essays
<1>3. TabTypes'
  BY <1>0, <1>1, <1>2 DEF TabTypes, loading, list
<1>4. ListInv'
  BY <1>0, <1>1 DEF ListInv, ListIsShared, LoadingIsAwaited, loading, list
<1>5. PracticeInv'
  BY <1>0, <1>1, PracticeStutter
<1>6. /\ \A e \in Essays \ {n} : stage'[e] = stage[e] /\ text'[e] = text[e] /\ sender'[e] = sender[e]
      /\ stage'[n] = "submitAnswer" /\ text'[n] = content /\ sender'[n] = visit
  BY <1>0, <1>1 DEF TabTypes
<1>7. /\ \A e \in Essays : sender[e] # None => e <= essays /\ sender[e] <= visit
      /\ \A e \in Essays : sender[e] = visit => ~Active(e)
      /\ \A e \in Essays : stage[e] = "none" => sender[e] = None
  BY <1>0, <1>1 DEF EssaysInv, Essay
<1>8. visit # None /\ visit \in Nat
  BY <1>0, NoneIsNoNumber DEF TabTypes, Visits
<1>9. EssaysInv'
  <2>1. Report'
    BY <1>1 DEF Report
  <2>2. ASSUME NEW e \in Essays \ {n} PROVE Essay(e)'
    <3>1. ~(Active(e)' /\ sender'[e] = visit')
      BY <1>1, <1>6, <1>7 DEF Active
    <3>2. stage'[e] = "none" => sender'[e] = None
      BY <1>6, <1>7
    <3>3. sender'[e] # None => e <= essays' /\ sender'[e] <= visit'
      BY <1>1, <1>2, <1>6, <1>7
    <3> QED
      BY <1>1, <3>1, <3>2, <3>3 DEF Essay
  <2>3. Essay(n)'
    <3>1. \A f \in Essays : sender'[f] = visit' => f <= n
      BY <1>1, <1>2, <1>6, <1>7, <1>8
    <3>2. \A f \in Essays : Active(f)' /\ sender'[f] = visit' => f = n
      BY <1>1, <1>6, <1>7 DEF Active
    <3>3. sender'[n] # None => n <= essays' /\ sender'[n] <= visit'
      BY <1>1, <1>2, <1>6, <1>8
    <3> QED
      BY <1>1, <1>6, <3>1, <3>2, <3>3 DEF Essay, Active, Grading
  <2> QED
    BY <2>1, <2>2, <2>3 DEF EssaysInv
<1>10. (TabInv <=> TabTypes /\ PracticeInv /\ ListInv /\ EssaysInv)'
  BY Parts, PTL
<1> QED
  BY <1>3, <1>4, <1>5, <1>9, <1>10

\* A call that comes to its end tells its page if that is still there, and it is then
\* the last one made from it.
LEMMA AwaitedInv == ASSUME TabInv, NEW n \in Essays, Awaited(n) PROVE TabInv'
<1>0. TabTypes /\ PracticeInv /\ ListInv /\ EssaysInv
  BY Parts
<1>1. Active(n) /\ UNCHANGED <<vars, place, visit, loading, list, content, essays, text, sender>>
  BY DEF Awaited, Active
<1>2. PICK s \in {"gradeAnswer", "over"} :
        /\ stage' = [stage EXCEPT ![n] = s]
        /\ \/ s = "gradeAnswer" /\ UNCHANGED <<grade, report>>
           \/ s = "over" /\ \E g \in {"done", "error"} : Tell(n, g)
  BY DEF Awaited
<1>3. /\ \A e \in Essays \ {n} : stage'[e] = stage[e]
      /\ stage'[n] = s
  BY <1>0, <1>2 DEF TabTypes
<1>4. \/ UNCHANGED <<grade, report>> /\ (s = "over" => sender[n] # visit)
      \/ s = "over" /\ sender[n] = visit /\ grade' = "done" /\ report' = n
      \/ s = "over" /\ sender[n] = visit /\ grade' = "error" /\ report' = None
  BY <1>2 DEF Tell
<1>5. TabTypes'
  <2>1. grade' \in {"idle", "grading", "done", "error"} /\ report' \in Essays \cup {None}
    BY <1>0, <1>4 DEF TabTypes
  <2>2. \A e \in Essays : stage'[e] # "none" => text'[e] \in Texts
    BY <1>0, <1>1, <1>3 DEF TabTypes, Active
  <2>3. stage' \in [Essays -> {"none", "submitAnswer", "gradeAnswer", "over"}]
    BY <1>0, <1>2 DEF TabTypes
  <2> QED
    BY <1>0, <1>1, <2>1, <2>2, <2>3 DEF TabTypes, loading, list
<1>6. ListInv'
  BY <1>0, <1>1 DEF ListInv, ListIsShared, LoadingIsAwaited, loading, list
<1>7. PracticeInv'
  BY <1>0, <1>1, PracticeStutter
<1>8. EssaysInv'
  <2>1. \A e \in Essays : Active(e)' => Active(e)
    BY <1>1, <1>3 DEF Active
  <2>2. \A e \in Essays : stage'[e] = "none" => stage[e] = "none"
    BY <1>2, <1>3
  <2>3. CASE UNCHANGED <<grade, report>>
    <3>1. Report'
      BY <1>0, <1>1, <2>3 DEF EssaysInv, Report
    <3>2. ASSUME NEW e \in Essays PROVE Essay(e)'
      <4>1. Essay(e)
        BY <1>0 DEF EssaysInv
      <4> QED
        BY <1>1, <2>1, <2>2, <2>3, <4>1 DEF Essay, Grading
    <3> QED
      BY <3>1, <3>2 DEF EssaysInv
  <2>4. CASE s = "over" /\ sender[n] = visit /\ ((grade' = "done" /\ report' = n) \/ (grade' = "error" /\ report' = None))
    <3>1. Report'
      BY <1>1, <2>4 DEF Report
    <3>2. /\ \A f \in Essays : sender[f] = visit => f <= n
          /\ \A f \in Essays : Active(f) /\ sender[f] = visit => f = n
      BY <1>0, <1>1, <2>4 DEF EssaysInv, Essay
    <3>3. \A e \in Essays : ~(Active(e)' /\ sender'[e] = visit')
      BY <1>1, <1>3, <2>1, <2>4, <3>2 DEF Active
    <3>4. ASSUME NEW e \in Essays PROVE Essay(e)'
      <4>1. Essay(e)
        BY <1>0 DEF EssaysInv
      <4>2. grade' = "done" /\ sender'[e] = visit' => e <= report'
        BY <1>1, <2>4, <3>2
      <4> QED
        BY <1>1, <2>2, <3>3, <4>1, <4>2 DEF Essay
    <3> QED
      BY <3>1, <3>4 DEF EssaysInv
  <2> QED
    BY <1>4, <2>3, <2>4
<1>9. (TabInv <=> TabTypes /\ PracticeInv /\ ListInv /\ EssaysInv)'
  BY Parts, PTL
<1> QED
  BY <1>5, <1>6, <1>7, <1>8, <1>9

\* The recorder's steps leave the tab alone.
LEMMA RecorderInv == ASSUME TabInv, PracticeStep, UNCHANGED tab PROVE TabInv'
<1>0. TabTypes /\ PracticeInv /\ ListInv /\ EssaysInv
  BY Parts
<1>1. TabTypes' /\ ListInv' /\ EssaysInv'
  BY <1>0 DEF TabTypes, ListInv, ListIsShared, LoadingIsAwaited, EssaysInv, Report, Essay, Active, Grading,
     tab, loading, list, form, calls
<1>2. PracticeInv'
  BY <1>0, PracticeStepInv
<1>3. (TabInv <=> TabTypes /\ PracticeInv /\ ListInv /\ EssaysInv)'
  BY Parts, PTL
<1> QED
  BY <1>1, <1>2, <1>3

\* The invariant is inductive.
LEMMA TabStepInv == TabInv /\ [TabNext]_tabVars => TabInv'
<1> SUFFICES ASSUME TabInv, [TabNext]_tabVars PROVE TabInv'
  OBVIOUS
<1>1. ASSUME NEW q \in Listed, FollowLink(q) PROVE TabInv'
  BY <1>1, HrefPlaces, OpenInv DEF FollowLink
<1>2. ASSUME NEW p \in Places, GoBack(p) PROVE TabInv'
  BY <1>2, OpenInv DEF GoBack
<1>3. CASE Buttons \/ Callbacks
  <2>1. PracticeStep /\ UNCHANGED tab
    BY <1>3 DEF Buttons, Callbacks, PracticeStep
  <2> QED
    BY <2>1, RecorderInv
<1>4. CASE UNCHANGED tabVars
  <2>1. UNCHANGED vars /\ UNCHANGED tab
    BY <1>4 DEF tabVars
  <2>2. TabTypes' /\ ListInv' /\ EssaysInv'
    BY <2>1, Parts DEF TabTypes, ListInv, ListIsShared, LoadingIsAwaited, EssaysInv, Report, Essay, Active, Grading,
       tab, loading, list, form, calls
  <2>3. PracticeInv'
    BY <2>1, Parts, PracticeStutter
  <2>4. (TabInv <=> TabTypes /\ PracticeInv /\ ListInv /\ EssaysInv)'
    BY Parts, PTL
  <2> QED
    BY <2>2, <2>3, <2>4
<1> QED
  BY <1>1, <1>2, <1>3, <1>4, SettleInv, EditInv, SubmitEssayInv, AwaitedInv DEF TabNext

-----------------------------------------------------------------------------

\* Every variable of the tab keeps its type.
THEOREM TabTypesHold == TabSpec => []TabTypeOK
<1>1. TabInv => TabTypeOK
  BY DEF TabInv
<1> QED
  BY <1>1, TabInitInv, TabStepInv, PTL DEF TabSpec

\* While the recorder page is there the microphone is on only when it says so.
THEOREM MicrophoneShown == TabSpec => []MicrophoneIsShown
<1>1. TabInv => MicrophoneIsShown
  BY DEF TabInv, PracticeInv, Page, MicrophoneIsShown
<1> QED
  BY <1>1, TabInitInv, TabStepInv, PTL DEF TabSpec

\* However often one records again, the only object URL is that of the clip shown.
THEOREM UrlIsOne == TabSpec => []OneUrl
<1>1. TabInv => OneUrl
  BY DEF TabInv, PracticeInv, Page, OneUrl
<1> QED
  BY <1>1, TabInitInv, TabStepInv, PTL DEF TabSpec

\* The clip under grading stays on the page until its grade is there.
THEOREM ClipStays == TabSpec => []ClipStaysForGrading
<1>1. TabInv => ClipStaysForGrading
  BY DEF TabInv, PracticeInv, Page, ClipStaysForGrading
<1> QED
  BY <1>1, TabInitInv, TabStepInv, PTL DEF TabSpec

\* At most one request of the list is under way, and it is the one that is shared.
THEOREM ListShared == TabSpec => []ListIsShared
<1>1. TabInv => ListIsShared
  BY DEF TabInv
<1> QED
  BY <1>1, TabInitInv, TabStepInv, PTL DEF TabSpec

\* The essay under grading stays on its page, and a grade shown is that of the last
\* one submitted from it, whatever calls of earlier pages settle meanwhile.
THEOREM TextStays == TabSpec => []TextStaysForGrading
<1>1. TabInv => TextStaysForGrading
  BY DEF TabInv, Report, Essay, Active, TextStaysForGrading
<1> QED
  BY <1>1, TabInitInv, TabStepInv, PTL DEF TabSpec

-----------------------------------------------------------------------------
(* What LoadingEnds, StoppedBecomesClip and UnmountCleansUp rest on *)

\* No page loads without a request under way that ends it, also when it joined
\* one sent for another page, or followed one that failed.
THEOREM LoadingAwaits == TabSpec => []LoadingIsAwaited
<1>1. TabInv => LoadingIsAwaited
  BY DEF TabInv
<1> QED
  BY <1>1, TabInitInv, TabStepInv, PTL DEF TabSpec

\* A page that loads goes on awaiting the same request until that has settled.
LoadingIsKept ==
  view = "loading" /\ visit' = visit => view' # "loading" \/ (awaited' = awaited /\ awaited' \in open')

\* A recording that was stopped goes on stopping until its clip is on the page,
\* or the page has gone: nothing else takes it away.
StoppedIsKept ==
  \A t \in Takes : mounted /\ recorder[t] = "stopping" =>
    recorder'[t] = "stopping" \/ (clip' = t /\ status' = "recorded") \/ ~mounted'

\* What the steps of the recorder do to a recording that stops.
LEMMA RecorderKeeps == ASSUME PracticeInv, PracticeStep PROVE StoppedIsKept
<1> SUFFICES ASSUME NEW t \in Takes, mounted, recorder[t] = "stopping"
             PROVE  recorder'[t] = "stopping" \/ (clip' = t /\ status' = "recorded") \/ ~mounted'
  BY DEF StoppedIsKept
<1>0. /\ TypeOK /\ t \in hooked /\ status = "recording"
      /\ \A S : Stopped(S)[t] = "stopping"
  BY DEF PracticeInv, Page, Stopped
<1>1. CASE Start \/ Reset
  BY <1>0, <1>1 DEF Start, Reset, ResetEnabled
<1>2. CASE Stop
  BY <1>0, <1>2 DEF Stop
<1>3. CASE Submit \/ Fetched \/ Denied \/ Unrecordable
  BY <1>0, <1>3 DEF Submit, Fetched, Denied, Unrecordable, media
<1>4. CASE Unmount
  BY <1>4 DEF Unmount
<1>5. CASE Granted
  BY <1>0, <1>5 DEF Granted, PracticeInv, Page
<1>6. CASE Unplug
  BY <1>0, <1>6 DEF Unplug
<1>7. ASSUME NEW u \in Takes, OnStop(u)
      PROVE  recorder'[t] = "stopping" \/ (clip' = t /\ status' = "recorded")
  <2>1. CASE u = t
    BY <1>0, <1>7, <2>1 DEF OnStop, Keep, Show
  <2>2. CASE u # t
    BY <1>0, <1>7, <2>2 DEF OnStop, TypeOK
  <2> QED
    BY <2>1, <2>2
<1> QED
  BY <1>1, <1>2, <1>3, <1>4, <1>5, <1>6, <1>7 DEF PracticeStep, Browser

\* Unmounting with nothing to come leaves nothing held.
LEMMA UnmountReleases == ASSUME PracticeInv, Quiet, Unmount PROVE Released' /\ Quiet'
<1>1. Page /\ mounted /\ TypeOK
  BY DEF PracticeInv, Unmount
<1>2. Released'
  BY <1>1 DEF Unmount, Page, ClearTimer, Released
<1>3. \A S : Stopped(S) = recorder
  BY <1>1 DEF Stopped, Quiet, TypeOK
<1>4. Quiet'
  BY <1>3 DEF Unmount, Quiet, request
<1> QED
  BY <1>2, <1>4

\* With the page gone and nothing to come no step of the recorder takes anything.
LEMMA GoneStaysQuiet ==
  ASSUME PracticeInv, Quiet, Released, ~mounted, PracticeStep
  PROVE  Released' /\ Quiet'
<1>1. Fetched
  BY DEF PracticeStep, Browser, Start, Stop, Reset, ResetEnabled, Submit, Unmount, Denied, Granted,
     Unrecordable, Unplug, OnStop, Quiet, Released
<1> QED
  BY <1>1 DEF Fetched, Released, Quiet, request, stream, media, timer, url

\* Every step of the tab keeps to the three.
LEMMA TabKeeps ==
  TabInv /\ [TabNext]_tabVars =>
    [LoadingIsKept]_tabVars /\ [StoppedIsKept]_tabVars /\ [CleansUp]_tabVars
<1> SUFFICES ASSUME TabInv, TabNext PROVE LoadingIsKept /\ StoppedIsKept /\ CleansUp
  BY DEF TabNext
<1>0. PracticeInv /\ ListInv
  BY Parts
<1>1. LoadingIsAwaited'
  BY TabStepInv DEF TabInv
<1>2. ASSUME NEW p \in Places, Open(p) PROVE LoadingIsKept /\ StoppedIsKept /\ CleansUp
  <2>1. visit' # visit
    <3>1. visit \in Nat /\ visit' = visit + 1
      BY <1>2, Parts DEF Open, TabTypes, Visits
    <3> QED
      BY <3>1
  <2>2. Replace(p)
    BY <1>2 DEF Open
  <2>3. CASE mounted /\ Unmount
    <3>1. StoppedIsKept
      BY <2>3 DEF StoppedIsKept, Unmount
    <3>2. CleansUp
      BY <1>0, <2>3, UnmountReleases DEF CleansUp
    <3> QED
      BY <2>1, <3>1, <3>2 DEF LoadingIsKept
  <2>4. CASE ~mounted /\ Renewed
    <3>1. Released' /\ Quiet'
      BY <2>4 DEF Renewed, Released, Quiet
    <3> QED
      BY <2>1, <2>4, <3>1 DEF LoadingIsKept, StoppedIsKept, CleansUp
  <2>5. CASE ~mounted /\ UNCHANGED vars
    <3>1. StoppedIsKept
      BY <2>5 DEF StoppedIsKept
    <3>2. CleansUp
      BY <2>5 DEF CleansUp, Quiet, Released, vars, page, request, stream, media, timer, url
    <3> QED
      BY <2>1, <3>1, <3>2 DEF LoadingIsKept
  <2> QED
    BY <2>2, <2>3, <2>4, <2>5 DEF Replace
<1>3. CASE Buttons \/ Callbacks
  <2>1. PracticeStep /\ UNCHANGED tab
    BY <1>3 DEF Buttons, Callbacks, PracticeStep
  <2>2. LoadingIsKept
    BY <1>0, <2>1 DEF LoadingIsKept, ListInv, LoadingIsAwaited, tab, loading, list
  <2>3. ~Unmount
    BY <1>3 DEF Buttons, Callbacks, Browser, Unmount, Start, Stop, Reset, Submit, Denied, Granted,
       Unrecordable, Unplug, Fetched, OnStop, page
  <2>4. mounted' = mounted
    BY <2>1, <2>3 DEF PracticeStep, Browser, Start, Stop, Reset, Submit, Denied, Granted,
       Unrecordable, Unplug, Fetched, OnStop, page
  <2>5. CleansUp
    BY <1>0, <2>1, <2>4, GoneStaysQuiet DEF CleansUp
  <2> QED
    BY <1>0, <2>1, <2>2, <2>5, RecorderKeeps
<1>4. CASE \/ \E f \in open : Settle(f)
           \/ \E t \in Texts \cup {Blank} : Edit(t)
           \/ SubmitEssay
           \/ \E e \in Essays : Awaited(e)
  <2>1. UNCHANGED vars /\ awaited' = awaited
    BY <1>4 DEF Settle, Edit, SubmitEssay, Awaited, loading
  <2>2. LoadingIsKept
    BY <1>1, <2>1 DEF LoadingIsKept, LoadingIsAwaited
  <2>3. StoppedIsKept /\ CleansUp
    BY <2>1 DEF StoppedIsKept, CleansUp, Quiet, Released,
       vars, page, request, stream, media, timer, url
  <2> QED
    BY <2>2, <2>3
<1> QED
  BY <1>2, <1>3, <1>4, HrefPlaces DEF TabNext, FollowLink, GoBack

\* A page that loads leaves that state only by its request settling or by another
\* page being opened: with requests that settle, LoadingEnds follows.
THEOREM LoadingKept == TabSpec => [][LoadingIsKept]_tabVars
  BY TabInitInv, TabStepInv, TabKeeps, PTL DEF TabSpec

\* A recording that was stopped, by the button or by the device, becomes the clip
\* on the page or goes with the page, whatever else is clicked before its event.
THEOREM StoppedKept == TabSpec => [][StoppedIsKept]_tabVars
  BY TabInitInv, TabStepInv, TabKeeps, PTL DEF TabSpec

\* The cleanup of the hook is complete, and for good, when the page goes with no
\* request for the microphone and no recorder running or stopping: the
\* condition UnmountCleansUp, which fails as documented, lacks.
THEOREM QuietUnmountReleases == TabSpec => QuietUnmountCleansUp
  BY TabInitInv, TabStepInv, TabKeeps, PTL DEF TabSpec, QuietUnmountCleansUp

=============================================================================
