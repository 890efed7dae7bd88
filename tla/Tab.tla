--------------------------------- MODULE Tab ---------------------------------
(***************************************************************************)
(* A browser tab of the frontend: the list of questions                    *)
(* (frontend/src/app/page.tsx), the writing page (questions/[id]/page.tsx) *)
(* and the speaking page, whose buttons and recorder are Practice.  Every  *)
(* page loads the whole list; the pages share one request of it while it   *)
(* is in flight (getQuestions, lib/api.ts).                                *)
(*                                                                         *)
(* Going to another page unmounts the one that is there.  What it awaits   *)
(* goes on: an essay submitted is graded after its page has gone, and the  *)
(* learner may be back on that page by then, which is a page anew.         *)
(***************************************************************************)
EXTENDS Practice, FiniteSets

CONSTANTS
  WritingIds,   \* questions of exam_section "writing"
  SpeakingIds,  \* questions of exam_section "speaking"
  OtherIds,     \* ids in a URL that name no question
  Texts,        \* essays
  Blank,        \* an essay without words
  MaxVisits,    \* bound of the model: pages opened
  MaxEssays     \* bound of the model: essays submitted

ASSUME IdsDiffer == WritingIds \cap SpeakingIds = {} /\ OtherIds \cap (WritingIds \cup SpeakingIds) = {}
ASSUME NoneIsNoId == None \notin WritingIds \cup SpeakingIds \cup OtherIds
ASSUME BlankIsNoText == Blank \notin Texts
ASSUME MaxVisitsIsPositive == MaxVisits \in Nat \ {0}
ASSUME MaxEssaysIsNat == MaxEssays \in Nat
ASSUME NoneIsNoNumber == None \notin 1 .. MaxVisits /\ None \notin 1 .. MaxEssays

Listed == WritingIds \cup SpeakingIds
Essays == 1 .. MaxEssays
Visits == 1 .. MaxVisits
Home == [route |-> "home", id |-> None]
Places == {Home} \cup [route : {"questions", "speaking"}, id : Listed \cup OtherIds]

VARIABLES
  place,     \* the page that is there
  visit,     \* how many pages were opened, this one included
  view,      \* State, QuestionState
  awaited,   \* the request of the list this page awaits
  \* lib/api.ts
  inFlight,  \* inFlightQuestions
  open,      \* requests of the list that have not settled
  fetches,   \* requests of the list so far
  \* the writing page
  content,
  grade,     \* GradeState
  report,    \* the essay whose grade is shown
  \* its onSubmit calls, which outlive it
  essays,    \* how many were submitted
  stage,     \* what an onSubmit call awaits
  text,      \* the essay it submitted
  sender     \* the visit that called it

loading == <<view, awaited>>
list == <<inFlight, open, fetches>>
form == <<content, grade, report>>
calls == <<essays, stage, text, sender>>
tab == <<place, visit, loading, list, form, calls>>
tabVars == <<vars, tab>>

TabTypeOK ==
  /\ TypeOK
  /\ place \in Places
  /\ visit \in Visits
  /\ view \in {"loading", "ready", "notfound", "error"}
  /\ awaited \in Visits
  /\ inFlight \in Visits \cup {None}
  /\ open \subseteq Visits
  /\ fetches \in Visits
  /\ content \in Texts \cup {Blank}
  /\ grade \in {"idle", "grading", "done", "error"}
  /\ report \in Essays \cup {None}
  /\ essays \in 0 .. MaxEssays
  /\ stage \in [Essays -> {"none", "submitAnswer", "gradeAnswer", "over"}]
  /\ text \in [Essays -> Texts \cup {None}]
  /\ sender \in [Essays -> Visits \cup {None}]
  /\ \A e \in Essays : stage[e] # "none" => text[e] \in Texts

\* The tab opens with any URL, and the page's effect asks for the list.
TabInit ==
  /\ place \in Places
  /\ mounted = (place.route = "speaking")
  /\ Fresh
  /\ visit = 1
  /\ view = "loading"
  /\ awaited = 1
  /\ inFlight = 1
  /\ open = {1}
  /\ fetches = 1
  /\ content = Blank
  /\ grade = "idle"
  /\ report = None
  /\ essays = 0
  /\ stage = [e \in Essays |-> "none"]
  /\ text = [e \in Essays |-> None]
  /\ sender = [e \in Essays |-> None]

-----------------------------------------------------------------------------
(* lib/api.ts: one request for every page that asks while it is in flight *)

\* Mutation: each page sends its own request.
SharesNothing == FALSE

Shares == inFlight # None

\* getQuestions
GetQuestions ==
  IF Shares
    THEN awaited' = inFlight /\ UNCHANGED list
    ELSE /\ fetches' = fetches + 1
         /\ inFlight' = fetches'
         /\ open' = open \cup {fetches'}
         /\ awaited' = fetches'

\* Mutation: the promise is let go of only when it resolves.
ForgottenIfResolved(resolved) == IF resolved THEN None ELSE inFlight

\* finally
Forgotten(resolved) == None

\* What a page makes of the list; the speaking page looks at the section too.
Found == place = Home \/ place.id \in IF place.route = "speaking" THEN SpeakingIds ELSE Listed

\* Mutation: a rejection is not caught, and says nothing to the page.
ShownUncaught(resolved) == IF ~resolved THEN view ELSE IF Found THEN "ready" ELSE "notfound"

\* then, catch
Shown(resolved) == IF ~resolved THEN "error" ELSE IF Found THEN "ready" ELSE "notfound"

\* A request settles: its page, if it is still there, shows what it has.
Settle(f) ==
  /\ f \in open
  /\ open' = open \ {f}
  /\ \E resolved \in BOOLEAN :
       /\ inFlight' = Forgotten(resolved)
       /\ view' = IF awaited = f THEN Shown(resolved) ELSE view
  /\ UNCHANGED <<vars, place, visit, awaited, fetches, form, calls>>

-----------------------------------------------------------------------------
(* Going from page to page *)

\* QuestionCard
Href(q) == [route |-> IF q \in SpeakingIds THEN "speaking" ELSE "questions", id |-> q]

\* The page that was there goes, and its recorder with it.  A speaking page has a
\* recorder of its own.  The model keeps one at a time: the next is there once
\* nothing of an earlier one is to come or held, and not on a page opened straight
\* from another speaking page.
Replace(p) ==
  \/ mounted /\ Unmount
  \/ /\ ~mounted /\ p.route = "speaking" /\ Quiet /\ Released
     /\ mounted' = TRUE
     /\ Renewed
  \/ /\ ~mounted /\ ~(p.route = "speaking" /\ Quiet /\ Released)
     /\ UNCHANGED vars

Open(p) ==
  /\ visit < MaxVisits
  /\ visit' = visit + 1
  /\ place' = p
  /\ view' = "loading"
  /\ GetQuestions
  /\ content' = Blank
  /\ grade' = "idle"
  /\ report' = None
  /\ Replace(p)
  /\ UNCHANGED calls

\* A card of the list.
FollowLink(q) == place = Home /\ view = "ready" /\ Open(Href(q))

\* BackLink, and the browser's history: any page, a listed question's or not.
GoBack(p) == Open(p)

-----------------------------------------------------------------------------
(* The writing page *)

Writing == place.route = "questions" /\ view = "ready"
Grading == grade = "grading"

\* disabled={grading}
Editable == Writing /\ ~Grading

Edit(t) ==
  /\ Editable
  /\ content # t
  /\ content' = t
  /\ UNCHANGED <<vars, place, visit, loading, list, grade, report, calls>>

\* Mutation: the button stays enabled.
CanSubmitAlways == Writing /\ content # Blank

\* canSubmit
CanSubmit == Writing /\ content # Blank /\ ~Grading

\* onSubmit, up to its first fetch.
SubmitEssay ==
  /\ CanSubmit
  /\ essays < MaxEssays
  /\ essays' = essays + 1
  /\ grade' = "grading"
  /\ report' = None
  /\ stage' = [stage EXCEPT ![essays'] = "submitAnswer"]
  /\ text' = [text EXCEPT ![essays'] = content]
  /\ sender' = [sender EXCEPT ![essays'] = visit]
  /\ UNCHANGED <<vars, place, visit, loading, list, content>>

\* setGrade, which a page that has gone does not hear.
Tell(e, g) ==
  IF sender[e] = visit
    THEN grade' = g /\ report' = (IF g = "done" THEN e ELSE None)
    ELSE UNCHANGED <<grade, report>>

\* submitAnswer resolves, then gradeAnswer; either may reject, and the answer is
\* stored all the same when only the response was lost.
Awaited(e) ==
  /\ stage[e] \in {"submitAnswer", "gradeAnswer"}
  /\ \/ /\ stage[e] = "submitAnswer"
        /\ stage' = [stage EXCEPT ![e] = "gradeAnswer"]
        /\ UNCHANGED <<grade, report>>
     \/ /\ stage[e] = "gradeAnswer"
        /\ stage' = [stage EXCEPT ![e] = "over"]
        /\ Tell(e, "done")
     \/ /\ stage' = [stage EXCEPT ![e] = "over"]
        /\ Tell(e, "error")
  /\ UNCHANGED <<vars, place, visit, loading, list, content, essays, text, sender>>

-----------------------------------------------------------------------------

\* The recorder's buttons are there once the question is.
Buttons ==
  /\ place.route = "speaking" /\ view = "ready"
  /\ Start \/ Stop \/ Reset \/ Submit
  /\ UNCHANGED tab

Callbacks ==
  /\ Browser \/ \E t \in Takes : OnStop(t)
  /\ UNCHANGED tab

TabNext ==
  \/ \E q \in Listed : FollowLink(q)
  \/ \E p \in Places : GoBack(p)
  \/ \E f \in open : Settle(f)
  \/ \E t \in Texts \cup {Blank} : Edit(t)
  \/ SubmitEssay
  \/ \E e \in Essays : Awaited(e)
  \/ Buttons
  \/ Callbacks

TabSpec == TabInit /\ [][TabNext]_tabVars

\* Every request of the list settles, and every recorder that stops has its event.
TabFairSpec ==
  /\ TabSpec
  /\ \A f \in Visits : WF_tabVars(Settle(f))
  /\ \A t \in Takes : WF_tabVars(OnStop(t) /\ UNCHANGED tab)

-----------------------------------------------------------------------------

\* The tab never has two requests of the list under way, and what a page is given
\* to await is one under way, never one that has failed before (api.ts:143-159).
ListIsShared == open = IF inFlight = None THEN {} ELSE {inFlight}

\* The text on the page is the one being graded, and a grade on it is that of the
\* last essay submitted from it, whatever was submitted from pages that have gone
\* and in whichever order calls settle (questions/[id]/page.tsx:108-123, 150-153).
TextStaysForGrading ==
  /\ \A e \in Essays :
       stage[e] \in {"submitAnswer", "gradeAnswer"} /\ sender[e] = visit =>
         Grading /\ content = text[e]
  /\ grade = "done" =>
       /\ sender[report] = visit
       /\ \A e \in Essays : sender[e] = visit => e <= report

\* A speaking page that goes with nothing to come lets go of the microphone, the
\* URL and the timer for good, whatever was recorded, stopped, dropped and graded
\* on it and whatever pages follow (use-audio-recorder.ts:69-104, 178-202).
QuietUnmountCleansUp == [][CleansUp]_tabVars

\* No page loads for ever, also when it joined a request sent for another page
\* (api.ts:154-159).
LoadingEnds == view = "loading" ~> view # "loading"

=============================================================================
