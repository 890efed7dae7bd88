------------------------------ MODULE Practice ------------------------------
(***************************************************************************)
(* The speaking practice page (frontend/src/app/speaking/[id]/page.tsx)    *)
(* with its recorder hook (frontend/src/lib/use-audio-recorder.ts).        *)
(*                                                                         *)
(* The page's buttons gate the hook's start, stop and reset.  What they    *)
(* set off ends in callbacks of the browser: getUserMedia settles, a       *)
(* recorder's stop event fires, fetches resolve.  Those come at any later  *)
(* time, also after the page is gone.  A take names its microphone stream, *)
(* its MediaRecorder, its timer, its clip and the clip's object URL.       *)
(***************************************************************************)
EXTENDS Naturals

CONSTANTS
  MaxTakes,  \* bound of the model: recordings
  None       \* null

ASSUME MaxTakesIsPositive == MaxTakes \in Nat \ {0}

Takes == 1 .. MaxTakes
ASSUME NoneIsNoTake == None \notin Takes

VARIABLES
  mounted,     \* is the page there?
  status,      \* RecorderStatus
  asking,      \* is getUserMedia pending?
  takes,       \* recordings so far
  tracks,      \* streams whose tracks are live: the microphone is on
  streamRef,
  recorder,    \* the state of each MediaRecorder, "stopping" until its event
  hooked,      \* recorders with an onstop handler
  recorderRef,
  timers,      \* intervals that tick
  timerRef,
  urls,        \* object URLs not revoked
  urlRef,
  clip,        \* blob, url and filename
  submit,      \* SubmitState
  sent         \* the clip onSubmit uploaded

request == <<asking, takes>>
stream == <<tracks, streamRef>>
media == <<recorder, hooked, recorderRef>>
timer == <<timers, timerRef>>
url == <<urls, urlRef>>
page == <<mounted, submit, sent>>
vars == <<page, status, request, stream, media, timer, url, clip>>

Busy == submit \in {"transcribing", "grading"}

TypeOK ==
  /\ mounted \in BOOLEAN
  /\ status \in {"idle", "requesting", "recording", "recorded"}
  /\ asking \in BOOLEAN
  /\ takes \in 0 .. MaxTakes
  /\ tracks \subseteq Takes
  /\ recorder \in [Takes -> {"none", "recording", "stopping", "inactive"}]
  /\ hooked \subseteq Takes
  /\ timers \subseteq Takes
  /\ urls \subseteq Takes
  /\ {streamRef, recorderRef, timerRef, urlRef, clip} \subseteq Takes \cup {None}
  /\ submit \in {"idle", "transcribing", "grading", "done", "error"}
  /\ sent \in Takes \cup {None}
  /\ Busy => sent \in Takes

\* What useState and useRef start with.
Fresh ==
  /\ status = "idle"
  /\ asking = FALSE
  /\ takes = 0
  /\ tracks = {}
  /\ recorder = [t \in Takes |-> "none"]
  /\ hooked = {}
  /\ timers = {}
  /\ urls = {}
  /\ streamRef = None /\ recorderRef = None /\ timerRef = None /\ urlRef = None
  /\ clip = None
  /\ submit = "idle"
  /\ sent = None

Init == mounted = TRUE /\ Fresh

\* The same for another page.
Renewed ==
  /\ status' = "idle"
  /\ asking' = FALSE
  /\ takes' = 0
  /\ tracks' = {}
  /\ recorder' = [t \in Takes |-> "none"]
  /\ hooked' = {}
  /\ timers' = {}
  /\ urls' = {}
  /\ streamRef' = None /\ recorderRef' = None /\ timerRef' = None /\ urlRef' = None
  /\ clip' = None
  /\ submit' = "idle"
  /\ sent' = None

\* State set by an unmounted page is dropped.
Show(s) == status' = IF mounted THEN s ELSE status
Keep(c) == clip' = IF mounted THEN c ELSE clip

ClearTimer == timers' = timers \ {timerRef} /\ timerRef' = None

\* Mutation: the stream is forgotten without its tracks being stopped.
ForgetStream == streamRef' = None /\ UNCHANGED tracks

ReleaseStream == tracks' = tracks \ {streamRef} /\ streamRef' = None

\* Mutation: the reference goes and the URL stays.
ForgetUrl == urlRef' = None /\ UNCHANGED urls

RevokeUrl == urls' = urls \ {urlRef} /\ urlRef' = None

-----------------------------------------------------------------------------
(* start *)

\* The Record button: drop the previous take and ask for the microphone.
Start ==
  /\ mounted /\ status = "idle" /\ ~Busy
  /\ takes < MaxTakes
  /\ RevokeUrl
  /\ Keep(None)
  /\ Show("requesting")
  /\ asking' = TRUE
  /\ UNCHANGED <<stream, media, timer, page, takes>>

Denied ==
  /\ asking
  /\ asking' = FALSE
  /\ Show("idle")
  /\ UNCHANGED <<stream, media, timer, url, page, takes, clip>>

\* The stream is there: record it.
Granted ==
  /\ asking
  /\ asking' = FALSE
  /\ takes' = takes + 1
  /\ tracks' = tracks \cup {takes'}
  /\ streamRef' = takes'
  /\ recorder' = [recorder EXCEPT ![takes'] = "recording"]
  /\ hooked' = hooked \cup {takes'}
  /\ recorderRef' = takes'
  /\ Show("recording")
  /\ timers' = timers \cup {takes'}
  /\ timerRef' = takes'
  /\ UNCHANGED <<url, page, clip>>

\* The stream is there, but MediaRecorder refuses it and start() rejects.
Unrecordable ==
  /\ asking
  /\ asking' = FALSE
  /\ takes' = takes + 1
  /\ tracks' = tracks \cup {takes'}
  /\ streamRef' = takes'
  /\ UNCHANGED <<media, timer, url, page, status, clip>>

-----------------------------------------------------------------------------
(* stop *)

\* A recorder told to stop, or without tracks left, is inactive at once and has
\* a stop event to come.
Stopped(ended) ==
  [t \in Takes |-> IF recorder[t] = "recording" /\ t \in ended THEN "stopping" ELSE recorder[t]]

\* Mutation: stop() takes the handler off first, as reset() does.
StopUnhooked ==
  /\ mounted /\ status = "recording"
  /\ ClearTimer
  /\ recorder' = Stopped({recorderRef})
  /\ hooked' = hooked \ {recorderRef}
  /\ UNCHANGED <<request, stream, url, page, status, recorderRef, clip>>

\* The Stop button.
Stop ==
  /\ mounted /\ status = "recording"
  /\ ClearTimer
  /\ recorder' = Stopped({recorderRef})
  /\ UNCHANGED <<request, stream, url, page, status, hooked, recorderRef, clip>>

\* The microphone is unplugged, or the user withdraws it.
Unplug ==
  /\ tracks # {}
  /\ tracks' = {}
  /\ recorder' = Stopped(tracks)
  /\ UNCHANGED <<request, timer, url, page, status, streamRef, hooked, recorderRef, clip>>

\* The stop event, with onstop if it is still there: the clip is made and the
\* timer and the stream let go.
OnStop(t) ==
  /\ recorder[t] = "stopping"
  /\ recorder' = [recorder EXCEPT ![t] = "inactive"]
  /\ IF t \in hooked
       THEN /\ urls' = urls \cup {t}
            /\ urlRef' = t
            /\ Keep(t)
            /\ Show("recorded")
            /\ ClearTimer
            /\ ReleaseStream
       ELSE UNCHANGED <<stream, timer, url, clip, status>>
  /\ UNCHANGED <<request, page, hooked, recorderRef>>

-----------------------------------------------------------------------------

\* Mutation: re-recording while the clip is being graded.
ResetAnytime == mounted /\ status = "recorded"

ResetEnabled == mounted /\ status = "recorded" /\ ~Busy

\* The Re-record button.
Reset ==
  /\ ResetEnabled
  /\ ClearTimer
  /\ recorder' = Stopped({recorderRef})
  /\ hooked' = IF recorder' # recorder THEN hooked \ {recorderRef} ELSE hooked
  /\ ReleaseStream
  /\ RevokeUrl
  /\ recorderRef' = None
  /\ Keep(None)
  /\ Show("idle")
  /\ UNCHANGED <<request, page>>

\* The page goes: the effect's cleanup.
Unmount ==
  /\ mounted
  /\ mounted' = FALSE
  /\ ClearTimer
  /\ tracks' = tracks \ {streamRef}
  /\ recorder' = Stopped({streamRef})
  /\ urls' = urls \ {urlRef}
  /\ UNCHANGED <<request, status, streamRef, hooked, recorderRef, urlRef, clip, submit, sent>>

-----------------------------------------------------------------------------
(* onSubmit *)

\* Mutation: the blob is let go before it is uploaded.
SubmitNothing ==
  /\ mounted /\ status = "recorded" /\ ~Busy /\ clip # None
  /\ submit' = "transcribing"
  /\ sent' = None
  /\ UNCHANGED <<request, stream, media, timer, url, mounted, status, clip>>

\* The Submit button.
Submit ==
  /\ mounted /\ status = "recorded" /\ ~Busy /\ clip # None
  /\ submit' = "transcribing"
  /\ sent' = clip
  /\ UNCHANGED <<request, stream, media, timer, url, mounted, status, clip>>

\* The upload resolves, then the grading; either may reject.
Fetched ==
  /\ Busy
  /\ \/ submit' = IF submit = "transcribing" THEN "grading" ELSE "done"
     \/ submit' = "error"
  /\ UNCHANGED <<request, stream, media, timer, url, mounted, status, clip, sent>>

Browser == Denied \/ Granted \/ Unrecordable \/ Unplug \/ Fetched

Next ==
  \/ Start \/ Stop \/ Reset \/ Submit \/ Unmount
  \/ Browser
  \/ \E t \in Takes : OnStop(t)

Spec == Init /\ [][Next]_vars

\* The browser fires the stop event of every recorder that stops.
FairSpec == Spec /\ \A t \in Takes : WF_vars(OnStop(t))

-----------------------------------------------------------------------------

\* No microphone is granted and no stop event fires from here on.
Quiet == ~asking /\ \A t \in Takes : recorder[t] \notin {"recording", "stopping"}

Released == tracks = {} /\ urls = {} /\ timers = {}

\* A page that goes while nothing is to come releases the microphone, the URL and
\* the timer, and nothing takes them again after it.
CleansUp == Quiet /\ (IF mounted THEN ~mounted' ELSE Released) => Released' /\ Quiet'

\* While the page is there, the microphone is on only when the page says that
\* it records, or asks to (use-audio-recorder.ts:113-194).
MicrophoneIsShown ==
  mounted /\ tracks # {} => status \in {"requesting", "recording"}

\* While the page is there, the only object URL is that of the clip it plays,
\* however often one re-records (use-audio-recorder.ts:106-119, 153-158, 185).
OneUrl == mounted => urls = IF clip = None THEN {} ELSE {clip}

\* The clip on the page is the clip being graded: nothing replaces it between
\* the upload and the grade (page.tsx:123-142, 231-246).
ClipStaysForGrading == mounted /\ Busy => status = "recorded" /\ clip = sent

\* A recording that was stopped, by the button or by the device, becomes a
\* clip, unless the page goes first (use-audio-recorder.ts:153-176).
StoppedBecomesClip ==
  \A t \in Takes : recorder[t] = "stopping" ~> (clip = t /\ status = "recorded") \/ ~mounted

-----------------------------------------------------------------------------
(* What documentation says and the code does not ensure. *)

\* use-audio-recorder.ts:4-6: "cleans up the mic stream and object URLs on
\* stop/reset/unmount".  A microphone granted after the page has gone, or a
\* stop event that fires then, comes after the cleanup.
UnmountCleansUp == ~mounted => Released

=============================================================================
