------------------------------- MODULE Gateway -------------------------------
(***************************************************************************)
(* The inference gateway (gateway/app/main.py, backends.py, metrics.py):   *)
(* POST /v1/chat/completions and /v1/embeddings in one process.            *)
(*                                                                         *)
(* Between two awaits a handler runs alone on the event loop, so it is one *)
(* step up to its POST to the upstream, one more per answer it gets.  The  *)
(* limiter (module RateLimit) is here its verdict.  Counters are for one   *)
(* model label; a restart of the process forgets everything.               *)
(***************************************************************************)
EXTENDS Naturals, Sequences, FiniteSets

CONSTANTS
  Requests    \* HTTP requests, each served once

VARIABLES
  upstream,   \* the server behind UPSTREAM_BASE_URL: what schema field it takes
  backend,    \* inference_backend
  configured, \* the endpoints whose backend has its key or URL
  rejects,    \* _rejects_response_format[base]
  inflight,   \* INFLIGHT
  requests,   \* REQUESTS, by status
  embeddings, \* EMBED_REQUESTS, by status
  pc,         \* the await a handler is suspended at
  schema,     \* does the body ask for a JSON schema?
  known,      \* known_reject: the memo, as read at arrival
  code,       \* the response's status
  posts,      \* history: schema fields of the bodies posted upstream
  answers,    \* history: the upstream's answers to them
  epoch       \* history: the requests of this process

server == <<upstream, backend, configured>>
Backends == {"anthropic", "forward", "unknown"}
Endpoints == {"chat", "embeddings"}
metrics == <<inflight, requests, embeddings>>
log == <<posts, answers>>
vars == <<server, rejects, metrics, pc, schema, known, code, log, epoch>>

\* The statuses REQUESTS and EMBED_REQUESTS are labelled with.
Labels == {"200", "429", "502", "503"}

\* A schema travels as response_format or, for an older vLLM, as guided_json; a
\* newer one has dropped guided_json.
Servers == {"old", "new", "newest"}
Fields == {"none", "response_format", "guided_json"}

Accepts(s, f) ==
  CASE s = "old" -> f # "response_format"
    [] s = "new" -> TRUE
    [] s = "newest" -> f # "guided_json"

\* What the POST may come to.
Answered == {"good",      \* a completion
             "garbage",   \* 200 with a body that is no JSON object
             "format",    \* 400 whose text names response_format
             "refused",   \* any other 4xx or 5xx
             "broken"}    \* no answer: a connection error or a timeout

ChatWaiting == {"post", "repost", "messages"}

TypeOK ==
  /\ upstream \in Servers
  /\ backend \in Backends
  /\ configured \subseteq Endpoints
  /\ rejects \in BOOLEAN
  /\ inflight \in Nat
  /\ requests \in [Labels -> Nat]
  /\ embeddings \in [Labels -> Nat]
  /\ pc \in [Requests -> {"new", "embed", "done", "embedded", "lost"} \cup ChatWaiting]
  /\ schema \in [Requests -> BOOLEAN]
  /\ known \in [Requests -> BOOLEAN]
  /\ code \in [Requests -> Labels \cup {"none", "500"}]
  /\ posts \in [Requests -> Seq(Fields)]
  /\ answers \in [Requests -> Seq(Answered)]
  /\ epoch \subseteq Requests

Init ==
  /\ upstream \in Servers
  /\ backend \in Backends
  /\ configured \in SUBSET Endpoints
  /\ rejects = FALSE
  /\ inflight = 0
  /\ requests = [l \in Labels |-> 0]
  /\ embeddings = [l \in Labels |-> 0]
  /\ pc = [r \in Requests |-> "new"]
  /\ schema = [r \in Requests |-> FALSE]
  /\ known = [r \in Requests |-> FALSE]
  /\ code = [r \in Requests |-> "none"]
  /\ posts = [r \in Requests |-> <<>>]
  /\ answers = [r \in Requests |-> <<>>]
  /\ epoch = {}

Waiting(r) == pc[r] \in ChatWaiting
Goto(r, label) == pc' = [pc EXCEPT ![r] = label]
Post(r, field) == posts' = [posts EXCEPT ![r] = Append(@, field)]
Answer(r, a) == answers' = [answers EXCEPT ![r] = Append(@, a)]

\* The response of /v1/chat/completions, with its sample of REQUESTS.  An
\* exception no clause names is the framework's 500, of which there is none.
Reply(r, c) ==
  /\ Goto(r, "done")
  /\ code' = [code EXCEPT ![r] = c]
  /\ requests' = IF c \in Labels THEN [requests EXCEPT ![c] = @ + 1] ELSE requests

\* Mutation: throttled requests leave no sample.
ThrottledUncounted(r) ==
  /\ Goto(r, "done")
  /\ code' = [code EXCEPT ![r] = "429"]
  /\ UNCHANGED requests

\* Turned away before the body is read.
Throttled(r) == Reply(r, "429")

\* The schema field of the body to send: the memo is for schemas only.
Translated(hasSchema, knownReject) ==
  IF ~hasSchema THEN "none" ELSE IF knownReject THEN "guided_json" ELSE "response_format"

-----------------------------------------------------------------------------
(* POST /v1/chat/completions *)

\* Up to the first POST: the limiter, the body, the gauge, the backend's
\* configuration (whose RuntimeError raises the gauge and drops it again).
Chat(r, hasSchema) ==
  /\ pc[r] = "new"
  /\ epoch' = epoch \cup {r}
  /\ schema' = [schema EXCEPT ![r] = hasSchema]
  /\ \/ /\ Throttled(r)
        /\ UNCHANGED <<inflight, known, posts>>
     \/ /\ Reply(r, "500")
        /\ UNCHANGED <<inflight, known, posts>>
     \/ /\ backend = "unknown" \/ "chat" \notin configured
        /\ Reply(r, "503")
        /\ UNCHANGED <<inflight, known, posts>>
     \/ /\ backend = "forward" /\ "chat" \in configured
        /\ known' = [known EXCEPT ![r] = rejects]
        /\ Post(r, Translated(hasSchema, rejects))
        /\ Goto(r, "post")
        /\ inflight' = inflight + 1
        /\ UNCHANGED <<requests, code>>
     \/ /\ backend = "anthropic" /\ "chat" \in configured
        /\ Goto(r, "messages")
        /\ inflight' = inflight + 1
        /\ UNCHANGED <<requests, code, known, posts>>
  /\ UNCHANGED <<server, rejects, embeddings, answers>>

\* Mutation: the gauge falls after the last statement, not in "finally".
LeaveOnSuccess(r, c) ==
  /\ Reply(r, c)
  /\ inflight' = IF c = "200" THEN inflight - 1 ELSE inflight

\* Mutation: the gauge falls in the clause that catches and again in "finally".
LeaveTwice(r, c) ==
  /\ Reply(r, c)
  /\ inflight' = inflight - 2

\* The end of the handler, whatever the outcome.
Leave(r, c) ==
  /\ Reply(r, c)
  /\ inflight' = inflight - 1

\* raise_for_status, json and usage: what an answer means to the caller.
Meaning(a) == CASE a = "good" -> "200"
                [] a = "garbage" -> "500"
                [] OTHER -> "502"

\* The answers a server may give to a body with schema field f.  A field it
\* does not know is a 400, which names response_format if that is the field; any
\* other 400 may quote the body.
Possible(f) ==
  IF ~Accepts(upstream, f)
    THEN IF f = "response_format" THEN {"format", "broken"} ELSE {"refused", "broken"}
    ELSE {"good", "garbage", "refused", "broken"}
           \cup (IF f = "response_format" THEN {"format"} ELSE {})

\* Mutation: any 400 of a schema request is retried.
FallsBackOnRefusal(r, a) == schema[r] /\ ~known[r] /\ a \in {"format", "refused"}

\* Retry with guided_json?
FallsBack(r, a) == schema[r] /\ ~known[r] /\ a = "format"

\* Mutation: the verdict is not remembered.
RememberNothing == UNCHANGED rejects

Remember == rejects' = TRUE

\* The first answer of the upstream.
Forwarded(r, a) ==
  /\ pc[r] = "post"
  /\ a \in Possible(posts[r][1])
  /\ Answer(r, a)
  /\ IF FallsBack(r, a)
       THEN /\ Remember
            /\ Post(r, "guided_json")
            /\ Goto(r, "repost")
            /\ UNCHANGED <<metrics, code>>
       ELSE /\ Leave(r, Meaning(a))
            /\ UNCHANGED <<rejects, embeddings, posts>>
  /\ UNCHANGED <<server, schema, known, epoch>>

\* The answer to the retry is final.
Reforwarded(r, a) ==
  /\ pc[r] = "repost"
  /\ a \in Possible("guided_json")
  /\ Answer(r, a)
  /\ Leave(r, Meaning(a))
  /\ UNCHANGED <<server, rejects, embeddings, schema, known, posts, epoch>>

\* The Anthropic client returns a message or raises APIError; a body of the
\* upstream's that it cannot read raises what no clause names.
Completed(r) ==
  /\ pc[r] = "messages"
  /\ \E c \in {"200", "500", "502"} : Leave(r, c)
  /\ UNCHANGED <<server, rejects, embeddings, schema, known, log, epoch>>

-----------------------------------------------------------------------------
(* POST /v1/embeddings: always to OpenAI, on counters of its own. *)

EmbedReply(r, c) ==
  /\ Goto(r, "embedded")
  /\ code' = [code EXCEPT ![r] = c]
  /\ embeddings' = IF c \in Labels THEN [embeddings EXCEPT ![c] = @ + 1] ELSE embeddings

Embed(r) ==
  /\ pc[r] = "new"
  /\ epoch' = epoch \cup {r}
  /\ \/ \E c \in {"429", "500"} : EmbedReply(r, c)
     \/ "embeddings" \notin configured /\ EmbedReply(r, "503")
     \/ "embeddings" \in configured /\ Goto(r, "embed") /\ UNCHANGED <<code, embeddings>>
  /\ UNCHANGED <<server, rejects, inflight, requests, schema, known, log>>

Embedded(r) ==
  /\ pc[r] = "embed"
  /\ \E c \in {"200", "500", "502"} : EmbedReply(r, c)
  /\ UNCHANGED <<server, rejects, inflight, requests, schema, known, log, epoch>>

-----------------------------------------------------------------------------

\* The operator replaces the upstream by a later version, at the same URL.
Upgrade ==
  /\ upstream' \in IF upstream = "old" THEN {"new", "newest"}
                   ELSE IF upstream = "new" THEN {"newest"} ELSE {}
  /\ UNCHANGED <<backend, configured, rejects, metrics, pc, schema, known, code, log, epoch>>

\* The process is restarted, perhaps with other settings, and loses the requests it was serving.
Restart ==
  /\ epoch # {}
  /\ backend' \in Backends
  /\ configured' \in SUBSET Endpoints
  /\ rejects' = FALSE
  /\ inflight' = 0
  /\ requests' = [l \in Labels |-> 0]
  /\ embeddings' = [l \in Labels |-> 0]
  /\ pc' = [r \in Requests |-> IF Waiting(r) \/ pc[r] = "embed" THEN "lost" ELSE pc[r]]
  /\ epoch' = {}
  /\ UNCHANGED <<upstream, schema, known, code, log>>

Serve(r) ==
  \/ \E a \in Answered : Forwarded(r, a) \/ Reforwarded(r, a)
  \/ Completed(r)
  \/ Embedded(r)

Next ==
  \/ \E r \in Requests :
       \/ \E hasSchema \in BOOLEAN : Chat(r, hasSchema)
       \/ Embed(r)
       \/ Serve(r)
  \/ Upgrade
  \/ Restart

Spec == Init /\ [][Next]_vars

-----------------------------------------------------------------------------

\* The gauge the autoscaler reads counts exactly the chat requests awaiting a
\* backend: every way out of the handler, uncaught exceptions included, takes
\* one off, and embeddings never touch it (main.py:54-73, 93-94).
InflightIsExact == inflight = Cardinality({r \in epoch : Waiting(r)})

\* Each label counts the responses given under it since the process started,
\* one each: a retried POST is one request, and a throttled one counts
\* (main.py:37-48, 58-79, 98-124).
CountersAreExact ==
  \A l \in Labels :
    /\ requests[l] = Cardinality({r \in epoch : pc[r] = "done" /\ code[r] = l})
    /\ embeddings[l] = Cardinality({r \in epoch : pc[r] = "embedded" /\ code[r] = l})

\* A body is posted again only after a 400 that named response_format, only in
\* translation, and never a third time; every other failure reaches the caller
\* at once as it was (backends.py:137-154, 196-203).
RetriesAreForFormat ==
  \A r \in Requests :
    /\ Len(posts[r]) <= 2
    /\ Len(posts[r]) = 2 => /\ posts[r] = <<"response_format", "guided_json">>
                            /\ answers[r][1] = "format"
    /\ pc[r] = "done" /\ code[r] = "200" /\ answers[r] # <<>>
         => answers[r][Len(answers[r])] = "good"

\* Once some request of this process had to be retried, no request that arrives
\* sends response_format again, also when others are still probing or the retry
\* itself failed: the verdict is remembered before the retry and lasts as long
\* as the process (backends.py:137-154, 183-187).
VerdictIsHeeded ==
  [][(\E q \in epoch : Len(posts[q]) = 2) =>
       \A r \in Requests :
         posts[r] = <<>> /\ posts'[r] # <<>> => posts'[r][1] # "response_format"]_vars

=============================================================================
