---------------------------- MODULE GatewayProofs ----------------------------
(***************************************************************************)
(* Proofs about Gateway, for any set of requests.                          *)
(*                                                                         *)
(* A step either lets a request into the backend, or out of it, or does    *)
(* neither, and takes a sample for the response it gives, if any: Moves.   *)
(* From that the gauge and the counters stay the cardinalities they should *)
(* be.  Shape follows what one request posts and is answered.              *)
(***************************************************************************)
EXTENDS Gateway, FiniteSetTheorems, SequenceTheorems, TLAPS

\* TypeOK, but for the gauge: that it does not fall below zero is InflightIsExact.
Types ==
  /\ upstream \in Servers
  /\ backend \in Backends
  /\ configured \subseteq Endpoints
  /\ rejects \in BOOLEAN
  /\ requests \in [Labels -> Nat]
  /\ embeddings \in [Labels -> Nat]
  /\ pc \in [Requests -> {"new", "embed", "done", "embedded", "lost"} \cup ChatWaiting]
  /\ schema \in [Requests -> BOOLEAN]
  /\ known \in [Requests -> BOOLEAN]
  /\ code \in [Requests -> Labels \cup {"none", "500"}]
  /\ posts \in [Requests -> Seq(Fields)]
  /\ answers \in [Requests -> Seq(Answered)]
  /\ epoch \subseteq Requests /\ IsFiniteSet(epoch)

\* What request r has posted and been answered, where it is suspended, and after.
Shape(r) ==
  /\ pc[r] = "new" => r \notin epoch
  /\ Waiting(r) \/ pc[r] = "embed" => r \in epoch
  /\ pc[r] \in {"new", "messages", "embed", "embedded"} => posts[r] = <<>> /\ answers[r] = <<>>
  /\ pc[r] = "post" => posts[r] = <<Translated(schema[r], known[r])>> /\ answers[r] = <<>>
  /\ Len(posts[r]) = 2 => /\ posts[r] = <<"response_format", "guided_json">>
                          /\ answers[r] # <<>> /\ answers[r][1] = "format"
                          /\ r \in epoch => rejects
  /\ Len(posts[r]) <= 2
  /\ pc[r] = "done" /\ code[r] = "200" /\ answers[r] # <<>>
       => answers[r][Len(answers[r])] = "good"

Inv == Types /\ InflightIsExact /\ CountersAreExact /\ \A r \in Requests : Shape(r)

\* Whether r gets its response of label l by a step.
Given(r, l) == pc'[r] = "done" /\ code'[r] = l
GivenEmbedding(r, l) == pc'[r] = "embedded" /\ code'[r] = l

\* What a step of r does to the gauge and the counters.
Moves(r) ==
  /\ epoch' = epoch \cup {r}
  /\ \A q \in Requests \ {r} : pc'[q] = pc[q] /\ code'[q] = code[q]
  /\ pc[r] \notin {"done", "embedded"}
  /\ \/ r \notin epoch /\ Waiting(r)' /\ inflight' = inflight + 1
     \/ r \in epoch /\ Waiting(r) /\ ~Waiting(r)' /\ inflight' = inflight - 1
     \/ (r \in epoch /\ Waiting(r) <=> Waiting(r)') /\ inflight' = inflight
  /\ \A l \in Labels :
       /\ requests'[l] = IF Given(r, l) THEN requests[l] + 1 ELSE requests[l]
       /\ embeddings'[l] = IF GivenEmbedding(r, l) THEN embeddings[l] + 1 ELSE embeddings[l]

Step(r) == (\E hasSchema \in BOOLEAN : Chat(r, hasSchema)) \/ Embed(r) \/ Serve(r)

-----------------------------------------------------------------------------

\* Nobody has asked for anything yet.
LEMMA InitInv == Init => Inv
<1> SUFFICES ASSUME Init PROVE Inv
  OBVIOUS
<1> USE DEF Init
<1>1. Types
  <2>1. <<>> \in Seq(Fields) /\ <<>> \in Seq(Answered)
    OBVIOUS
  <2>2. posts \in [Requests -> Seq(Fields)] /\ answers \in [Requests -> Seq(Answered)]
    BY <2>1
  <2>3. pc \in [Requests -> {"new", "embed", "done", "embedded", "lost"} \cup ChatWaiting]
    OBVIOUS
  <2>4. epoch \subseteq Requests /\ IsFiniteSet(epoch)
    BY FS_EmptySet
  <2> QED
    BY <2>2, <2>3, <2>4 DEF Types
<1>2. InflightIsExact
  <2>1. {r \in epoch : Waiting(r)} = {}
    OBVIOUS
  <2> QED
    BY <2>1, FS_EmptySet DEF InflightIsExact
<1>3. CountersAreExact
  <2>1. \A l : {r \in epoch : pc[r] = "done" /\ code[r] = l} = {}
    OBVIOUS
  <2>2. \A l : {r \in epoch : pc[r] = "embedded" /\ code[r] = l} = {}
    OBVIOUS
  <2> QED
    BY <2>1, <2>2, FS_EmptySet DEF CountersAreExact
<1>4. ASSUME NEW r \in Requests PROVE Shape(r)
  BY DEF Shape, Waiting, ChatWaiting
<1> QED
  BY <1>1, <1>2, <1>3, <1>4 DEF Inv

\* The sample a response leaves.
LEMMA ReplySample ==
  ASSUME Types, NEW r \in Requests, NEW c, Reply(r, c)
  PROVE  /\ pc'[r] = "done" /\ code'[r] = c
         /\ \A q \in Requests \ {r} : pc'[q] = pc[q] /\ code'[q] = code[q]
         /\ requests' \in [Labels -> Nat]
         /\ \A l \in Labels : requests'[l] = IF Given(r, l) THEN requests[l] + 1 ELSE requests[l]
<1>1. /\ pc'[r] = "done" /\ code'[r] = c
      /\ \A q \in Requests \ {r} : pc'[q] = pc[q] /\ code'[q] = code[q]
  BY DEF Reply, Goto, Types
<1>2. CASE c \in Labels
  BY <1>1, <1>2 DEF Reply, Types, Given
<1>3. CASE c \notin Labels
  BY <1>1, <1>3 DEF Reply, Types, Given
<1> QED
  BY <1>1, <1>2, <1>3

LEMMA EmbedSample ==
  ASSUME Types, NEW r \in Requests, NEW c, EmbedReply(r, c)
  PROVE  /\ pc'[r] = "embedded" /\ code'[r] = c
         /\ \A q \in Requests \ {r} : pc'[q] = pc[q] /\ code'[q] = code[q]
         /\ embeddings' \in [Labels -> Nat]
         /\ \A l \in Labels :
              embeddings'[l] = IF GivenEmbedding(r, l) THEN embeddings[l] + 1 ELSE embeddings[l]
<1>1. /\ pc'[r] = "embedded" /\ code'[r] = c
      /\ \A q \in Requests \ {r} : pc'[q] = pc[q] /\ code'[q] = code[q]
  BY DEF EmbedReply, Goto, Types
<1>2. CASE c \in Labels
  BY <1>1, <1>2 DEF EmbedReply, Types, GivenEmbedding
<1>3. CASE c \notin Labels
  BY <1>1, <1>3 DEF EmbedReply, Types, GivenEmbedding
<1> QED
  BY <1>1, <1>2, <1>3

\* The sets the gauge and the counters measure follow a step that Moves.
LEMMA Measured ==
  ASSUME Inv, NEW r \in Requests, Moves(r)
  PROVE  InflightIsExact' /\ CountersAreExact' /\ IsFiniteSet(epoch')
<1>0. IsFiniteSet(epoch) /\ epoch \subseteq Requests
  BY DEF Inv, Types
<1>1. IsFiniteSet(epoch')
  BY <1>0, FS_AddElement DEF Moves
<1>2. InflightIsExact'
  <2> DEFINE W == {q \in epoch : Waiting(q)}
             V == {q \in epoch' : Waiting(q)'}
  <2>1. IsFiniteSet(W) /\ inflight = Cardinality(W)
    BY <1>0, FS_Subset DEF Inv, InflightIsExact
  <2>2. \A q \in Requests \ {r} : Waiting(q) <=> Waiting(q)'
    BY DEF Moves, Waiting
  <2>3. CASE r \notin epoch /\ Waiting(r)' /\ inflight' = inflight + 1
    <3>1. V = W \cup {r} /\ r \notin W
      BY <1>0, <2>2, <2>3 DEF Moves
    <3> HIDE DEF W, V
    <3>2. Cardinality(V) = Cardinality(W) + 1
      BY <2>1, <3>1, FS_AddElement
    <3> QED
      BY <2>1, <2>3, <3>2 DEF InflightIsExact, V
  <2>4. CASE r \in epoch /\ Waiting(r) /\ ~Waiting(r)' /\ inflight' = inflight - 1
    <3>1. V = W \ {r} /\ r \in W
      BY <1>0, <2>2, <2>4 DEF Moves
    <3> HIDE DEF W, V
    <3>2. Cardinality(V) = Cardinality(W) - 1
      BY <2>1, <3>1, FS_RemoveElement
    <3> QED
      BY <2>1, <2>4, <3>2 DEF InflightIsExact, V
  <2>5. CASE (r \in epoch /\ Waiting(r) <=> Waiting(r)') /\ inflight' = inflight
    <3>1. V = W
      BY <1>0, <2>2, <2>5 DEF Moves
    <3> QED
      BY <2>1, <2>5, <3>1 DEF InflightIsExact
  <2> QED
    BY <2>3, <2>4, <2>5 DEF Moves
<1>3. ASSUME NEW l \in Labels
      PROVE requests'[l] = Cardinality({q \in epoch' : pc'[q] = "done" /\ code'[q] = l})
  <2> DEFINE D == {q \in epoch : pc[q] = "done" /\ code[q] = l}
             E == {q \in epoch' : pc'[q] = "done" /\ code'[q] = l}
  <2>1. IsFiniteSet(D) /\ requests[l] = Cardinality(D)
    BY <1>0, FS_Subset DEF Inv, CountersAreExact
  <2>2. r \notin D /\ E = IF Given(r, l) THEN D \cup {r} ELSE D
    BY <1>0 DEF Moves, Given
  <2>3. requests'[l] = IF Given(r, l) THEN requests[l] + 1 ELSE requests[l]
    BY DEF Moves
  <2> HIDE DEF D, E
  <2>4. requests'[l] = Cardinality(E)
    BY <2>1, <2>2, <2>3, FS_AddElement
  <2> QED
    BY <2>4 DEF E
<1>4. ASSUME NEW l \in Labels
      PROVE embeddings'[l] = Cardinality({q \in epoch' : pc'[q] = "embedded" /\ code'[q] = l})
  <2> DEFINE D == {q \in epoch : pc[q] = "embedded" /\ code[q] = l}
             E == {q \in epoch' : pc'[q] = "embedded" /\ code'[q] = l}
  <2>1. IsFiniteSet(D) /\ embeddings[l] = Cardinality(D)
    BY <1>0, FS_Subset DEF Inv, CountersAreExact
  <2>2. r \notin D /\ E = IF GivenEmbedding(r, l) THEN D \cup {r} ELSE D
    BY <1>0 DEF Moves, GivenEmbedding
  <2>3. embeddings'[l] = IF GivenEmbedding(r, l) THEN embeddings[l] + 1 ELSE embeddings[l]
    BY DEF Moves
  <2> HIDE DEF D, E
  <2>4. embeddings'[l] = Cardinality(E)
    BY <2>1, <2>2, <2>3, FS_AddElement
  <2> QED
    BY <2>4 DEF E
<1> QED
  BY <1>1, <1>2, <1>3, <1>4 DEF CountersAreExact

-----------------------------------------------------------------------------

\* What a step of another request leaves of q.
Same(q) ==
  /\ pc'[q] = pc[q] /\ code'[q] = code[q] /\ schema'[q] = schema[q] /\ known'[q] = known[q]
  /\ posts'[q] = posts[q] /\ answers'[q] = answers[q]

\* A request keeps its shape through the steps of others.
LEMMA ShapeFrame ==
  ASSUME Inv, NEW r \in Requests, NEW q \in Requests \ {r}, Same(q),
         epoch' = epoch \cup {r}, rejects => rejects'
  PROVE  Shape(q)'
<1>1. Shape(q)
  BY DEF Inv
<1> QED
  BY <1>1 DEF Shape, Same, Waiting

\* What every step of a request is to establish.
Holds(r) == Moves(r) /\ Types' /\ \A q \in Requests : Shape(q)'

\* It is enough to look at the request that steps.
LEMMA Locally ==
  ASSUME Inv, NEW r \in Requests, Moves(r), Types', Shape(r)',
         \A q \in Requests \ {r} : Same(q), rejects => rejects'
  PROVE  Holds(r)
<1>1. ASSUME NEW q \in Requests \ {r} PROVE Shape(q)'
  BY <1>1, ShapeFrame DEF Moves
<1> QED
  BY <1>1 DEF Holds

LEMMA ChatHolds ==
  ASSUME Inv, NEW r \in Requests, NEW hasSchema \in BOOLEAN, Chat(r, hasSchema)
  PROVE  Holds(r)
<1>0. Types /\ Shape(r)
  BY DEF Inv
<1>1. /\ pc[r] = "new" /\ r \notin epoch /\ posts[r] = <<>> /\ answers[r] = <<>>
      /\ epoch' = epoch \cup {r}
      /\ schema' = [schema EXCEPT ![r] = hasSchema]
      /\ UNCHANGED <<upstream, backend, configured, rejects, embeddings, answers>>
  BY <1>0 DEF Chat, Shape, server
<1>2. IsFiniteSet(epoch')
  BY <1>0, <1>1, FS_AddElement DEF Types
<1>3. ASSUME NEW c \in Labels \cup {"500"}, Reply(r, c), c # "200",
             UNCHANGED <<inflight, known, posts>>
      PROVE Holds(r)
  <2>1. /\ pc'[r] = "done" /\ code'[r] = c
        /\ \A q \in Requests \ {r} : pc'[q] = pc[q] /\ code'[q] = code[q]
        /\ requests' \in [Labels -> Nat]
        /\ \A l \in Labels : requests'[l] = IF Given(r, l) THEN requests[l] + 1 ELSE requests[l]
    BY <1>0, <1>3, ReplySample
  <2>2. Types'
    BY <1>0, <1>1, <1>2, <1>3, <2>1 DEF Types, Reply, Goto
  <2>3. Moves(r)
    BY <1>1, <1>3, <2>1 DEF Moves, Waiting, ChatWaiting, GivenEmbedding
  <2>4. Shape(r)'
    BY <1>1, <1>3, <2>1 DEF Shape, Waiting, ChatWaiting
  <2>5. \A q \in Requests \ {r} : Same(q)
    BY <1>0, <1>1, <1>3, <2>1 DEF Same, Types
  <2> QED
    BY <1>1, <2>2, <2>3, <2>4, <2>5, Locally
<1>4. ASSUME known' = [known EXCEPT ![r] = rejects], Post(r, Translated(hasSchema, rejects)),
             Goto(r, "post"), inflight' = inflight + 1, UNCHANGED <<requests, code>>
      PROVE Holds(r)
  <2>1. Translated(hasSchema, rejects) \in Fields
    BY DEF Translated, Fields
  <2>2. posts' = [posts EXCEPT ![r] = <<Translated(hasSchema, rejects)>>]
    BY <1>0, <1>1, <1>4 DEF Post, Types
  <2>3. <<Translated(hasSchema, rejects)>> \in Seq(Fields)
    BY <2>1
  <2>4. posts' \in [Requests -> Seq(Fields)]
    BY <1>0, <2>2, <2>3 DEF Types
  <2>5. pc' = [pc EXCEPT ![r] = "post"]
    BY <1>4 DEF Goto
  <2>6. Types'
    BY <1>0, <1>1, <1>2, <1>4, <2>4, <2>5 DEF Types, ChatWaiting
  <2>7. Moves(r)
    BY <1>0, <1>1, <1>4, <2>5 DEF Moves, Waiting, ChatWaiting, Given, GivenEmbedding, Types
  <2>8. Shape(r)'
    <3>1. posts'[r] = <<Translated(schema'[r], known'[r])>> /\ answers'[r] = <<>> /\ pc'[r] = "post"
      BY <1>0, <1>1, <1>4, <2>2, <2>5 DEF Types
    <3>2. Len(posts'[r]) = 1
      BY <3>1
    <3> QED
      BY <1>1, <3>1, <3>2 DEF Shape, Waiting, ChatWaiting
  <2>9. \A q \in Requests \ {r} : Same(q)
    BY <1>0, <1>1, <1>4, <2>2, <2>5 DEF Same, Types
  <2> QED
    BY <1>1, <2>6, <2>7, <2>8, <2>9, Locally
<1>5. ASSUME Goto(r, "messages"), inflight' = inflight + 1, UNCHANGED <<requests, code, known, posts>>
      PROVE Holds(r)
  <2>1. Types'
    BY <1>0, <1>1, <1>2, <1>5 DEF Types, ChatWaiting, Goto
  <2>2. Moves(r)
    BY <1>0, <1>1, <1>5 DEF Moves, Waiting, ChatWaiting, Given, GivenEmbedding, Types, Goto
  <2>3. Shape(r)'
    BY <1>0, <1>1, <1>5 DEF Shape, Waiting, ChatWaiting, Types, Goto
  <2>4. \A q \in Requests \ {r} : Same(q)
    BY <1>0, <1>1, <1>5 DEF Same, Types, Goto
  <2> QED
    BY <1>1, <2>1, <2>2, <2>3, <2>4, Locally
<1> QED
  <2>1. "429" \in Labels /\ "503" \in Labels
    BY DEF Labels
  <2> QED
    BY <1>3, <1>4, <1>5, <2>1 DEF Chat, Throttled

LEMMA EmbedHolds ==
  ASSUME Inv, NEW r \in Requests, Embed(r) \/ Embedded(r)
  PROVE  Holds(r)
<1>0. Types /\ Shape(r)
  BY DEF Inv
<1>1. /\ posts[r] = <<>> /\ answers[r] = <<>> /\ pc[r] \in {"new", "embed"}
      /\ ~(r \in epoch /\ Waiting(r))
      /\ epoch' = epoch \cup {r}
      /\ UNCHANGED <<upstream, backend, configured, rejects, inflight, requests, schema, known, posts, answers>>
  BY <1>0 DEF Embed, Embedded, Shape, server, log, Waiting, ChatWaiting
<1>2. IsFiniteSet(epoch')
  BY <1>0, <1>1, FS_AddElement DEF Types
<1>3. ASSUME NEW c \in Labels \cup {"500"}, EmbedReply(r, c) PROVE Holds(r)
  <2>1. /\ pc'[r] = "embedded" /\ code'[r] = c
        /\ \A q \in Requests \ {r} : pc'[q] = pc[q] /\ code'[q] = code[q]
        /\ embeddings' \in [Labels -> Nat]
        /\ \A l \in Labels :
             embeddings'[l] = IF GivenEmbedding(r, l) THEN embeddings[l] + 1 ELSE embeddings[l]
    BY <1>0, <1>3, EmbedSample
  <2>2. Types'
    BY <1>0, <1>1, <1>2, <1>3, <2>1 DEF Types, EmbedReply, Goto
  <2>3. Moves(r)
    BY <1>1, <1>3, <2>1 DEF Moves, Waiting, ChatWaiting, Given
  <2>4. Shape(r)'
    <3>1. posts'[r] = <<>> /\ answers'[r] = <<>> /\ Len(<<>>) = 0 /\ r \in epoch'
      BY <1>1
    <3> QED
      BY <2>1, <3>1 DEF Shape, Waiting, ChatWaiting
  <2>5. \A q \in Requests \ {r} : Same(q)
    BY <1>0, <1>1, <1>3, <2>1 DEF Same, Types
  <2> QED
    BY <1>1, <2>2, <2>3, <2>4, <2>5, Locally
<1>4. ASSUME Goto(r, "embed"), UNCHANGED <<code, embeddings>> PROVE Holds(r)
  <2>1. Types'
    BY <1>0, <1>1, <1>2, <1>4 DEF Types, Goto
  <2>2. Moves(r)
    BY <1>0, <1>1, <1>4 DEF Moves, Waiting, ChatWaiting, Given, GivenEmbedding, Types, Goto
  <2>3. Shape(r)'
    BY <1>0, <1>1, <1>4 DEF Shape, Waiting, ChatWaiting, Types, Goto
  <2>4. \A q \in Requests \ {r} : Same(q)
    BY <1>0, <1>1, <1>4 DEF Same, Types, Goto
  <2> QED
    BY <1>1, <2>1, <2>2, <2>3, <2>4, Locally
<1> QED
  <2>1. {"200", "429", "502", "503"} \subseteq Labels
    BY DEF Labels
  <2> QED
    BY <1>3, <1>4, <2>1 DEF Embed, Embedded

\* A sequence of one, with one more.
LEMMA Appending == ASSUME NEW S, NEW x \in S, NEW y \in S PROVE Append(<<x>>, y) = <<x, y>>
<1> DEFINE s == Append(<<x>>, y)
           t == <<x, y>>
<1>1. s \in Seq(S) /\ Len(s) = 2 /\ s[1] = x /\ s[2] = y
  OBVIOUS
<1>2. t \in Seq(S) /\ Len(t) = 2 /\ t[1] = x /\ t[2] = y
  OBVIOUS
<1>3. \A i \in 1 .. 2 : i = 1 \/ i = 2
  OBVIOUS
<1>4. s = t
  <2> HIDE DEF s, t
  <2> QED
    BY <1>1, <1>2, <1>3, SeqEqual
<1> QED
  BY <1>4

\* What an answer means to the caller, who is told of a completion only if there
\* is one.
LEMMA Meanings ==
  ASSUME NEW a \in Answered
  PROVE  Meaning(a) \in Labels \cup {"500"} /\ (Meaning(a) = "200" => a = "good")
  BY DEF Meaning, Answered, Labels

\* A request that waits for a backend leaves with a response.
LEMMA LeaveHolds ==
  ASSUME Inv, NEW r \in Requests, Waiting(r), NEW c \in Labels \cup {"500"}, Leave(r, c),
         UNCHANGED <<server, rejects, embeddings, schema, known, posts, epoch>>,
         answers' \in [Requests -> Seq(Answered)],
         \A q \in Requests \ {r} : answers'[q] = answers[q],
         c = "200" /\ answers'[r] # <<>> => answers'[r][Len(answers'[r])] = "good",
         answers[r] # <<>> => answers'[r] # <<>> /\ answers'[r][1] = answers[r][1]
  PROVE  Holds(r)
<1>0. Types /\ Shape(r) /\ Reply(r, c) /\ inflight' = inflight - 1
  BY DEF Inv, Leave
<1>1. r \in epoch
  BY <1>0 DEF Shape
<1>2. /\ pc'[r] = "done" /\ code'[r] = c
      /\ \A q \in Requests \ {r} : pc'[q] = pc[q] /\ code'[q] = code[q]
      /\ requests' \in [Labels -> Nat]
      /\ \A l \in Labels : requests'[l] = IF Given(r, l) THEN requests[l] + 1 ELSE requests[l]
  BY <1>0, ReplySample
<1>3. Types'
  BY <1>0, <1>2 DEF Types, Reply, Goto, server
<1>4. Moves(r)
  BY <1>0, <1>1, <1>2 DEF Moves, Waiting, ChatWaiting, GivenEmbedding
<1>5. Shape(r)'
  <2>1. posts'[r] = posts[r] /\ epoch' = epoch /\ rejects' = rejects
    OBVIOUS
  <2>2. Len(posts[r]) <= 2
    BY <1>0 DEF Shape
  <2>3. Len(posts[r]) = 2 =>
          /\ posts[r] = <<"response_format", "guided_json">>
          /\ answers'[r] # <<>> /\ answers'[r][1] = "format"
          /\ r \in epoch => rejects
    BY <1>0 DEF Shape
  <2> QED
    BY <1>1, <1>2, <2>1, <2>2, <2>3 DEF Shape, Waiting, ChatWaiting
<1>6. \A q \in Requests \ {r} : Same(q)
  BY <1>2 DEF Same
<1> QED
  BY <1>3, <1>4, <1>5, <1>6, Locally

LEMMA ServeHolds ==
  ASSUME Inv, NEW r \in Requests, Serve(r)
  PROVE  Holds(r)
<1>0. Types /\ Shape(r)
  BY DEF Inv
<1>1. ASSUME NEW a \in Answered, Answer(r, a)
      PROVE  /\ answers' \in [Requests -> Seq(Answered)]
             /\ \A q \in Requests \ {r} : answers'[q] = answers[q]
             /\ answers'[r] # <<>> /\ answers'[r][Len(answers'[r])] = a
             /\ answers[r] # <<>> => answers'[r][1] = answers[r][1]
             /\ answers[r] = <<>> => answers'[r][1] = a
  <2>1. answers' = [answers EXCEPT ![r] = Append(answers[r], a)] /\ answers[r] \in Seq(Answered)
    BY <1>0, <1>1 DEF Answer, Types
  <2>2. answers'[r] = Append(answers[r], a) /\ Append(answers[r], a) \in Seq(Answered)
    BY <1>0, <2>1 DEF Types
  <2>3. /\ Append(answers[r], a) # <<>>
        /\ Append(answers[r], a)[Len(Append(answers[r], a))] = a
        /\ answers[r] # <<>> => Append(answers[r], a)[1] = answers[r][1]
        /\ answers[r] = <<>> => Append(answers[r], a)[1] = a
    BY <2>1
  <2> QED
    BY <1>0, <2>1, <2>2, <2>3 DEF Types
<1>2. ASSUME NEW a \in Answered, Forwarded(r, a) PROVE Holds(r)
  <2>1. /\ pc[r] = "post" /\ Answer(r, a) /\ UNCHANGED <<server, schema, known, epoch>>
    BY <1>2 DEF Forwarded
  <2>2. posts[r] = <<Translated(schema[r], known[r])>> /\ answers[r] = <<>> /\ r \in epoch
    BY <1>0, <2>1 DEF Shape, Waiting, ChatWaiting
  <2>3. CASE FallsBack(r, a)
    <3>1. /\ rejects' = TRUE /\ Post(r, "guided_json") /\ Goto(r, "repost")
          /\ UNCHANGED <<inflight, requests, embeddings, code>>
      BY <1>2, <2>3 DEF Forwarded, Remember, metrics
    <3>2. a = "format" /\ posts[r] = <<"response_format">>
      BY <2>2, <2>3 DEF FallsBack, Translated
    <3>3. posts' = [posts EXCEPT ![r] = <<"response_format", "guided_json">>]
      <4>1. Append(<<"response_format">>, "guided_json") = <<"response_format", "guided_json">>
        <5>1. "response_format" \in Fields /\ "guided_json" \in Fields
          BY DEF Fields
        <5> QED
          BY ONLY <5>1, Appending
      <4>2. posts' = [posts EXCEPT ![r] = Append(posts[r], "guided_json")]
        BY <3>1 DEF Post
      <4> QED
        BY <3>2, <4>1, <4>2
    <3>4. <<"response_format", "guided_json">> \in Seq(Fields)
      BY DEF Fields
    <3>5. pc' = [pc EXCEPT ![r] = "repost"]
      BY <3>1 DEF Goto
    <3>6. Types'
      BY <1>0, <1>1, <2>1, <3>1, <3>3, <3>4, <3>5 DEF Types, ChatWaiting, server
    <3>7. Moves(r)
      BY <1>0, <2>1, <2>2, <3>1, <3>5 DEF Moves, Waiting, ChatWaiting, Given, GivenEmbedding, Types
    <3>8. Shape(r)'
      <4>1. /\ posts'[r] = <<"response_format", "guided_json">> /\ pc'[r] = "repost"
            /\ answers'[r] # <<>> /\ answers'[r][1] = "format" /\ rejects' /\ r \in epoch'
        BY <1>0, <1>1, <2>1, <2>2, <3>1, <3>2, <3>3, <3>5 DEF Types
      <4>2. Len(posts'[r]) = 2
        BY <4>1
      <4> QED
        BY <4>1, <4>2 DEF Shape, Waiting, ChatWaiting
    <3>9. \A q \in Requests \ {r} : Same(q)
      BY <1>0, <1>1, <2>1, <3>1, <3>3, <3>5 DEF Same, Types
    <3> QED
      BY <3>1, <3>6, <3>7, <3>8, <3>9, Locally
  <2>4. CASE ~FallsBack(r, a)
    <3>1. Leave(r, Meaning(a)) /\ UNCHANGED <<rejects, embeddings, posts>>
      BY <1>2, <2>4 DEF Forwarded
    <3> QED
      BY <1>1, <2>1, <2>2, <3>1, Meanings, LeaveHolds DEF Waiting, ChatWaiting
  <2> QED
    BY <2>3, <2>4
<1>3. ASSUME NEW a \in Answered, Reforwarded(r, a) PROVE Holds(r)
  <2>1. /\ pc[r] = "repost" /\ Answer(r, a) /\ Leave(r, Meaning(a))
        /\ UNCHANGED <<server, rejects, embeddings, schema, known, posts, epoch>>
    BY <1>3 DEF Reforwarded
  <2> QED
    BY <1>1, <2>1, Meanings, LeaveHolds DEF Waiting, ChatWaiting
<1>4. CASE Completed(r)
  <2> PICK c \in {"200", "500", "502"} : Leave(r, c)
    BY <1>4 DEF Completed
  <2>1. /\ pc[r] = "messages" /\ posts[r] = <<>> /\ answers[r] = <<>> /\ answers' = answers
        /\ UNCHANGED <<server, rejects, embeddings, schema, known, posts, epoch>>
    BY <1>0, <1>4 DEF Completed, Shape, log
  <2>2. c \in Labels \cup {"500"}
    BY DEF Labels
  <2> QED
    BY <1>0, <2>1, <2>2, LeaveHolds DEF Waiting, ChatWaiting, Types
<1>5. CASE Embedded(r)
  BY <1>5, EmbedHolds
<1> QED
  BY <1>2, <1>3, <1>4, <1>5 DEF Serve

\* The invariant is inductive.
LEMMA StepInv == Inv /\ [Next]_vars => Inv'
<1> SUFFICES ASSUME Inv, [Next]_vars PROVE Inv'
  OBVIOUS
<1>1. ASSUME NEW r \in Requests, Step(r) PROVE Inv'
  <2>1. Holds(r)
    BY <1>1, ChatHolds, EmbedHolds, ServeHolds DEF Step
  <2> QED
    BY <2>1, Measured DEF Holds, Inv
<1>2. CASE Upgrade
  <2>1. /\ upstream' \in Servers
        /\ UNCHANGED <<backend, configured, rejects, inflight, requests, embeddings, pc, schema,
                       known, code, posts, answers, epoch>>
    BY <1>2 DEF Upgrade, metrics, log, Servers
  <2>2. Types'
    BY <2>1 DEF Inv, Types
  <2>3. InflightIsExact' /\ CountersAreExact'
    BY <2>1 DEF Inv, InflightIsExact, CountersAreExact, Waiting
  <2>4. \A r \in Requests : Shape(r)'
    BY <2>1 DEF Inv, Shape, Waiting
  <2> QED
    BY <2>2, <2>3, <2>4 DEF Inv
<1>3. CASE Restart
  <2>1. /\ backend' \in Backends /\ configured' \subseteq Endpoints /\ rejects' = FALSE
        /\ inflight' = 0 /\ requests' = [l \in Labels |-> 0] /\ embeddings' = [l \in Labels |-> 0]
        /\ pc' = [r \in Requests |-> IF Waiting(r) \/ pc[r] = "embed" THEN "lost" ELSE pc[r]]
        /\ epoch' = {}
        /\ UNCHANGED <<upstream, schema, known, code, posts, answers>>
    BY <1>3 DEF Restart, log
  <2>2. Types'
    BY <2>1, FS_EmptySet DEF Inv, Types
  <2>3. InflightIsExact'
    <3>1. {r \in epoch' : Waiting(r)'} = {}
      BY <2>1
    <3> QED
      BY <2>1, <3>1, FS_EmptySet DEF InflightIsExact
  <2>4. CountersAreExact'
    <3>1. \A l : {r \in epoch' : pc'[r] = "done" /\ code'[r] = l} = {}
      BY <2>1
    <3>2. \A l : {r \in epoch' : pc'[r] = "embedded" /\ code'[r] = l} = {}
      BY <2>1
    <3>3. \A l \in Labels : requests'[l] = 0 /\ embeddings'[l] = 0
      BY <2>1
    <3> QED
      BY <3>1, <3>2, <3>3, FS_EmptySet DEF CountersAreExact
  <2>5. ASSUME NEW r \in Requests PROVE Shape(r)'
    <3>1. Shape(r)
      BY DEF Inv
    <3>2. pc'[r] \in {pc[r], "lost"} /\ ~Waiting(r)' /\ pc'[r] # "embed"
      BY <2>1 DEF Waiting, ChatWaiting
    <3> QED
      BY <2>1, <3>1, <3>2 DEF Shape, Waiting, ChatWaiting
  <2> QED
    BY <2>2, <2>3, <2>4, <2>5 DEF Inv
<1>4. CASE UNCHANGED vars
  <2>1. UNCHANGED <<upstream, backend, configured, rejects, inflight, requests, embeddings, pc,
                    schema, known, code, posts, answers, epoch>>
    BY <1>4 DEF vars, server, metrics, log
  <2>2. Types' /\ (\A r \in Requests : Shape(r)')
    BY <2>1 DEF Inv, Types, Shape, Waiting
  <2>3. InflightIsExact' /\ CountersAreExact'
    BY <2>1 DEF Inv, InflightIsExact, CountersAreExact, Waiting
  <2> QED
    BY <2>2, <2>3 DEF Inv
<1> QED
  BY <1>1, <1>2, <1>3, <1>4 DEF Next, Step

-----------------------------------------------------------------------------

\* The gauge is the number of requests with a backend, in every interleaving and
\* after any restarts: each that raised it lowers it once, however it ends.
THEOREM InflightExact == Spec => []InflightIsExact
<1>1. Inv => InflightIsExact
  BY DEF Inv
<1> QED
  BY <1>1, InitInv, StepInv, PTL DEF Spec

\* Every variable keeps its type; the gauge, being a number of requests, does not
\* fall below zero.
THEOREM TypesHold == Spec => []TypeOK
<1>1. Inv => TypeOK
  <2> SUFFICES ASSUME Inv PROVE TypeOK
    OBVIOUS
  <2>1. IsFiniteSet({r \in epoch : Waiting(r)})
    BY FS_Subset DEF Inv, Types
  <2>2. inflight \in Nat
    BY <2>1, FS_CardinalityType DEF Inv, InflightIsExact
  <2> QED
    BY <2>2 DEF Inv, Types, TypeOK
<1> QED
  BY <1>1, InitInv, StepInv, PTL DEF Spec

\* A label's counter is the number of responses given under it since the start.
THEOREM CountersExact == Spec => []CountersAreExact
<1>1. Inv => CountersAreExact
  BY DEF Inv
<1> QED
  BY <1>1, InitInv, StepInv, PTL DEF Spec

\* A body is posted at most twice, the second time in translation of a
\* response_format that was named in a 400.
THEOREM RetriesForFormat == Spec => []RetriesAreForFormat
<1>1. Inv => RetriesAreForFormat
  BY DEF Inv, Shape, RetriesAreForFormat
<1> QED
  BY <1>1, InitInv, StepInv, PTL DEF Spec

\* Once a request of this process was retried, none that arrives probes again: the
\* memo is set in the step that retries and is cleared by a restart only.
THEOREM VerdictHeeded == Spec => VerdictIsHeeded
<1> DEFINE Heeds ==
      (\E q \in epoch : Len(posts[q]) = 2) =>
        \A r \in Requests :
          posts[r] = <<>> /\ posts'[r] # <<>> => posts'[r][1] # "response_format"
<1>1. Inv /\ [Next]_vars => [Heeds]_vars
  <2> SUFFICES ASSUME Inv, Next, NEW q \in epoch, Len(posts[q]) = 2,
                      NEW r \in Requests, posts[r] = <<>>, posts'[r] # <<>>
               PROVE  posts'[r][1] # "response_format"
    OBVIOUS
  <2>1. rejects = TRUE
    BY DEF Inv, Types, Shape
  <2>2. posts # posts'
    OBVIOUS
  <2>3. ~Upgrade /\ ~Restart
    BY <2>2 DEF Upgrade, Restart, log
  <2> PICK s \in Requests : Step(s)
    BY <2>3 DEF Next, Step
  <2>4. ASSUME NEW hasSchema \in BOOLEAN, Chat(s, hasSchema)
        PROVE  posts'[r][1] # "response_format"
    <3>1. posts' = [posts EXCEPT ![s] = Append(posts[s], Translated(hasSchema, rejects))]
      BY <2>2, <2>4 DEF Chat, Post
    <3>2. s = r
      BY <3>1 DEF Inv, Types
    <3>3. posts'[r] = <<Translated(hasSchema, rejects)>>
      BY <3>1, <3>2 DEF Inv, Types
    <3> QED
      BY <2>1, <3>3 DEF Translated
  <2>5. CASE Embed(s) \/ Serve(s)
    <3>1. pc[s] = "post" /\ posts' = [posts EXCEPT ![s] = Append(posts[s], "guided_json")]
      BY <2>2, <2>5 DEF Embed, Serve, Forwarded, Reforwarded, Completed, Embedded, log, Post
    <3>2. s = r
      BY <3>1 DEF Inv, Types
    <3>3. posts'[r] = <<"guided_json">>
      BY <3>1, <3>2 DEF Inv, Types
    <3> QED
      BY <3>3
  <2> QED
    BY <2>4, <2>5 DEF Step
<1> QED
  BY <1>1, InitInv, StepInv, PTL DEF Spec, VerdictIsHeeded

\* No response of this gateway is the upstream's refusal of response_format.
RejectionsAreRetried ==
  \A r \in Requests :
    pc[r] = "done" /\ answers[r] # <<>> => answers[r][Len(answers[r])] # "format"

\* An answer that ends a request is no refusal of response_format: only a body that
\* has the field is refused for it, and then the request falls back.
LEMMA NoFormatLeaves ==
  ASSUME Inv, NEW r \in Requests, NEW a \in Answered,
         (Forwarded(r, a) /\ ~FallsBack(r, a)) \/ Reforwarded(r, a)
  PROVE  a # "format"
<1>0. Types /\ Shape(r)
  BY DEF Inv
<1>1. CASE Forwarded(r, a) /\ ~FallsBack(r, a)
  <2>1. /\ a \in Possible(posts[r][1])
        /\ posts[r] = <<Translated(schema[r], known[r])>>
    BY <1>0, <1>1 DEF Forwarded, Shape
  <2>2. a = "format" => posts[r][1] = "response_format"
    BY <2>1 DEF Possible
  <2>3. posts[r][1] = "response_format" => schema[r] /\ ~known[r]
    BY <2>1 DEF Translated
  <2> QED
    BY <1>1, <2>2, <2>3 DEF FallsBack
<1>2. CASE Reforwarded(r, a)
  BY <1>2 DEF Reforwarded, Possible
<1> QED
  BY <1>1, <1>2

\* A request whose first body is refused for its response_format is posted again
\* in translation: no caller is told of the refusal, also one whose request was on
\* its way when another had learnt of it (backends.py:137-154).
THEOREM RejectionsRetried == Spec => []RejectionsAreRetried
<1>1. Init => RejectionsAreRetried
  BY DEF Init, RejectionsAreRetried
<1>2. Inv /\ RejectionsAreRetried /\ [Next]_vars => RejectionsAreRetried'
  <2> SUFFICES ASSUME Inv, RejectionsAreRetried, [Next]_vars, NEW q \in Requests,
                      pc'[q] = "done", answers'[q] # <<>>
               PROVE  answers'[q][Len(answers'[q])] # "format"
    BY DEF RejectionsAreRetried
  <2>0. /\ Types /\ Shape(q)
        /\ pc[q] = "done" /\ answers[q] # <<>> => answers[q][Len(answers[q])] # "format"
    BY DEF Inv, RejectionsAreRetried
  <2>1. ASSUME NEW r \in Requests, NEW a \in Answered, Forwarded(r, a) \/ Reforwarded(r, a)
        PROVE  answers'[q][Len(answers'[q])] # "format"
    <3>1. answers' = [answers EXCEPT ![r] = Append(answers[r], a)]
      BY <2>1 DEF Forwarded, Reforwarded, Answer
    <3>2. CASE q = r
      <4>1. answers[r] \in Seq(Answered) /\ answers'[q] = Append(answers[r], a)
        BY <2>0, <3>1, <3>2 DEF Types
      <4>2. answers'[q][Len(answers'[q])] = a
        BY <4>1
      <4>3. ~(Forwarded(r, a) /\ FallsBack(r, a))
        BY <2>0, <3>2 DEF Forwarded, Goto, Types
      <4> QED
        BY <2>1, <4>2, <4>3, NoFormatLeaves
    <3>3. CASE q # r
      <4>1. answers'[q] = answers[q] /\ pc'[q] = pc[q]
        BY <2>0, <2>1, <3>1, <3>3 DEF Forwarded, Reforwarded, Goto, Leave, Reply, Types
      <4> QED
        BY <2>0, <4>1
    <3> QED
      BY <3>2, <3>3
  <2>2. CASE Upgrade \/ Restart \/ UNCHANGED vars
    <3>1. answers' = answers /\ pc[q] = "done"
      BY <2>0, <2>2 DEF Upgrade, Restart, vars, log, Types
    <3> QED
      BY <2>0, <3>1
  <2>3. ASSUME NEW r \in Requests,
               (\E hasSchema \in BOOLEAN : Chat(r, hasSchema)) \/ Embed(r) \/ Completed(r) \/ Embedded(r)
        PROVE  answers'[q][Len(answers'[q])] # "format"
    <3>1. answers' = answers /\ pc[r] \in {"new", "messages", "embed"}
      BY <2>3 DEF Chat, Embed, Completed, Embedded, log
    <3>2. CASE q = r
      <4>1. answers[q] = <<>>
        BY <2>0, <3>1, <3>2 DEF Shape
      <4> QED
        BY <3>1, <4>1
    <3>3. CASE q # r
      <4>1. pc'[q] = pc[q]
        BY <2>0, <2>3, <3>3 DEF Chat, Embed, Completed, Embedded, Throttled, Goto, Leave, Reply,
           EmbedReply, Types
      <4> QED
        BY <2>0, <3>1, <4>1
    <3> QED
      BY <3>2, <3>3
  <2> QED
    BY <2>1, <2>2, <2>3 DEF Next, Serve
<1> QED
  BY <1>1, <1>2, InitInv, StepInv, PTL DEF Spec

=============================================================================
