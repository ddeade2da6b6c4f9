-------------------------- MODULE TransportProofs --------------------------
(***************************************************************************)
(* Proofs about Transport, for any events ChatGPT may send, any number of  *)
(* them in an answer and any number of inputs.                             *)
(***************************************************************************)
EXTENDS Transport, SequenceTheorems, TLAPS

USE DEF callVars, sendVars, chatVars, imageVars, cancelVars, vars, Keep

Sending == {"create", "put", "mark", "prepare", "requirements", "post"}
Reading == {"sse", "handoff", "topic"}

\* Control: only a research confirms a plan, only a chat has a queue and can be left
\* before its thread ends; files are uploaded one by one, before anything is received.
Control ==
    /\ kind = "chat" => pc \in Sending \cup Reading \cup {"ended"}
    /\ kind = "image" => pc \in Sending \cup Reading
                                  \cup {"answer", "poll", "get", "download", "ended"}
    /\ kind = "research" => pc \in {"prepare", "requirements", "post"} \cup Reading
                       \cup {"answer", "skip", "widget", "loop", "recv", "ended"}
    /\ phase = "confirm" => kind = "research"
    /\ kind = "chat" => ~cancelled /\ outcome # "cancelled"
    /\ kind # "chat" => /\ queue = <<>> /\ received = <<>>
                        /\ (outcome = "none" <=> pc # "ended")
    /\ pc \in {"create", "put", "mark"} => files < inputs
    /\ pc \in Sending => sent = <<>>
    /\ pc = "sse" => Len(sent) <= MaxEvents

\* The two halves of TypeOK: the thread and the data.
ThreadOK ==
    /\ pc \in Pcs /\ phase \in {"ask", "confirm"}
    /\ socket \in BOOLEAN /\ (socket <=> pc \in {"topic", "loop", "recv"})
    /\ outcome \in {"none", "ok", "error", "cancelled", "gone"}

DataOK ==
    /\ kind \in DOMAIN Events /\ inputs \in 0 .. InputLimit + 1 /\ refresh \in BOOLEAN
    /\ files \in 0 .. inputs /\ topic \in Nat \ {0} /\ sse \in 0 .. MaxEvents
    /\ sent \in Seq(SUBSET Facts) /\ received \in Seq(SUBSET Facts)
    /\ queue \in Seq((SUBSET Facts) \cup Ends)
    /\ known \subseteq Facts /\ sawTask \in BOOLEAN
    /\ assets \subseteq Pointers /\ images \subseteq Pointers
    /\ clock \in 0 .. 2
    /\ cancelled \in BOOLEAN /\ told \in BOOLEAN /\ waits \in Nat

Base == ThreadOK /\ DataOK /\ Control

\* Pictures that are left to download or have been are no inputs.
Assets ==
    /\ "input" \notin assets /\ "input" \notin images
    /\ kind # "image" => assets = {}
    /\ outcome = "ok" => assets = {}

\* A wait begins only while no cancellation is asked for, so that one at most ends
\* after it.
Cancelled ==
    /\ waits <= 1
    /\ ~cancelled \/ pc \in {"get", "recv"} => waits = 0
    /\ outcome = "cancelled" => told \/ ~CanStop

\* The chat.  What was received and what waits in the queue continue one another.
Continues ==
    /\ Len(received) <= Len(sent)
    /\ \A i \in 1 .. Len(received) : received[i] = sent[i]
    /\ \A i \in 1 .. Len(queue) :
          queue[i] \notin Ends => /\ Len(received) + i <= Len(sent)
                                 /\ queue[i] = sent[Len(received) + i]

\* No event comes after an end or an error; the end comes last, after all events or after
\* an error, which is still in the queue or has ended the call.
Closes ==
    /\ \A i, j \in 1 .. Len(queue) : i < j /\ queue[i] \in Ends => queue[j] \in Ends
    /\ \A i \in 1 .. Len(queue) :
          queue[i] = {"end"} => /\ i = Len(queue)
                               /\ \/ Len(received) + i = Len(sent) + 1
                                  \/ i > 1 /\ queue[i - 1] = {"error"}
                                  \/ outcome = "error"
    /\ outcome = "ok" => received = sent /\ pc = "ended"

\* While the worker runs the queue holds events only, and all that it has passed on
\* was received or is in the queue.
Passed == IF pc \in {"handoff", "topic"} THEN sse ELSE Len(sent)

Passing ==
    /\ pc \in {"handoff", "topic"} => sse <= Len(sent)
    /\ pc # "ended" => /\ Len(received) + Len(queue) = Passed
                       /\ \A i \in 1 .. Len(queue) : queue[i] \notin Ends

Chat == kind = "chat" => Continues /\ Closes /\ Passing

------------------------------------------------------------------------------
(* Types and control *)

LEMMA Constants ==
    /\ Events["chat"] \subseteq SUBSET Facts
    /\ Events["image"] \subseteq SUBSET Facts
    /\ Events["research"] \subseteq SUBSET Facts
    /\ DOMAIN Events = {"chat", "image", "research"}
    /\ InputLimit \in Nat /\ MaxEvents \in Nat
BY TransportAssumption

LEMMA EndsApart == \A event \in SUBSET Facts : event \notin Ends
BY DEF Facts, Ends

LEMMA BaseTyped == Base => TypeOK
BY DEF Base, ThreadOK, DataOK, TypeOK

LEMMA InitBase == Init => Base
<1> SUFFICES ASSUME Init PROVE Base
  OBVIOUS
<1>1. kind \in {"chat", "image", "research"} /\ inputs \in 0 .. InputLimit + 1
  BY Constants DEF Init
<1>2. sent = <<>> /\ queue = <<>> /\ received = <<>>
  BY DEF Init
<1>3. TypeOK
  <2>1. sent \in Seq(SUBSET Facts) /\ received \in Seq(SUBSET Facts)
          /\ queue \in Seq((SUBSET Facts) \cup Ends)
    BY <1>2
  <2>2. pc \in {"create", "prepare", "post"} /\ kind \in DOMAIN Events
    BY <1>1, Constants DEF Init, AfterUploads
  <2>3. /\ files \in 0 .. inputs /\ topic \in Nat \ {0} /\ sse \in 0 .. MaxEvents
        /\ clock \in 0 .. 2 /\ waits \in Nat
    BY <1>1, Constants DEF Init
  <2>4. socket \in BOOLEAN /\ (socket <=> pc \in {"topic", "loop", "recv"})
    BY <2>2 DEF Init
  <2>5. cancelled \in BOOLEAN /\ told \in BOOLEAN /\ sawTask \in BOOLEAN /\ refresh \in BOOLEAN
    BY DEF Init
  <2>6. /\ outcome = "none" /\ phase \in {"ask", "confirm"}
        /\ known \subseteq Facts /\ assets \subseteq Pointers /\ images \subseteq Pointers
    BY DEF Init
  <2> QED BY <1>1, <2>1, <2>2, <2>3, <2>4, <2>5, <2>6 DEF TypeOK, Pcs
<1>4. Control
  BY <1>1, <1>2, Constants DEF Init, Control, AfterUploads, Sending, Reading
<1> QED BY <1>3, <1>4 DEF Base, TypeOK, ThreadOK, DataOK

\* What a refused or broken request leaves behind.
LEMMA FailsKeepsBase ==
    ASSUME Base, Fails, pc \in Sending \cup Reading,
           UNCHANGED <<kind, inputs, refresh, phase, topic, sent, received, known, imageVars,
                       clock, cancelVars>>,
           files' = files, sse' \in 0 .. MaxEvents
    PROVE  Base'
<1>1. kind \in {"chat", "image", "research"}
  BY Constants DEF Base, ThreadOK, DataOK
<1>2. CASE Streaming /\ pc' = "ended" /\ socket' = FALSE
              /\ queue' = queue \o <<{"error"}, {"end"}>> /\ UNCHANGED outcome
  <2>1. queue' \in Seq((SUBSET Facts) \cup Ends)
    BY <1>2, ConcatProperties DEF Base, ThreadOK, DataOK, Ends
  <2> QED BY <1>1, <1>2, <2>1
       DEF Base, ThreadOK, DataOK, Control, Sending, Reading, Pcs, Streaming
<1>3. CASE ~Streaming /\ EndCall("error") /\ UNCHANGED queue
  BY <1>1, <1>3 DEF Base, ThreadOK, DataOK, Control, Sending, Reading, Pcs, EndCall
<1>4. CASE phase = "confirm" /\ pc \in {"prepare", "requirements", "post", "handoff"}
              /\ pc' = "widget" /\ socket' = FALSE /\ UNCHANGED <<queue, outcome>>
  BY <1>1, <1>4 DEF Base, ThreadOK, DataOK, Control, Sending, Reading, Pcs
<1> QED BY <1>2, <1>3, <1>4 DEF Fails

\* A call that ends in its own thread, or goes on without touching its socket.
LEMMA EndOrGoOn ==
    ASSUME Base, phase' \in {"ask", "confirm"},
           pc \notin {"topic", "loop", "recv"},
           \/ EndCall("ok") \/ EndCall("error") \/ EndCall("cancelled")
           \/ /\ pc' \in Pcs \ {"topic", "loop", "recv"}
              /\ UNCHANGED <<socket, outcome>>
    PROVE  ThreadOK'
<1>1. pc' \in Pcs \ {"topic", "loop", "recv"}
  BY DEF EndCall, Pcs
<1>2. socket' \in BOOLEAN /\ ~socket'
  <2>1. socket \in BOOLEAN /\ ~socket
    BY DEF Base, ThreadOK
  <2>2. CASE socket' = FALSE
    BY <2>2
  <2>3. CASE UNCHANGED socket
    BY <2>1, <2>3
  <2> QED BY <2>2, <2>3 DEF EndCall
<1>3. outcome' \in {"none", "ok", "error", "cancelled", "gone"}
  BY DEF Base, ThreadOK, EndCall
<1> QED BY <1>1, <1>2, <1>3 DEF ThreadOK

LEMMA UploadKeepsBase == Base /\ Upload => Base'
<1> SUFFICES ASSUME Base, Upload PROVE Base'
  OBVIOUS
<1>1. CASE Fails /\ UNCHANGED <<files, topic, sse, sent>>
  BY <1>1, FailsKeepsBase DEF Upload, Base, ThreadOK, DataOK, Sending, Reading
<1>2. CASE /\ UNCHANGED <<socket, queue, outcome>>
           /\ \/ pc = "create" /\ pc' = "put" /\ UNCHANGED files
              \/ pc = "put" /\ pc' = "mark" /\ UNCHANGED files
              \/ /\ pc = "mark" /\ files' = files + 1
                 /\ pc' = IF files' < inputs THEN "create" ELSE AfterUploads
  <2>1. ThreadOK'
    BY <1>2, Constants DEF Base, ThreadOK, DataOK, Control, Sending, Reading, Pcs, Upload, AfterUploads
  <2>2. DataOK'
    BY <1>2, Constants DEF Base, ThreadOK, DataOK, Control, Sending, Reading, Pcs, Upload, AfterUploads
  <2>3. Control'
    BY <1>2, Constants DEF Base, ThreadOK, DataOK, Control, Sending, Reading, Pcs, Upload, AfterUploads
  <2> QED BY <2>1, <2>2, <2>3 DEF Base
<1> QED BY <1>1, <1>2 DEF Upload

LEMMA RefreshTokensKeepsBase == Base /\ RefreshTokens => Base'
<1> SUFFICES ASSUME Base, RefreshTokens PROVE Base'
  OBVIOUS
<1>1. CASE Fails /\ UNCHANGED <<files, topic, sse, sent>>
  BY <1>1, FailsKeepsBase DEF RefreshTokens, Base, ThreadOK, DataOK, Sending, Reading
<1>2. CASE /\ pc' = IF pc = "prepare" THEN "requirements" ELSE "post"
           /\ UNCHANGED <<socket, queue, outcome>>
  <2>1. ThreadOK'
    BY <1>2, Constants DEF Base, ThreadOK, DataOK, Control, Sending, Reading, Pcs, RefreshTokens
  <2>2. DataOK'
    BY <1>2, Constants DEF Base, ThreadOK, DataOK, Control, Sending, Reading, Pcs, RefreshTokens
  <2>3. Control'
    BY <1>2, Constants DEF Base, ThreadOK, DataOK, Control, Sending, Reading, Pcs, RefreshTokens
  <2> QED BY <2>1, <2>2, <2>3 DEF Base
<1> QED BY <1>1, <1>2 DEF RefreshTokens

LEMMA PostKeepsBase == Base /\ Post => Base'
<1> SUFFICES ASSUME Base, Post PROVE Base'
  OBVIOUS
<1>1. CASE Fails /\ UNCHANGED <<files, topic, sse, sent>>
  BY <1>1, FailsKeepsBase DEF Post, Base, ThreadOK, DataOK, Sending, Reading
<1>2. CASE pc' = "sse" /\ UNCHANGED <<socket, queue, outcome>>
  <2>1. ThreadOK'
    BY <1>2, Constants DEF Base, ThreadOK, DataOK, Control, Sending, Reading, Pcs, Post
  <2>2. DataOK'
    BY <1>2, Constants DEF Base, ThreadOK, DataOK, Control, Sending, Reading, Pcs, Post
  <2>3. Control'
    BY <1>2, Constants DEF Base, ThreadOK, DataOK, Control, Sending, Reading, Pcs, Post
  <2> QED BY <2>1, <2>2, <2>3 DEF Base
<1> QED BY <1>1, <1>2 DEF Post

LEMMA EventFacts ==
    ASSUME Base, NEW event \in Events[kind]
    PROVE  event \in SUBSET Facts
  BY Constants DEF Base, DataOK

LEMMA ReadEventKeepsBase == Base /\ ReadEvent => Base'
<1> SUFFICES ASSUME Base, ReadEvent PROVE Base'
  OBVIOUS
<1>1. PICK event \in Events[kind] :
        /\ sent' = Append(sent, event)
        /\ queue' = IF kind = "chat" THEN Append(queue, event) ELSE queue
  BY DEF ReadEvent
<1>2. /\ sent' \in Seq(SUBSET Facts) /\ Len(sent') = Len(sent) + 1
      /\ queue' \in Seq((SUBSET Facts) \cup Ends)
  BY <1>1, EventFacts, AppendProperties DEF Base, DataOK
<1>3. ThreadOK'
  BY DEF Base, ThreadOK, ReadEvent, Pcs
<1>4. DataOK'
  BY <1>2 DEF Base, DataOK, ReadEvent
<1>5. Control'
  BY <1>1, <1>2, Constants DEF Base, DataOK, Control, ReadEvent, Sending, Reading
<1> QED BY <1>3, <1>4, <1>5 DEF Base

\* The first disjunct of ReadTopic.
FrameRead ==
    /\ \E n \in 1 .. 2 * MaxEvents - Len(sent) :
       \E frame \in [1 .. n -> Events[kind]] :
         /\ \A i \in 1 .. n : MaySend(frame[i])
         /\ sent' = sent \o frame
         /\ IF \E i \in 1 .. n : "done" \in frame[i]
            THEN pc' = "handoff" /\ socket' = FALSE
            ELSE UNCHANGED <<pc, socket>>
    /\ UNCHANGED <<queue, outcome>>

\* A frame continues what was sent, and the topic goes on or is over.
LEMMA FrameAppended ==
    ASSUME Base, FrameRead
    PROVE  /\ sent' \in Seq(SUBSET Facts) /\ Len(sent) \in Nat
           /\ Len(sent') \in Nat /\ Len(sent') >= Len(sent)
           /\ \A i \in 1 .. Len(sent) : sent'[i] = sent[i]
           /\ UNCHANGED <<pc, socket>> \/ (pc' = "handoff" /\ socket' = FALSE)
<1> PICK n \in 1 .. 2 * MaxEvents - Len(sent) :
      \E frame \in [1 .. n -> Events[kind]] :
           /\ sent' = sent \o frame
           /\ IF \E i \in 1 .. n : "done" \in frame[i]
              THEN pc' = "handoff" /\ socket' = FALSE
              ELSE UNCHANGED <<pc, socket>>
  BY DEF FrameRead
<1> PICK frame \in [1 .. n -> Events[kind]] :
           /\ sent' = sent \o frame
           /\ IF \E i \in 1 .. n : "done" \in frame[i]
              THEN pc' = "handoff" /\ socket' = FALSE
              ELSE UNCHANGED <<pc, socket>>
  OBVIOUS
<1> DEFINE over == \E i \in 1 .. n : "done" \in frame[i]
<1>1. UNCHANGED <<pc, socket>> \/ (pc' = "handoff" /\ socket' = FALSE)
  <2>1. IF over THEN pc' = "handoff" /\ socket' = FALSE ELSE UNCHANGED <<pc, socket>>
    OBVIOUS
  <2> HIDE DEF over
  <2> QED BY <2>1
<1>2. sent \in Seq(SUBSET Facts) /\ Len(sent) \in Nat /\ MaxEvents \in Nat
  BY LenProperties, Constants DEF Base, DataOK
<1>3. n \in Nat /\ frame \in [1 .. n -> SUBSET Facts]
  BY <1>2, EventFacts
<1>4. frame \in Seq(SUBSET Facts) /\ Len(frame) = n
  BY <1>3
<1> QED BY <1>1, <1>2, <1>3, <1>4, ConcatProperties

LEMMA ReadTopicKeepsBase == Base /\ ReadTopic => Base'
<1> SUFFICES ASSUME Base, ReadTopic PROVE Base'
  OBVIOUS
<1>1. CASE Fails /\ UNCHANGED sent
  BY <1>1, FailsKeepsBase DEF ReadTopic, Base, DataOK, Reading
<1>2. CASE FrameRead
  <2>1. sent' \in Seq(SUBSET Facts)
    BY <1>2, FrameAppended
  <2>2. (pc' = pc /\ socket' = socket) \/ (pc' = "handoff" /\ socket' = FALSE)
    BY <1>2, FrameAppended
  <2>3. UNCHANGED <<queue, outcome>>
    BY <1>2 DEF FrameRead
  <2> QED BY <2>1, <2>2, <2>3
       DEF Base, ThreadOK, DataOK, Control, Sending, Reading, Pcs, ReadTopic
<1>3. CASE pc' = "handoff" /\ socket' = FALSE /\ UNCHANGED <<sent, queue, outcome>>
  BY <1>3 DEF Base, ThreadOK, DataOK, Control, Sending, Reading, Pcs, ReadTopic
<1> QED BY <1>1, <1>2, <1>3 DEF ReadTopic, FrameRead

LEMMA FollowedKeepsBase == Base /\ Followed => Base'
<1> SUFFICES ASSUME Base, Followed PROVE Base'
  OBVIOUS
<1>1. queue' \in Seq((SUBSET Facts) \cup Ends)
  <2>1. CASE kind # "chat"
    BY <2>1 DEF Base, DataOK, Followed
  <2>2. CASE kind = "chat"
    <3> DEFINE rest == SubSeq(sent, sse + 1, Len(sent))
    <3>1. rest \in Seq(SUBSET Facts)
      BY SubSeqProperties, LenProperties, Constants DEF Base, DataOK
    <3>2. rest \in Seq((SUBSET Facts) \cup Ends) /\ <<{"end"}>> \in Seq((SUBSET Facts) \cup Ends)
      BY <3>1 DEF Ends
    <3> HIDE DEF rest
    <3>3. queue \o rest \o <<{"end"}>> \in Seq((SUBSET Facts) \cup Ends)
      BY <3>2, ConcatProperties DEF Base, DataOK
    <3> QED BY <2>2, <3>3 DEF Followed, rest
  <2> QED BY <2>1, <2>2
<1>2. known' \subseteq Facts
  BY ElementOfSeq DEF Followed, Learn, Base, DataOK
<1>3. DataOK'
  BY <1>1, <1>2 DEF Base, DataOK, Followed
<1>4. ThreadOK'
  BY DEF Base, ThreadOK, Followed, Pcs
<1>5. Control'
  BY DEF Base, Control, ThreadOK, Followed, Sending, Reading
<1> QED BY <1>3, <1>4, <1>5 DEF Base

LEMMA ConsumeKeepsBase == Base /\ Consume => Base'
<1> SUFFICES ASSUME Base, Consume PROVE Base'
  OBVIOUS
<1>1. /\ Head(queue) \in (SUBSET Facts) \cup Ends
      /\ Tail(queue) \in Seq((SUBSET Facts) \cup Ends)
  BY HeadTailProperties DEF Base, DataOK, Consume
<1>2. received' \in Seq(SUBSET Facts)
  <2>1. received \in Seq(SUBSET Facts)
    BY DEF Base, DataOK
  <2>2. \/ received' = received
        \/ Head(queue) \in SUBSET Facts /\ received' = Append(received, Head(queue))
    BY <1>1 DEF Consume
  <2> QED BY <2>1, <2>2, AppendProperties
<1>3. kind = "chat" /\ outcome' \in {"none", "ok", "error"}
  BY Constants DEF Base, DataOK, Control, Consume
<1>4. ThreadOK'
  BY <1>3 DEF Base, ThreadOK, Consume
<1>5. DataOK'
  BY <1>1, <1>2 DEF Base, DataOK, Consume
<1>6. Control'
  BY <1>3 DEF Base, Control, Consume
<1> QED BY <1>4, <1>5, <1>6 DEF Base

LEMMA ReadEndKeepsBase == Base /\ ReadEnd => Base'
<1> SUFFICES ASSUME Base, ReadEnd PROVE Base'
  OBVIOUS
<1>1. CASE Fails /\ UNCHANGED <<files, topic, sse, sent>>
  BY <1>1, FailsKeepsBase DEF ReadEnd, Base, ThreadOK, DataOK, Sending, Reading
<1>2. CASE pc' = "handoff" /\ sse' = Len(sent) /\ topic' = 1 /\ UNCHANGED <<socket, queue, outcome>>
  <2>1. ThreadOK'
    BY <1>2, Constants, LenProperties DEF Base, ThreadOK, DataOK, Control, Sending, Reading, Pcs, ReadEnd
  <2>2. DataOK'
    BY <1>2, Constants, LenProperties DEF Base, ThreadOK, DataOK, Control, Sending, Reading, Pcs, ReadEnd
  <2>3. Control'
    BY <1>2, Constants, LenProperties DEF Base, ThreadOK, DataOK, Control, Sending, Reading, Pcs, ReadEnd
  <2> QED BY <2>1, <2>2, <2>3 DEF Base
<1> QED BY <1>1, <1>2 DEF ReadEnd

LEMMA OpenTopicKeepsBase == Base /\ OpenTopic => Base'
<1> SUFFICES ASSUME Base, OpenTopic PROVE Base'
  OBVIOUS
<1>1. CASE Fails /\ UNCHANGED <<files, topic, sse, sent>>
  BY <1>1, FailsKeepsBase DEF OpenTopic, Base, ThreadOK, DataOK, Sending, Reading
<1>2. CASE /\ \E i \in Handoffs : topic' = i + 1
           /\ pc' = "topic" /\ socket' = TRUE /\ UNCHANGED <<queue, outcome>>
  <2>1. ThreadOK'
    BY <1>2, Constants DEF Base, ThreadOK, DataOK, Control, Sending, Reading, Pcs, OpenTopic, Handoffs
  <2>2. DataOK'
    BY <1>2, Constants DEF Base, ThreadOK, DataOK, Control, Sending, Reading, Pcs, OpenTopic, Handoffs
  <2>3. Control'
    BY <1>2, Constants DEF Base, ThreadOK, DataOK, Control, Sending, Reading, Pcs, OpenTopic, Handoffs
  <2> QED BY <2>1, <2>2, <2>3 DEF Base
<1> QED BY <1>1, <1>2 DEF OpenTopic

LEMMA AbandonKeepsBase == Base /\ Abandon => Base'
<1> SUFFICES ASSUME Base, Abandon PROVE Base'
  OBVIOUS
<1>1. ThreadOK'
  BY Constants DEF Base, ThreadOK, DataOK, Control, Sending, Reading, Pcs, Abandon
<1>2. DataOK'
  BY Constants DEF Base, ThreadOK, DataOK, Control, Sending, Reading, Pcs, Abandon
<1>3. Control'
  BY Constants DEF Base, ThreadOK, DataOK, Control, Sending, Reading, Pcs, Abandon
<1> QED BY <1>1, <1>2, <1>3 DEF Base

LEMMA ImageAnswerKeepsBase == Base /\ ImageAnswer => Base'
<1> SUFFICES ASSUME Base, ImageAnswer PROVE Base'
  OBVIOUS
<1>1. ThreadOK'
  BY Constants DEF Base, ThreadOK, DataOK, Control, Sending, Reading, Pcs, ImageAnswer, EndCall, StopCall, CanStop, Pictures
<1>2. DataOK'
  BY Constants DEF Base, ThreadOK, DataOK, Control, Sending, Reading, Pcs, ImageAnswer, EndCall, StopCall, CanStop, Pictures
<1>3. Control'
  BY Constants DEF Base, ThreadOK, DataOK, Control, Sending, Reading, Pcs, ImageAnswer, EndCall, StopCall, CanStop, Pictures
<1> QED BY <1>1, <1>2, <1>3 DEF Base

LEMMA PollKeepsBase == Base /\ Poll => Base'
<1> SUFFICES ASSUME Base, Poll PROVE Base'
  OBVIOUS
<1>1. ThreadOK'
  <2>1. \/ EndCall("ok") \/ EndCall("error") \/ EndCall("cancelled")
        \/ pc' = "get" /\ UNCHANGED <<socket, outcome>>
    BY Zenon DEF Poll, StopCall
  <2> QED BY <2>1, EndOrGoOn DEF Poll, Base, ThreadOK, Pcs
<1>2. DataOK'
  BY Constants DEF Base, ThreadOK, DataOK, Control, Sending, Reading, Pcs, Poll, EndCall, StopCall, CanStop
<1>3. Control'
  BY Constants DEF Base, ThreadOK, DataOK, Control, Sending, Reading, Pcs, Poll, EndCall, StopCall, CanStop
<1> QED BY <1>1, <1>2, <1>3 DEF Base

LEMMA GetKeepsBase == Base /\ Get => Base'
<1> SUFFICES ASSUME Base, Get PROVE Base'
  OBVIOUS
<1>1. ThreadOK'
  BY Constants DEF Base, ThreadOK, DataOK, Control, Sending, Reading, Pcs, Get, EndCall, Pictures, CountWait
<1>2. DataOK'
  <2>1. assets' \subseteq Pointers /\ sawTask' \in BOOLEAN
    BY DEF Get, Pictures, Base, DataOK
  <2>2. waits' \in Nat
    BY DEF Get, CountWait, Base, DataOK
  <2> QED BY <2>1, <2>2 DEF Get, Base, DataOK
<1>3. Control'
  BY Constants DEF Base, ThreadOK, DataOK, Control, Sending, Reading, Pcs, Get, EndCall, Pictures, CountWait
<1> QED BY <1>1, <1>2, <1>3 DEF Base

LEMMA DownloadKeepsBase == Base /\ Download => Base'
<1> SUFFICES ASSUME Base, Download PROVE Base'
  OBVIOUS
<1>1. ThreadOK'
  BY Constants DEF Base, ThreadOK, DataOK, Control, Sending, Reading, Pcs, Download, EndCall
<1>2. DataOK'
  BY Constants DEF Base, ThreadOK, DataOK, Control, Sending, Reading, Pcs, Download, EndCall
<1>3. Control'
  BY Constants DEF Base, ThreadOK, DataOK, Control, Sending, Reading, Pcs, Download, EndCall
<1> QED BY <1>1, <1>2, <1>3 DEF Base

LEMMA ResearchAnswerKeepsBase == Base /\ ResearchAnswer => Base'
<1> SUFFICES ASSUME Base, ResearchAnswer PROVE Base'
  OBVIOUS
<1>1. ThreadOK'
  <2>1. \/ EndCall("ok") \/ EndCall("error") \/ EndCall("cancelled")
        \/ pc' = "skip" /\ UNCHANGED <<socket, outcome>>
    BY Zenon DEF ResearchAnswer, StopCall
  <2> QED BY <2>1, EndOrGoOn DEF ResearchAnswer, Base, ThreadOK, Pcs
<1>2. DataOK'
  BY Constants DEF Base, ThreadOK, DataOK, Control, Sending, Reading, Pcs, ResearchAnswer, EndCall, StopCall, CanStop
<1>3. Control'
  BY Constants DEF Base, ThreadOK, DataOK, Control, Sending, Reading, Pcs, ResearchAnswer, EndCall, StopCall, CanStop
<1> QED BY <1>1, <1>2, <1>3 DEF Base

LEMMA SkipSleepKeepsBase == Base /\ SkipSleep => Base'
<1> SUFFICES ASSUME Base, SkipSleep PROVE Base'
  OBVIOUS
<1>1. ThreadOK'
  <2>1. \/ EndCall("ok") \/ EndCall("error") \/ EndCall("cancelled")
        \/ pc' \in {"prepare", "widget"} /\ UNCHANGED <<socket, outcome>>
    BY Zenon DEF SkipSleep
  <2> QED BY <2>1, EndOrGoOn DEF SkipSleep, Base, ThreadOK, Pcs
<1>2. DataOK'
  BY Constants DEF Base, ThreadOK, DataOK, Control, Sending, Reading, Pcs, SkipSleep, EndCall, CanStop
<1>3. Control'
  BY Constants DEF Base, ThreadOK, DataOK, Control, Sending, Reading, Pcs, SkipSleep, EndCall, CanStop
<1> QED BY <1>1, <1>2, <1>3 DEF Base

LEMMA ConfirmedKeepsBase == Base /\ Confirmed => Base'
<1> SUFFICES ASSUME Base, Confirmed PROVE Base'
  OBVIOUS
<1>1. ThreadOK'
  <2>1. \/ EndCall("ok") \/ EndCall("error") \/ EndCall("cancelled")
        \/ pc' = "widget" /\ UNCHANGED <<socket, outcome>>
    BY Zenon DEF Confirmed
  <2> QED BY <2>1, EndOrGoOn DEF Confirmed, Base, ThreadOK, Pcs
<1>2. DataOK'
  BY Constants DEF Base, ThreadOK, DataOK, Control, Sending, Reading, Pcs, Confirmed, EndCall
<1>3. Control'
  BY Constants DEF Base, ThreadOK, DataOK, Control, Sending, Reading, Pcs, Confirmed, EndCall
<1> QED BY <1>1, <1>2, <1>3 DEF Base

LEMMA OpenWidgetKeepsBase == Base /\ OpenWidget => Base'
<1> SUFFICES ASSUME Base, OpenWidget PROVE Base'
  OBVIOUS
<1>1. ThreadOK'
  BY Constants DEF Base, ThreadOK, DataOK, Control, Sending, Reading, Pcs, OpenWidget, EndCall
<1>2. DataOK'
  BY Constants DEF Base, ThreadOK, DataOK, Control, Sending, Reading, Pcs, OpenWidget, EndCall
<1>3. Control'
  BY Constants DEF Base, ThreadOK, DataOK, Control, Sending, Reading, Pcs, OpenWidget, EndCall
<1> QED BY <1>1, <1>2, <1>3 DEF Base

LEMMA ListenKeepsBase == Base /\ Listen => Base'
<1> SUFFICES ASSUME Base, Listen PROVE Base'
  OBVIOUS
<1>1. ThreadOK'
  BY Constants DEF Base, ThreadOK, DataOK, Control, Sending, Reading, Pcs, Listen, EndCall, StopCall, CanStop
<1>2. DataOK'
  BY Constants DEF Base, ThreadOK, DataOK, Control, Sending, Reading, Pcs, Listen, EndCall, StopCall, CanStop
<1>3. Control'
  BY Constants DEF Base, ThreadOK, DataOK, Control, Sending, Reading, Pcs, Listen, EndCall, StopCall, CanStop
<1> QED BY <1>1, <1>2, <1>3 DEF Base

LEMMA ReceiveKeepsBase == Base /\ Receive => Base'
<1> SUFFICES ASSUME Base, Receive PROVE Base'
  OBVIOUS
<1>1. ThreadOK'
  BY Constants DEF Base, ThreadOK, DataOK, Control, Sending, Reading, Pcs, Receive, EndCall, StopCall, CanStop, CountWait, GetState
<1>2. DataOK'
  <2>1. told' \in BOOLEAN
    BY DEF Receive, StopCall, CanStop, Base, DataOK
  <2>2. waits' \in Nat
    BY DEF Receive, CountWait, Base, DataOK
  <2> QED BY <2>1, <2>2 DEF Receive, Base, DataOK
<1>3. Control'
  BY Constants DEF Base, ThreadOK, DataOK, Control, Sending, Reading, Pcs, Receive, EndCall, StopCall, CanStop, CountWait, GetState
<1> QED BY <1>1, <1>2, <1>3 DEF Base

LEMMA TickKeepsBase == Base /\ Tick => Base'
<1> SUFFICES ASSUME Base, Tick PROVE Base'
  OBVIOUS
<1>1. ThreadOK'
  BY Constants DEF Base, ThreadOK, DataOK, Control, Sending, Reading, Pcs, Tick
<1>2. DataOK'
  BY Constants DEF Base, ThreadOK, DataOK, Control, Sending, Reading, Pcs, Tick
<1>3. Control'
  BY Constants DEF Base, ThreadOK, DataOK, Control, Sending, Reading, Pcs, Tick
<1> QED BY <1>1, <1>2, <1>3 DEF Base

LEMMA CancelKeepsBase == Base /\ Cancel => Base'
<1> SUFFICES ASSUME Base, Cancel PROVE Base'
  OBVIOUS
<1>1. ThreadOK'
  BY Constants DEF Base, ThreadOK, DataOK, Control, Sending, Reading, Pcs, Cancel
<1>2. DataOK'
  BY Constants DEF Base, ThreadOK, DataOK, Control, Sending, Reading, Pcs, Cancel
<1>3. Control'
  BY Constants DEF Base, ThreadOK, DataOK, Control, Sending, Reading, Pcs, Cancel
<1> QED BY <1>1, <1>2, <1>3 DEF Base

LEMMA DoneKeepsBase == Base /\ Done => Base'
<1> SUFFICES ASSUME Base, Done PROVE Base'
  OBVIOUS
<1>1. ThreadOK'
  BY Constants DEF Base, ThreadOK, DataOK, Control, Sending, Reading, Pcs, Done
<1>2. DataOK'
  BY Constants DEF Base, ThreadOK, DataOK, Control, Sending, Reading, Pcs, Done
<1>3. Control'
  BY Constants DEF Base, ThreadOK, DataOK, Control, Sending, Reading, Pcs, Done
<1> QED BY <1>1, <1>2, <1>3 DEF Base

LEMMA StepKeepsBase == Base /\ [Next]_vars => Base'
<1> SUFFICES ASSUME Base, [Next]_vars PROVE Base'
  OBVIOUS
<1>1. CASE ThreadStep
  BY <1>1, UploadKeepsBase, RefreshTokensKeepsBase, PostKeepsBase, ReadEventKeepsBase,
     ReadEndKeepsBase, OpenTopicKeepsBase, ReadTopicKeepsBase, FollowedKeepsBase,
     ImageAnswerKeepsBase, PollKeepsBase, GetKeepsBase, DownloadKeepsBase,
     ResearchAnswerKeepsBase, SkipSleepKeepsBase, ConfirmedKeepsBase, OpenWidgetKeepsBase,
     ListenKeepsBase, ReceiveKeepsBase DEF ThreadStep
<1>2. CASE Consume \/ Abandon \/ Tick \/ Cancel \/ Done
  BY <1>2, ConsumeKeepsBase, AbandonKeepsBase, TickKeepsBase, CancelKeepsBase, DoneKeepsBase
<1>3. CASE UNCHANGED vars
  BY <1>3 DEF Base, ThreadOK, DataOK, Control
<1> QED BY <1>1, <1>2, <1>3 DEF Next

LEMMA BaseHolds == Spec => []Base
<1>1. Init => Base
  BY InitBase
<1>2. Base /\ [Next]_vars => Base'
  BY StepKeepsBase
<1> QED BY <1>1, <1>2, PTL DEF Spec

\* Types hold whatever ChatGPT sends and however often; in particular no websocket stays
\* open when a call has ended or gone on to something else.
THEOREM TypeCorrect == Spec => []TypeOK
<1>1. Base => TypeOK
  BY BaseTyped
<1> QED BY <1>1, BaseHolds, PTL

------------------------------------------------------------------------------
(* Pictures and cancellations *)

LEMMA StepKeepsAssets == Base /\ Assets /\ [Next]_vars => Assets'
<1> SUFFICES ASSUME Base, Assets, [Next]_vars PROVE Assets'
  OBVIOUS
<1> USE DEF Assets
<1>1. kind' = kind
  BY DEF Next, ThreadStep, Upload, RefreshTokens, Post, ReadEvent, ReadEnd, OpenTopic,
         ReadTopic, Followed, ImageAnswer, Poll, Get, Download, ResearchAnswer, SkipSleep,
         Confirmed, OpenWidget, Listen, Receive, Consume, Abandon, Tick, Cancel, Done
<1>2. CASE Upload \/ RefreshTokens \/ Post \/ ReadEnd \/ OpenTopic \/ ReadTopic
  <2>1. UNCHANGED imageVars /\ (outcome' = outcome \/ outcome' = "error")
    BY <1>2 DEF Upload, RefreshTokens, Post, ReadEnd, OpenTopic, ReadTopic, Fails, EndCall
  <2> QED BY <1>1, <2>1
<1>3. CASE ReadEvent \/ Followed \/ Tick \/ Cancel \/ Done \/ Abandon \/ UNCHANGED vars
  BY <1>3 DEF ReadEvent, Followed, Tick, Cancel, Done, Abandon
<1>4. CASE ImageAnswer
  BY <1>1, <1>4 DEF ImageAnswer, StopCall, EndCall, Pictures, InputAssets, Base, Control
<1>5. CASE Poll \/ Listen \/ OpenWidget
  BY <1>1, <1>5 DEF Poll, Listen, OpenWidget, StopCall, EndCall
<1>6. CASE Get
  <2>1. kind = "image" /\ outcome = "none"
    BY <1>6, Constants DEF Get, Base, Control, DataOK, Sending, Reading
  <2>2. UNCHANGED images /\ "input" \notin assets'
    BY <1>6 DEF Get, Pictures, InputAssets
  <2>3. outcome' # "ok"
    BY <1>6, <2>1 DEF Get, EndCall
  <2> QED BY <1>1, <2>1, <2>2, <2>3
<1>7. CASE Download
  BY <1>1, <1>7 DEF Download, EndCall, Base, Control, Sending, Reading
<1>8. CASE ResearchAnswer \/ SkipSleep \/ Confirmed \/ Receive
  <2>1. kind = "research" /\ UNCHANGED <<assets, images>>
    BY <1>8, Constants DEF ResearchAnswer, SkipSleep, Confirmed, Receive, Base, Control,
                           DataOK, Sending, Reading
  <2> QED BY <1>1, <2>1
<1>9. CASE Consume
  <2>1. kind # "image" /\ UNCHANGED <<assets, images>>
    BY <1>9 DEF Consume, Base, Control
  <2> QED BY <1>1, <2>1
<1> QED BY <1>2, <1>3, <1>4, <1>5, <1>6, <1>7, <1>8, <1>9 DEF Next, ThreadStep

\* No picture that is handed back is an input of the request, and nothing that was found
\* is left behind, however the answer and the polled conversations look.
THEOREM InputsStayOut == Spec => []NoInputReturned
<1>1. Init => Assets
  BY DEF Init, Assets
<1>2. Base /\ Assets /\ [Next]_vars => Assets'
  BY StepKeepsAssets
<1>3. Assets => NoInputReturned
  BY DEF Assets, NoInputReturned
<1> QED BY <1>1, <1>2, <1>3, BaseHolds, PTL DEF Spec

LEMMA StepKeepsCancelled == Base /\ Cancelled /\ [Next]_vars => Cancelled'
<1> SUFFICES ASSUME Base, Cancelled, [Next]_vars PROVE Cancelled'
  OBVIOUS
<1> USE DEF Cancelled
<1>1. CASE Upload \/ RefreshTokens \/ Post \/ ReadEnd \/ OpenTopic \/ ReadTopic
  <2>1. /\ UNCHANGED <<kind, known, cancelVars>> /\ pc' \notin {"get", "recv"}
        /\ outcome' = outcome \/ outcome' = "error"
    BY <1>1 DEF Upload, RefreshTokens, Post, ReadEnd, OpenTopic, ReadTopic, Fails, EndCall,
                AfterUploads
  <2> QED BY <2>1 DEF CanStop
<1>2. CASE ReadEvent \/ Abandon \/ Tick \/ Done \/ Consume \/ UNCHANGED vars
  BY <1>2 DEF ReadEvent, Abandon, Tick, Done, Consume, CanStop
<1>3. CASE Followed
  <2>1. outcome # "cancelled"
    BY <1>3 DEF Followed, Base, Control
  <2> QED BY <1>3, <2>1 DEF Followed
<1>4. CASE ImageAnswer
  BY <1>4 DEF ImageAnswer, StopCall, EndCall, CanStop
<1>5. CASE Poll
  BY <1>5 DEF Poll, StopCall, EndCall, CanStop
<1>6. CASE Listen
  BY <1>6 DEF Listen, StopCall, EndCall, CanStop
<1>7. CASE Get
  <2>1. waits = 0 /\ outcome = "none"
    BY <1>7, Constants DEF Get, Base, Control, DataOK, Sending, Reading
  <2> QED BY <1>7, <2>1 DEF Get, CountWait, EndCall
<1>8. CASE Receive
  <2>1. waits = 0 /\ outcome = "none"
    BY <1>8, Constants DEF Receive, Base, Control, DataOK, Sending, Reading
  <2>2. waits' \in {0, 1} /\ (waits' = 1 => cancelled) /\ pc' \notin {"get", "recv"}
    BY <1>8, <2>1 DEF Receive, CountWait, StopCall, GetState, EndCall
  <2>3. UNCHANGED <<kind, known, cancelled>>
    BY <1>8 DEF Receive
  <2>4. outcome' = "cancelled" => told' = CanStop
    BY <1>8, <2>1 DEF Receive, StopCall, GetState, EndCall
  <2>5. CanStop' <=> CanStop
    BY <2>3 DEF CanStop
  <2> QED BY <2>1, <2>2, <2>3, <2>4, <2>5
<1>9. CASE Download \/ OpenWidget \/ SkipSleep \/ Confirmed
  BY <1>9 DEF Download, OpenWidget, SkipSleep, Confirmed, EndCall, CanStop
<1>10. CASE ResearchAnswer
  BY <1>10 DEF ResearchAnswer, StopCall, EndCall, CanStop
<1>11. CASE Cancel
  BY <1>11 DEF Cancel, CanStop
<1> QED BY <1>1, <1>2, <1>3, <1>4, <1>5, <1>6, <1>7, <1>8, <1>9, <1>10, <1>11
        DEF Next, ThreadStep

\* However long a call polls or listens, a cancellation costs it one wait at most, and a
\* call that ends as cancelled has told ChatGPT whenever it knew what to name.
THEOREM CancelFollowed == Spec => []CancelIsFollowed
<1>1. Init => Cancelled
  BY DEF Init, Cancelled
<1>2. Base /\ Cancelled /\ [Next]_vars => Cancelled'
  BY StepKeepsCancelled
<1>3. Cancelled => CancelIsFollowed
  BY DEF Cancelled, CancelIsFollowed
<1> QED BY <1>1, <1>2, <1>3, BaseHolds, PTL DEF Spec

------------------------------------------------------------------------------
(* The order of a chat's events *)

LEMMA ConcatParts ==
    ASSUME NEW S, NEW s \in Seq(S), NEW t \in Seq(S)
    PROVE  /\ s \o t \in Seq(S) /\ Len(s \o t) = Len(s) + Len(t)
           /\ Len(s) \in Nat /\ Len(t) \in Nat
           /\ \A i \in 1 .. Len(s) : (s \o t)[i] = s[i]
           /\ \A i \in 1 .. Len(t) : (s \o t)[Len(s) + i] = t[i]
<1>1. Len(s) \in Nat /\ Len(t) \in Nat
  BY LenProperties
<1>2. \A i \in 1 .. Len(s) : (s \o t)[i] = s[i]
  BY <1>1, ConcatProperties
<1>3. ASSUME NEW i \in 1 .. Len(t)
      PROVE  (s \o t)[Len(s) + i] = t[i]
  <2>1. Len(s) + i \in 1 .. Len(s) + Len(t) /\ ~(Len(s) + i <= Len(s))
          /\ (Len(s) + i) - Len(s) = i
    BY <1>1
  <2> QED BY <2>1, ConcatProperties
<1> QED BY <1>1, <1>2, <1>3, ConcatProperties

LEMMA EndAppended ==
    ASSUME NEW S, NEW s \in Seq(S), NEW t \in Seq(S), NEW e \in S
    PROVE  /\ Len(s \o t \o <<e>>) = Len(s) + Len(t) + 1
           /\ \A i \in 1 .. Len(s) + Len(t) + 1 :
                 \/ i \in 1 .. Len(s) /\ (s \o t \o <<e>>)[i] = s[i]
                 \/ i - Len(s) \in 1 .. Len(t) /\ (s \o t \o <<e>>)[i] = t[i - Len(s)]
                 \/ i = Len(s) + Len(t) + 1 /\ (s \o t \o <<e>>)[i] = e
<1>1. Len(s) \in Nat /\ Len(t) \in Nat /\ s \o t \in Seq(S) /\ Len(s \o t) = Len(s) + Len(t)
  BY ConcatParts
<1>2. <<e>> \in Seq(S) /\ Len(<<e>>) = 1 /\ <<e>>[1] = e
  OBVIOUS
<1> DEFINE u == s \o t
           v == <<e>>
<1>3. /\ Len(u \o v) = Len(u) + Len(v)
      /\ \A i \in 1 .. Len(u) : (u \o v)[i] = u[i]
      /\ \A i \in 1 .. Len(v) : (u \o v)[Len(u) + i] = v[i]
  <2> HIDE DEF u, v
  <2>1. u \in Seq(S) /\ v \in Seq(S)
    BY <1>1, <1>2 DEF u, v
  <2> QED BY <2>1, ConcatParts
<1>4. ASSUME NEW i \in 1 .. Len(s) + Len(t) + 1
      PROVE  \/ i \in 1 .. Len(s) /\ (u \o v)[i] = s[i]
             \/ i - Len(s) \in 1 .. Len(t) /\ (u \o v)[i] = t[i - Len(s)]
             \/ i = Len(s) + Len(t) + 1 /\ (u \o v)[i] = e
  <2>1. CASE i \in 1 .. Len(s)
    <3>1. i \in 1 .. Len(u) /\ u[i] = s[i]
      BY <1>1, <2>1, ConcatParts
    <3> QED BY <1>3, <2>1, <3>1
  <2>2. CASE i \in Len(s) + 1 .. Len(s) + Len(t)
    <3>1. i - Len(s) \in 1 .. Len(t) /\ Len(s) + (i - Len(s)) = i /\ i \in 1 .. Len(u)
      BY <1>1, <2>2
    <3>2. u[Len(s) + (i - Len(s))] = t[i - Len(s)]
      BY <3>1, ConcatParts
    <3> QED BY <1>3, <3>1, <3>2
  <2>3. CASE i = Len(s) + Len(t) + 1
    <3>1. i = Len(u) + 1 /\ 1 \in 1 .. Len(v)
      BY <1>1, <1>2, <2>3
    <3>2. (u \o v)[Len(u) + 1] = v[1]
      BY <1>3, <3>1
    <3> QED BY <1>2, <2>3, <3>1, <3>2
  <2> QED BY <1>1, <2>1, <2>2, <2>3
<1> QED BY <1>1, <1>2, <1>3, <1>4

\* Steps that neither send, pass on nor receive an event, and do not end a call well.
LEMMA ChatStill ==
    ASSUME Base, Chat, UNCHANGED <<kind, sent, received, queue>>,
           kind = "chat" =>
              /\ outcome' = outcome \/ (outcome = "none" /\ outcome' # "ok")
              /\ \/ pc' = pc /\ sse' = sse
                 \/ /\ pc # "ended" /\ outcome' # "ok"
                    /\ pc' = "ended" \/ Passed' = Passed
                    /\ pc' \in {"handoff", "topic"} => sse' <= Len(sent)
    PROVE  Chat'
<1> SUFFICES ASSUME kind = "chat" PROVE Continues' /\ Closes' /\ Passing'
  BY DEF Chat
<1>1. Continues /\ Closes /\ Passing
  BY DEF Chat
<1>2. Continues'
  BY <1>1 DEF Continues
<1>3. Closes'
  BY <1>1 DEF Closes
<1>4. Passing'
  BY <1>1 DEF Passing, Passed
<1> QED BY <1>2, <1>3, <1>4

\* The worker of a chat breaks off.
LEMMA FailsKeepsChat ==
    ASSUME Base, Chat, Fails, pc \in Sending \cup Reading,
           UNCHANGED <<kind, sent, received>>, UNCHANGED phase
    PROVE  Chat'
<1> SUFFICES ASSUME kind = "chat" PROVE Continues' /\ Closes' /\ Passing'
  BY DEF Chat
<1> DEFINE item == <<{"error"}, {"end"}>>
<1>1. Continues /\ Closes /\ Passing
  BY DEF Chat
<1>2. pc' = "ended" /\ phase = "ask" /\ outcome # "ok" /\ outcome' # "ok"
  BY <1>1 DEF Fails, EndCall, Base, ThreadOK, Control, Closes, Sending, Reading
<1>3. Passing'
  BY <1>2 DEF Passing
<1>4. CASE queue' = queue
  BY <1>1, <1>2, <1>4 DEF Continues, Closes, Passing, Ends, Sending, Reading
<1>5. CASE queue' = queue \o item
  <2>1. /\ Len(queue') = Len(queue) + 2
        /\ \A i \in 1 .. Len(queue) : queue'[i] = queue[i]
        /\ queue'[Len(queue) + 1] = {"error"} /\ queue'[Len(queue) + 2] = {"end"}
        /\ Len(queue) \in Nat
    BY <1>5, ConcatProperties, LenProperties DEF Base, DataOK, Ends
  <2>2. \A i \in 1 .. Len(queue') :
           \/ i \in 1 .. Len(queue) /\ queue'[i] = queue[i] /\ queue[i] \notin Ends
           \/ i = Len(queue) + 1 /\ queue'[i] = {"error"}
           \/ i = Len(queue) + 2 /\ queue'[i] = {"end"}
    BY <1>1, <2>1 DEF Passing, Sending, Reading
  <2>3. {"error"} \in Ends /\ {"end"} \in Ends /\ {"error"} # {"end"}
    BY DEF Ends
  <2>4. Continues'
    BY <1>1, <2>2, <2>3 DEF Continues
  <2>5. ASSUME NEW i \in 1 .. Len(queue'), NEW j \in 1 .. Len(queue'), i < j,
               queue'[i] \in Ends
        PROVE  queue'[j] \in Ends
    <3>1. i \notin 1 .. Len(queue)
      BY <2>1, <2>2, <2>5
    <3>2. j \notin 1 .. Len(queue)
      BY <2>1, <2>5, <3>1
    <3> QED BY <2>2, <2>3, <3>2
  <2>6. ASSUME NEW i \in 1 .. Len(queue'), queue'[i] = {"end"}
        PROVE  i = Len(queue') /\ i > 1 /\ queue'[i - 1] = {"error"}
    <3>1. i = Len(queue) + 2
      BY <2>2, <2>3, <2>6
    <3>2. i - 1 = Len(queue) + 1
      BY <2>1, <3>1
    <3> QED BY <2>1, <3>1, <3>2
  <2>7. Closes'
    BY <1>2, <2>5, <2>6 DEF Closes
  <2> QED BY <1>3, <2>4, <2>7
<1> QED BY <1>2, <1>4, <1>5 DEF Fails, Base, Control

LEMMA ReadEventKeepsChat == Base /\ Chat /\ ReadEvent => Chat'
<1> SUFFICES ASSUME Base, Chat, ReadEvent, kind = "chat"
             PROVE  Continues' /\ Closes' /\ Passing'
  BY DEF Chat, ReadEvent
<1>1. PICK event \in Events[kind] : sent' = Append(sent, event) /\ queue' = Append(queue, event)
  BY DEF ReadEvent
<1>2. event \in SUBSET Facts /\ event \notin Ends
  BY EventFacts, EndsApart
<1>3. /\ Len(sent') = Len(sent) + 1 /\ Len(queue') = Len(queue) + 1
      /\ \A i \in 1 .. Len(sent) : sent'[i] = sent[i]
      /\ \A i \in 1 .. Len(queue) : queue'[i] = queue[i]
      /\ sent'[Len(sent) + 1] = event /\ queue'[Len(queue) + 1] = event
      /\ Len(sent) \in Nat /\ Len(queue) \in Nat /\ Len(received) \in Nat
  BY <1>1, <1>2, AppendProperties, LenProperties DEF Base, DataOK
<1>4. Continues /\ Closes /\ Passing /\ Len(received) + Len(queue) = Len(sent)
        /\ \A i \in 1 .. Len(queue) : queue[i] \notin Ends
  BY DEF Chat, ReadEvent, Passing, Passed
<1>5. received' = received /\ outcome' = outcome /\ pc' \notin {"handoff", "topic"} /\ outcome # "ok"
  BY <1>4 DEF ReadEvent, Closes
<1>6. \A i \in 1 .. Len(queue') : queue'[i] \notin Ends
  BY <1>2, <1>3, <1>4
<1>7. Continues'
  <2>1. \A i \in 1 .. Len(queue') : i \in 1 .. Len(queue) \/ i = Len(queue) + 1
    BY <1>3
  <2>2. Len(received) + (Len(queue) + 1) = Len(sent) + 1
    BY <1>3, <1>4
  <2>3. ASSUME NEW i \in 1 .. Len(queue')
        PROVE  Len(received) + i <= Len(sent') /\ queue'[i] = sent'[Len(received) + i]
    <3>1. CASE i \in 1 .. Len(queue)
      <4>1. Len(received) + i \in 1 .. Len(sent) /\ queue[i] = sent[Len(received) + i]
        BY <1>3, <1>4, <3>1 DEF Continues
      <4> QED BY <1>3, <3>1, <4>1
    <3>2. CASE i = Len(queue) + 1
      BY <1>3, <2>2, <3>2
    <3> QED BY <2>1, <3>1, <3>2
  <2>4. \A i \in 1 .. Len(received) : received[i] = sent'[i]
    BY <1>3, <1>4 DEF Continues
  <2> QED BY <1>3, <1>4, <1>5, <2>3, <2>4 DEF Continues
<1>8. Closes'
  BY <1>5, <1>6 DEF Closes, Ends
<1>9. Passing'
  <2>1. Len(received') + Len(queue') = Len(sent')
    BY <1>3, <1>4, <1>5
  <2>2. pc' \notin {"handoff", "topic"} => Passed' = Len(sent')
    BY DEF Passed
  <2> QED BY <1>5, <1>6, <2>1, <2>2 DEF Passing
<1> QED BY <1>7, <1>8, <1>9

LEMMA ReadTopicKeepsChat == Base /\ Chat /\ ReadTopic => Chat'
<1> SUFFICES ASSUME Base, Chat, ReadTopic PROVE Chat'
  OBVIOUS
<1>1. CASE Fails /\ UNCHANGED sent
  BY <1>1, FailsKeepsChat DEF ReadTopic, Reading
<1>2. CASE pc' = "handoff" /\ UNCHANGED <<sent, queue, outcome>>
  BY <1>2, ChatStill DEF ReadTopic, Passed, Chat, Passing, Closes
<1>3. CASE FrameRead
  <2>0. pc' \in {"topic", "handoff"}
    BY <1>3, FrameAppended DEF ReadTopic
  <2> SUFFICES ASSUME kind = "chat" PROVE Continues' /\ Closes' /\ Passing'
    BY DEF Chat, ReadTopic
  <2>1. /\ Len(sent') \in Nat /\ Len(sent') >= Len(sent)
        /\ \A i \in 1 .. Len(sent) : sent'[i] = sent[i]
        /\ Len(sent) \in Nat /\ Len(received) \in Nat /\ Len(queue) \in Nat /\ sse \in Nat
    <3>1. /\ Len(sent') \in Nat /\ Len(sent') >= Len(sent) /\ Len(sent) \in Nat
          /\ \A i \in 1 .. Len(sent) : sent'[i] = sent[i]
      BY <1>3, FrameAppended
    <3>2. Len(received) \in Nat /\ Len(queue) \in Nat /\ sse \in Nat
      BY LenProperties, Constants DEF Base, DataOK
    <3> QED BY <3>1, <3>2
  <2>2. Continues /\ Closes /\ Passing /\ \A i \in 1 .. Len(queue) : queue[i] \notin Ends
    BY DEF Chat, ReadTopic, Passing
  <2>3. UNCHANGED <<received, sse, queue, outcome>> /\ pc = "topic" /\ outcome # "ok"
    BY <1>3, <2>2 DEF ReadTopic, Closes, FrameRead
  <2>4. Continues'
    BY <2>1, <2>2, <2>3 DEF Continues
  <2>5. Closes'
    BY <2>2, <2>3 DEF Closes, Ends
  <2>6. Passing'
    BY <2>0, <2>1, <2>2, <2>3 DEF Passing, Passed
  <2> QED BY <2>4, <2>5, <2>6
<1> QED BY <1>1, <1>2, <1>3 DEF ReadTopic, FrameRead

LEMMA FollowedKeepsChat == Base /\ Chat /\ Followed => Chat'
<1> SUFFICES ASSUME Base, Chat, Followed, kind = "chat"
             PROVE  Continues' /\ Closes' /\ Passing'
  BY DEF Chat, Followed
<1> DEFINE rest == SubSeq(sent, sse + 1, Len(sent))
           all == (SUBSET Facts) \cup Ends
<1>1. Continues /\ Closes /\ Len(received) + Len(queue) = sse /\ sse <= Len(sent)
        /\ \A i \in 1 .. Len(queue) : queue[i] \notin Ends
  BY DEF Chat, Followed, Passing, Passed
<1>2. /\ Len(sent) \in Nat /\ Len(received) \in Nat /\ Len(queue) \in Nat /\ sse \in Nat
      /\ sent \in Seq(all) /\ queue \in Seq(all) /\ <<{"end"}>> \in Seq(all)
  BY LenProperties, Constants DEF Base, DataOK, Ends
<1>3. /\ rest \in Seq(all) /\ Len(rest) = Len(sent) - sse
      /\ \A i \in 1 .. Len(rest) : rest[i] = sent[sse + i]
  BY <1>1, <1>2, SubSeqProperties
<1>4. queue' = queue \o rest \o <<{"end"}>> /\ UNCHANGED <<sent, received, outcome>>
        /\ pc' = "ended" /\ outcome # "ok"
  BY <1>1 DEF Followed, Closes
<1>5. Len(rest) \in Nat /\ {"end"} \in all
  BY <1>3, LenProperties DEF Ends
<1> HIDE DEF rest, all
<1>6. Len(queue') = Len(queue) + Len(rest) + 1
  <2>1. Len(queue \o rest \o <<{"end"}>>) = Len(queue) + Len(rest) + 1
    <3>1. queue \in Seq(all) /\ rest \in Seq(all) /\ {"end"} \in all
      BY <1>2, <1>3, <1>5
    <3> DEFINE e == {"end"}
    <3> HIDE DEF e
    <3>2. e \in all
      BY <3>1 DEF e
    <3>3. Len(queue \o rest \o <<e>>) = Len(queue) + Len(rest) + 1
      BY <3>1, <3>2, EndAppended
    <3> QED BY <3>3 DEF e
  <2>2. queue' = queue \o rest \o <<{"end"}>>
    BY <1>4
  <2> QED BY <2>1, <2>2
<1>7. \A i \in 1 .. Len(queue') :
         \/ i \in 1 .. Len(queue) /\ queue'[i] = queue[i]
         \/ i - Len(queue) \in 1 .. Len(rest) /\ queue'[i] = rest[i - Len(queue)]
         \/ i = Len(queue') /\ queue'[i] = {"end"}
  BY <1>2, <1>3, <1>4, <1>5, <1>6, EndAppended
<1>8. \A i \in 1 .. Len(rest) : rest[i] \notin Ends /\ rest[i] = sent[sse + i] /\ sse + i <= Len(sent)
  <2> SUFFICES ASSUME NEW i \in 1 .. Len(rest) PROVE rest[i] \notin Ends /\ sse + i <= Len(sent)
    BY <1>3
  <2>1. sse + i \in 1 .. Len(sent) /\ rest[i] = sent[sse + i]
    BY <1>1, <1>2, <1>3
  <2>2. sent[sse + i] \in SUBSET Facts
    BY <2>1, ElementOfSeq DEF Base, DataOK
  <2> QED BY <1>2, <2>1, <2>2, EndsApart
<1>9. \A i \in 1 .. Len(queue') :
         queue'[i] \notin Ends => /\ Len(received) + i <= Len(sent)
                                 /\ queue'[i] = sent[Len(received) + i]
  <2> SUFFICES ASSUME NEW i \in 1 .. Len(queue'), queue'[i] \notin Ends
               PROVE  Len(received) + i <= Len(sent) /\ queue'[i] = sent[Len(received) + i]
    OBVIOUS
  <2>1. CASE i \in 1 .. Len(queue) /\ queue'[i] = queue[i]
    BY <1>1, <2>1 DEF Continues
  <2>2. CASE i - Len(queue) \in 1 .. Len(rest) /\ queue'[i] = rest[i - Len(queue)]
    <3>1. sse + (i - Len(queue)) = Len(received) + i
      BY <1>1, <1>2
    <3> QED BY <1>8, <2>2, <3>1
  <2>3. queue'[i] # {"end"}
    BY DEF Ends
  <2> QED BY <1>7, <2>1, <2>2, <2>3
<1>10. \A i \in 1 .. Len(queue') : queue'[i] \in Ends => i = Len(queue')
  BY <1>1, <1>7, <1>8
<1>11. Len(queue') \in Nat /\ Len(received) + Len(queue') = Len(sent) + 1
  <2>1. Len(rest) = Len(sent) - sse /\ Len(received) + Len(queue) = sse
    BY <1>1, <1>3
  <2> QED BY <1>2, <1>5, <1>6, <2>1
<1>12. Continues'
  BY <1>1, <1>4, <1>9 DEF Continues
<1>13. Closes'
  <2>1. \A i, j \in 1 .. Len(queue') : i < j /\ queue'[i] \in Ends => queue'[j] \in Ends
    BY <1>10, <1>11
  <2>2. \A i \in 1 .. Len(queue') : queue'[i] = {"end"} =>
                                      i = Len(queue') /\ Len(received) + i = Len(sent) + 1
    BY <1>10, <1>11 DEF Ends
  <2> QED BY <1>4, <2>1, <2>2 DEF Closes
<1>14. Passing'
  BY <1>4 DEF Passing
<1> QED BY <1>12, <1>13, <1>14

LEMMA ConsumeKeepsChat == Base /\ Chat /\ Consume => Chat'
<1> SUFFICES ASSUME Base, Chat, Consume, kind = "chat"
             PROVE  Continues' /\ Closes' /\ Passing'
  BY DEF Chat, Consume
<1> DEFINE all == (SUBSET Facts) \cup Ends
<1>1. Continues /\ Closes /\ Passing
  BY DEF Chat
<1>2. /\ Len(queue) \in Nat \ {0} /\ Len(queue') = Len(queue) - 1
      /\ \A i \in 1 .. Len(queue') : queue'[i] = queue[i + 1]
      /\ Head(queue) = queue[1] /\ queue[1] \in all
      /\ Len(sent) \in Nat /\ Len(received) \in Nat /\ sse \in Nat
  <2>1. queue \in Seq(all) /\ queue # <<>> /\ queue' = Tail(queue)
    BY DEF Base, DataOK, Consume
  <2>2. Head(queue) \in all /\ Head(queue) = queue[1] /\ Len(queue) \in Nat /\ Len(queue) # 0
    BY <2>1, HeadTailProperties, LenProperties, EmptySeq
  <2>3. Len(Tail(queue)) = Len(queue) - 1
          /\ \A i \in 1 .. Len(Tail(queue)) : Tail(queue)[i] = queue[i + 1]
    BY <2>1, HeadTailProperties
  <2> QED BY <2>1, <2>2, <2>3, LenProperties, Constants DEF Base, DataOK
<1>3. UNCHANGED <<sent, pc, sse>> /\ outcome = "none"
  BY DEF Consume
<1>4. CASE queue[1] \notin Ends
  <2>1. received' = Append(received, queue[1]) /\ outcome' = "none"
    BY <1>2, <1>3, <1>4 DEF Consume, Ends
  <2>2. /\ Len(received') = Len(received) + 1 /\ received'[Len(received) + 1] = queue[1]
        /\ \A i \in 1 .. Len(received) : received'[i] = received[i]
    BY <1>2, <1>4, <2>1, AppendProperties DEF Base, DataOK
  <2>3. Len(received) + 1 <= Len(sent) /\ queue[1] = sent[Len(received) + 1]
    BY <1>1, <1>2, <1>4 DEF Continues
  <2>4. Continues'
    <3>1. \A i \in 1 .. Len(queue') : queue'[i] \notin Ends =>
             Len(received') + i <= Len(sent) /\ queue'[i] = sent[Len(received') + i]
      <4> SUFFICES ASSUME NEW i \in 1 .. Len(queue'), queue'[i] \notin Ends
                   PROVE  Len(received') + i <= Len(sent) /\ queue'[i] = sent[Len(received') + i]
        OBVIOUS
      <4>1. i + 1 \in 1 .. Len(queue) /\ queue'[i] = queue[i + 1]
        BY <1>2
      <4>2. Len(received') + i = Len(received) + (i + 1)
        BY <1>2, <2>2
      <4> QED BY <1>1, <4>1, <4>2 DEF Continues
    <3> QED BY <1>1, <1>2, <1>3, <2>2, <2>3, <3>1 DEF Continues
  <2>5. Closes'
    <3>1. ASSUME NEW i \in 1 .. Len(queue'), NEW j \in 1 .. Len(queue'), i < j,
                 queue'[i] \in Ends
          PROVE  queue'[j] \in Ends
      <4>1. i + 1 \in 1 .. Len(queue) /\ j + 1 \in 1 .. Len(queue) /\ i + 1 < j + 1
        BY <1>2, <3>1
      <4>2. queue'[i] = queue[i + 1] /\ queue'[j] = queue[j + 1]
        BY <1>2
      <4> QED BY <1>1, <3>1, <4>1, <4>2 DEF Closes
    <3>2. \A i \in 1 .. Len(queue') :
             queue'[i] = {"end"} => /\ i = Len(queue')
                                   /\ \/ Len(received') + i = Len(sent) + 1
                                      \/ i > 1 /\ queue'[i - 1] = {"error"}
      <4> SUFFICES ASSUME NEW i \in 1 .. Len(queue'), queue'[i] = {"end"}
                   PROVE  /\ i = Len(queue')
                          /\ Len(received') + i # Len(sent) + 1
                                => i > 1 /\ queue'[i - 1] = {"error"}
        OBVIOUS
      <4>1. i + 1 \in 1 .. Len(queue) /\ queue[i + 1] = {"end"}
        BY <1>2
      <4>2. i + 1 = Len(queue)
        BY <1>1, <4>1 DEF Closes
      <4>3. ASSUME Len(received') + i # Len(sent) + 1
            PROVE  i > 1 /\ queue'[i - 1] = {"error"}
        <5>1. Len(received) + (i + 1) # Len(sent) + 1
          BY <1>2, <2>2, <4>3
        <5>2. queue[(i + 1) - 1] = {"error"}
          BY <1>1, <1>3, <4>1, <5>1 DEF Closes
        <5>3. queue[i] = {"error"} /\ i # 1
          BY <1>4, <5>2 DEF Ends
        <5>4. i - 1 \in 1 .. Len(queue')
          BY <1>2, <5>3
        <5> QED BY <1>2, <5>3, <5>4
      <4> QED BY <1>2, <4>2, <4>3
    <3> QED BY <1>3, <2>1, <3>1, <3>2 DEF Closes
  <2>6. Passing'
    BY <1>1, <1>2, <1>3, <2>2 DEF Passing, Passed
  <2> QED BY <2>4, <2>5, <2>6
<1>5. CASE queue[1] \in Ends
  <2>1. \A i \in 1 .. Len(queue') : queue'[i] \in Ends
    BY <1>1, <1>2, <1>5 DEF Closes
  <2>2. pc = "ended" /\ received' = received
    BY <1>1, <1>2, <1>5 DEF Passing, Consume
  <2>3. Continues'
    BY <1>1, <1>3, <2>1, <2>2 DEF Continues
  <2>4. Passing'
    BY <1>3, <2>2 DEF Passing
  <2>5. CASE outcome' = "error"
    <3>1. \A i \in 1 .. Len(queue') : queue'[i] = {"end"} => i = Len(queue')
      <4> SUFFICES ASSUME NEW i \in 1 .. Len(queue'), queue'[i] = {"end"}
                   PROVE  i = Len(queue')
        OBVIOUS
      <4>1. i + 1 \in 1 .. Len(queue) /\ queue[i + 1] = {"end"}
        BY <1>2
      <4>2. i + 1 = Len(queue)
        BY <1>1, <4>1 DEF Closes
      <4> QED BY <1>2, <4>2
    <3>2. Closes'
      BY <2>1, <2>5, <3>1 DEF Closes
    <3> QED BY <2>3, <2>4, <3>2
  <2>6. CASE queue[1] = {"end"} /\ outcome' = "ok"
    <3>1. Len(received) = Len(sent)
      BY <1>1, <1>2, <1>3, <2>6 DEF Closes
    <3>2. received = sent
      BY <1>1, <3>1, SeqEqual DEF Continues, Base, DataOK
    <3>3. Len(queue') = 0
      BY <1>1, <1>2, <2>6 DEF Closes
    <3>4. Closes'
      BY <1>3, <2>2, <3>2, <3>3 DEF Closes
    <3> QED BY <2>3, <2>4, <3>4
  <2> QED BY <1>2, <1>5, <2>5, <2>6 DEF Consume
<1> QED BY <1>4, <1>5

LEMMA StepKeepsChat == Base /\ Chat /\ [Next]_vars => Chat'
<1> SUFFICES ASSUME Base, Chat, [Next]_vars PROVE Chat'
  OBVIOUS
<1>1. CASE Upload \/ RefreshTokens \/ Post
  <2>1. CASE Fails
    BY <1>1, <2>1, FailsKeepsChat DEF Upload, RefreshTokens, Post, Sending
  <2>2. CASE ~Fails
    <3>1. /\ UNCHANGED <<kind, sent, received, queue, outcome, sse>> /\ pc # "ended"
          /\ pc \notin {"handoff", "topic"} /\ pc' \notin {"handoff", "topic"}
      BY <1>1, <2>2 DEF Upload, RefreshTokens, Post, AfterUploads
    <3> QED BY <3>1, ChatStill DEF Passed, Chat, Closes
  <2> QED BY <2>1, <2>2
<1>2. CASE ReadEnd
  <2>1. CASE Fails /\ UNCHANGED sse
    BY <1>2, <2>1, FailsKeepsChat DEF ReadEnd, Reading
  <2>2. CASE pc' = "handoff" /\ sse' = Len(sent) /\ UNCHANGED <<queue, outcome>>
    <3>1. UNCHANGED <<kind, sent, received>> /\ pc = "sse" /\ Len(sent) \in Nat
      BY <1>2, LenProperties DEF ReadEnd, Base, DataOK
    <3> QED BY <2>2, <3>1, ChatStill DEF Passed, Chat, Closes
  <2> QED BY <1>2, <2>1, <2>2 DEF ReadEnd
<1>3. CASE OpenTopic
  <2>1. CASE Fails
    BY <1>3, <2>1, FailsKeepsChat DEF OpenTopic, Reading
  <2>2. CASE ~Fails
    <3>1. /\ UNCHANGED <<kind, sent, received, queue, outcome, sse>>
          /\ pc = "handoff" /\ pc' = "topic"
      BY <1>3, <2>2 DEF OpenTopic
    <3> QED BY <3>1, ChatStill DEF Passed, Chat, Closes, Passing
  <2> QED BY <2>1, <2>2
<1>4. CASE ReadEvent \/ ReadTopic \/ Followed \/ Consume
  BY <1>4, ReadEventKeepsChat, ReadTopicKeepsChat, FollowedKeepsChat, ConsumeKeepsChat
<1>5. CASE \/ ImageAnswer \/ Poll \/ Get \/ Download
           \/ ResearchAnswer \/ SkipSleep \/ Confirmed \/ OpenWidget \/ Listen \/ Receive
  <2>1. kind # "chat" /\ kind' = kind
    BY <1>5 DEF ImageAnswer, Poll, Get, Download, ResearchAnswer, SkipSleep, Confirmed,
                OpenWidget, Listen, Receive, Base, Control, Sending, Reading
  <2> QED BY <2>1 DEF Chat
<1>6. CASE Abandon
  BY <1>6, ChatStill DEF Abandon
<1>7. CASE Tick \/ Cancel \/ Done \/ UNCHANGED vars
  BY <1>7, ChatStill DEF Tick, Cancel, Done
<1> QED BY <1>1, <1>2, <1>3, <1>4, <1>5, <1>6, <1>7 DEF Next, ThreadStep

LEMMA ChatGivesOrder == Base /\ Chat => EventsInOrder
<1> SUFFICES ASSUME Base, Chat, kind = "chat" PROVE EventsInOrder
  BY DEF EventsInOrder
<1>1. Continues /\ Closes
  BY DEF Chat
<1>2. /\ DOMAIN sent = 1 .. Len(sent) /\ DOMAIN received = 1 .. Len(received)
      /\ DOMAIN queue = 1 .. Len(queue)
      /\ Len(sent) \in Nat /\ Len(received) \in Nat /\ Len(queue) \in Nat
  BY LenProperties DEF Base, DataOK
<1>3. \A i \in DOMAIN received : i \in DOMAIN sent /\ received[i] = sent[i]
  BY <1>1, <1>2 DEF Continues
<1>4. \A i \in DOMAIN queue :
         queue[i] \notin Ends => /\ Len(received) + i \in DOMAIN sent
                                /\ queue[i] = sent[Len(received) + i]
  BY <1>1, <1>2 DEF Continues
<1> QED BY <1>1, <1>3, <1>4 DEF EventsInOrder, Closes

\* A chat yields the events in the order ChatGPT sent them, whatever the lengths of the
\* answer and of its handoffs, and a normal end only after the last of them.
THEOREM OrderKept == Spec => []EventsInOrder
<1>1. Init => Chat
  BY EmptySeq DEF Init, Chat, Continues, Closes, Passing, Passed, AfterUploads
<1>2. Base /\ Chat /\ [Next]_vars => Chat'
  BY StepKeepsChat
<1>3. Base /\ Chat => EventsInOrder
  BY ChatGivesOrder
<1> QED BY <1>1, <1>2, <1>3, BaseHolds, PTL DEF Spec

=============================================================================
