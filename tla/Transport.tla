----------------------------- MODULE Transport -----------------------------
(***************************************************************************)
(* One call of the ChatGPT web transport: a streamed chat, an image or a   *)
(* deep research.  A chat is read by a worker thread that hands the events *)
(* to the coroutine of the request through a queue; an image or a research *)
(* runs in one thread and waits for its result, by polling the             *)
(* conversation or on the websocket of the research widget.  Another       *)
(* thread may ask for the call to be cancelled.                            *)
(*                                                                         *)
(* ChatGPT is the environment: every request may be refused or fail, and   *)
(* an event is the set of facts the transport looks for in it.             *)
(***************************************************************************)
EXTENDS Naturals, Sequences

CONSTANTS
    Events,      \* for each kind of call, the events ChatGPT may send
    InputLimit,  \* MAX_CHATGPT_INPUT_IMAGES
    MaxEvents    \* events of one answer; the timeout of the request ends it

Facts == {"text", "id", "message", "handoff", "done", "asset", "sediment", "input",
          "task", "widget", "plan", "report", "failed"}

ASSUME TransportAssumption ==
    /\ Events \in [{"chat", "image", "research"} -> SUBSET SUBSET Facts]
    /\ InputLimit \in Nat /\ MaxEvents \in Nat

VARIABLES
    kind, inputs, refresh,  \* the call: files to upload, whether tokens are refreshed
    pc, phase,              \* its thread; phase: the question or the plan's confirmation
    files, topic, socket,   \* files uploaded, handoff looked for next, open websocket
    sent, sse, queue,       \* events received, how many before the handoffs, and the
                            \* items on their way to the coroutine of a chat
    received, outcome,      \* what the caller got, and how the call ended
    known, sawTask,         \* facts of the first answer; an image task was seen
    assets, images,         \* pointers still to download, pictures downloaded
    clock,                  \* 1: the next wait ends past the deadline, 2: it has passed
    cancelled, told, waits  \* cancellation asked, ChatGPT told, waits finished since

callVars == <<kind, inputs, refresh>>
sendVars == <<files, topic, socket, sent, sse>>
chatVars == <<queue, received>>
imageVars == <<sawTask, assets, images>>
cancelVars == <<cancelled, told, waits>>
vars == <<callVars, pc, phase, sendVars, chatVars, outcome, known, imageVars, clock,
          cancelVars>>

Pointers == {"asset", "sediment", "input"}
Pcs == {"create", "put", "mark", "prepare", "requirements", "post", "sse", "handoff",
        "topic", "answer", "poll", "get", "download", "skip", "widget", "loop", "recv",
        "ended"}

------------------------------------------------------------------------------
(* How a call goes on and ends *)

AfterUploads == IF refresh THEN "prepare" ELSE "post"

Init ==
    /\ kind \in DOMAIN Events
    /\ inputs \in IF kind = "research" THEN {0} ELSE 0 .. InputLimit + 1
    /\ refresh \in BOOLEAN
    /\ pc = IF inputs > 0 THEN "create" ELSE AfterUploads
    /\ phase = "ask"
    /\ files = 0 /\ topic = 1 /\ socket = FALSE /\ sent = <<>> /\ sse = 0
    /\ queue = <<>> /\ received = <<>> /\ outcome = "none" /\ known = {}
    /\ sawTask = FALSE /\ assets = {} /\ images = {} /\ clock = 0
    /\ cancelled = FALSE /\ told = FALSE /\ waits = 0

\* Facts of the answer being read.
Found(f) == \E i \in DOMAIN sent : f \in sent[i]

Keep(extra) == UNCHANGED <<callVars, extra>>

\* The call ends in its own thread; open sockets are closed on the way out.
EndCall(how) ==
    /\ pc' = "ended"
    /\ outcome' = how
    /\ socket' = FALSE

\* The worker of a chat is running: its errors reach the caller as an item.
Streaming == kind = "chat" /\ pc \in {"post", "sse", "handoff", "topic"}

\* A request to ChatGPT is refused or breaks.  While the plan of a research
\* is being confirmed a refusal is only noted, other errors end the call.
Fails ==
    \/ /\ Streaming
       /\ pc' = "ended" /\ socket' = FALSE
       /\ queue' = queue \o <<{"error"}, {"end"}>>
       /\ UNCHANGED outcome
    \/ /\ ~Streaming
       /\ EndCall("error")
       /\ UNCHANGED queue
    \/ /\ phase = "confirm" /\ pc \in {"prepare", "requirements", "post", "handoff"}
       /\ pc' = "widget" /\ socket' = FALSE
       /\ UNCHANGED <<queue, outcome>>

\* A mutant of StopCall: the call ends without a word to ChatGPT.
StopCallSilently ==
    /\ cancelled
    /\ EndCall("cancelled")
    /\ UNCHANGED told

CanStop == "id" \in known /\ (kind = "research" => "message" \in known)

\* stop_conversation or stop_deep_research, then the call ends as cancelled;
\* when ChatGPT refuses, with that error.
StopCall ==
    /\ cancelled
    /\ \/ /\ EndCall("cancelled")
          /\ told' = CanStop
       \/ /\ CanStop
          /\ EndCall("error")
          /\ UNCHANGED told

------------------------------------------------------------------------------
(* Sending the question *)

\* Three requests for each input: create the file, put the data, mark it.
Upload ==
    /\ pc \in {"create", "put", "mark"}
    /\ \/ /\ kind = "image" => inputs <= InputLimit
          /\ \/ pc = "create" /\ pc' = "put" /\ UNCHANGED files
             \/ pc = "put" /\ pc' = "mark" /\ UNCHANGED files
             \/ /\ pc = "mark"
                /\ files' = files + 1
                /\ pc' = IF files' < inputs THEN "create" ELSE AfterUploads
          /\ UNCHANGED <<socket, queue, outcome>>
       \/ Fails /\ UNCHANGED files
    /\ Keep(<<phase, topic, sent, sse, received, known, imageVars, clock, cancelVars>>)

\* _refresh_web_tokens: prepare, then the requirements and their proof of work.
RefreshTokens ==
    /\ pc \in {"prepare", "requirements"}
    /\ \/ /\ pc' = IF pc = "prepare" THEN "requirements" ELSE "post"
          /\ UNCHANGED <<socket, queue, outcome>>
       \/ Fails
    /\ Keep(<<phase, files, topic, sent, sse, received, known, imageVars, clock,
              cancelVars>>)

Post ==
    /\ pc = "post"
    /\ \/ pc' = "sse" /\ UNCHANGED <<socket, queue, outcome>>
       \/ Fails
    /\ Keep(<<phase, files, topic, sent, sse, received, known, imageVars, clock,
              cancelVars>>)

\* An input can only be seen in an answer if there was one.
MaySend(event) == "input" \in event => inputs > 0

\* One event of the answer.  The worker of a chat passes it on at once;
\* when the caller is gone, its loop is closed sooner or later, and handing
\* over an event then ends the worker.
ReadEvent ==
    /\ pc = "sse"
    /\ Len(sent) < MaxEvents
    /\ \E event \in Events[kind] :
        /\ "done" \notin event /\ MaySend(event)
        /\ sent' = Append(sent, event)
        /\ queue' = IF kind = "chat" THEN Append(queue, event) ELSE queue
    /\ pc' \in IF outcome = "gone" THEN {"sse", "ended"} ELSE {"sse"}
    /\ Keep(<<phase, files, topic, socket, sse, received, outcome, known, imageVars,
              clock, cancelVars>>)

\* The answer ends, or breaks off.
ReadEnd ==
    /\ pc = "sse"
    /\ \/ pc' = "handoff" /\ sse' = Len(sent) /\ topic' = 1
          /\ UNCHANGED <<socket, queue, outcome>>
       \/ Fails /\ UNCHANGED <<sse, topic>>
    /\ Keep(<<phase, files, sent, received, known, imageVars, clock, cancelVars>>)

------------------------------------------------------------------------------
(* Handoffs: the answer goes on in a topic of a websocket *)

Handoffs == {i \in topic .. sse : "handoff" \in sent[i]}

\* The next handoff is followed: the address is asked for, the socket opened.
OpenTopic ==
    /\ pc = "handoff" /\ Handoffs # {}
    /\ \/ /\ \E i \in Handoffs : (\A j \in Handoffs : i <= j) /\ topic' = i + 1
          /\ pc' = "topic" /\ socket' = TRUE
          /\ UNCHANGED <<queue, outcome>>
       \/ Fails /\ UNCHANGED topic
    /\ Keep(<<phase, files, sent, sse, received, known, imageVars, clock, cancelVars>>)

\* Frames of events until one of them says "done", which ends the reading after
\* the last event of its frame; a silence or the deadline ends it as well, with
\* what has come so far.
ReadTopic ==
    /\ pc = "topic"
    /\ \/ /\ \E n \in 1 .. 2 * MaxEvents - Len(sent) :
            \E frame \in [1 .. n -> Events[kind]] :
              /\ \A i \in 1 .. n : MaySend(frame[i])
              /\ sent' = sent \o frame
              /\ IF \E i \in 1 .. n : "done" \in frame[i]
                 THEN pc' = "handoff" /\ socket' = FALSE
                 ELSE UNCHANGED <<pc, socket>>
          /\ UNCHANGED <<queue, outcome>>
       \/ /\ pc' = "handoff" /\ socket' = FALSE
          /\ UNCHANGED <<sent, queue, outcome>>
       \/ Fails /\ UNCHANGED sent
    /\ Keep(<<phase, files, topic, sse, received, known, imageVars, clock, cancelVars>>)

\* What the answer to the question tells of conversation, message and widget.
Learn == known' = IF phase = "ask" /\ kind # "chat"
                  THEN UNION {sent[i] : i \in DOMAIN sent}
                  ELSE known

\* A mutant of Followed: the end overtakes the events of the handoffs.
FollowedEndFirst ==
    /\ pc = "handoff" /\ Handoffs = {}
    /\ Learn
    /\ IF kind = "chat"
       THEN /\ pc' = "ended"
            /\ queue' = Append(queue, {"end"}) \o SubSeq(sent, sse + 1, Len(sent))
       ELSE pc' = "answer" /\ UNCHANGED queue
    /\ Keep(<<phase, sendVars, received, outcome, imageVars, clock, cancelVars>>)

\* All handoffs are read.  A chat passes their events on only now, together.
Followed ==
    /\ pc = "handoff" /\ Handoffs = {}
    /\ Learn
    /\ IF kind = "chat"
       THEN /\ pc' = "ended"
            /\ queue' = queue \o SubSeq(sent, sse + 1, Len(sent)) \o <<{"end"}>>
       ELSE pc' = "answer" /\ UNCHANGED queue
    /\ Keep(<<phase, sendVars, received, outcome, imageVars, clock, cancelVars>>)

------------------------------------------------------------------------------
(* The caller of a chat *)

\* Items that are not events: an error, and the end.
Ends == {{"error"}, {"end"}}

\* The coroutine takes the next item and yields it as a delta.
Consume ==
    /\ outcome = "none" /\ queue # <<>>
    /\ queue' = Tail(queue)
    /\ \/ Head(queue) = {"error"} /\ outcome' = "error" /\ UNCHANGED received
       \/ Head(queue) = {"end"} /\ outcome' = "ok" /\ UNCHANGED received
       \/ /\ Head(queue) \notin Ends
          /\ received' = Append(received, Head(queue)) /\ UNCHANGED outcome
    /\ Keep(<<pc, phase, sendVars, known, imageVars, clock, cancelVars>>)

\* The request goes away between two deltas; nothing tells the worker.
Abandon ==
    /\ outcome = "none" /\ received # <<>>
    /\ outcome' = "gone"
    /\ Keep(<<pc, phase, sendVars, chatVars, known, imageVars, clock, cancelVars>>)

------------------------------------------------------------------------------
(* Images *)

\* The pointers made from the ids of the uploaded files.  Only these very pointers
\* are known for inputs: one that ChatGPT shows under another pointer ("asset",
\* "sediment") is a picture like any other.
InputAssets == {"input"}

\* A mutant of Pictures: the uploaded inputs are not left out.
PicturesAndInputs(facts) == facts \cap Pointers

Pictures(facts) == (facts \cap Pointers) \ InputAssets

\* The answer of an image: its pictures, a conversation to poll, or nothing.
ImageAnswer ==
    /\ kind = "image" /\ pc = "answer"
    /\ \/ /\ "id" \in known /\ StopCall
          /\ UNCHANGED assets
       \/ /\ "id" \notin known \/ ~cancelled
          /\ assets' = Pictures(known)
          /\ IF assets' = {} /\ "id" \notin known
             THEN EndCall("error")
             ELSE /\ pc' = IF assets' # {} THEN "download" ELSE "poll"
                  /\ UNCHANGED <<socket, outcome>>
          /\ UNCHANGED told
    /\ Keep(<<phase, files, topic, sent, sse, chatVars, known, sawTask, images, clock,
              cancelled, waits>>)

\* A mutant of Late: not while an image task is known.
LateUnlessTask == clock = 2 /\ ~sawTask
\* The deadline has passed: the waiting loops give up.
Late == clock = 2

\* The top of the polling loop: the deadline, then the cancellation.
Poll ==
    /\ pc = "poll"
    /\ \/ Late /\ EndCall("error") /\ UNCHANGED told
       \/ ~Late /\ StopCall
       \/ /\ ~Late /\ ~cancelled
          /\ pc' = "get"
          /\ UNCHANGED <<socket, outcome, told>>
    /\ Keep(<<phase, files, topic, sent, sse, chatVars, known, imageVars, clock,
              cancelled, waits>>)

CountWait == waits' = IF cancelled THEN waits + 1 ELSE waits

\* One look at the conversation.  Without a task nobody waits past the deadline.
Get ==
    /\ pc = "get"
    /\ CountWait
    /\ \/ EndCall("error") /\ UNCHANGED <<assets, sawTask>>
       \/ \E data \in SUBSET (Pointers \cup {"task"}) :
            /\ MaySend(data)
            /\ assets' = Pictures(data)
            /\ IF assets' # {}
               THEN pc' = "download" /\ UNCHANGED <<socket, outcome, sawTask>>
               ELSE /\ sawTask' = (sawTask \/ "task" \in data)
                    /\ IF ~sawTask' /\ clock >= 1
                       THEN EndCall("error")
                       ELSE pc' = "poll" /\ UNCHANGED <<socket, outcome>>
    /\ Keep(<<phase, files, topic, sent, sse, chatVars, known, images, clock, cancelled,
              told>>)

\* One picture after the other; the first that fails fails the call.
Download ==
    /\ pc = "download"
    /\ \E a \in assets :
        \/ EndCall("error") /\ UNCHANGED <<assets, images>>
        \/ /\ a = "sediment" => "id" \in known
           /\ images' = images \cup {a}
           /\ assets' = assets \ {a}
           /\ IF assets' = {} THEN EndCall("ok") ELSE UNCHANGED <<pc, outcome, socket>>
    /\ Keep(<<phase, files, topic, sent, sse, chatVars, known, sawTask, clock,
              cancelVars>>)

------------------------------------------------------------------------------
(* Deep research *)

\* The answer of a research: a report, plain text, or a widget to listen to,
\* whose session is reported before the first look at the cancellation.
ResearchAnswer ==
    /\ kind = "research" /\ phase = "ask" /\ pc = "answer"
    /\ \/ /\ Found("report") \/ ~Found("widget")
          /\ EndCall("ok") /\ UNCHANGED told
       \/ /\ Found("widget") /\ ~Found("report")
          /\ \/ StopCall
             \/ ~cancelled /\ pc' = "skip" /\ UNCHANGED <<socket, outcome, told>>
    /\ Keep(<<phase, files, topic, sent, sse, chatVars, known, imageVars, clock,
              cancelled, waits>>)

\* skip_sleep is tried, its refusal ignored; a plan that waits for the user
\* is confirmed when conversation and message are known.
SkipSleep ==
    /\ pc = "skip"
    /\ \/ CanStop /\ EndCall("error") /\ UNCHANGED <<phase, sent>>
       \/ /\ UNCHANGED <<outcome, socket>>
          /\ IF "plan" \in known /\ CanStop
             THEN pc' = "prepare" /\ phase' = "confirm" /\ sent' = <<>>
             ELSE pc' = "widget" /\ UNCHANGED <<phase, sent>>
    /\ Keep(<<files, topic, sse, chatVars, known, imageVars, clock, cancelVars>>)

\* The answer to the confirmation may be the report already; the status asked
\* for after it may break the call.
Confirmed ==
    /\ phase = "confirm" /\ pc = "answer"
    /\ \/ Found("report") /\ EndCall("ok")
       \/ ~Found("report") /\ pc' = "widget" /\ UNCHANGED <<outcome, socket>>
       \/ EndCall("error")
    /\ Keep(<<phase, files, topic, sent, sse, chatVars, known, imageVars, clock,
              cancelVars>>)

OpenWidget ==
    /\ pc = "widget"
    /\ \/ pc' = "loop" /\ socket' = TRUE /\ UNCHANGED outcome
       \/ EndCall("error")
    /\ Keep(<<phase, files, topic, sent, sse, chatVars, known, imageVars, clock,
              cancelVars>>)

\* The top of the listening loop: the deadline, then the cancellation.
Listen ==
    /\ pc = "loop"
    /\ \/ Late /\ EndCall("error") /\ UNCHANGED told
       \/ ~Late /\ StopCall
       \/ /\ ~Late /\ ~cancelled
          /\ pc' = "recv"
          /\ UNCHANGED <<socket, outcome, told>>
    /\ Keep(<<phase, files, topic, sent, sse, chatVars, known, imageVars, clock,
              cancelled, waits>>)

\* get_state at most every 15 seconds, its refusal ignored: a report, or nothing.
GetState ==
    \/ CanStop /\ EndCall("ok")
    \/ pc' = "loop" /\ UNCHANGED <<outcome, socket>>

\* A message of the widget, or the silence of a timeout, which is also an
\* occasion to look at the cancellation.
Receive ==
    /\ pc = "recv"
    /\ CountWait
    /\ \/ \E event \in Events["research"] :
            /\ \/ "report" \in event /\ EndCall("ok")
               \/ "report" \notin event /\ "failed" \in event /\ EndCall("error")
               \/ event \cap {"report", "failed"} = {} /\ GetState
            /\ UNCHANGED told
       \/ StopCall
       \/ ~cancelled /\ GetState /\ UNCHANGED told
       \/ EndCall("error") /\ UNCHANGED told
    /\ Keep(<<phase, files, topic, sent, sse, chatVars, known, imageVars, clock,
              cancelled>>)

------------------------------------------------------------------------------
(* Time, and the thread that cancels *)

Tick ==
    /\ pc \in {"poll", "get", "loop", "recv"} /\ clock < 2
    /\ clock' = clock + 1
    /\ Keep(<<pc, phase, sendVars, chatVars, outcome, known, imageVars, cancelVars>>)

\* Only images and researches are asked; a chat is stopped by its reader.
Cancel ==
    /\ kind # "chat" /\ pc # "ended" /\ ~cancelled
    /\ cancelled' = TRUE
    /\ Keep(<<pc, phase, sendVars, chatVars, outcome, known, imageVars, clock, told,
              waits>>)

Ended == pc = "ended" /\ outcome # "none"
Done == Ended /\ UNCHANGED vars

ThreadStep ==
    \/ Upload \/ RefreshTokens \/ Post \/ ReadEvent \/ ReadEnd
    \/ OpenTopic \/ ReadTopic \/ Followed
    \/ ImageAnswer \/ Poll \/ Get \/ Download
    \/ ResearchAnswer \/ SkipSleep \/ Confirmed \/ OpenWidget \/ Listen \/ Receive

Next == ThreadStep \/ Consume \/ Abandon \/ Tick \/ Cancel \/ Done

\* Threads run; every request has a timeout, so that each step of them ends.
Spec == Init /\ [][Next]_vars /\ WF_vars(ThreadStep) /\ WF_vars(Consume) /\ WF_vars(Tick)

------------------------------------------------------------------------------
(* Properties *)

\* Types; a websocket is open only while it is read.
TypeOK ==
    /\ kind \in DOMAIN Events /\ inputs \in 0 .. InputLimit + 1 /\ refresh \in BOOLEAN
    /\ pc \in Pcs /\ phase \in {"ask", "confirm"}
    /\ files \in 0 .. inputs /\ topic \in Nat \ {0} /\ sse \in 0 .. MaxEvents
    /\ socket \in BOOLEAN /\ (socket <=> pc \in {"topic", "loop", "recv"})
    /\ sent \in Seq(SUBSET Facts) /\ received \in Seq(SUBSET Facts)
    /\ queue \in Seq((SUBSET Facts) \cup Ends)
    /\ outcome \in {"none", "ok", "error", "cancelled", "gone"}
    /\ known \subseteq Facts /\ sawTask \in BOOLEAN
    /\ assets \subseteq Pointers /\ images \subseteq Pointers
    /\ clock \in 0 .. 2
    /\ cancelled \in BOOLEAN /\ told \in BOOLEAN /\ waits \in Nat

\* What a chat yields is what ChatGPT sent, in the order it sent it, across
\* the thread boundary and the handoffs to websockets: what was received and what
\* is still in the queue continue one another, nothing overtakes an event, and the
\* normal end comes after the last one (_stream_conversation_events).
EventsInOrder ==
    kind = "chat" =>
        /\ \A i \in DOMAIN received : i \in DOMAIN sent /\ received[i] = sent[i]
        /\ \A i \in DOMAIN queue :
              queue[i] \notin Ends => /\ Len(received) + i \in DOMAIN sent
                                     /\ queue[i] = sent[Len(received) + i]
        /\ outcome = "ok" => received = sent

\* No pointer of a file uploaded for the request is handed back as a picture,
\* although the conversation shows these too, in the answer and at every look
\* at it; and a call that ends well has downloaded every picture it found
\* (_generate_image_sync).
NoInputReturned == "input" \notin images /\ (outcome = "ok" => assets = {})

\* A call that ends as cancelled has told ChatGPT to stop whenever it could,
\* and a cancellation is noticed after at most one more wait, whether the
\* call polls or listens (_poll_generated_image_assets,
\* _read_deep_research_widget_report).
CancelIsFollowed ==
    /\ outcome = "cancelled" => told \/ ~CanStop
    /\ waits <= 1

\* Every call ends, and so does the worker of a chat whose caller is gone
\* (the deadlines of the two waiting loops, and the timeouts of requests).
CallEnds == <>Ended
=============================================================================
