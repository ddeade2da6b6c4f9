# chatgpt-api: specifications, model checking and proofs

`chatgpt-api` is a bridge that offers the ChatGPT web application behind an
OpenAI-compatible HTTP server.  A request is routed to one of several ChatGPT accounts,
within limits per account and per feature, and carried out by a web transport that
streams, polls or listens; requests to run tools are checked and sometimes asked for
again.  Beside these routes the bridge runs *agent jobs*: a client submits a chat or
deep-research job, polls for it, may cancel it, and fetches its result, while the
bridge executes it in the background, retries it, and takes it up again after a
restart.  This directory holds the TLA+ specifications of that machinery, their TLC
configurations, and proofs checked by TLAPS.  Source paths below are relative to the
repository.

## 1. Inventory

| Component | State it keeps | Operations | Interacts with | What makes it hard | What makes it correct |
| --- | --- | --- | --- | --- | --- |
| Repository (`chatgpt_api/api/agent_jobs.py`, tables in `admin_store.py`) | SQLite rows: jobs, attempts, results, events | create, transition, claim, renew, schedule_retry, promote, complete, cancel, finalize, recover | called by routes, coordinator, executor, renewer, each on a connection of its own | every update is a compare-and-swap against other threads and other processes on the same file | result row iff succeeded; cancellation is sticky; lease belongs to the newest claim; deadline iff waiting |
| Coordinator (`agent_job_coordinator.py`) | thread, wake and stop events | start (with recovery), run_once, stop | repository, executor | runs the executor inside its own cycle; survives any exception | no job is forgotten by a cycle that fails |
| Executor and renewer (`openai_compat.py`, `_build_agent_job_executor`) | the claim in hand, `lease_lost`, the renewer thread | claim, load, check, call the provider, register, write, complete, finish, retry, fail, cancel | repository, files, artifact rows, operation registry | a cancellation, a lapse of the lease or a crash between any two of its steps | result backed by files; budget of attempts; cancellation honoured |
| Routes (`agent_job_routes.py`) | request files | submit, cancel, read-only routes | repository, coordinator's wake event | row, file and queueing are three steps; idempotency keys | a job that can be picked up has its request |
| Text and research execution (`text_execution.py`, `research_execution.py`) | response file; nothing else survives a call | provider calls with retries, atomic writes | accounts, limiters, transport | an answer refused by one check is asked for again and must not come back through another | what was refused stays out; one outcome |
| Tool-call policy (`openai_compat.py`, `text_execution.py`) | the transcript, kept by the client | answer a turn: filter repeats, check policy and quality, ask again, fall back, say Done. | the client that runs the tools | the memory of the loop is the client's transcript | no successful call is repeated; Done. is earned; the loop ends |
| Account router and limiters (`openai_compat.py`) | semaphores per account and per feature, saved settings | order the accounts, preflight, acquire, release, fail over, reconfigure | every provider call | limits change while permits are held; nesting; a stream that has begun to speak | permits come back; limits hold; no deadlock; one voice per answer |
| Operation registry (`openai_compat.py`) | `_CHATGPT_OPERATIONS` | create, update, stop, finish, prune | cancel routes, provider callbacks | ids of the remote operation arrive late | a requested stop is carried out when it can be |
| Image deduplication (`openai_compat.py`) | `_IMAGE_REQUEST_CACHE` | join or produce, publish, expire | image routes | one producer, many waiting threads | one production per key; nobody waits for good |
| Web transport (`providers/chatgpt/transport.py`) | one call: its thread, a queue, a websocket, a deadline | upload, refresh tokens, post, read, follow handoffs, poll, download, confirm a plan, listen, stop | ChatGPT, the operation registry | threads, sockets, deadlines, cancellation at any moment | events in order; inputs never handed back; cancellation followed; every call ends |
| Captures and keys (`accounts.py`, `crypto.py`, `cli.py`) | a capture file per account, key file, salt file, passphrase | save, load, delete; `secrets rotate` | server threads and a command in another process, on the same files | rotation rewrites what the server reads and writes; no step of it is atomic | captures survive a rotation and stay readable |
| Download and artifact store (`admin_store.py`, `openai_compat.py`) | `artifacts` rows, download map | record, list, delete | executor, image routes | written before the job is known to succeed | reports listed with their job |
| Character game (`apps/character-game`) | sessions, messages, image jobs | turns, images, cancellation | the bridge | model calls between a read and a write | no lost update; a cancelled image stays cancelled |
| Provider core, account information, models (`core`, `account_info.py`, `models.py`) | a dictionary filled at start-up | lookups, parsing | remote service | - | - |
| Command line, console, helpers (`cli.py`, `apps/bridge-console`, `http_utils.py`, ...) | none | parsing, printing | the above | sequential | - |

The interactions that matter: route handlers (many threads), the coordinator
thread, the renewer thread and, when two bridges share a database, another
process, meet only in SQLite.  Files are written beside the database and are not
part of its transactions.  Requests meet in memory: in the semaphores of the limiters,
the image cache and the operation registry, none of which survives a restart.  The
transport learns of a cancellation only by asking the registry.  The command line
meets the server in the files of captures and keys.

Two facts of the environment are part of every model here.  A repository method
runs its updates in one SQLite transaction, so it is one step; a method that reads
first and updates later does so under a compare-and-swap, so its effect is that of
one step, unless the updates depend on what was read (`recover_stale_jobs`, which
is two steps).  A file is replaced atomically (`os.replace`).

## 2. Modules

| Module | Models | Used by |
| --- | --- | --- |
| `AgentJobs` | the repository: one operator per transaction, and `RepoSpec`, the repository under callers that use it in any order | `AgentJobExecution` |
| `AgentJobExecution` | submission and cancellation handlers, coordinator, executor, renewer, files, crashes, refused storage operations, composed with the repository | `MCAgentJobExecution` |
| `JobLifecycle` | abstract: what a client may rely on | `AgentJobExecution` (refinement) |
| `MCAgentJobExecution` | constants of the instances | TLC |
| `OperationRegistry` | the in-memory operations of deep-research jobs, the account loop, the transport's cancellation checks, stops of other threads | TLC |
| `BridgeRequests` | synchronous requests of every kind: image cache, operation, order of accounts, preflight, permits, provider call, failover, settings saved meanwhile, cancellation, answer | `MCBridgeRequests` |
| `MCBridgeRequests` | the five servers of its instance | TLC |
| `AgentTurns` | the turns of a tool-using conversation, and the client that runs the tools | `MCAgentTurns` |
| `MCAgentTurns` | calls, texts and results of its instance | TLC |
| `Transport` | one call of the web transport against a ChatGPT that may do anything | `MCTransport` |
| `MCTransport` | the events of its instance | TLC |
| `AccountSecrets` | capture files, keys, server threads and `secrets rotate` | `MCAccountSecrets` |
| `MCAccountSecrets` | symmetry of accounts | TLC |
| `AgentJobsProofs` | theorems about `RepoSpec` | the next two |
| `AgentJobExecutionProofs` | the inductive invariant of the bridge; that it implements `RepoSpec` | the next |
| `AgentJobSafetyProofs` | what needs files, attempts and processes; with one process: attempt budget, backed and final results, refinement of `JobLifecycle` | - |
| `AgentTurnsProofs` | the safety properties of `AgentTurns`, and that a turn is bounded | - |
| `TransportProofs` | types, order, pictures and cancellation of `Transport` | - |
| `AccountSecretsProofs` | types and the two safety properties of `AccountSecrets` | - |
| `BridgeRequestsProofs` | all invariants of `BridgeRequests`, and that a request is bounded | - |
| `OperationRegistryProofs` | types and the two invariants of `OperationRegistry` | - |

What composes what: `AgentJobExecution` is the repository with everything that works on
it.  Its step `ProviderReturns` is a whole request; `OperationRegistry` looks inside it for
a research job, `BridgeRequests` for the synchronous routes, and `Transport` inside the
provider call that those two take as one step.  `AgentTurns` is what one chat request does
with the answers it gets.

### How the models correspond to the code

**`AgentJobs`.**  `status`, `attemptCount`, `leaseOwner`, `nextRetry` are columns
of `agent_jobs`; `attempts` is the status column of `job_attempts`; `result` says
which attempt wrote the row of `job_results`.  A lease owner is a fresh
`agent-job-worker:<uuid>` per claim, and so is an attempt number, hence the owner
is represented by the attempt it claimed (0 for NULL).  Timestamps appear only as
the comparisons the queries make: `leaseExpired` is `lease_expires_at < now`, and
`nextRetry` is `"later"` or `"due"`; `LeaseLapses` and `BackoffElapses` are the
clock passing such a value.  Of the event log only the `from` field of the
cancellation event is ever read back (`finalize_pending_cancellations`), and that is
`cancelFrom`.  `RecoverStaleJobs` takes the list of stale jobs as a parameter: the
code selects it before it opens the write transaction.

**`AgentJobExecution`.**  One value of `pc[w]` per place between two steps of the
process `w`: the coordinator's cycle (`idle`, `finalize`, `select`), the executor's
`try` block (`claim`, `load`, `check`, `recheck`, `provider`, `verify`,
`register`, `write`, `complete`, `lostRace`, `finish`) and what follows it
(`failing`, `failAttempt`, `retry`, `fail`), with `finalize_cancelled` as the pair
`cancelAttempt`/`cancelJob` inside the block and its `tail` variants behind it.  The
two differ: an exception inside the block leads to its handlers, one behind it
leaves the executor.  `Raise` is the former, `Drop` the latter.  `MustStop` is the
test `latest.status == "cancel_requested" or lease_lost.is_set()`.  `outcome` first
holds whether the error is retryable, and then what was decided on the single read
of the job after the error: that is the window in which another thread may
change the job.  The provider call is abstracted to its outcome: an answer, an error
that may be retried, an error that may not.

Faults: `WorkerFault` and `SubmitFault` are a storage operation that raises (locked
longer than `busy_timeout`, disk full), including one that ends the renewer
thread without telling the executor; `Crash` is the death of a process, also that
of a coordinator whose `stop()` gave up waiting for its daemon thread.  Failing file
writes are always possible and not counted.

**`JobLifecycle`.**  Phases in place of statuses, no leases and no files: a job is
taken up at most `max_attempts` times, is answered in the step in which it
succeeds, can only end cancelled once cancelled, and never leaves a terminal phase.
The mapping is `PhaseOf`.

**`OperationRegistry`** looks inside the step that is `ProviderReturns` above, for one
research job in one process: the registry is memory of that process, and operations
share nothing but its lock.  `records` are the operation objects in the order of
their creation, `current` the one found under the id; an attempt replaces the
record of the one before.  `pc` walks through an attempt: register, look at the job
again, bind an account (`Bind`, or `Skip` after its preflight), start the research
(`Post`), report its identifiers (`Report`), look whether the operation was
cancelled (`CheckCancelled`, repeated while it waits), finish.  The conversation,
message and session identifiers are reported by one call and represented by the
account whose research they name; `remote` is what that research really does.  A stop
(`Lookup`, `Mark`, `ReadProvider`, `StopSession`) is run by the threads of the cancel
routes and by the executor itself, which waits for it; provider and identifiers are
read without the lock, hence two steps.  ChatGPT may refuse a stop (`stopFailed`), and
a request that does not get through leaves the procedure by an exception
(`StopRaises`).  Job statuses are reduced to those the executor meets.

**`BridgeRequests`** follows requests through their life.  `server` holds what was
configured (kinds of requests it gets, accounts, strategy, accounts that are named by
requests, limits that may be saved), `limiters` a sequence of semaphores `[size, free]` for
each feature and account, of which the last is the one found by new requests, and `held`
the ones a request has acquired: a saved setting appends a semaphore, a permit goes back
to the one it came from.  `turn` is the round-robin counter; `loop` what a request still
has to try and what it does meanwhile; `cache`, `entry` and `producer` are the image
cache, the entry a request waits for, and who fills it; `delivered` is what a stream has
already said; `op`, `cancelled` and `noticed` the operation of the request.  `dirty` are the
accounts whose own limiter follows a saved chat limit one step later.  Captures,
preflight answers and the provider's errors are chosen by the environment, but the errors
are told apart as the code does: retryable codes, limits, other provider errors, exceptions
that are no `ProviderError`, errors of the bridge itself.

**`AgentTurns`** has one conversation.  Of the transcript, which the client keeps and sends
back, it holds what the code reads out of it: what the latest message of the user wants
(`wants`, `choice`), the results since then (`results`, `fileDone`) and the calls that have
succeeded at any time (`succeeded`).  A text or a result is abstracted to what the code
looks for in it; results are read with three vocabularies (`LooksFailed`,
`SuccessfulResult`, `Succeeded`) that do not agree.  `stage` is the answer awaited from
ChatGPT, one per retry, and each may be any of `Texts`; `FirstAnswer`, `PolicyAnswer`,
`QualityAnswer` and `MissingAnswer` apply the checks in the order of the code, and `New`
drops the calls that have succeeded.

**`Transport`** has one call.  `pc` is its thread, `phase` tells the question from the
confirmation of a plan, `sent` what ChatGPT has sent of the current answer and `sse` how
much of it came before the handoffs; `queue` and `received` are the two sides of a chat's
thread boundary.  An event is the set of facts the transport looks for.  `clock` abstracts the
deadline to what the two waiting loops compare it with, and `waits` counts the waits that
ended after a cancellation.  A topic of a websocket is read frame by frame, and all events
of the frame that says "done" still count.  Of the pointers in a conversation, "input" is one
made from the id of an uploaded file; "asset" and "sediment" are all others.  Each request
may be refused or fail (`Fails`, or the alternatives written `EndCall("error")`).

**`AccountSecrets`** has the files: `capture` is the text and key of each capture file,
`keyFile` the key in `.master.key`.  A thread of the server saves (reads the key, empties
the file, fills it), loads (a key file is made if there is none) or deletes.  `secrets
rotate` looks at the captures it finds, removes the old key file first when a fresh one is
wanted, decrypts and rewrites one capture after the other, and at the end removes the key
file that a passphrase has replaced.  A text is a number, so that an old capture can be told
from a new one.  A file that someone else has filled since the writer emptied it becomes
what is written or torn (`Filling`, `Torn`).  The account's settings and its row in the store
are left out, and passphrases are never lost.  `before`, `ended`, `cut`, `changed`, `touched`
and `overlap` only record history for the properties.

## 3. Runs

| Run | Instance | Shows |
| --- | --- | --- |
| `jobs_safety` | 1 process, a chat and a research job, 2 attempts, 2 crashes, 1 fault | result iff succeeded; retry deadline iff waiting; cancellation sticky; request on disk before pick-up; attempt budget; result backed by its files; result and files final; `JobLifecycle` implemented |
| `jobs_takeover` | 2 processes, one research job, 2 attempts, 1 crash, 1 fault | lease of the newest claim; succeeded attempt has the result; no orphan without failure; lapsed leases revived by the owner only |
| `jobs_liveness` | 1 process, two jobs, 2 attempts, 1 crash, with fairness | submitted jobs settle; waiting jobs are taken up again; cancellations of idle jobs complete |
| `jobs_cancel_lost` | 1 job, 1 attempt, no failure at all | **violated**: `cancel_requested` always completes |
| `jobs_stale_lease` | 1 job, 1 crash | **violated**: a lapsed lease is always swept |
| `jobs_interrupted` | 1 job, 1 crash | **violated**: an interrupted submission is taken up again |
| `operation_retries` | 1 client, 2 accounts, 2 attempts, with fairness | a cancellation reaches the attempt in progress; the research the operation names is stopped; a cancelled attempt ends |
| `operation_ready` | 1 client, 2 accounts | **violated**: an operation shown as ready has identifiers of the account it is bound to |
| `bridge_requests` | 2 requests on five servers, 1 or 2 accounts, settings saved while they run, with fairness | permits conserved; calls within the limits; one voice per stream; one producer per key; waiters share its outcome; cancellation final; operations end; no deadlock; each step of a request brings it nearer to its answer; every request answered |
| `agent_turns` | one conversation of any length, 3 calls, 9 answers, 4 results, 4 wishes, with fairness | no successful call repeated; policy and quality kept; Done. earned; a turn asks at most seven times; the loop ends |
| `transport` | one call of each kind, 2 events per answer and handoff, at most 2 inputs, with fairness | events in order; no input handed back; cancellation followed; every call ends |
| `account_secrets` | 2 symmetric accounts, 1 save, 2 rotations, 1 crash | rotation keeps captures; captures readable |

**Types.**  The type invariant of each module is a theorem (`TypeCorrect`, section 5)
and not repeated by the runs.  It says more than types where that is what keeps
data in range: permits of a limiter are never negative, a websocket is open only while it is
read, a file has a key that was made.

**Bounds.**  `MaxCrashes` and `MaxFaults` bound how often something breaks; two
crashes allow one during the recovery from another, and a crash before and after the
retry.  Two attempts make every comparison with `max_attempts` come out both ways,
and a third would repeat the second.  Two jobs are needed because the sweeps act on
all jobs at once while an executor holds one; two processes because a takeover needs
an old and a new holder.  The sweeps' limit
of 100 rows is never reached.  The job runs use no symmetry (two jobs of different types, and
liveness).  Leases and deadlines may lapse at any moment, which includes every
relation between the 60 s lease, the renewal interval and the backoff.

In `OperationRegistry` two accounts are one failover, two attempts one replaced
record; the client may cancel as often as it likes.  A second client with two attempts
is beyond five minutes: concurrent stops of two clients are not checked.

`bridge_requests` uses five servers because each puts together what can interfere: an edit
and a vision request that share a feature while its limit is saved; two chats that name
their account while its limit is saved; two equal image requests and a failover between two
accounts; an image within a chat and a research, with the sticky strategy; a stream and an
agent's stream, round-robin.  Two requests are needed for every hazard there (a waiter
and its producer, two holders of a permit); limits go up to `MaxLimit = 2`, and the four
generations of an entry (`MaxGen`) are never reached.  A third request would queue behind
the second.

`transport` has `MaxEvents = 2` events before the handoffs, so that a handoff can come first
or last and be followed by another; a frame has up to as many events as are left of the
four of the answer and its handoffs.  `InputLimit = 1`, with two inputs exceeding it.
`account_secrets` lets every action of a save, a load and a deletion fall between any two
steps of a rotation; with two rotations the second meets what a broken one has left.  Its
one thread tears captures against the rotation; two saves against each other, and any number
of threads, are covered by the proofs.

**Single process.**  `AttemptBudget`, `ResultBacked`, `ResultIsFinal` and
`ImplementsLifecycle` are
checked with one process.  Completion, failure and retry compare the status and not
the lease owner, so with two processes on one database an executor whose lease
lapsed unnoticed can complete or reschedule the run of a newer claim.  One process
is the deployment the code is written for (an in-process coordinator, a limiter and
an operation registry in memory).

**Fairness.**  The coordinator thread polls once a second, its loop catches every
exception, and a provider call returns (it has timeouts): weak fairness of
`CoordinatorStep \/ ExecutorStep`, which also restarts a process that is down, as
`restart: unless-stopped` in `docker-compose.yml` does.  The renewer wakes every 15 s: weak
fairness of `Renew`.  Handlers run to their end, and a backoff elapses: weak fairness
of `SubmitStep` and `RetryDeadline`.  Clients need not do anything, leases need not
lapse, and nothing has to fail.

In `OperationRegistry` the threads make progress, a requested permit of the research
limiter is granted, and the call that starts a research returns (`Report` or its
alternatives).  The research itself may go on for ever: `CancelledAttemptEnds` rests on
`CheckCancelled`, which the transport repeats at least once per socket timeout.

In `BridgeRequests` every request makes progress when it can (weak fairness of `Serve` for
each): its thread runs, and ChatGPT answers or the transport times out.  Clients need not
cancel, and settings need not be saved.  In `AgentTurns` the server answers (`Serve`); the
client is not obliged to anything, the loop ends because there is nothing left to tell it.
In `Transport` the thread and the coroutine run and time passes: every request, receive and
poll has a timeout, which is one of the outcomes of its step.

`CHECK_DEADLOCK FALSE` is said where a bounded environment ends the behaviour: the requests
of `BridgeRequests` are answered, the attempts of `OperationRegistry` and the rotations and
saves of `AccountSecrets` are used up.  That nobody is stuck before is `NoDeadlock`,
`EveryRequestAnswered` and `CancelledAttemptEnds`.

## 4. Where the code and its documentation differ

- `docs/agent_bridge/DATA_MODEL.md` has `cancel_requested` end in `cancelled`.
  After an error the executor reads the job once; a cancellation committed before it
  then fails or reschedules the job makes that update raise `InvalidTransition`,
  which escapes the executor.  The coordinator leaves cancellations of running jobs
  to the executor and recovery looks at executing jobs, so the job stays
  `cancel_requested`.  No crash is needed (`jobs_cancel_lost`).
- The same document describes a background sweep of lapsed leases, and
  `DECISIONS.md` a job that is not stuck after kill and restart.  The sweep runs once,
  at start-up; a process restarted within the lease finds nothing to recover, and
  looks no more (`jobs_stale_lease`).
- It also says that `accepted` and `validating` jobs left by a crash are validated
  again or fail.  No code does that (`jobs_interrupted`).
- `README.md` (of the repository) has a client wait for `deep_research_ready=yes`
  before it expects a stop to be carried out at once.  A failover binds the operation to
  the next account and keeps the identifiers of the previous account's research, so it
  is ready at once, and a stop sent then names a session the account does not have
  (`operation_ready`).  When the new session is reported, the stop is repeated.

Seen while modelling, and part of the models, though no line of the repository promises
otherwise or the difference is not in a state:

- *Failover.*  An account without a usable capture, an error of the preflight that does
  not speak of limits, an image answer without images, a browser challenge during a call and
  exceptions of the network all end the request without trying the next account.  Image and
  edit requests create their operation before they choose a router, so a configuration
  error leaves a running operation behind.
- *Limits.*  A changed limit replaces the semaphore, so that for a while more calls than
  the limit can run: those of the old one (`CallsWithinLimits` allows for them).  Retries of
  the policy and quality checks take the account's permit only and carry no operation id.
- *Image cache.*  Its key does not name the account or strategy a request asks for.
- *Chats.*  A cancellation is noticed only when the conversation id arrives; a cancelled
  stream ends without a finishing chunk; after a disconnect the transport's worker goes on
  reading.  Events of handoffs are passed on together, after the last socket was read; a
  socket that falls silent ends its topic with what has come so far.
- *Tool calls.*  Streamed answers are not checked; calls out of a quality retry are not
  checked for the policy again (`PolicyKept` says exactly that).  "wrote" counts as success
  for "Done." but not for the filter of repeated calls.
- *Research.*  One cancelled between the first check and the confirmation still has its plan
  confirmed; a stop that ChatGPT refuses ends the call with that error and not as cancelled.
- *Images.*  An uploaded file is known by the pointer `file-service://<id>` only
  (`InputAssets`): if ChatGPT shows it under another pointer, it is handed back as a picture.
- *Captures.*  A rotation to a fresh key file removes the old key before it has written
  anything: broken off, the captures not yet written are lost (`cut`).  A capture saved
  during a rotation to a passphrase is encrypted with the key that is about to go
  (`touched`).  Two saves of one capture, or a save and a rotation, may tear it: both empty
  the file, and the end of the longer text stays behind the shorter one, which no key opens
  (`Torn`; `touched` again).  A load after such a rotation makes a new key file.  A crash while
  a capture is rewritten loses that capture.

## 5. Proofs

TLAPS checks the theorems for every value of the constants that the named assumptions of
the modules allow.  Those about jobs hold for every set of processes and jobs, every
`max_attempts`, and any number of crashes and faults, under `MaxAttemptsAssumption` and
`ExecutionAssumption` only.

*The repository* (`AgentJobsProofs`).  The inductive invariant is `RepoGood`: the
types, the four named invariants, one attempt row per counted attempt (so that the
next claim's row is the next number) and `LapsedLeaseIsHeld` (a lease marked as
lapsed belongs to somebody, so that a released lease cannot look lapsed, and no job is
ever `streaming`).  One lemma
per operation shows that it is kept; they hold for callers in any order, so the
results do not depend on what the bridge does with the repository.  `Progress` records
what no operation undoes (attempts are only counted up, a result stays, and a job that
does not execute starts to do so only with a new attempt).

*The bridge* (`AgentJobExecutionProofs`).  Every step of the bridge is a step of the
repository or leaves it alone (`ImplementsRepository`), hence the repository's
invariants carry over.  That step needs to know that an executor only closes the row
of an attempt it has claimed; this is part of `WorkerInv`.  Its core is `GivenUp`: an
executor that has lost its lease, or goes to record a cancellation or a success, or
has decided to leave the job alone, is never the one that holds an executing job
under its newest claim.  Without it a lost lease could not be told from an orphaned
job.  `Inv` = types, `RepoGood`, `WorkerInv` is inductive.

*Files, attempts, processes* (`AgentJobSafetyProofs`).  `RequestAlwaysPersisted`
strengthens the invariant by the handler that is about to queue the job;
`SucceededAttemptBacked` by the executor that is about to record success;
`NoOrphanWithoutFailure` by the executor in hand, as long as neither bound was used;
`RenewedOnlyByOwner` is an action property that follows from `Inv` and the fact that
no other step revives a lapsed lease that stays held.

*One process* (the second half of `AgentJobSafetyProofs`).  `AttemptBudget`, `ResultBacked`,
`ResultIsFinal` and `ImplementsLifecycle` hold under `OneProcess`, that all members of
`Worker` are equal; with two processes they fail (section 3).  Jobs, attempts, crashes and
faults stay arbitrary. For the budget, `BudgetInv` adds what is acted on some steps after it
was read (`BudgetKnown`): the attempt counts of the jobs recovered at startup are still
those of the database, and an executor that goes to retry still has an attempt left.  Both
stay true because only a claim counts an attempt, and the thread that holds such a value is
the one that would have to claim.  `NotYetTried` (a job that has not been queued counts no
attempt) is what lets a submission be refused.  For the files, `BackedInv` says that the job
being worked on has no result yet, so that the files behind a result are never rewritten or
withdrawn (`ResultIsFinal`), and which files each step of the attempt leaves behind for the
next.  The refinement maps statuses to phases and result rows to whether there is one.  One
lemma per operation gives the action of `JobLifecycle` it implements or says that it is a
stutter; `BudgetInv` supplies the guards that `JobLifecycle` has and the code does not test
at that point (a recovered or rescheduled job has an attempt left), and `Unexpired` that the
status `expired`, which no code enters, is not met.

*Tool-using conversations* (`AgentTurnsProofs`), for any calls, answers, results and wishes.
The four safety properties together with the types are inductive, once `FileDoneBacked` is
added: `fileDone`, on the strength of which `Done.` may be said, stands for a result that does
not look failed.  The rest of the argument is that an answer is delivered only out of
`New`, and that the transcript changes only when the client speaks, which withdraws the
answer.  `TurnIsBounded` needs one fact more, `SecondRound`: the retry for a missing call always
belongs to the second passage through the checks, so that `AnswersLeft`, which counts the
answers a turn may still ask for, falls with each of them.

*The transport* (`TransportProofs`), for any events ChatGPT may send, any number of them
in an answer, and any number of inputs.  `Base` has the types and the control: where the
thread of each kind of call can be, and that only a chat has a queue and outlives its
caller.  `Assets` and `Cancelled` strengthen `NoInputReturned` and `CancelIsFollowed`; the
latter by the fact that a wait is begun only while nothing has been cancelled.  For
`EventsInOrder` the strengthening is `Chat`: what was received and what waits in the queue
continue one another along `sent` (`Continues`), while the worker runs they are all it has
passed on (`Passing`), and after an end or an error no event follows (`Closes`).  From that, the
end that is taken out of the queue is taken at the last event.

*Keys and captures* (`AccountSecretsProofs`), for any accounts, server threads and passphrases,
and any number of saves, keys, rotations and crashes.  `Kept` says for every capture that no
request has touched where it is: while a rotation runs (`Underway`) it is as it was found if it
is still to do, moved (`Moved`: same text, new key) if it is done, and in the buffer if it is
being written; afterwards (`Over`) all are moved, or one may be lost.  `CapturesReadable` needs
two more facts: a save that overlaps no rotation has a key that stays at hand (`SavesKnown`),
and what a rotation is done with has the new key, which is the key file or a passphrase, and
what it is about to fill is still empty unless a save has overlapped it (`RotationKnown`).
The key file changes only when it is made or when a rotation removes it.

*Synchronous requests* (`BridgeRequestsProofs`), for any finite number of requests and any
accounts, configurations and saved settings (`RequestsAssumption`, `LimitAssumption`,
`ServersAssumption`; `MaxGen` bounds how often a limiter is replaced).  `Base` is inductive:
`Types`, that is the types with `Sized` (how many limiters a key has had), `Placed` (the
account a request is at) and `TakesSome` (the limiter it waits for), and `Dedupe`, which
says that an entry of the image cache is open exactly while the request that made it is at
work, that a request found in the cache has made its entry, and that a waiter's answer is
the entry's.  `OneProducer` and `WaiterShares` are consequences.  A step of one request
leaves the others alone (`RequestAlone`), hence each further invariant is one about a single
request: `Voice` (a stream that has delivered is in the call of that account, which can only
end it), `Given` (where a cancelled request still is, and that a call of conversation_init
takes the account's limiter only), `OperationOf`, and `Claim`: a request holds limiters
during a call only, and those it has still to take lie further inside (`Depth`: upload, the
feature of the call, account) than those it holds. Without `Claim` a permit could be taken
twice for one holder, or a limiter be put in the place of one whose number is already held;
with it each of the three ways to touch limiters keeps `PermitsConserved` (`ReplacePermits`,
`AcquirePermits`, `ReleasePermits`). `NoDeadlock` needs `Positive` besides: a limiter has at
least one permit, so that one without a free permit is held by somebody
(`PermitsConserved`).  That holder is not blocked, or waits for a limiter further inside
than the one it holds (`WaitsInward`); a request that waits for a producer comes before all
of these.  Along the requests that await one another the depth grows, and it is bounded.
`RequestIsBounded` is a variant: `StepsLeft` is read off the place of a request in the walk
through its accounts (`Later` counts those that follow) and in its call (`CallLeft`), and
each action of `Serve` lowers it.  Of the invariants it needs `Placed`, so that an account
that follows exists, and `Given`, so that a limit of zero is met by a main call only.
`CallsWithinLimits` follows from the permits, because until the settings are saved each key
has at most one limiter, of one permit (`Unsaved`).

*Operations of research jobs* (`OperationRegistryProofs`), for any accounts, any number of
threads that cancel and any number of attempts (`RegistryAssumption`).  `Control` says that
only the newest record is ever found under the operation's id and what the place of the
executor tells about it.  `Reached`: once the job is cancelled, that record is marked, or
a callback has yet to look for it, or it names no research and no call is made for it any
more; the last case is an executor that looks at the job before it calls.  `Stopped`: while
the research of a marked record runs, some thread is `Pending`, that is, about to mark or to
stop this very record.  A stop that holds an older record is harmless because the executor
marks the new one itself, or a callback still comes to it.  The two invariants follow from
`Reached` and `Stopped`.

*Model-checked only.*  Liveness, which is out of the prover's reach: `SubmittedJobsSettle`,
`WaitingJobsResume`, `IdleCancelCompletes`, `CancelledAttemptEnds`, `EveryRequestAnswered`,
`AgentLoopEnds` and `CallEnds`.  Every invariant and every action property that a passing
run checks is a theorem, the four about jobs named above for one process, the others
without that assumption.  Where liveness could fail for a reason other than fairness, that
reason is ruled out by proof: for `EveryRequestAnswered`, that requests wait for one another in
a circle (`NoDeadlock`) or that one goes on for ever (`RequestIsBounded`); for the turns of
`AgentLoopEnds`, that one asks again and again (`TurnIsBounded`).

## 6. Plan

What is left, the most useful first:

1. Idempotency keys: several clients, the unique index, a resubmission while the request
   file is being written; at most one job per key, no success for a job without its request.
2. A limit on `finalize_pending_cancellations` and `promote_due_retries` (100 rows in the
   code) as a constant, with the order in which rows are looked at.
3. The character game: turns around an awaited model call, image jobs and cancellation.

## 7. Not modelled

- The character game, an example application over the bridge's public API.
- Idempotency keys and resubmission of agent jobs; the read-only routes.
- Composing prompts, parsing answers and tool calls, Markdown, the layout of chunks: no
  state survives the request.  What a decision depends on is in the models as a fact, a word
  or a kind of text.
- What a capture says, the headers made from it and the proof of work; account information
  and model tables: parsing of remote answers and static data.
- The command line but for `secrets rotate`, and the console: front ends without state.
- The salt file of passphrases (`crypto.py`): two processes that make it at once would
  derive different keys; it is made once, before there is anything to encrypt.
- The recorded result of the last stop of an operation: nothing in the code reads it to
  decide.
- ChatGPT itself is not in the repository; it is the environment of `BridgeRequests`,
  `AgentTurns` and `Transport`, and the outcome of a call in the others.
- `expires_at` is stored and never acted on, so no job ever becomes `expired`; `streaming`
  is part of the transition table but no code enters it.  `start_attempt` and `save_result`
  are called by tests only.
