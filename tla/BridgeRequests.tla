--------------------------- MODULE BridgeRequests ---------------------------
(***************************************************************************)
(* The synchronous requests of the bridge: chat, streaming chat, vision,   *)
(* deep research and the three ways to ask for an image.  Every request    *)
(* has a thread of its own; the threads share the limiters (semaphores) of *)
(* the accounts and of their features, the cache that joins identical      *)
(* image requests, the saved settings and the registry of operations.      *)
(*                                                                         *)
(* One request walks through its accounts: order, ranking by quota, then   *)
(* for each account the preflight, the limiters, the call to ChatGPT and,  *)
(* after a failure, the decision whether the next account is tried.  What  *)
(* ChatGPT answers is an outcome; amounts of quota, texts and files are    *)
(* left out.                                                               *)
(***************************************************************************)
EXTENDS Integers, FiniteSets, Sequences

CONSTANTS
    Requests,      \* requests, each served by one thread
    Accounts,      \* configured ChatGPT accounts
    Servers,       \* servers to look at: the configured accounts in order, the
                   \* account strategy, the kind of each request they get, the
                   \* accounts a request may ask for by name and the settings that
                   \* are saved, as <<feature, account>>
    MaxLimit,      \* largest concurrency limit of the settings
    MaxGen,        \* limiters one key may have one after the other
    NoRequest

ASSUME RequestsAssumption == IsFiniteSet(Requests) /\ NoRequest \notin Requests
ASSUME LimitAssumption == MaxLimit \in Nat \ {0} /\ MaxGen \in Nat \ {0}

VARIABLES
    server, turn,           \* the configuration and the shared AccountRouter
    limit, saved, dirty,    \* settings, whether they were saved since the start,
                            \* accounts whose limiter does not follow them yet
    limiters,               \* for each key the limiters made so far, the last in use:
                            \* their size and free permits
    kind, pc, answer,       \* what a request is, where it is, how it ended
    loop, held,             \* local variables of its handler, limiters it holds
    delivered,              \* accounts whose text reached the client of a stream
    op, cancelled, noticed, \* its operation; noticed: the handler saw the cancellation
    cache, entry, producer  \* image deduplication

routerVars == <<server, turn>>
settingVars == <<limit, saved, dirty>>
requestVars == <<kind, pc, answer>>
localVars == <<loop, held>>
operationVars == <<op, cancelled, noticed>>
cacheVars == <<cache, entry, producer>>
vars == <<routerVars, settingVars, limiters, requestVars, localVars, delivered,
          operationVars, cacheVars>>

------------------------------------------------------------------------------
(* Kinds of requests *)

Features == {"chat", "upload", "image", "research"}

\* A mutant of Needs: vision takes the limiter of the account first.
NeedsAccountFirst ==
    [chat |-> <<"chat", "account">>, stream |-> <<"chat", "account">>,
     agentStream |-> <<"chat", "account">>, vision |-> <<"account", "upload", "chat">>,
     research |-> <<"research", "account">>, image |-> <<"image", "account">>,
     chatImage |-> <<"image", "account">>, edit |-> <<"upload", "image", "account">>]

\* The limiters of a call, in the order in which they are taken; the one of
\* the account comes last.
Needs == [chat        |-> <<"chat", "account">>,
          stream      |-> <<"chat", "account">>,
          agentStream |-> <<"chat", "account">>,
          vision      |-> <<"upload", "chat", "account">>,
          research    |-> <<"research", "account">>,
          image       |-> <<"image", "account">>,
          chatImage   |-> <<"image", "account">>,
          edit        |-> <<"upload", "image", "account">>]

Kinds == DOMAIN Needs

ASSUME ServersAssumption ==
    \A s \in Servers :
        /\ s.accounts \in Seq(Accounts) /\ s.accounts # <<>>
        /\ s.kinds \in [Requests -> Kinds] /\ s.named \subseteq Accounts
        /\ s.saves \subseteq Features \X Accounts

Streamed(r) == kind[r] \in {"stream", "agentStream"}
Imaging(r) == kind[r] \in {"image", "edit", "chatImage"}
HasOperation(r) == kind[r] \notin {"vision", "chatImage"}

\* Requests whose quota is looked up before an account is used.
Preflighted(r) == Imaging(r) \/ kind[r] \in {"vision", "research"}

------------------------------------------------------------------------------
(* Errors and accounts *)

\* Error codes of _classify_provider_error after which another account may
\* be tried; "disabled" stands for the limit of zero.
RetryCodes == {"disabled", "auth_or_browser_challenge", "empty_response",
               "model_limit", "rate_limited", "unsupported_model"}

\* A failed call of ChatGPT reads like one of these.
CallCodes == {"rate_limited", "provider_error"}

ManyAccounts(r) == Len(loop[r].order) > 1 /\ server.strategy # "sticky"
\* A mutant of ShouldTryNext: every error is worth another account.
TryNextOnAnyError(r, code) == ManyAccounts(r)

ShouldTryNext(r, code) == ManyAccounts(r) /\ code \in RetryCodes

\* What conversation_init tells of the features a request needs: nothing,
\* enough or unlisted, used up, blocked.
QuotaRank == [left |-> 0, none |-> 1, low |-> 2, blocked |-> 3]
Quotas == DOMAIN QuotaRank

Rotate(s, n) == SubSeq(s, n + 1, Len(s)) \o SubSeq(s, 1, n)

Arrangements(s) ==
    {t \in [1 .. Len(s) -> {s[i] : i \in 1 .. Len(s)}] :
        \A i, j \in 1 .. Len(s) : i # j => t[i] # t[j]}

RouterOrders(s) ==
    IF Len(s) = 1 \/ server.strategy \in {"auto", "sticky", "failover", "quota-aware"}
    THEN {s}
    ELSE IF server.strategy = "round-robin" THEN {Rotate(s, turn % Len(s))}
    ELSE Arrangements(s)

\* Accounts that support the model first, then those that may, then the rest: the
\* order is sorted by SupportRank and kept otherwise.
SupportRank == [yes |-> 0, unknown |-> 1, no |-> 2]

BySupport(s, support) ==
    LET rank(i) == SupportRank[support[s[i]]]
    IN  {[i \in 1 .. Len(s) |-> s[p[i]]] : p \in
            {p \in [1 .. Len(s) -> 1 .. Len(s)] : \A i, j \in 1 .. Len(s) : i < j =>
                rank(p[i]) < rank(p[j]) \/ (rank(p[i]) = rank(p[j]) /\ p[i] < p[j])}}

\* Amounts of quota are not modelled: accounts of one rank come in any order.
ByQuota(l) ==
    {t \in Arrangements(l.order) :
        \A i, j \in 1 .. Len(t) :
            i < j => QuotaRank[l.quota[t[i]]] <= QuotaRank[l.quota[t[j]]]}

Account(r) == loop[r].order[loop[r].pos]
Quota(r) == loop[r].quota[Account(r)]

------------------------------------------------------------------------------
(* Limiters *)

Keys == (Features \cup {"account"}) \X Accounts

\* A mutant of Replace: a new limiter each time.
ReplaceAlways(key, n) ==
    /\ Len(limiters[key]) < MaxGen
    /\ limiters' = [limiters EXCEPT ![key] = Append(@, [size |-> n, free |-> n])]

\* Keep the limiter of a key when it has the wanted size, else put a new one
\* in its place; permits of the old one stay with their holders.
Replace(key, n) ==
    IF limiters[key] # <<>> /\ limiters[key][Len(limiters[key])].size = n
    THEN UNCHANGED limiters
    ELSE /\ Len(limiters[key]) < MaxGen
         /\ limiters' = [limiters EXCEPT ![key] = Append(@, [size |-> n, free |-> n])]

\* The limiters with a permit given back to each limiter of a set.
Released(ls) ==
    [key \in Keys |->
        [i \in 1 .. Len(limiters[key]) |->
            IF <<key, i>> \in ls
            THEN [limiters[key][i] EXCEPT !.free = @ + 1] ELSE limiters[key][i]]]

\* A mutant of ReleaseAll: the limiter is looked up again when it is released.
ReleaseCurrent(r) ==
    /\ limiters' = Released({<<l[1], Len(limiters[l[1]])>> : l \in held[r]})
    /\ held' = [held EXCEPT ![r] = {}]

\* Every with-block of the call gives its permit back.
ReleaseAll(r) ==
    /\ limiters' = Released(held[r])
    /\ held' = [held EXCEPT ![r] = {}]

------------------------------------------------------------------------------
(* Local variables of a handler: the accounts in order, the one it is at, what
   it knows of their quota; the call it makes: why, which limiters are still to
   take, the limit read, the limiter it waits for; how the call went: whether
   another account follows its failure, the text so far, whether ChatGPT named
   the conversation. *)

Fresh(s) ==
    [order |-> s, pos |-> 1, quota |-> [a \in Accounts |-> "none"],
     purpose |-> "main", need |-> <<>>, lim |-> 1, wait |-> <<>>,
     failover |-> FALSE, text |-> "none", conv |-> FALSE]

\* Turn the local variables of r into l and go to a label.
Step(r, l, label) ==
    /\ loop' = [loop EXCEPT ![r] = l]
    /\ pc' = [pc EXCEPT ![r] = label]

\* Where a call is that has these limiters still to take.
Taking(need) ==
    IF need = <<>> THEN "call" ELSE IF Head(need) = "account" THEN "take" ELSE "read"

\* A call of conversation_init takes the limiter of the account only.
Ask(r, l, why) == Step(r, [l EXCEPT !.purpose = why, !.need = <<"account">>], "take")

Init ==
    /\ server \in Servers /\ turn = 0
    /\ limit = [f \in Features |-> [a \in Accounts |-> 1]]
    /\ saved = FALSE /\ dirty = {}
    /\ limiters = [k \in Keys |->
                    IF k[1] = "account" THEN <<[size |-> 1, free |-> 1]>> ELSE <<>>]
    /\ kind = server.kinds
    /\ pc = [r \in Requests |-> "new"]
    /\ answer = [r \in Requests |-> "none"]
    /\ loop = [r \in Requests |-> Fresh(server.accounts)]
    /\ held = [r \in Requests |-> {}]
    /\ delivered = [r \in Requests |-> {}]
    /\ op = [r \in Requests |-> "none"]
    /\ cancelled = [r \in Requests |-> FALSE]
    /\ noticed = [r \in Requests |-> FALSE]
    /\ cache = [k \in Kinds |-> NoRequest]
    /\ entry = [r \in Requests |-> "none"]
    /\ producer = [r \in Requests |-> NoRequest]

\* A mutant of Finish: the operation is completed only by a success.
FinishOnSuccess(r, result) ==
    /\ Step(r, Fresh(server.accounts), "done")
    /\ answer' = [answer EXCEPT ![r] = result]
    /\ op' = [op EXCEPT ![r] = IF @ = "running" /\ result = "ok" THEN "completed" ELSE @]
    /\ IF entry[r] = "open"
       THEN /\ entry' = [entry EXCEPT ![r] = result]
            /\ cache' = [cache EXCEPT ![kind[r]] = IF result = "ok" THEN @ ELSE NoRequest]
       ELSE UNCHANGED <<entry, cache>>
    /\ UNCHANGED <<kind, producer, cancelled>>

\* The request ends: its entry tells the waiters, its operation is completed
\* and the client gets the answer.  A failed entry leaves the cache.
Finish(r, result) ==
    /\ Step(r, Fresh(server.accounts), "done")
    /\ answer' = [answer EXCEPT ![r] = result]
    /\ op' = [op EXCEPT ![r] = IF @ = "running" THEN "completed" ELSE @]
    /\ IF entry[r] = "open"
       THEN /\ entry' = [entry EXCEPT ![r] = result]
            /\ cache' = [cache EXCEPT ![kind[r]] = IF result = "ok" THEN @ ELSE NoRequest]
       ELSE UNCHANGED <<entry, cache>>
    /\ UNCHANGED <<kind, producer, cancelled>>

------------------------------------------------------------------------------
(* Arrival *)

\* A malformed body is refused before anything is created; an unknown account
\* is found out after an image request has created its operation.
Refuse(r) ==
    /\ pc[r] = "new"
    /\ \E created \in BOOLEAN :
        /\ created => Imaging(r) /\ HasOperation(r)
        /\ op' = [op EXCEPT ![r] = IF created THEN "running" ELSE @]
    /\ pc' = [pc EXCEPT ![r] = "done"]
    /\ answer' = [answer EXCEPT ![r] = "badRequest"]
    /\ UNCHANGED <<routerVars, settingVars, limiters, kind, localVars, delivered,
                   cancelled, noticed, cacheVars>>

\* A chat answered without ChatGPT: a local command, or deep research asked for
\* in a transcript that goes on after the last message of the user.
AnswerAtOnce(r) ==
    /\ pc[r] = "new" /\ kind[r] \in {"chat", "stream", "agentStream", "research"}
    /\ pc' = [pc EXCEPT ![r] = "done"]
    /\ answer' = [answer EXCEPT ![r] = "ok"]
    /\ UNCHANGED <<routerVars, settingVars, limiters, kind, localVars, delivered,
                   operationVars, cacheVars>>

Enter(r) == IF Imaging(r) THEN "dedupe" ELSE "order"

\* An accepted request may name its account: its router then has that account
\* only, and reads the limit of the account to set it again.
Admit(r) ==
    /\ pc[r] = "new"
    /\ op' = [op EXCEPT ![r] = IF HasOperation(r) THEN "running" ELSE @]
    /\ \/ Step(r, loop[r], Enter(r))
       \/ \E a \in server.named :
            Step(r, [Fresh(<<a>>) EXCEPT !.lim = limit["chat"][a]], "configure")
    /\ UNCHANGED <<routerVars, settingVars, limiters, kind, answer, held, delivered,
                   cancelled, noticed, cacheVars>>

Configure(r) ==
    /\ pc[r] = "configure"
    /\ Replace(<<"account", Account(r)>>, loop[r].lim)
    /\ Step(r, Fresh(loop[r].order), Enter(r))
    /\ UNCHANGED <<routerVars, settingVars, kind, answer, held, delivered, operationVars,
                   cacheVars>>

\* A mutant of Produce: an entry counts only once it is filled.
ProduceUnlessFilled(r) ==
    /\ pc[r] = "dedupe"
    /\ cache' = [cache EXCEPT ![kind[r]] = r]
    /\ entry' = [entry EXCEPT ![r] = "open"]
    /\ pc' = [pc EXCEPT ![r] = "order"]
    /\ UNCHANGED <<routerVars, settingVars, limiters, kind, answer, localVars, delivered,
                   operationVars, producer>>

\* _dedupe_image_request under its lock: the first of several identical
\* requests produces, later ones wait for it or get its kept response, until
\* that has expired.
Produce(r) ==
    /\ pc[r] = "dedupe"
    /\ cache[kind[r]] # NoRequest => entry[cache[kind[r]]] # "open"
    /\ cache' = [cache EXCEPT ![kind[r]] = r]
    /\ entry' = [entry EXCEPT ![r] = "open"]
    /\ pc' = [pc EXCEPT ![r] = "order"]
    /\ UNCHANGED <<routerVars, settingVars, limiters, kind, answer, localVars, delivered,
                   operationVars, producer>>

Join(r) ==
    /\ pc[r] = "dedupe" /\ cache[kind[r]] # NoRequest
    /\ producer' = [producer EXCEPT ![r] = cache[kind[r]]]
    /\ pc' = [pc EXCEPT ![r] = "waiting"]
    /\ UNCHANGED <<routerVars, settingVars, limiters, kind, answer, localVars, delivered,
                   operationVars, cache, entry>>

\* A mutant of Wake: the error of the producer is not passed on.
WakeWithoutError(r) ==
    /\ pc[r] = "waiting"
    /\ entry[producer[r]] # "open"
    /\ Finish(r, IF entry[producer[r]] = "ok" THEN "ok" ELSE "error")
    /\ UNCHANGED <<routerVars, settingVars, limiters, held, delivered, noticed>>

Wake(r) ==
    /\ pc[r] = "waiting"
    /\ entry[producer[r]] # "open"
    /\ Finish(r, entry[producer[r]])
    /\ UNCHANGED <<routerVars, settingVars, limiters, held, delivered, noticed>>

------------------------------------------------------------------------------
(* Choosing accounts *)

\* The order of the router, then the accounts that support the model first.
PickOrder(r) ==
    /\ pc[r] = "order"
    /\ \E s \in RouterOrders(loop[r].order), support \in [Accounts -> DOMAIN SupportRank] :
        \E t \in BySupport(s, support) :
            Step(r, [loop[r] EXCEPT !.order = t],
                 IF Preflighted(r) /\ ManyAccounts(r) THEN "rank" ELSE "try")
    /\ turn' = IF Len(loop[r].order) > 1 /\ server.strategy = "round-robin"
               THEN (turn + 1) % Len(server.accounts) ELSE turn
    /\ UNCHANGED <<server, settingVars, limiters, kind, answer, held, delivered,
                   operationVars, cacheVars>>

\* The messages hold neither text nor an image: found out after the operation,
\* and the headers of a stream, exist.
NothingToSend(r) ==
    /\ pc[r] = "order" /\ kind[r] \in {"chat", "stream", "vision"}
    /\ Finish(r, "badRequest")
    /\ UNCHANGED <<routerVars, settingVars, limiters, held, delivered, noticed>>

\* Quota of every account before the first is used, one after the other.
Rank(r) ==
    /\ pc[r] = "rank"
    /\ IF loop[r].pos <= Len(loop[r].order)
       THEN Ask(r, loop[r], "rank")
       ELSE \E t \in ByQuota(loop[r]) :
                Step(r, [loop[r] EXCEPT !.order = t, !.pos = 1], "try")
    /\ UNCHANGED <<routerVars, settingVars, limiters, kind, answer, held, delivered,
                   operationVars, cacheVars>>

\* The quota of the next account is looked up unless it is known or not needed.
AskQuota(r) ==
    /\ pc[r] = "try" /\ Preflighted(r) /\ Quota(r) = "none"
    /\ Ask(r, loop[r], "init")
    /\ UNCHANGED <<routerVars, settingVars, limiters, kind, answer, held, delivered,
                   operationVars, cacheVars>>

Checked(r) == pc[r] = "check" \/ (pc[r] = "try" /\ (Preflighted(r) => Quota(r) # "none"))

\* _provider_for_account raises when the capture of the account is gone.  The
\* call is outside the try block of every loop: the request ends at once.
CaptureMissing(r) ==
    /\ pc[r] \in {"rank", "try"} /\ loop[r].pos <= Len(loop[r].order)
    /\ Finish(r, "error")
    /\ UNCHANGED <<routerVars, settingVars, limiters, held, delivered, noticed>>

\* A mutant of GoOn: the account that failed is tried once more.
GoOnAgain(r, code) ==
    IF ShouldTryNext(r, code) /\ loop[r].pos < Len(loop[r].order)
    THEN /\ Step(r, [Fresh(loop[r].order) EXCEPT !.pos = loop[r].pos,
                                                 !.quota = loop[r].quota], "try")
         /\ UNCHANGED <<kind, answer, op, cancelled, cacheVars>>
    ELSE Finish(r, "error")

\* What follows a failure on an account whose error needs no further lookup.
GoOn(r, code) ==
    IF ShouldTryNext(r, code) /\ loop[r].pos < Len(loop[r].order)
    THEN /\ Step(r, [Fresh(loop[r].order) EXCEPT !.pos = loop[r].pos + 1,
                                                 !.quota = loop[r].quota], "try")
         /\ UNCHANGED <<kind, answer, op, cancelled, cacheVars>>
    ELSE Finish(r, "error")

\* Quota used up reads "quota is too low", a blocked feature is described by
\* ChatGPT and may read like a limit.
PreflightFails(r) ==
    /\ Checked(r) /\ Preflighted(r)
    /\ \/ Quota(r) = "low" /\ GoOn(r, "rate_limited")
       \/ Quota(r) = "blocked" /\ \E code \in {"provider_error", "model_limit"} : GoOn(r, code)
    /\ UNCHANGED <<routerVars, settingVars, limiters, held, delivered, noticed>>

StartCall(r) ==
    /\ Checked(r)
    /\ Preflighted(r) => Quota(r) \notin {"low", "blocked"}
    /\ Step(r, [loop[r] EXCEPT !.purpose = "main", !.need = Needs[kind[r]]],
            Taking(Needs[kind[r]]))
    /\ UNCHANGED <<routerVars, settingVars, limiters, kind, answer, held, delivered,
                   operationVars, cacheVars>>

------------------------------------------------------------------------------
(* Taking the limiters of a call *)

\* The limit of the feature, read from the saved settings; zero disables it.
ReadLimit(r) ==
    /\ pc[r] = "read"
    /\ LET n == limit[Head(loop[r].need)][Account(r)]
       IN  n > 0 /\ Step(r, [loop[r] EXCEPT !.lim = n], "take")
    /\ UNCHANGED <<routerVars, settingVars, limiters, kind, answer, held, delivered,
                   operationVars, cacheVars>>

\* The limiter of the feature is made or replaced to have the limit read; the
\* limiter of the account is the current one.
TakeLimiter(r) ==
    /\ pc[r] = "take"
    /\ LET key == <<Head(loop[r].need), Account(r)>>
       IN  /\ IF key[1] = "account" THEN UNCHANGED limiters ELSE Replace(key, loop[r].lim)
           /\ Step(r, [loop[r] EXCEPT !.wait = <<key, Len(limiters'[key])>>, !.lim = 1], "acquire")
    /\ UNCHANGED <<routerVars, settingVars, kind, answer, held, delivered, operationVars,
                   cacheVars>>

Acquire(r) ==
    /\ pc[r] = "acquire"
    /\ LET l == loop[r].wait
           rest == Tail(loop[r].need)
       IN  /\ limiters[l[1]][l[2]].free > 0
           /\ limiters' = [limiters EXCEPT ![l[1]][l[2]].free = @ - 1]
           /\ held' = [held EXCEPT ![r] = @ \cup {l}]
           /\ Step(r, [loop[r] EXCEPT !.need = rest, !.wait = <<>>], Taking(rest))
    /\ UNCHANGED <<routerVars, settingVars, kind, answer, delivered, operationVars,
                   cacheVars>>

------------------------------------------------------------------------------
(* The call *)

Calling(r, why) == pc[r] = "call" /\ loop[r].purpose = why

RankReturns(r) ==
    /\ Calling(r, "rank")
    /\ ReleaseAll(r)
    /\ \E q \in Quotas :
        Step(r, [loop[r] EXCEPT !.quota[Account(r)] = q, !.pos = @ + 1], "rank")
    /\ UNCHANGED <<routerVars, settingVars, kind, answer, delivered, operationVars, cacheVars>>

InitReturns(r) ==
    /\ Calling(r, "init")
    /\ ReleaseAll(r)
    /\ \E q \in Quotas : Step(r, [loop[r] EXCEPT !.quota[Account(r)] = q], "check")
    /\ UNCHANGED <<routerVars, settingVars, kind, answer, delivered, operationVars, cacheVars>>

\* A failure that calls for the metadata of the account first, with a permit
\* of the account; the decision follows when it has answered.
Diagnosed(r, code) ==
    \/ kind[r] \in {"chat", "stream", "agentStream"}
    \/ kind[r] = "vision" /\ (Quota(r) = "none" \/ code = "empty_response")
    \/ Imaging(r) /\ code = "no_images"

Fails(r, code) ==
    /\ ReleaseAll(r)
    /\ IF Diagnosed(r, code)
       THEN /\ Ask(r, [loop[r] EXCEPT !.failover = ShouldTryNext(r, code),
                                      !.text = "none", !.conv = FALSE], "diagnose")
            /\ UNCHANGED <<kind, answer, op, cancelled, cacheVars>>
       ELSE GoOn(r, code)
    /\ UNCHANGED <<routerVars, settingVars, delivered>>

\* An error that ends the request whatever accounts are left.
Ends(r, result) ==
    /\ ReleaseAll(r)
    /\ Finish(r, result)
    /\ UNCHANGED <<routerVars, settingVars, delivered>>

FeatureDisabled(r) ==
    /\ pc[r] = "read"
    /\ limit[Head(loop[r].need)][Account(r)] = 0
    /\ Fails(r, "disabled")
    /\ UNCHANGED noticed

Diagnose(r) ==
    /\ Calling(r, "diagnose")
    /\ ReleaseAll(r)
    /\ GoOn(r, IF loop[r].failover THEN "model_limit" ELSE "provider_error")
    /\ UNCHANGED <<routerVars, settingVars, delivered, noticed>>

\* ChatGPT names the conversation: a request that is cancelled by then is
\* stopped, a stream without a word to its client.  An image or research
\* request looks at its operation again and again after that.
HearConversation(r) ==
    /\ Calling(r, "main") /\ ~loop[r].conv /\ HasOperation(r)
    /\ ~cancelled[r]
    /\ Step(r, [loop[r] EXCEPT !.conv = TRUE], "call")
    /\ UNCHANGED <<routerVars, settingVars, limiters, kind, answer, held, delivered,
                   operationVars, cacheVars>>

NoticeCancel(r) ==
    /\ Calling(r, "main") /\ HasOperation(r) /\ cancelled[r]
    /\ ~loop[r].conv \/ Imaging(r) \/ kind[r] = "research"
    /\ noticed' = [noticed EXCEPT ![r] = TRUE]
    /\ IF Streamed(r) THEN Ends(r, "gone") ELSE Fails(r, "operation_cancelled")

\* Text of the answer, which may be blank.  Plain streams pass it on; an agent
\* stream keeps text that may be a tool call.  Other requests collect it.
HearText(r) ==
    /\ Calling(r, "main") /\ ~Imaging(r)
    /\ \/ /\ loop[r].text = "none" /\ Streamed(r)
          /\ Step(r, [loop[r] EXCEPT !.text = "blank"], "call")
          /\ UNCHANGED delivered
       \/ /\ loop[r].text # "text"
          /\ Step(r, [loop[r] EXCEPT !.text = "text"], "call")
          /\ \/ /\ Streamed(r)
                /\ delivered' = [delivered EXCEPT ![r] = @ \cup {Account(r)}]
             \/ kind[r] # "stream" /\ UNCHANGED delivered
    /\ UNCHANGED <<routerVars, settingVars, limiters, kind, answer, held, operationVars,
                   cacheVars>>

\* The client closed the connection; writing the next text fails.
ClientGone(r) ==
    /\ Calling(r, "main") /\ Streamed(r) /\ loop[r].text # "none"
    /\ Ends(r, "gone")
    /\ UNCHANGED noticed

\* A mutant of ProviderFails: text that has been sent makes no difference.
ProviderFailsAnyTime(r) ==
    /\ Calling(r, "main")
    /\ \E code \in CallCodes : Fails(r, code)
    /\ UNCHANGED noticed

\* A failed call is final once a stream has received any text, blank or not.
ProviderFails(r) ==
    /\ Calling(r, "main")
    /\ IF Streamed(r) /\ loop[r].text # "none"
       THEN Ends(r, "error")
       ELSE \E code \in CallCodes : Fails(r, code)
    /\ UNCHANGED noticed

\* A network failure is no ProviderError: no loop and no handler catches it.
NetworkFails(r) ==
    /\ Calling(r, "main")
    /\ Ends(r, "dropped")
    /\ UNCHANGED noticed

NothingReturned(r) ==
    /\ Calling(r, "main") /\ loop[r].text # "text"
    /\ Fails(r, IF Imaging(r) THEN "no_images" ELSE "empty_response")
    /\ UNCHANGED noticed

\* Text or images arrived.  What is left of an agent stream is written now; an
\* image that cannot be saved or returned in the wanted form is an error still.
Answered(r) ==
    /\ Calling(r, "main")
    /\ Imaging(r) \/ loop[r].text = "text"
    /\ ReleaseAll(r)
    /\ \E result \in {"ok"} \cup (IF Imaging(r) THEN {"error", "badRequest"} ELSE {}) :
        Finish(r, result)
    /\ delivered' = [delivered EXCEPT ![r] = IF Streamed(r) THEN @ \cup {Account(r)} ELSE @]
    /\ UNCHANGED <<routerVars, settingVars, noticed>>

------------------------------------------------------------------------------
(* Other actors *)

Cancel(r) ==
    /\ op[r] = "running" /\ ~cancelled[r] /\ pc[r] # "done"
    /\ cancelled' = [cancelled EXCEPT ![r] = TRUE]
    /\ UNCHANGED <<routerVars, settingVars, limiters, requestVars, localVars, delivered,
                   op, noticed, cacheVars>>

\* Settings are written to the store, then the router sets the limiter of each
\* account whose limit it finds changed.
SaveSettings ==
    /\ ~saved /\ saved' = TRUE
    /\ \E key \in server.saves, n \in 0 .. MaxLimit :
        /\ n # limit[key[1]][key[2]]
        /\ key[1] = "chat" => n > 0
        /\ limit' = [limit EXCEPT ![key[1]][key[2]] = n]
        /\ dirty' = IF key[1] = "chat" THEN {key[2]} ELSE {}
    /\ UNCHANGED <<routerVars, limiters, requestVars, localVars, delivered,
                   operationVars, cacheVars>>

Reconfigure(a) ==
    /\ a \in dirty
    /\ dirty' = dirty \ {a}
    /\ Replace(<<"account", a>>, limit["chat"][a])
    /\ UNCHANGED <<routerVars, limit, saved, requestVars, localVars, delivered,
                   operationVars, cacheVars>>

------------------------------------------------------------------------------
Arrive(r) == Refuse(r) \/ AnswerAtOnce(r) \/ Admit(r)

Serve(r) ==
    \/ Configure(r) \/ Produce(r) \/ Join(r) \/ Wake(r)
    \/ NothingToSend(r) \/ PickOrder(r) \/ Rank(r) \/ AskQuota(r) \/ CaptureMissing(r)
    \/ PreflightFails(r) \/ StartCall(r)
    \/ ReadLimit(r) \/ FeatureDisabled(r) \/ TakeLimiter(r) \/ Acquire(r)
    \/ RankReturns(r) \/ InitReturns(r) \/ Diagnose(r)
    \/ HearConversation(r) \/ NoticeCancel(r) \/ HearText(r) \/ ClientGone(r)
    \/ ProviderFails(r) \/ NetworkFails(r) \/ NothingReturned(r) \/ Answered(r)

Admin == SaveSettings \/ \E a \in Accounts : Reconfigure(a)

Next ==
    \/ \E r \in Requests : Arrive(r) \/ Serve(r) \/ Cancel(r)
    \/ Admin

\* Threads run, and ChatGPT answers or the transport times out.
Fairness == \A r \in Requests : WF_vars(Serve(r))

Spec == Init /\ [][Next]_vars /\ Fairness

------------------------------------------------------------------------------
(* Properties *)

Labels == {"new", "configure", "dedupe", "waiting", "order", "rank", "try", "check",
           "read", "take", "acquire", "call", "done"}
Limiters == Keys \X (1 .. MaxGen)
Outcomes == {"ok", "error", "badRequest", "dropped", "gone"}

Locals ==
    [order : Seq(Accounts), pos : Nat, quota : [Accounts -> Quotas],
     purpose : {"rank", "init", "main", "diagnose"},
     need : Seq(Features \cup {"account"}), lim : 0 .. MaxLimit,
     wait : Limiters \cup {<<>>}, failover : BOOLEAN,
     text : {"none", "blank", "text"}, conv : BOOLEAN]

\* Types of the variables.
TypeOK ==
    /\ server \in Servers /\ turn \in Nat
    /\ limit \in [Features -> [Accounts -> 0 .. MaxLimit]]
    /\ saved \in BOOLEAN /\ dirty \subseteq Accounts
    /\ limiters \in [Keys -> Seq([size : 0 .. MaxLimit, free : Nat])]
    /\ kind \in [Requests -> Kinds] /\ pc \in [Requests -> Labels]
    /\ answer \in [Requests -> {"none"} \cup Outcomes]
    /\ loop \in [Requests -> Locals] /\ held \in [Requests -> SUBSET Limiters]
    /\ delivered \in [Requests -> SUBSET Accounts]
    /\ op \in [Requests -> {"none", "running", "completed"}]
    /\ cancelled \in [Requests -> BOOLEAN] /\ noticed \in [Requests -> BOOLEAN]
    /\ cache \in [Kinds -> Requests \cup {NoRequest}]
    /\ entry \in [Requests -> {"none", "open"} \cup Outcomes]
    /\ producer \in [Requests -> Requests \cup {NoRequest}]

\* Permits: every limiter, also one that has been replaced, has as many free
\* permits as its size less the requests that hold one, whatever errors,
\* cancellations and changes of settings came between (the finally blocks of
\* the limit wrappers release the limiter they acquired).
PermitsConserved ==
    \A key \in Keys : \A i \in 1 .. Len(limiters[key]) :
        limiters[key][i].free + Cardinality({r \in Requests : <<key, i>> \in held[r]})
            = limiters[key][i].size

\* Calls in progress keep to the limits as long as the settings stay: a
\* request that is calling ChatGPT on an account counts against the limit of
\* the account and of each feature it uses.
Using(f, a) ==
    {r \in Requests :
        /\ pc[r] = "call" /\ Account(r) = a
        /\ \/ f = "account"
           \/ loop[r].purpose = "main" /\ \E i \in 1 .. Len(Needs[kind[r]]) : Needs[kind[r]][i] = f}

CallsWithinLimits ==
    ~saved =>
        \A f \in Features \cup {"account"}, a \in Accounts :
            Cardinality(Using(f, a)) <= limit[IF f = "account" THEN "chat" ELSE f][a]

\* The text a client reads from one stream comes from one account: after the
\* first piece of text no other account is tried.
OneVoice == \A r \in Requests : Cardinality(delivered[r]) <= 1

\* Identical image requests share one run: while one of them is producing, no
\* other one works for the same cache entry.
Producing(r) == Imaging(r) /\ pc[r] \notin {"new", "configure", "dedupe", "waiting", "done"}
OneProducer ==
    \A r, s \in Requests :
        r # s /\ kind[r] = kind[s] => ~(Producing(r) /\ Producing(s))

\* A request that waited for an identical one gets the outcome of that one.
WaiterShares ==
    \A r \in Requests :
        producer[r] # NoRequest /\ answer[r] # "none" => answer[r] = answer[producer[r]]

\* A cancellation that was noticed ends the request: no other account is
\* called and the client gets no answer.
CancelIsFinal ==
    \A r \in Requests : noticed[r] =>
        /\ pc[r] = "done" \/ loop[r].purpose = "diagnose"
        /\ answer[r] \in {"none", "error", "gone"}

\* An answered request leaves no running operation, except that an image
\* request refused for its account leaves the one it had just created.
OperationsEnd ==
    \A r \in Requests :
        pc[r] = "done" /\ op[r] = "running" => Imaging(r) /\ answer[r] = "badRequest"

\* Whom a request waits for: the holders of the limiter it wants while that has no free
\* permit, the request that produces the image it wants as well.
Blocked(r) ==
    \/ pc[r] = "acquire" /\ limiters[loop[r].wait[1]][loop[r].wait[2]].free = 0
    \/ pc[r] = "waiting" /\ entry[producer[r]] = "open"

Awaits(r) ==
    IF pc[r] = "waiting" THEN {producer[r]} ELSE {s \in Requests : loop[r].wait \in held[s]}

\* Requests never wait for one another in a circle, nor for a permit that nobody
\* holds: among any blocked requests one waits for a request outside (the with-blocks
\* take the limiters of a call one inside the other, that of the account last;
\* _dedupe_image_request waits before it takes any).
NoDeadlock ==
    \A blocked \in SUBSET {r \in Requests : Blocked(r)} :
        blocked # {} => \E r \in blocked : \E s \in Awaits(r) : s \notin blocked

\* An upper bound of the steps a request has left, from its local variables l and its
\* label: those of a call, those after the call, and outside calls.
CallLeft(l, at) ==
    IF at = "call"
    THEN [none |-> 2, blank |-> 1, text |-> 0][l.text] + IF l.conv THEN 0 ELSE 1
    ELSE 3 * Len(l.need) + [read |-> 3, take |-> 2, acquire |-> 1][at]

Later(l) == Len(l.order) - l.pos

AfterCall(l) ==
    [rank |-> 28 * Len(l.order) + 7 * Later(l) + 7, init |-> 28 * Later(l) + 21,
     main |-> 28 * Later(l) + 7, diagnose |-> 28 * Later(l) + 1][l.purpose]

StepsLeft(l, at) ==
    IF at \in {"read", "take", "acquire", "call"}
    THEN CallLeft(l, at) + AfterCall(l)
    ELSE [configure |-> 35 * Len(l.order) + 9, dedupe |-> 35 * Len(l.order) + 8,
          waiting |-> 35 * Len(l.order) + 7, order |-> 35 * Len(l.order) + 7,
          rank |-> 28 * Len(l.order) + 7 * Later(l) + 13,
          try |-> 28 * Later(l) + 27, check |-> 28 * Later(l) + 20, done |-> 0][at]

\* No request goes on for ever by itself, whatever accounts fail and limits change: each
\* step of its own brings it nearer to its answer (the account loops walk the order
\* once, for the ranking and for the calls, and ask each account once for its quota, its
\* answer and its diagnosis).
RequestIsBounded ==
    [][\A r \in Requests :
        pc[r] # "new" /\ <<pc'[r], loop'[r]>> # <<pc[r], loop[r]>>
            => StepsLeft(loop'[r], pc'[r]) < StepsLeft(loop[r], pc[r])]_vars

\* Every request that was accepted is answered: limiters taken inside one
\* another and requests waiting for an identical one never block for good.
EveryRequestAnswered == \A r \in Requests : pc[r] # "new" ~> pc[r] = "done"
=============================================================================
