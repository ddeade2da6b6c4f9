------------------------- MODULE BridgeRequestsProofs -------------------------
(***************************************************************************)
(* Proofs about BridgeRequests, for any requests, accounts, settings and   *)
(* servers.                                                                *)
(***************************************************************************)
EXTENDS BridgeRequests, FiniteSetTheorems, TLAPS

USE DEF routerVars, settingVars, requestVars, localVars, operationVars, cacheVars, vars

------------------------------------------------------------------------------
(* Types *)

Names == Features \cup {"account"}

\* The account a request is at exists, except between the last account of the ranking
\* and the sorting; every key has at most MaxGen limiters, that of an account at least one.
Placed(r) ==
    /\ loop[r].order # <<>>
    /\ \/ loop[r].pos \in 1 .. Len(loop[r].order)
       \/ pc[r] = "rank" /\ loop[r].pos = Len(loop[r].order) + 1

Sized ==
    \A key \in Keys : Len(limiters[key]) <= MaxGen /\ (key[1] = "account" => limiters[key] # <<>>)

\* A request that takes limiters has a name left; what it waits for exists.
TakesSome(r) ==
    /\ pc[r] \in {"read", "take", "acquire"} => loop[r].need # <<>>
    /\ pc[r] = "read" => Head(loop[r].need) \in Features
    /\ pc[r] = "acquire" =>
        \E n \in 1 .. Len(limiters[<<Head(loop[r].need), Account(r)>>]) :
            loop[r].wait = <<<<Head(loop[r].need), Account(r)>>, n>>

Types == TypeOK /\ Sized /\ \A r \in Requests : Placed(r) /\ TakesSome(r)

\* Which request produces for an entry of the image cache: an entry is open while
\* the request that made it is at work, and has its answer afterwards.
Dedupe ==
    /\ \A r \in Requests :
        /\ Producing(r) <=> entry[r] = "open"
        /\ entry[r] = "open" => cache[kind[r]] = r
        /\ entry[r] \in Outcomes => pc[r] = "done" /\ answer[r] = entry[r]
        /\ pc[r] \in {"new", "configure", "dedupe", "waiting"} => entry[r] = "none"
        /\ pc[r] \in {"dedupe", "waiting"} => Imaging(r)
        /\ pc[r] # "done" => answer[r] = "none"
        /\ pc[r] = "waiting" => producer[r] # NoRequest
        /\ pc[r] \notin {"waiting", "done"} => producer[r] = NoRequest
        /\ producer[r] # NoRequest =>
            /\ entry[producer[r]] # "none"
            /\ answer[r] # "none" => answer[r] = entry[producer[r]]
    /\ \A k \in Kinds : cache[k] # NoRequest => entry[cache[k]] # "none"

LEMMA Constants ==
    /\ MaxLimit \in Nat \ {0} /\ MaxGen \in Nat \ {0} /\ IsFiniteSet(Requests)
    /\ NoRequest \notin Requests
  BY RequestsAssumption, LimitAssumption

\* How far inside the others a limiter is taken.
Depth(name) == IF name = "upload" THEN 1 ELSE IF name = "account" THEN 3 ELSE 2

LEMMA NeedsTyped ==
    ASSUME NEW k \in Kinds
    PROVE  /\ Needs[k] \in Seq(Names) /\ Needs[k] # <<>> /\ Len(Needs[k]) <= 3
           /\ \A i, j \in 1 .. Len(Needs[k]) : i < j => Depth(Needs[k][i]) < Depth(Needs[k][j])
<1> DEFINE Good(s) == /\ s \in Seq(Names) /\ s # <<>> /\ Len(s) <= 3
                      /\ \A i, j \in 1 .. Len(s) : i < j => Depth(s[i]) < Depth(s[j])
<1> USE DEF Depth
<1>1. /\ Good(<<"chat", "account">>) /\ Good(<<"research", "account">>)
      /\ Good(<<"image", "account">>)
  BY DEF Names, Features
<1>2. Good(<<"upload", "chat", "account">>) /\ Good(<<"upload", "image", "account">>)
  BY DEF Names, Features
<1>3. \/ Needs[k] \in {<<"chat", "account">>, <<"research", "account">>, <<"image", "account">>}
      \/ Needs[k] \in {<<"upload", "chat", "account">>, <<"upload", "image", "account">>}
  BY DEF Needs, Kinds
<1>4. Good(Needs[k])
  <2> HIDE DEF Good
  <2> QED BY <1>1, <1>2, <1>3
<1> QED BY <1>4

\* Rearranging the accounts leaves as many of them.
LEMMA SameLength ==
    ASSUME NEW s \in Seq(Accounts), s # <<>>, NEW t \in [1 .. Len(s) -> Accounts]
    PROVE  t \in Seq(Accounts) /\ Len(t) = Len(s) /\ t # <<>>
<1>1. t \in Seq(Accounts) /\ Len(t) = Len(s)
  OBVIOUS
<1> QED BY <1>1

LEMMA ArrangementsTyped ==
    ASSUME NEW s \in Seq(Accounts), s # <<>>, NEW t \in Arrangements(s)
    PROVE  t \in Seq(Accounts) /\ Len(t) = Len(s) /\ t # <<>>
<1>1. {s[i] : i \in 1 .. Len(s)} \subseteq Accounts
  OBVIOUS
<1>2. t \in [1 .. Len(s) -> Accounts]
  BY <1>1 DEF Arrangements
<1> QED BY <1>2, SameLength

LEMMA RotateTyped ==
    ASSUME NEW s \in Seq(Accounts), s # <<>>, NEW n \in 0 .. Len(s) - 1
    PROVE  Rotate(s, n) \in Seq(Accounts) /\ Len(Rotate(s, n)) = Len(s) /\ Rotate(s, n) # <<>>
<1>1. SubSeq(s, n + 1, Len(s)) \in Seq(Accounts) /\ Len(SubSeq(s, n + 1, Len(s))) = Len(s) - n
  OBVIOUS
<1>2. SubSeq(s, 1, n) \in Seq(Accounts) /\ Len(SubSeq(s, 1, n)) = n
  OBVIOUS
<1>3. ASSUME NEW u \in Seq(Accounts), NEW v \in Seq(Accounts)
      PROVE  u \o v \in Seq(Accounts) /\ Len(u \o v) = Len(u) + Len(v)
  OBVIOUS
<1>4. Rotate(s, n) \in Seq(Accounts) /\ Len(Rotate(s, n)) = Len(s) - n + n
  BY <1>1, <1>2, <1>3 DEF Rotate
<1> QED BY <1>4

LEMMA OrdersTyped ==
    ASSUME TypeOK, NEW s \in Seq(Accounts), s # <<>>, NEW t \in RouterOrders(s)
    PROVE  t \in Seq(Accounts) /\ Len(t) = Len(s) /\ t # <<>>
<1>1. CASE t = s
  BY <1>1
<1>2. CASE t = Rotate(s, turn % Len(s))
  <2>1. turn % Len(s) \in 0 .. Len(s) - 1
    BY DEF TypeOK
  <2> QED BY <1>2, <2>1, RotateTyped
<1>3. CASE t \in Arrangements(s)
  BY <1>3, ArrangementsTyped
<1> QED BY <1>1, <1>2, <1>3 DEF RouterOrders

LEMMA BySupportTyped ==
    ASSUME NEW s \in Seq(Accounts), s # <<>>, NEW support, NEW t \in BySupport(s, support)
    PROVE  t \in Seq(Accounts) /\ Len(t) = Len(s) /\ t # <<>>
<1>1. PICK p \in [1 .. Len(s) -> 1 .. Len(s)] : t = [i \in 1 .. Len(s) |-> s[p[i]]]
  BY DEF BySupport
<1>2. t \in [1 .. Len(s) -> Accounts]
  BY <1>1
<1> QED BY <1>2, SameLength

LEMMA FreshTyped ==
    ASSUME NEW s \in Seq(Accounts), s # <<>>
    PROVE  /\ Fresh(s) \in Locals /\ Fresh(s).order = s /\ Fresh(s).pos = 1
           /\ Fresh(s).pos \in 1 .. Len(Fresh(s).order)
  BY Constants DEF Fresh, Locals, Quotas, QuotaRank

LEMMA ServerTyped ==
    ASSUME TypeOK
    PROVE  server.accounts \in Seq(Accounts) /\ server.accounts # <<>>
           /\ server.kinds \in [Requests -> Kinds] /\ server.named \subseteq Accounts
           /\ server.saves \subseteq Features \X Accounts
  BY ServersAssumption DEF TypeOK

LEMMA InitTypes == Init => Types
<1> SUFFICES ASSUME Init PROVE Types
  OBVIOUS
<1>1. server.accounts \in Seq(Accounts) /\ server.accounts # <<>>
        /\ server.kinds \in [Requests -> Kinds]
  BY ServersAssumption DEF Init
<1>2. loop \in [Requests -> Locals]
  BY <1>1, FreshTyped DEF Init
<1>3. limiters \in [Keys -> Seq([size : 0 .. MaxLimit, free : Nat])] /\ Sized
  <2>1. [size |-> 1, free |-> 1] \in [size : 0 .. MaxLimit, free : Nat]
    BY Constants
  <2>2. limiters = [k \in Keys |-> IF k[1] = "account" THEN <<[size |-> 1, free |-> 1]>> ELSE <<>>]
    BY DEF Init
  <2>3. \A k \in Keys : limiters[k] = <<>> \/ limiters[k] = <<[size |-> 1, free |-> 1]>>
    BY <2>2
  <2>4. ASSUME NEW S, NEW e \in S PROVE <<e>> \in Seq(S) /\ Len(<<e>>) = 1 /\ <<e>> # <<>>
    BY <2>4
  <2>5. <<>> \in Seq([size : 0 .. MaxLimit, free : Nat]) /\ Len(<<>>) = 0
    OBVIOUS
  <2>6. Sized
    BY <2>1, <2>2, <2>3, <2>4, <2>5, Constants DEF Sized
  <2>7. limiters \in [Keys -> Seq([size : 0 .. MaxLimit, free : Nat])]
    BY <2>1, <2>2, <2>4, <2>5
  <2> QED BY <2>6, <2>7
<1>4. limit \in [Features -> [Accounts -> 0 .. MaxLimit]]
  BY Constants DEF Init
<1>5. \A r \in Requests : Placed(r) /\ TakesSome(r)
  BY <1>1, FreshTyped DEF Init, Placed, TakesSome
<1>6. /\ pc \in [Requests -> Labels] /\ answer \in [Requests -> {"none"} \cup Outcomes]
      /\ held \in [Requests -> SUBSET Limiters] /\ delivered \in [Requests -> SUBSET Accounts]
      /\ op \in [Requests -> {"none", "running", "completed"}]
      /\ cancelled \in [Requests -> BOOLEAN] /\ noticed \in [Requests -> BOOLEAN]
      /\ cache \in [Kinds -> Requests \cup {NoRequest}]
      /\ entry \in [Requests -> {"none", "open"} \cup Outcomes]
      /\ producer \in [Requests -> Requests \cup {NoRequest}]
  BY DEF Init, Labels
<1> QED BY <1>1, <1>2, <1>3, <1>4, <1>5, <1>6 DEF Types, TypeOK, Init

------------------------------------------------------------------------------
(* Types: what the parts of a step do *)

Limiter == [size : 0 .. MaxLimit, free : Nat]

\* The types of everything but the limiters and where the requests are.
RestTyped ==
    /\ server \in Servers /\ turn \in Nat
    /\ limit \in [Features -> [Accounts -> 0 .. MaxLimit]]
    /\ saved \in BOOLEAN /\ dirty \subseteq Accounts
    /\ kind \in [Requests -> Kinds]
    /\ answer \in [Requests -> {"none"} \cup Outcomes]
    /\ held \in [Requests -> SUBSET Limiters]
    /\ delivered \in [Requests -> SUBSET Accounts]
    /\ op \in [Requests -> {"none", "running", "completed"}]
    /\ cancelled \in [Requests -> BOOLEAN] /\ noticed \in [Requests -> BOOLEAN]
    /\ cache \in [Kinds -> Requests \cup {NoRequest}]
    /\ entry \in [Requests -> {"none", "open"} \cup Outcomes]
    /\ producer \in [Requests -> Requests \cup {NoRequest}]

\* Limiters are only added.
LimitersGrow ==
    /\ limiters' \in [Keys -> Seq(Limiter)] /\ Sized'
    /\ \A key \in Keys : Len(limiters'[key]) >= Len(limiters[key])

\* A request may have these local variables at this label.
Fits(l, label) ==
    /\ l \in Locals /\ label \in Labels /\ l.order # <<>>
    /\ l.pos \in 1 .. Len(l.order) \/ (label = "rank" /\ l.pos = Len(l.order) + 1)
    /\ label \in {"read", "take", "acquire"} => l.need # <<>>
    /\ label = "read" => Head(l.need) \in Features

LEMMA TypesSplit ==
    Types <=> /\ RestTyped /\ limiters \in [Keys -> Seq(Limiter)] /\ Sized
              /\ pc \in [Requests -> Labels] /\ loop \in [Requests -> Locals]
              /\ \A r \in Requests : Placed(r) /\ TakesSome(r)
  BY DEF Types, TypeOK, RestTyped, Limiter

LEMMA StepEffect ==
    ASSUME Types, NEW r \in Requests, NEW l, NEW label, Step(r, l, label)
    PROVE  /\ loop'[r] = l /\ pc'[r] = label
           /\ \A s \in Requests \ {r} : loop'[s] = loop[s] /\ pc'[s] = pc[s]
           /\ l \in Locals => loop' \in [Requests -> Locals]
           /\ label \in Labels => pc' \in [Requests -> Labels]
  BY DEF Step, Types, TypeOK

\* The account a request is at.
LEMMA AtAccount ==
    ASSUME Types, NEW r \in Requests, loop[r].pos <= Len(loop[r].order)
    PROVE  /\ Account(r) \in Accounts /\ loop[r].pos \in 1 .. Len(loop[r].order)
           /\ loop[r].order \in Seq(Accounts)
  BY DEF Types, TypeOK, Placed, Locals, Account

LEMMA AtKey ==
    ASSUME Types, NEW r \in Requests, pc[r] \in {"read", "take", "acquire"}
    PROVE  /\ Account(r) \in Accounts /\ Head(loop[r].need) \in Names
           /\ <<Head(loop[r].need), Account(r)>> \in Keys
           /\ Tail(loop[r].need) \in Seq(Names) /\ loop[r].need \in Seq(Names)
<1>1. Account(r) \in Accounts
  <2>1. loop[r].order \in Seq(Accounts) /\ loop[r].pos \in 1 .. Len(loop[r].order)
    BY DEF Types, TypeOK, Placed, Locals
  <2>2. loop[r].pos <= Len(loop[r].order)
    BY <2>1
  <2> QED BY <2>2, AtAccount
<1>2. loop[r].need \in Seq(Names) /\ loop[r].need # <<>>
  BY DEF Types, TypeOK, TakesSome, Locals, Names
<1> QED BY <1>1, <1>2 DEF Keys, Names

LEMMA LimitersStay == ASSUME Types, UNCHANGED limiters PROVE LimitersGrow
<1>1. limiters \in [Keys -> Seq(Limiter)] /\ Sized
  BY TypesSplit
<1>2. \A key \in Keys : Len(limiters[key]) \in Nat
  BY <1>1
<1>3. Sized'
  BY <1>1 DEF Sized
<1> QED BY <1>1, <1>2, <1>3 DEF LimitersGrow

LEMMA ReplaceEffect ==
    ASSUME Types, NEW key \in Keys, NEW n \in 0 .. MaxLimit, Replace(key, n)
    PROVE  /\ LimitersGrow /\ limiters'[key] # <<>>
           /\ \A k \in Keys \ {key} : limiters'[k] = limiters[k]
           /\ \/ limiters' = limiters
              \/ limiters'[key] = Append(limiters[key], [size |-> n, free |-> n])
<1>1. limiters \in [Keys -> Seq(Limiter)]
  BY DEF Types, TypeOK, Limiter
<1>2. CASE UNCHANGED limiters /\ limiters[key] # <<>>
  BY <1>2, LimitersStay
<1>3. CASE /\ Len(limiters[key]) < MaxGen
           /\ limiters' = [limiters EXCEPT ![key] = Append(@, [size |-> n, free |-> n])]
  <2> DEFINE new == Append(limiters[key], [size |-> n, free |-> n])
  <2>1. [size |-> n, free |-> n] \in Limiter
    BY DEF Limiter
  <2>2. new \in Seq(Limiter) /\ Len(new) = Len(limiters[key]) + 1 /\ new # <<>>
    <3>1. ASSUME NEW q \in Seq(Limiter), NEW e \in Limiter
          PROVE  /\ Append(q, e) \in Seq(Limiter) /\ Len(Append(q, e)) = Len(q) + 1
                 /\ Append(q, e) # <<>>
      <4>1. Append(q, e) \in Seq(Limiter) /\ Len(Append(q, e)) = Len(q) + 1
        OBVIOUS
      <4>2. Len(<<>>) = 0 /\ Len(q) \in Nat
        OBVIOUS
      <4> QED BY <4>1, <4>2
    <3>2. limiters[key] \in Seq(Limiter)
      BY <1>1
    <3> QED BY <2>1, <3>1, <3>2
  <2>3. limiters' = [limiters EXCEPT ![key] = new]
    BY <1>3
  <2> HIDE DEF new
  <2>4. limiters' \in [Keys -> Seq(Limiter)] /\ limiters'[key] = new
    BY <1>1, <2>2, <2>3
  <2>5. \A k \in Keys \ {key} : limiters'[k] = limiters[k]
    BY <1>1, <2>3
  <2>6. Len(limiters[key]) \in Nat /\ MaxGen \in Nat
    BY <1>1, Constants
  <2>7. \A k \in Keys : Len(limiters[k]) \in Nat
    BY <1>1
  <2>8. LimitersGrow
    BY <1>3, <2>2, <2>4, <2>5, <2>6, <2>7 DEF LimitersGrow, Sized, Types
  <2> QED BY <2>2, <2>4, <2>5, <2>8 DEF new
<1> QED BY <1>2, <1>3 DEF Replace

LEMMA ReleasedEffect ==
    ASSUME Types, NEW ls, limiters' = Released(ls)
    PROVE  /\ LimitersGrow
           /\ \A key \in Keys :
                /\ Len(limiters'[key]) = Len(limiters[key])
                /\ \A i \in 1 .. Len(limiters[key]) :
                     limiters'[key][i] = IF <<key, i>> \in ls
                                         THEN [limiters[key][i] EXCEPT !.free = @ + 1]
                                         ELSE limiters[key][i]
<1>1. limiters \in [Keys -> Seq(Limiter)]
  BY DEF Types, TypeOK, Limiter
<1>2. ASSUME NEW key \in Keys
      PROVE  /\ limiters'[key] \in Seq(Limiter) /\ Len(limiters'[key]) = Len(limiters[key])
             /\ \A i \in 1 .. Len(limiters[key]) :
                  limiters'[key][i] = IF <<key, i>> \in ls
                                      THEN [limiters[key][i] EXCEPT !.free = @ + 1]
                                      ELSE limiters[key][i]
  <2> DEFINE back(i) == IF <<key, i>> \in ls THEN [limiters[key][i] EXCEPT !.free = @ + 1]
                        ELSE limiters[key][i]
  <2>1. limiters'[key] = [i \in 1 .. Len(limiters[key]) |-> back(i)]
    BY DEF Released
  <2>2. \A i \in 1 .. Len(limiters[key]) : back(i) \in Limiter
    <3> SUFFICES ASSUME NEW i \in 1 .. Len(limiters[key]) PROVE back(i) \in Limiter
      OBVIOUS
    <3>1. limiters[key][i] \in Limiter
      BY <1>1
    <3> QED BY <3>1 DEF Limiter
  <2>3. Len(limiters[key]) \in Nat
    BY <1>1
  <2> HIDE DEF back
  <2>4. ASSUME NEW n \in Nat, NEW f, f = [i \in 1 .. n |-> back(i)],
               \A i \in 1 .. n : back(i) \in Limiter
        PROVE  f \in Seq(Limiter) /\ Len(f) = n
    BY <2>4
  <2>5. limiters'[key] \in Seq(Limiter) /\ Len(limiters'[key]) = Len(limiters[key])
    BY <2>1, <2>2, <2>3, <2>4
  <2>6. \A i \in 1 .. Len(limiters[key]) : limiters'[key][i] = back(i)
    BY <2>1
  <2> QED BY <2>5, <2>6 DEF back
<1>3. limiters' \in [Keys -> Seq(Limiter)]
  <2>1. limiters' = [key \in Keys |-> limiters'[key]]
    BY DEF Released
  <2> QED BY <1>2, <2>1
<1>4. Sized'
  <2>1. \A key \in Keys : Len(limiters[key]) = 0 <=> limiters[key] = <<>>
    BY <1>1
  <2>2. \A key \in Keys : Len(limiters'[key]) = 0 <=> limiters'[key] = <<>>
    BY <1>2
  <2> QED BY <1>2, <2>1, <2>2 DEF Sized, Types
<1>5. \A key \in Keys : Len(limiters[key]) \in Nat
  BY <1>1
<1> QED BY <1>2, <1>3, <1>4, <1>5 DEF LimitersGrow

\* A request that stays where it is still fits when limiters are added.
LEMMA StaysFit ==
    ASSUME Types, NEW s \in Requests, LimitersGrow, loop'[s] = loop[s], pc'[s] = pc[s]
    PROVE  Placed(s)' /\ TakesSome(s)'
<1>1. Placed(s)'
  BY DEF Placed, Types
<1>2. CASE pc[s] # "acquire"
  BY <1>1, <1>2 DEF TakesSome, Types
<1>3. CASE pc[s] = "acquire"
  <2>1. <<Head(loop[s].need), Account(s)>> \in Keys
    BY <1>3, AtKey
  <2>2. PICK n \in 1 .. Len(limiters[<<Head(loop[s].need), Account(s)>>]) :
          loop[s].wait = <<<<Head(loop[s].need), Account(s)>>, n>>
    BY <1>3 DEF Types, TakesSome
  <2>3. /\ Len(limiters[<<Head(loop[s].need), Account(s)>>]) \in Nat
        /\ Len(limiters'[<<Head(loop[s].need), Account(s)>>]) \in Nat
    BY <2>1 DEF LimitersGrow, Types, TypeOK
  <2>4. n \in 1 .. Len(limiters'[<<Head(loop[s].need), Account(s)>>])
    BY <2>1, <2>3 DEF LimitersGrow
  <2> QED BY <1>1, <1>3, <2>2, <2>4 DEF TakesSome, Types, Account
<1> QED BY <1>2, <1>3

LEMMA StayTypes ==
    ASSUME Types, RestTyped', LimitersGrow, UNCHANGED <<pc, loop>>
    PROVE  Types'
  BY StaysFit DEF LimitersGrow, Types, TypeOK, RestTyped, Limiter

\* A request that goes where it fits, with limiters only added, keeps the types.
LEMMA GoesTypes ==
    ASSUME Types, NEW r \in Requests, RestTyped', LimitersGrow,
           loop' \in [Requests -> Locals], pc' \in [Requests -> Labels],
           \A s \in Requests \ {r} : loop'[s] = loop[s] /\ pc'[s] = pc[s],
           Placed(r)', TakesSome(r)'
    PROVE  Types'
<1>1. \A s \in Requests : Placed(s)' /\ TakesSome(s)'
  BY StaysFit
<1> QED BY <1>1 DEF LimitersGrow, Types, TypeOK, RestTyped, Limiter

LEMMA StepTypes ==
    ASSUME Types, NEW r \in Requests, NEW l, NEW label, label # "acquire",
           Step(r, l, label), Fits(l, label), RestTyped', LimitersGrow
    PROVE  Types'
<1>1. /\ loop'[r] = l /\ pc'[r] = label
      /\ \A s \in Requests \ {r} : loop'[s] = loop[s] /\ pc'[s] = pc[s]
      /\ loop' \in [Requests -> Locals] /\ pc' \in [Requests -> Labels]
  BY StepEffect DEF Fits
<1>2. Placed(r)' /\ TakesSome(r)'
  BY <1>1 DEF Fits, Placed, TakesSome
<1> QED BY <1>1, <1>2, GoesTypes

\* Accounts of other requests and limiters do not matter where a request ends.
LEMMA FinishTypes ==
    ASSUME Types, NEW r \in Requests, NEW result \in Outcomes, Finish(r, result),
           UNCHANGED <<server, turn, limit, saved, dirty, delivered>>, LimitersGrow,
           held' \in [Requests -> SUBSET Limiters], noticed' \in [Requests -> BOOLEAN]
    PROVE  Types'
<1>1. RestTyped'
  BY DEF Finish, RestTyped, Types, TypeOK
<1>2. Fits(Fresh(server.accounts), "done")
  BY ServerTyped, FreshTyped DEF Fits, Labels, Types
<1> QED BY <1>1, <1>2, StepTypes DEF Finish

\* A call of conversation_init.
LEMMA AskTypes ==
    ASSUME Types, NEW r \in Requests, NEW l, NEW why \in {"rank", "init", "diagnose"},
           Ask(r, l, why), RestTyped', LimitersGrow,
           l \in Locals, l.order # <<>>, l.pos \in 1 .. Len(l.order)
    PROVE  Types'
<1> DEFINE m == [l EXCEPT !.purpose = why, !.need = <<"account">>]
<1>1. m \in Locals /\ m.order = l.order /\ m.pos = l.pos /\ m.need = <<"account">>
  <2>1. <<"account">> \in Seq(Features \cup {"account"})
    OBVIOUS
  <2> QED BY <2>1 DEF Locals
<1>2. Fits(m, "take")
  BY <1>1 DEF Fits, Labels
<1> HIDE DEF m
<1>3. Step(r, m, "take")
  BY DEF Ask, m
<1> QED BY <1>2, <1>3, StepTypes

LEMMA GoOnTypes ==
    ASSUME Types, NEW r \in Requests, NEW code, GoOn(r, code), pc[r] # "rank",
           UNCHANGED <<server, turn, limit, saved, dirty, delivered>>, LimitersGrow,
           held' \in [Requests -> SUBSET Limiters], noticed' \in [Requests -> BOOLEAN]
    PROVE  Types'
<1>1. CASE Finish(r, "error")
  BY <1>1, FinishTypes DEF Outcomes
<1>2. CASE /\ loop[r].pos < Len(loop[r].order)
           /\ Step(r, [Fresh(loop[r].order) EXCEPT !.pos = loop[r].pos + 1,
                                                   !.quota = loop[r].quota], "try")
           /\ UNCHANGED <<kind, answer, op, cancelled, cacheVars>>
  <2> DEFINE f == Fresh(loop[r].order)
             n == loop[r].pos + 1
             q == loop[r].quota
             l == [f EXCEPT !.pos = n, !.quota = q]
  <2>1. /\ loop[r].order \in Seq(Accounts) /\ loop[r].order # <<>> /\ loop[r] \in Locals
        /\ loop[r].pos \in Nat /\ loop[r].quota \in [Accounts -> Quotas]
    BY DEF Types, TypeOK, Placed, Locals
  <2>2. f \in Locals /\ f.order = loop[r].order
    BY <2>1, FreshTyped
  <2>3. Step(r, l, "try")
    BY <1>2
  <2>4. n \in Nat /\ q \in [Accounts -> Quotas]
    BY <2>1
  <2>8. l \in Locals /\ l.order = loop[r].order /\ l.pos = n
    <3> HIDE DEF f, n, q
    <3> QED BY <2>2, <2>4 DEF Locals
  <2>6. Len(loop[r].order) \in Nat
    BY <2>1
  <2> HIDE DEF l
  <2>7. Fits(l, "try")
    BY <1>2, <2>1, <2>8, <2>6 DEF Fits, Labels
  <2>5. RestTyped'
    BY <1>2 DEF RestTyped, Types, TypeOK
  <2> QED BY <2>3, <2>5, <2>7, StepTypes
<1> QED BY <1>1, <1>2 DEF GoOn

LEMMA ReleaseAllTypes ==
    ASSUME Types, NEW r \in Requests, ReleaseAll(r)
    PROVE  LimitersGrow /\ held' \in [Requests -> SUBSET Limiters]
  BY ReleasedEffect DEF ReleaseAll, Types, TypeOK

\* Where a request is that runs on an account.
LEMMA OnAccount ==
    ASSUME Types, NEW r \in Requests, pc[r] # "rank"
    PROVE  /\ loop[r] \in Locals /\ loop[r].order \in Seq(Accounts) /\ loop[r].order # <<>>
           /\ loop[r].pos \in 1 .. Len(loop[r].order) /\ Account(r) \in Accounts
           /\ Len(loop[r].order) \in Nat
<1>1. /\ loop[r] \in Locals /\ loop[r].order \in Seq(Accounts) /\ loop[r].order # <<>>
      /\ loop[r].pos \in 1 .. Len(loop[r].order)
  BY DEF Types, TypeOK, Placed, Locals
<1>2. Len(loop[r].order) \in Nat
  BY <1>1
<1> QED BY <1>1, <1>2, AtAccount

LEMMA FailsTypes ==
    ASSUME Types, NEW r \in Requests, NEW code, Fails(r, code), pc[r] # "rank",
           noticed' \in [Requests -> BOOLEAN]
    PROVE  Types'
<1>1. LimitersGrow /\ held' \in [Requests -> SUBSET Limiters]
  BY ReleaseAllTypes DEF Fails
<1>2. CASE ~Diagnosed(r, code)
  BY <1>1, <1>2, GoOnTypes DEF Fails
<1>3. CASE Diagnosed(r, code)
  <2> DEFINE l == [loop[r] EXCEPT !.failover = ShouldTryNext(r, code),
                                  !.text = "none", !.conv = FALSE]
  <2>1. l \in Locals /\ l.order = loop[r].order /\ l.pos = loop[r].pos
    <3>1. ShouldTryNext(r, code) \in BOOLEAN
      BY DEF ShouldTryNext, ManyAccounts
    <3>2. loop[r] \in Locals
      BY OnAccount
    <3> QED BY <3>1, <3>2 DEF Locals
  <2>2. RestTyped'
    BY <1>1, <1>3 DEF Fails, RestTyped, Types, TypeOK
  <2> HIDE DEF l
  <2>3. Ask(r, l, "diagnose")
    BY <1>3 DEF Fails, l
  <2> QED BY <1>1, <2>1, <2>2, <2>3, AskTypes, OnAccount
<1> QED BY <1>2, <1>3

LEMMA EndsTypes ==
    ASSUME Types, NEW r \in Requests, NEW result \in Outcomes, Ends(r, result),
           noticed' \in [Requests -> BOOLEAN]
    PROVE  Types'
<1>1. LimitersGrow /\ held' \in [Requests -> SUBSET Limiters]
  BY ReleaseAllTypes DEF Ends
<1> QED BY <1>1, FinishTypes DEF Ends

------------------------------------------------------------------------------
(* Types: the actions *)

LEMMA ArriveTypes == ASSUME Types, NEW r \in Requests, Arrive(r) PROVE Types'
<1>0. LimitersGrow
  BY LimitersStay DEF Arrive, Refuse, AnswerAtOnce, Admit
<1>1. CASE Refuse(r) \/ AnswerAtOnce(r)
  <2>1. RestTyped'
    BY <1>1 DEF Refuse, AnswerAtOnce, RestTyped, Types, TypeOK, Outcomes
  <2>2. /\ loop' = loop /\ pc' = [pc EXCEPT ![r] = "done"]
    BY <1>1 DEF Refuse, AnswerAtOnce
  <2>3. /\ loop' \in [Requests -> Locals] /\ pc' \in [Requests -> Labels] /\ pc'[r] = "done"
        /\ \A s \in Requests \ {r} : loop'[s] = loop[s] /\ pc'[s] = pc[s]
    BY <2>2 DEF Types, TypeOK, Labels
  <2>4. pc[r] = "new"
    BY <1>1 DEF Refuse, AnswerAtOnce
  <2>5. Placed(r)' /\ TakesSome(r)'
    BY <2>2, <2>3, <2>4 DEF Placed, TakesSome, Types
  <2> QED BY <1>0, <2>1, <2>3, <2>5, GoesTypes
<1>2. CASE Admit(r)
  <2>1. RestTyped'
    BY <1>2 DEF Admit, RestTyped, Types, TypeOK
  <2>2. CASE Step(r, loop[r], Enter(r))
    <3>1. Fits(loop[r], Enter(r))
      BY <1>2, OnAccount DEF Admit, Fits, Enter, Labels
    <3>2. Enter(r) # "acquire"
      BY DEF Enter
    <3> QED BY <1>0, <2>1, <2>2, <3>1, <3>2, StepTypes
  <2>3. ASSUME NEW a \in server.named,
               Step(r, [Fresh(<<a>>) EXCEPT !.lim = limit["chat"][a]], "configure")
        PROVE  Types'
    <3>1. a \in Accounts /\ limit["chat"][a] \in 0 .. MaxLimit
      BY ServerTyped DEF Types, TypeOK, Features
    <3>2. <<a>> \in Seq(Accounts) /\ <<a>> # <<>>
      <4>1. <<a>> \in Seq(Accounts) /\ Len(<<a>>) = 1 /\ Len(<<>>) = 0
        BY <3>1
      <4> QED BY <4>1
    <3>3. ASSUME NEW f \in Locals, NEW n \in 0 .. MaxLimit
          PROVE  /\ [f EXCEPT !.lim = n] \in Locals /\ [f EXCEPT !.lim = n].order = f.order
                 /\ [f EXCEPT !.lim = n].pos = f.pos
      BY DEF Locals
    <3>4. Fits([Fresh(<<a>>) EXCEPT !.lim = limit["chat"][a]], "configure")
      BY <3>1, <3>2, <3>3, FreshTyped DEF Fits, Labels
    <3> QED BY <1>0, <2>1, <2>3, <3>4, StepTypes
  <2> QED BY <1>2, <2>2, <2>3 DEF Admit
<1> QED BY <1>1, <1>2 DEF Arrive

LEMMA ConfigureTypes == ASSUME Types, NEW r \in Requests, Configure(r) PROVE Types'
<1>1. loop[r].order \in Seq(Accounts) /\ loop[r].order # <<>> /\ Account(r) \in Accounts
        /\ loop[r].lim \in 0 .. MaxLimit
  BY OnAccount DEF Configure, Locals
<1>2. <<"account", Account(r)>> \in Keys
  BY <1>1 DEF Keys
<1>3. LimitersGrow
  BY <1>1, <1>2, ReplaceEffect DEF Configure
<1>4. RestTyped'
  BY DEF Configure, RestTyped, Types, TypeOK
<1>5. Fits(Fresh(loop[r].order), Enter(r)) /\ Enter(r) # "acquire"
  BY <1>1, FreshTyped DEF Fits, Enter, Labels
<1> QED BY <1>3, <1>4, <1>5, StepTypes DEF Configure

LEMMA DedupeTypes == ASSUME Types, NEW r \in Requests, Produce(r) \/ Join(r) PROVE Types'
<1>1. LimitersGrow
  BY LimitersStay DEF Produce, Join
<1>2. /\ pc[r] = "dedupe" /\ loop' = loop
      /\ pc' = [pc EXCEPT ![r] = "order"] \/ pc' = [pc EXCEPT ![r] = "waiting"]
  BY DEF Produce, Join
<1>3. /\ loop' \in [Requests -> Locals] /\ pc' \in [Requests -> Labels]
      /\ \A s \in Requests \ {r} : loop'[s] = loop[s] /\ pc'[s] = pc[s]
  BY <1>2 DEF Types, TypeOK, Labels
<1>4. Placed(r)' /\ TakesSome(r)'
  BY <1>2 DEF Placed, TakesSome, Types, TypeOK
<1>5. RestTyped'
  <2>1. kind[r] \in Kinds /\ cache[kind[r]] \in Requests \cup {NoRequest}
    BY DEF Types, TypeOK
  <2>2. /\ cache' \in [Kinds -> Requests \cup {NoRequest}]
        /\ producer' \in [Requests -> Requests \cup {NoRequest}]
    <3>1. CASE Produce(r)
      BY <2>1, <3>1 DEF Produce, Types, TypeOK
    <3>2. CASE Join(r)
      BY <2>1, <3>2 DEF Join, Types, TypeOK
    <3> QED BY <3>1, <3>2
  <2>3. entry' \in [Requests -> {"none", "open"} \cup Outcomes]
    BY DEF Produce, Join, Types, TypeOK
  <2> QED BY <2>2, <2>3 DEF Produce, Join, RestTyped, Types, TypeOK
<1> QED BY <1>1, <1>3, <1>4, <1>5, GoesTypes

LEMMA WakeTypes == ASSUME Types, Dedupe, NEW r \in Requests, Wake(r) PROVE Types'
<1>1. entry[producer[r]] \in Outcomes
  BY DEF Dedupe, Wake, Types, TypeOK
<1> QED BY <1>1, LimitersStay, FinishTypes DEF Wake, Types, TypeOK

LEMMA ChooseTypes ==
    ASSUME Types, NEW r \in Requests,
           PickOrder(r) \/ NothingToSend(r) \/ Rank(r) \/ AskQuota(r) \/ CaptureMissing(r)
    PROVE  Types'
<1>0. LimitersGrow
  BY LimitersStay DEF PickOrder, NothingToSend, Rank, AskQuota, CaptureMissing
<1>1. CASE PickOrder(r)
  <2>1. PICK s \in RouterOrders(loop[r].order), support \in [Accounts -> DOMAIN SupportRank] :
          \E t \in BySupport(s, support) :
            Step(r, [loop[r] EXCEPT !.order = t],
                 IF Preflighted(r) /\ ManyAccounts(r) THEN "rank" ELSE "try")
    BY <1>1, Zenon DEF PickOrder
  <2>0. PICK t \in BySupport(s, support) :
          Step(r, [loop[r] EXCEPT !.order = t],
               IF Preflighted(r) /\ ManyAccounts(r) THEN "rank" ELSE "try")
    BY <2>1
  <2>2. /\ loop[r] \in Locals /\ loop[r].order \in Seq(Accounts) /\ loop[r].order # <<>>
        /\ loop[r].pos \in 1 .. Len(loop[r].order)
    BY <1>1, OnAccount DEF PickOrder
  <2>3. s \in Seq(Accounts) /\ Len(s) = Len(loop[r].order) /\ s # <<>>
    BY <2>2, OrdersTyped DEF Types
  <2>4. t \in Seq(Accounts) /\ Len(t) = Len(loop[r].order) /\ t # <<>>
    BY <2>3, BySupportTyped
  <2>5. [loop[r] EXCEPT !.order = t] \in Locals
    BY <2>2, <2>4 DEF Locals
  <2>6. /\ [loop[r] EXCEPT !.order = t].order = t
        /\ [loop[r] EXCEPT !.order = t].pos = loop[r].pos
    BY <2>2 DEF Locals
  <2>7. Fits([loop[r] EXCEPT !.order = t],
             IF Preflighted(r) /\ ManyAccounts(r) THEN "rank" ELSE "try")
    BY <2>2, <2>4, <2>5, <2>6 DEF Fits, Labels
  <2>8. turn' \in Nat
    <3>1. server.accounts \in Seq(Accounts) /\ server.accounts # <<>>
      BY ServerTyped DEF Types
    <3>2. Len(server.accounts) \in Nat \ {0}
      BY <3>1
    <3>3. turn \in Nat
      BY DEF Types, TypeOK
    <3>4. (turn + 1) % Len(server.accounts) \in Nat
      <4>1. ASSUME NEW a \in Nat, NEW m \in Nat \ {0} PROVE a % m \in Nat
        OBVIOUS
      <4>2. turn + 1 \in Nat
        BY <3>3
      <4> QED BY <3>2, <4>1, <4>2
    <3> QED BY <1>1, <3>3, <3>4 DEF PickOrder
  <2>9. RestTyped'
    BY <1>1, <2>8 DEF PickOrder, RestTyped, Types, TypeOK
  <2> QED BY <1>0, <2>0, <2>7, <2>9, StepTypes
<1>2. CASE NothingToSend(r) \/ CaptureMissing(r)
  BY <1>0, <1>2, FinishTypes DEF NothingToSend, CaptureMissing, Outcomes, Types, TypeOK
<1>3. CASE Rank(r)
  <2>1. /\ loop[r] \in Locals /\ loop[r].order \in Seq(Accounts) /\ loop[r].order # <<>>
    BY DEF Types, TypeOK, Placed, Locals
  <2>2. RestTyped'
    BY <1>3 DEF Rank, RestTyped, Types, TypeOK
  <2>3. CASE loop[r].pos <= Len(loop[r].order)
    <3>1. loop[r].pos \in 1 .. Len(loop[r].order)
      BY <2>3, AtAccount
    <3> QED BY <1>0, <1>3, <2>1, <2>2, <2>3, <3>1, AskTypes DEF Rank
  <2>4. CASE ~(loop[r].pos <= Len(loop[r].order))
    <3>1. PICK t \in ByQuota(loop[r]) :
            Step(r, [loop[r] EXCEPT !.order = t, !.pos = 1], "try")
      BY <1>3, <2>4 DEF Rank
    <3>2. t \in Seq(Accounts) /\ Len(t) = Len(loop[r].order) /\ t # <<>>
      BY <2>1, ArrangementsTyped DEF ByQuota
    <3>3. /\ [loop[r] EXCEPT !.order = t, !.pos = 1] \in Locals
          /\ [loop[r] EXCEPT !.order = t, !.pos = 1].order = t
          /\ [loop[r] EXCEPT !.order = t, !.pos = 1].pos = 1
      BY <2>1, <3>2 DEF Locals
    <3>4. 1 \in 1 .. Len(t)
      <4>1. Len(t) \in Nat /\ Len(t) # 0
        BY <3>2
      <4> QED BY <4>1
    <3>5. Fits([loop[r] EXCEPT !.order = t, !.pos = 1], "try")
      BY <3>2, <3>3, <3>4 DEF Fits, Labels
    <3> QED BY <1>0, <2>2, <3>1, <3>5, StepTypes
  <2> QED BY <2>3, <2>4
<1>4. CASE AskQuota(r)
  <2>1. RestTyped'
    BY <1>4 DEF AskQuota, RestTyped, Types, TypeOK
  <2> QED BY <1>0, <1>4, <2>1, OnAccount, AskTypes DEF AskQuota
<1> QED BY <1>1, <1>2, <1>3, <1>4

LEMMA PreflightFailsTypes == ASSUME Types, NEW r \in Requests, PreflightFails(r) PROVE Types'
<1>1. PICK code : GoOn(r, code)
  BY DEF PreflightFails
<1>2. pc[r] # "rank"
  BY DEF PreflightFails, Checked
<1> QED BY <1>1, <1>2, LimitersStay, GoOnTypes DEF PreflightFails, Types, TypeOK

\* Where a call goes that has these limiters to take.
LEMMA TakingFits ==
    ASSUME NEW need \in Seq(Names)
    PROVE  /\ Taking(need) \in {"call", "take", "read"}
           /\ Taking(need) # "call" => need # <<>>
           /\ Taking(need) = "read" => Head(need) \in Features
<1>1. need # <<>> => Head(need) \in Names
  OBVIOUS
<1> QED BY <1>1 DEF Taking, Names

LEMMA StartCallTypes == ASSUME Types, NEW r \in Requests, StartCall(r) PROVE Types'
<1>1. pc[r] # "rank"
  BY DEF StartCall, Checked
<1>2. Needs[kind[r]] \in Seq(Names)
  BY NeedsTyped DEF Types, TypeOK
<1> DEFINE l == [loop[r] EXCEPT !.purpose = "main", !.need = Needs[kind[r]]]
<1>3. l \in Locals /\ l.order = loop[r].order /\ l.pos = loop[r].pos /\ l.need = Needs[kind[r]]
  <2>1. loop[r] \in Locals
    BY <1>1, OnAccount
  <2> QED BY <1>2, <2>1 DEF Locals, Names
<1> HIDE DEF l
<1>4. Fits(l, Taking(Needs[kind[r]]))
  BY <1>1, <1>2, <1>3, TakingFits, OnAccount DEF Fits, Labels
<1>5. Step(r, l, Taking(Needs[kind[r]])) /\ Taking(Needs[kind[r]]) # "acquire"
  BY <1>2, TakingFits DEF StartCall, l
<1>6. RestTyped'
  BY DEF StartCall, RestTyped, Types, TypeOK
<1> QED BY <1>4, <1>5, <1>6, LimitersStay, StepTypes DEF StartCall

LEMMA ReadLimitTypes == ASSUME Types, NEW r \in Requests, ReadLimit(r) PROVE Types'
<1> DEFINE n == limit[Head(loop[r].need)][Account(r)]
<1>1. /\ loop[r] \in Locals /\ loop[r].order # <<>> /\ loop[r].need # <<>>
      /\ loop[r].pos \in 1 .. Len(loop[r].order) /\ Account(r) \in Accounts
      /\ Head(loop[r].need) \in Features
  BY OnAccount DEF ReadLimit, Types, TakesSome
<1>2. n \in 0 .. MaxLimit
  BY <1>1 DEF Types, TypeOK
<1>3. Step(r, [loop[r] EXCEPT !.lim = n], "take")
  BY DEF ReadLimit
<1> HIDE DEF n
<1>4. Fits([loop[r] EXCEPT !.lim = n], "take")
  BY <1>1, <1>2 DEF Fits, Labels, Locals
<1>5. RestTyped'
  BY DEF ReadLimit, RestTyped, Types, TypeOK
<1> QED BY <1>3, <1>4, <1>5, LimitersStay, StepTypes DEF ReadLimit

LEMMA TakeLimiterEffect ==
    ASSUME Types, NEW r \in Requests, TakeLimiter(r)
    PROVE  LET key == <<Head(loop[r].need), Account(r)>>
               n == Len(limiters'[key])
           IN  /\ LimitersGrow /\ key \in Keys /\ n \in 1 .. MaxGen
               /\ Step(r, [loop[r] EXCEPT !.wait = <<key, n>>, !.lim = 1], "acquire")
<1> DEFINE key == <<Head(loop[r].need), Account(r)>>
           n == Len(limiters'[key])
<1>1. key \in Keys
  BY AtKey DEF TakeLimiter
<1>2. loop[r].lim \in 0 .. MaxLimit
  BY DEF Types, TypeOK, Locals
<1>3. LimitersGrow /\ limiters'[key] # <<>>
  <2>1. CASE key[1] = "account"
    <3>1. UNCHANGED limiters
      BY <2>1 DEF TakeLimiter
    <3>2. limiters[key] # <<>>
      BY <1>1, <2>1 DEF Types, Sized
    <3> QED BY <3>1, <3>2, LimitersStay
  <2>2. CASE key[1] # "account"
    <3>1. Replace(key, loop[r].lim)
      BY <2>2 DEF TakeLimiter
    <3> QED BY <1>1, <1>2, <3>1, ReplaceEffect
  <2> QED BY <2>1, <2>2
<1>4. n \in 1 .. MaxGen
  <2>1. limiters'[key] \in Seq(Limiter) /\ n <= MaxGen
    BY <1>1, <1>3 DEF LimitersGrow, Sized
  <2>2. n \in Nat /\ n # 0
    BY <1>3, <2>1
  <2> QED BY <2>1, <2>2, Constants
<1>5. Step(r, [loop[r] EXCEPT !.wait = <<key, n>>, !.lim = 1], "acquire")
  BY DEF TakeLimiter
<1> QED BY <1>1, <1>3, <1>4, <1>5

LEMMA TakeLimiterTypes == ASSUME Types, NEW r \in Requests, TakeLimiter(r) PROVE Types'
<1> DEFINE key == <<Head(loop[r].need), Account(r)>>
           n == Len(limiters'[key])
           l == [loop[r] EXCEPT !.wait = <<key, n>>, !.lim = 1]
<1>1. LimitersGrow /\ key \in Keys /\ n \in 1 .. MaxGen /\ Step(r, l, "acquire")
  BY TakeLimiterEffect
<1>2. /\ loop[r] \in Locals /\ loop[r].order # <<>> /\ loop[r].need # <<>>
      /\ loop[r].pos \in 1 .. Len(loop[r].order)
  BY OnAccount DEF TakeLimiter, Types, TakesSome
<1>3. l \in Locals /\ l.order = loop[r].order /\ l.pos = loop[r].pos /\ l.need = loop[r].need
        /\ l.wait = <<key, n>>
  <2>1. <<key, n>> \in Limiters /\ 1 \in 0 .. MaxLimit
    BY <1>1, Constants DEF Limiters
  <2> HIDE DEF key, n
  <2> QED BY <1>2, <2>1 DEF Locals
<1> HIDE DEF l
<1>4. /\ loop'[r] = l /\ pc'[r] = "acquire"
      /\ \A s \in Requests \ {r} : loop'[s] = loop[s] /\ pc'[s] = pc[s]
      /\ loop' \in [Requests -> Locals] /\ pc' \in [Requests -> Labels]
  BY <1>1, <1>3, StepEffect DEF Labels
<1>5. Placed(r)'
  BY <1>2, <1>3, <1>4 DEF Placed
<1>6. Account(r)' = Account(r) /\ n \in 1 .. n
  BY <1>1, <1>3, <1>4 DEF Account
<1>7. TakesSome(r)'
  BY <1>2, <1>3, <1>4, <1>6 DEF TakesSome
<1>8. RestTyped'
  BY DEF TakeLimiter, RestTyped, Types, TypeOK
<1> QED BY <1>1, <1>4, <1>5, <1>7, <1>8, GoesTypes

\* Acquire takes one permit of an existing limiter.
LEMMA TakePermit ==
    ASSUME NEW l \in Limiter, l.free > 0
    PROVE  [l EXCEPT !.free = @ - 1] \in Limiter
  BY DEF Limiter

LEMMA AcquireEffect ==
    ASSUME Types, NEW r \in Requests, Acquire(r)
    PROVE  /\ LimitersGrow /\ loop[r].wait \in Limiters
           /\ loop[r].wait[1] = <<Head(loop[r].need), Account(r)>>
           /\ loop[r].wait[2] \in 1 .. Len(limiters[loop[r].wait[1]])
           /\ held' = [held EXCEPT ![r] = @ \cup {loop[r].wait}]
           /\ limiters[loop[r].wait[1]][loop[r].wait[2]].free > 0
           /\ \A k \in Keys : Len(limiters'[k]) = Len(limiters[k])
           /\ \A k \in Keys : \A i \in 1 .. Len(limiters[k]) :
                limiters'[k][i] = IF <<k, i>> = loop[r].wait
                                  THEN [limiters[k][i] EXCEPT !.free = @ - 1]
                                  ELSE limiters[k][i]
<1>1. PICK n \in 1 .. Len(limiters[<<Head(loop[r].need), Account(r)>>]) :
        loop[r].wait = <<<<Head(loop[r].need), Account(r)>>, n>>
  BY DEF Acquire, Types, TakesSome
<1> DEFINE key == <<Head(loop[r].need), Account(r)>>
           q == limiters[key]
           e == [q[n] EXCEPT !.free = @ - 1]
<1>2. key \in Keys
  BY AtKey DEF Acquire
<1>3. limiters \in [Keys -> Seq(Limiter)]
  BY TypesSplit
<1>4. q[n].free > 0 /\ limiters' = [limiters EXCEPT ![key] = [q EXCEPT ![n] = e]]
        /\ held' = [held EXCEPT ![r] = @ \cup {<<key, n>>}]
  <2>1. LET w == loop[r].wait
        IN  /\ limiters[w[1]][w[2]].free > 0
            /\ limiters' = [limiters EXCEPT ![w[1]][w[2]].free = @ - 1]
            /\ held' = [held EXCEPT ![r] = @ \cup {w}]
    BY DEF Acquire
  <2> QED BY <1>1, <2>1
<1>5. q \in Seq(Limiter) /\ n \in 1 .. Len(q) /\ Len(q) \in Nat
  BY <1>2, <1>3
<1>6. e \in Limiter
  <2>1. q[n] \in Limiter /\ q[n].free > 0
    BY <1>4, <1>5
  <2> QED BY <2>1, TakePermit
<1>7. Len(q) <= MaxGen /\ n \in 1 .. MaxGen
  <2>1. Len(q) <= MaxGen
    BY <1>2 DEF Types, Sized
  <2> QED BY <1>5, <2>1, Constants
<1> HIDE DEF e
<1>8. ASSUME NEW s \in Seq(Limiter), NEW i \in 1 .. Len(s), NEW x \in Limiter
      PROVE  /\ [s EXCEPT ![i] = x] \in Seq(Limiter) /\ Len([s EXCEPT ![i] = x]) = Len(s)
             /\ \A j \in 1 .. Len(s) : [s EXCEPT ![i] = x][j] = IF j = i THEN x ELSE s[j]
  OBVIOUS
<1>9. /\ [q EXCEPT ![n] = e] \in Seq(Limiter) /\ Len([q EXCEPT ![n] = e]) = Len(q)
      /\ \A j \in 1 .. Len(q) : [q EXCEPT ![n] = e][j] = IF j = n THEN e ELSE q[j]
  BY <1>5, <1>6, <1>8
<1> DEFINE p == [q EXCEPT ![n] = e]
<1> HIDE DEF p
<1>10. limiters' = [limiters EXCEPT ![key] = p] /\ p \in Seq(Limiter) /\ Len(p) = Len(q)
         /\ \A j \in 1 .. Len(q) : p[j] = IF j = n THEN e ELSE q[j]
  BY <1>4, <1>9 DEF p
<1>11. limiters' \in [Keys -> Seq(Limiter)] /\ limiters'[key] = p
         /\ \A k \in Keys \ {key} : limiters'[k] = limiters[k]
  BY <1>2, <1>3, <1>10
<1>12. \A k \in Keys : Len(limiters'[k]) = Len(limiters[k]) /\ Len(limiters[k]) \in Nat
  <2> SUFFICES ASSUME NEW k \in Keys
               PROVE  Len(limiters'[k]) = Len(limiters[k]) /\ Len(limiters[k]) \in Nat
    OBVIOUS
  <2>1. Len(limiters[k]) \in Nat
    BY <1>3
  <2>2. CASE k = key
    BY <1>10, <1>11, <2>1, <2>2
  <2>3. CASE k # key
    BY <1>11, <2>1, <2>3
  <2> QED BY <2>2, <2>3
<1>13. Sized'
  <2>1. \A k \in Keys : (limiters[k] # <<>>) = (limiters'[k] # <<>>)
    <3>1. \A k \in Keys : Len(limiters[k]) = 0 <=> limiters[k] = <<>>
      BY <1>3
    <3>2. \A k \in Keys : Len(limiters'[k]) = 0 <=> limiters'[k] = <<>>
      BY <1>11
    <3> QED BY <1>12, <3>1, <3>2
  <2> QED BY <1>12, <2>1 DEF Sized, Types
<1>14. \A k \in Keys : \A i \in 1 .. Len(limiters[k]) :
         limiters'[k][i] = IF <<k, i>> = <<key, n>> THEN [limiters[k][i] EXCEPT !.free = @ - 1]
                           ELSE limiters[k][i]
  <2> SUFFICES ASSUME NEW k \in Keys, NEW i \in 1 .. Len(limiters[k])
               PROVE  limiters'[k][i] = IF k = key /\ i = n THEN e ELSE limiters[k][i]
    BY DEF e
  <2>1. CASE k = key
    BY <1>10, <1>11, <2>1
  <2>2. CASE k # key
    BY <1>11, <2>2
  <2> QED BY <2>1, <2>2
<1>15. LimitersGrow
  BY <1>11, <1>12, <1>13 DEF LimitersGrow
<1>16. <<key, n>> \in Limiters
  BY <1>2, <1>7 DEF Limiters
<1>17. loop[r].wait = <<key, n>> /\ loop[r].wait[1] = key /\ loop[r].wait[2] = n
  BY <1>1
<1>18. /\ LimitersGrow /\ loop[r].wait \in Limiters
       /\ loop[r].wait[2] \in 1 .. Len(limiters[loop[r].wait[1]])
       /\ held' = [held EXCEPT ![r] = @ \cup {loop[r].wait}]
       /\ limiters[loop[r].wait[1]][loop[r].wait[2]].free > 0
  BY <1>4, <1>5, <1>15, <1>16, <1>17
<1>19. \A k \in Keys : \A i \in 1 .. Len(limiters[k]) :
         limiters'[k][i] = IF <<k, i>> = loop[r].wait
                           THEN [limiters[k][i] EXCEPT !.free = @ - 1] ELSE limiters[k][i]
  <2> SUFFICES ASSUME NEW k \in Keys, NEW i \in 1 .. Len(limiters[k])
               PROVE  limiters'[k][i] = IF <<k, i>> = loop[r].wait
                        THEN [limiters[k][i] EXCEPT !.free = @ - 1] ELSE limiters[k][i]
    OBVIOUS
  <2>1. <<k, i>> = loop[r].wait <=> <<k, i>> = <<key, n>>
    BY <1>17
  <2>2. limiters'[k][i] = IF <<k, i>> = <<key, n>>
                          THEN [limiters[k][i] EXCEPT !.free = @ - 1] ELSE limiters[k][i]
    BY <1>14, Zenon
  <2> HIDE DEF key
  <2>3. CASE <<k, i>> = <<key, n>>
    BY <2>1, <2>2, <2>3, Zenon
  <2>4. CASE <<k, i>> # <<key, n>>
    BY <2>1, <2>2, <2>4, Zenon
  <2> QED BY <2>3, <2>4
<1> QED BY <1>12, <1>17, <1>18, <1>19

LEMMA AcquireSteps ==
    ASSUME Types, NEW r \in Requests, Acquire(r)
    PROVE  /\ pc[r] = "acquire" /\ pc'[r] = Taking(Tail(loop[r].need))
           /\ loop'[r] = [loop[r] EXCEPT !.need = Tail(loop[r].need), !.wait = <<>>]
           /\ \A s \in Requests \ {r} : loop'[s] = loop[s] /\ pc'[s] = pc[s]
           /\ UNCHANGED <<server, turn, limit, saved, dirty, kind, answer, delivered, op,
                          cancelled, noticed, cacheVars>>
<1> DEFINE rest == Tail(loop[r].need)
           l == [loop[r] EXCEPT !.need = rest, !.wait = <<>>]
<1>1. /\ pc[r] = "acquire" /\ Step(r, l, Taking(rest))
      /\ UNCHANGED <<server, turn, limit, saved, dirty, kind, answer, delivered, op,
                     cancelled, noticed, cacheVars>>
  BY DEF Acquire
<1> HIDE DEF l
<1> QED BY <1>1, StepEffect DEF l

LEMMA AcquireTypes == ASSUME Types, NEW r \in Requests, Acquire(r) PROVE Types'
<1>1. LimitersGrow /\ loop[r].wait \in Limiters
        /\ held' = [held EXCEPT ![r] = @ \cup {loop[r].wait}]
  BY AcquireEffect
<1>2. RestTyped'
  BY <1>1, AcquireSteps DEF RestTyped, Types, TypeOK
<1> DEFINE rest == Tail(loop[r].need)
           l == [loop[r] EXCEPT !.need = rest, !.wait = <<>>]
<1>3. rest \in Seq(Names)
  BY AtKey DEF Acquire
<1>4. Step(r, l, Taking(rest))
  BY DEF Acquire
<1> HIDE DEF rest
<1>5. l \in Locals /\ l.order = loop[r].order /\ l.pos = loop[r].pos /\ l.need = rest
  BY <1>3, OnAccount DEF Acquire, Locals, Names
<1> HIDE DEF l
<1>6. Fits(l, Taking(rest)) /\ Taking(rest) # "acquire"
  BY <1>3, <1>5, TakingFits, OnAccount DEF Acquire, Fits, Labels
<1> QED BY <1>1, <1>2, <1>4, <1>6, StepTypes

LEMMA ReturnsTypes ==
    ASSUME Types, NEW r \in Requests, RankReturns(r) \/ InitReturns(r)
    PROVE  Types'
<1>1. LimitersGrow /\ held' \in [Requests -> SUBSET Limiters]
  BY ReleaseAllTypes DEF RankReturns, InitReturns
<1>2. RestTyped'
  BY <1>1 DEF RankReturns, InitReturns, RestTyped, Types, TypeOK
<1>3. /\ loop[r] \in Locals /\ loop[r].order # <<>> /\ Account(r) \in Accounts
      /\ loop[r].pos \in 1 .. Len(loop[r].order) /\ Len(loop[r].order) \in Nat
  BY OnAccount DEF RankReturns, InitReturns, Calling
<1>4. ASSUME NEW quota \in Quotas, NEW n \in {loop[r].pos, loop[r].pos + 1}
      PROVE  LET l == [loop[r] EXCEPT !.quota[Account(r)] = quota, !.pos = n]
             IN  l \in Locals /\ l.order = loop[r].order /\ l.pos = n
  <2> DEFINE q == [loop[r].quota EXCEPT ![Account(r)] = quota]
  <2>1. q \in [Accounts -> Quotas] /\ n \in Nat
    BY <1>3 DEF Locals
  <2>2. [loop[r] EXCEPT !.quota[Account(r)] = quota, !.pos = n]
          = [loop[r] EXCEPT !.quota = q, !.pos = n]
    OBVIOUS
  <2> HIDE DEF q
  <2>3. LET l == [loop[r] EXCEPT !.quota = q, !.pos = n]
        IN  l \in Locals /\ l.order = loop[r].order /\ l.pos = n
    BY <1>3, <2>1 DEF Locals
  <2> QED BY <2>2, <2>3
<1>5. CASE RankReturns(r)
  <2>1. PICK quota \in Quotas :
          Step(r, [loop[r] EXCEPT !.quota[Account(r)] = quota, !.pos = @ + 1], "rank")
    BY <1>5 DEF RankReturns
  <2>2. Fits([loop[r] EXCEPT !.quota[Account(r)] = quota, !.pos = loop[r].pos + 1], "rank")
    <3>1. loop[r].pos + 1 \in 1 .. Len(loop[r].order) \/ loop[r].pos + 1 = Len(loop[r].order) + 1
      BY <1>3
    <3> DEFINE l == [loop[r] EXCEPT !.quota[Account(r)] = quota, !.pos = loop[r].pos + 1]
    <3>2. l \in Locals /\ l.order = loop[r].order /\ l.pos = loop[r].pos + 1
      BY <1>4, Zenon
    <3> HIDE DEF l
    <3>3. Fits(l, "rank")
      BY <1>3, <3>1, <3>2 DEF Fits, Labels
    <3> QED BY <3>3 DEF l
  <2> QED BY <1>1, <1>2, <2>1, <2>2, StepTypes
<1>6. CASE InitReturns(r)
  <2>1. PICK quota \in Quotas :
          Step(r, [loop[r] EXCEPT !.quota[Account(r)] = quota], "check")
    BY <1>6 DEF InitReturns
  <2>2. /\ [loop[r] EXCEPT !.quota[Account(r)] = quota] \in Locals
        /\ [loop[r] EXCEPT !.quota[Account(r)] = quota].order = loop[r].order
        /\ [loop[r] EXCEPT !.quota[Account(r)] = quota].pos = loop[r].pos
    BY <1>3 DEF Locals
  <2>3. Fits([loop[r] EXCEPT !.quota[Account(r)] = quota], "check")
    BY <1>3, <2>2 DEF Fits, Labels
  <2> QED BY <1>1, <1>2, <2>1, <2>3, StepTypes
<1> QED BY <1>5, <1>6

LEMMA DiagnoseTypes == ASSUME Types, NEW r \in Requests, Diagnose(r) PROVE Types'
<1>1. LimitersGrow /\ held' \in [Requests -> SUBSET Limiters]
  BY ReleaseAllTypes DEF Diagnose
<1> QED BY <1>1, GoOnTypes DEF Diagnose, Calling, Types, TypeOK

LEMMA HearTypes ==
    ASSUME Types, NEW r \in Requests, HearConversation(r) \/ HearText(r)
    PROVE  Types'
<1>1. /\ loop[r] \in Locals /\ loop[r].order # <<>> /\ Account(r) \in Accounts
      /\ loop[r].pos \in 1 .. Len(loop[r].order)
  BY OnAccount DEF HearConversation, HearText, Calling
<1>2. RestTyped'
  <2>1. delivered' \in [Requests -> SUBSET Accounts]
    BY <1>1 DEF HearConversation, HearText, Types, TypeOK
  <2>2. UNCHANGED <<routerVars, settingVars, kind, answer, held, operationVars, cacheVars>>
    BY DEF HearConversation, HearText
  <2> QED BY <2>1, <2>2 DEF RestTyped, Types, TypeOK
<1>3. \E l : /\ Step(r, l, "call")
             /\ l \in {[loop[r] EXCEPT !.conv = TRUE], [loop[r] EXCEPT !.text = "blank"],
                       [loop[r] EXCEPT !.text = "text"]}
  BY DEF HearConversation, HearText
<1>4. PICK l : /\ Step(r, l, "call")
               /\ l \in {[loop[r] EXCEPT !.conv = TRUE], [loop[r] EXCEPT !.text = "blank"],
                         [loop[r] EXCEPT !.text = "text"]}
  BY <1>3
<1>5. Fits(l, "call")
  BY <1>1, <1>4 DEF Fits, Labels, Locals
<1> QED BY <1>2, <1>4, <1>5, LimitersStay, StepTypes DEF HearConversation, HearText

LEMMA CallTypes ==
    ASSUME Types, NEW r \in Requests,
           \/ FeatureDisabled(r) \/ NoticeCancel(r) \/ ClientGone(r) \/ ProviderFails(r)
           \/ NetworkFails(r) \/ NothingReturned(r) \/ Answered(r)
    PROVE  Types'
<1>1. pc[r] # "rank"
  BY DEF FeatureDisabled, NoticeCancel, ClientGone, ProviderFails, NetworkFails,
         NothingReturned, Answered, Calling
<1>2. CASE ~Answered(r)
  <2>1. noticed' \in [Requests -> BOOLEAN]
    BY <1>2 DEF FeatureDisabled, NoticeCancel, ClientGone, ProviderFails, NetworkFails,
                NothingReturned, Types, TypeOK
  <2>2. (\E code : Fails(r, code)) \/ \E result \in Outcomes : Ends(r, result)
    BY <1>2 DEF FeatureDisabled, NoticeCancel, ClientGone, ProviderFails, NetworkFails,
                NothingReturned, Outcomes
  <2> QED BY <1>1, <2>1, <2>2, FailsTypes, EndsTypes
<1>3. CASE Answered(r)
  <2>1. LimitersGrow /\ held' \in [Requests -> SUBSET Limiters]
    BY <1>3, ReleaseAllTypes DEF Answered
  <2>2. PICK result \in Outcomes : Finish(r, result)
    BY <1>3 DEF Answered, Outcomes
  <2>3. Account(r) \in Accounts
    BY <1>1, OnAccount
  <2>4. RestTyped'
    <3>1. delivered' \in [Requests -> SUBSET Accounts]
      BY <1>3, <2>3 DEF Answered, Types, TypeOK
    <3>2. UNCHANGED <<routerVars, settingVars, kind, cancelled, noticed, producer>>
      BY <1>3, <2>2 DEF Answered, Finish
    <3>3. /\ answer' \in [Requests -> {"none"} \cup Outcomes]
          /\ op' \in [Requests -> {"none", "running", "completed"}]
          /\ cache' \in [Kinds -> Requests \cup {NoRequest}]
          /\ entry' \in [Requests -> {"none", "open"} \cup Outcomes]
      BY <2>2 DEF Finish, Types, TypeOK
    <3> QED BY <2>1, <3>1, <3>2, <3>3 DEF RestTyped, Types, TypeOK
  <2>5. Fits(Fresh(server.accounts), "done")
    BY ServerTyped, FreshTyped DEF Fits, Labels, Types
  <2> QED BY <2>1, <2>2, <2>4, <2>5, StepTypes DEF Finish
<1> QED BY <1>2, <1>3

LEMMA OtherTypes ==
    ASSUME Types, Admin \/ (\E r \in Requests : Cancel(r)) \/ UNCHANGED vars
    PROVE  Types'
<1>1. UNCHANGED <<pc, loop>>
  BY DEF Admin, SaveSettings, Reconfigure, Cancel
<1>2. RestTyped'
  <2>1. CASE SaveSettings
    <3>1. PICK key \in server.saves, n \in 0 .. MaxLimit :
            /\ limit' = [limit EXCEPT ![key[1]][key[2]] = n]
            /\ dirty' = IF key[1] = "chat" THEN {key[2]} ELSE {}
      BY <2>1 DEF SaveSettings
    <3>2. key[1] \in Features /\ key[2] \in Accounts
      BY ServerTyped DEF Types
    <3>3. limit' \in [Features -> [Accounts -> 0 .. MaxLimit]] /\ dirty' \subseteq Accounts
      BY <3>1, <3>2 DEF Types, TypeOK
    <3> QED BY <2>1, <3>3 DEF SaveSettings, RestTyped, Types, TypeOK
  <2>2. CASE \E a \in Accounts : Reconfigure(a)
    BY <2>2 DEF Reconfigure, RestTyped, Types, TypeOK
  <2>3. CASE (\E r \in Requests : Cancel(r)) \/ UNCHANGED vars
    BY <2>3 DEF Cancel, RestTyped, Types, TypeOK
  <2> QED BY <2>1, <2>2, <2>3 DEF Admin
<1>3. LimitersGrow
  <2>1. ASSUME NEW a \in Accounts, Reconfigure(a) PROVE LimitersGrow
    <3>1. <<"account", a>> \in Keys /\ limit["chat"][a] \in 0 .. MaxLimit
      BY DEF Keys, Types, TypeOK, Features
    <3> QED BY <2>1, <3>1, ReplaceEffect DEF Reconfigure
  <2> QED BY <2>1, LimitersStay DEF Admin, SaveSettings, Cancel
<1> QED BY <1>1, <1>2, <1>3, StayTypes

LEMMA ServeTypes == ASSUME Types, Dedupe, NEW r \in Requests, Serve(r) PROVE Types'
  BY ConfigureTypes, DedupeTypes, WakeTypes, ChooseTypes, PreflightFailsTypes, StartCallTypes,
     ReadLimitTypes, TakeLimiterTypes, AcquireTypes, ReturnsTypes, DiagnoseTypes, HearTypes,
     CallTypes DEF Serve

LEMMA NextTypes == Types /\ Dedupe /\ [Next]_vars => Types'
  BY ArriveTypes, ServeTypes, OtherTypes DEF Next

------------------------------------------------------------------------------
(* Identical image requests *)

\* Labels of a request that is at work for itself.
Busy == Labels \ {"new", "configure", "dedupe", "waiting", "done"}

\* A step that keeps the request at work.
Still(r) ==
    /\ pc[r] \in Busy /\ pc'[r] \in Busy
    /\ \A s \in Requests \ {r} : pc'[s] = pc[s]
    /\ UNCHANGED <<kind, answer, op, cacheVars>>

LEMMA StepStill ==
    ASSUME Types, NEW r \in Requests, NEW label \in Busy, pc' = [pc EXCEPT ![r] = label],
           pc[r] \in Busy, UNCHANGED <<kind, answer, op, cacheVars>>
    PROVE  Still(r)
  BY DEF Still, Types, TypeOK

LEMMA GoOnKinds ==
    ASSUME Types, NEW r \in Requests, NEW code, GoOn(r, code), pc[r] \in Busy
    PROVE  Still(r) \/ Finish(r, "error")
<1>1. "try" \in Busy
  BY DEF Busy, Labels
<1> QED BY <1>1, StepStill DEF GoOn, Step

LEMMA FailsKinds ==
    ASSUME Types, NEW r \in Requests, NEW code, Fails(r, code), pc[r] \in Busy
    PROVE  Still(r) \/ Finish(r, "error")
<1>1. "take" \in Busy
  BY DEF Busy, Labels
<1> QED BY <1>1, StepStill, GoOnKinds DEF Fails, Ask, Step

\* What a step of a request's thread is.
LEMMA ServeKinds ==
    ASSUME Types, NEW r \in Requests, Serve(r)
    PROVE  \/ Configure(r) \/ Produce(r) \/ Join(r) \/ Wake(r)
           \/ Still(r)
           \/ pc[r] \in Busy /\ \E result \in Outcomes : Finish(r, result)
<1>1. /\ {"order", "rank", "try", "check", "read", "take", "acquire", "call"} \subseteq Busy
      /\ {"error", "badRequest", "dropped", "gone", "ok"} \subseteq Outcomes
  BY DEF Busy, Labels, Outcomes
<1>2. CASE NothingToSend(r) \/ CaptureMissing(r)
  BY <1>1, <1>2 DEF NothingToSend, CaptureMissing
<1>3. CASE PickOrder(r)
  <2>1. \/ pc' = [pc EXCEPT ![r] = "rank"]
        \/ pc' = [pc EXCEPT ![r] = "try"]
    BY <1>3 DEF PickOrder, Step
  <2> QED BY <1>1, <1>3, <2>1, StepStill DEF PickOrder
<1>4. CASE Rank(r) \/ AskQuota(r) \/ StartCall(r)
  <2>1. \E label \in {"take", "try", "read", "call"} : pc' = [pc EXCEPT ![r] = label]
    BY <1>4 DEF Rank, AskQuota, StartCall, Ask, Taking, Step
  <2> QED BY <1>1, <1>4, <2>1, StepStill DEF Rank, AskQuota, StartCall, Checked
<1>5. CASE PreflightFails(r)
  <2>1. PICK code : GoOn(r, code)
    BY <1>5 DEF PreflightFails
  <2> QED BY <1>1, <1>5, <2>1, GoOnKinds DEF PreflightFails, Checked
<1>6. CASE ReadLimit(r) \/ TakeLimiter(r) \/ Acquire(r)
  <2>1. \E label \in {"take", "acquire", "read", "call"} : pc' = [pc EXCEPT ![r] = label]
    BY <1>6 DEF ReadLimit, TakeLimiter, Acquire, Taking, Step
  <2> QED BY <1>1, <1>6, <2>1, StepStill DEF ReadLimit, TakeLimiter, Acquire
<1>7. CASE RankReturns(r) \/ InitReturns(r) \/ HearConversation(r) \/ HearText(r)
  <2>1. \E label \in {"rank", "check", "call"} : pc' = [pc EXCEPT ![r] = label]
    BY <1>7 DEF RankReturns, InitReturns, HearConversation, HearText, Step
  <2> QED BY <1>1, <1>7, <2>1, StepStill
          DEF RankReturns, InitReturns, HearConversation, HearText, Calling
<1>8. CASE Diagnose(r)
  BY <1>1, <1>8, GoOnKinds DEF Diagnose, Calling
<1>9. CASE \/ FeatureDisabled(r) \/ NoticeCancel(r) \/ ClientGone(r) \/ ProviderFails(r)
           \/ NetworkFails(r) \/ NothingReturned(r) \/ Answered(r)
  <2>1. pc[r] \in Busy
    BY <1>1, <1>9 DEF FeatureDisabled, NoticeCancel, ClientGone, ProviderFails, NetworkFails,
                      NothingReturned, Answered, Calling
  <2>2. (\E code : Fails(r, code)) \/ \E result \in Outcomes : Finish(r, result)
    BY <1>1, <1>9 DEF FeatureDisabled, NoticeCancel, ClientGone, ProviderFails, NetworkFails,
                      NothingReturned, Answered, Ends
  <2> QED BY <1>1, <2>1, <2>2, FailsKinds
<1> QED BY <1>2, <1>3, <1>4, <1>5, <1>6, <1>7, <1>8, <1>9 DEF Serve

LEMMA StillDedupe == ASSUME Types, Dedupe, NEW r \in Requests, Still(r) PROVE Dedupe'
  BY DEF Dedupe, Still, Busy, Types, TypeOK, Producing, Imaging

LEMMA FinishDedupe ==
    ASSUME Types, Dedupe, NEW r \in Requests, NEW result \in Outcomes, Finish(r, result),
           pc[r] \in Busy \/ (pc[r] = "waiting" /\ result = entry[producer[r]])
    PROVE  Dedupe'
<1>1. /\ answer' = [answer EXCEPT ![r] = result] /\ pc' = [pc EXCEPT ![r] = "done"]
      /\ UNCHANGED <<kind, producer>>
      /\ IF entry[r] = "open"
         THEN /\ entry' = [entry EXCEPT ![r] = result]
              /\ cache' = [cache EXCEPT ![kind[r]] = IF result = "ok" THEN @ ELSE NoRequest]
         ELSE UNCHANGED <<entry, cache>>
  BY DEF Finish, Step
<1>2. result # "none" /\ result # "open"
  BY DEF Outcomes
<1>3. entry[r] = "open" <=> (pc[r] \in Busy /\ Imaging(r))
  BY DEF Dedupe, Producing, Busy, Types, TypeOK
<1>4. ASSUME NEW s \in Requests \ {r}
      PROVE  /\ Producing(s)' <=> entry'[s] = "open"
             /\ entry'[s] = "open" => cache'[kind[s]] = s
             /\ entry'[s] \in Outcomes => pc'[s] = "done" /\ answer'[s] = entry'[s]
             /\ producer[s] # NoRequest =>
                 /\ entry'[producer[s]] # "none"
                 /\ answer[s] # "none" => answer'[s] = entry'[producer[s]]
  <2>1. entry'[s] = entry[s] /\ pc'[s] = pc[s] /\ answer'[s] = answer[s]
    BY <1>1 DEF Types, TypeOK
  <2>2. Producing(s)' <=> entry'[s] = "open"
    BY <1>1, <2>1 DEF Dedupe, Producing, Imaging
  <2>3. entry'[s] = "open" => cache'[kind[s]] = s
    BY <1>1, <2>1 DEF Dedupe, Types, TypeOK
  <2>4. producer[s] # NoRequest =>
          /\ entry'[producer[s]] # "none"
          /\ answer[s] # "none" => answer'[s] = entry'[producer[s]]
    <3> SUFFICES ASSUME producer[s] # NoRequest
                 PROVE  /\ entry'[producer[s]] # "none"
                        /\ answer[s] # "none" => answer[s] = entry'[producer[s]]
      BY <2>1
    <3>1. producer[s] \in Requests /\ answer[s] \in {"none"} \cup Outcomes
      BY DEF Types, TypeOK
    <3>2. CASE producer[s] = r /\ entry[r] = "open"
      <4>1. answer[s] = "none"
        BY <3>1, <3>2 DEF Dedupe, Outcomes
      <4> QED BY <1>1, <1>2, <3>2, <4>1 DEF Types, TypeOK
    <3>3. CASE ~(producer[s] = r /\ entry[r] = "open")
      <4>1. entry'[producer[s]] = entry[producer[s]]
        BY <1>1, <3>1, <3>3 DEF Types, TypeOK
      <4> QED BY <4>1 DEF Dedupe
    <3> QED BY <3>2, <3>3
  <2> QED BY <2>1, <2>2, <2>3, <2>4 DEF Dedupe
<1>5. /\ ~Producing(r)' /\ entry'[r] # "open"
      /\ entry'[r] \in Outcomes => pc'[r] = "done" /\ answer'[r] = entry'[r]
  BY <1>1, <1>2, <1>3 DEF Dedupe, Producing, Types, TypeOK, Outcomes, Busy
<1>6. producer[r] # NoRequest =>
        entry'[producer[r]] # "none" /\ answer'[r] = entry'[producer[r]]
  <2> SUFFICES ASSUME producer[r] # NoRequest
               PROVE  entry'[producer[r]] # "none" /\ answer'[r] = entry'[producer[r]]
    OBVIOUS
  <2>1. pc[r] = "waiting" /\ result = entry[producer[r]] /\ entry[r] # "open"
    BY <1>3 DEF Dedupe, Busy
  <2> QED BY <1>1, <1>2, <2>1 DEF Types, TypeOK
<1>7. \A k \in Kinds : cache'[k] # NoRequest => entry'[cache'[k]] # "none"
  <2> SUFFICES ASSUME NEW k \in Kinds, cache'[k] # NoRequest PROVE entry'[cache'[k]] # "none"
    OBVIOUS
  <2>1. cache'[k] = cache[k] /\ cache[k] \in Requests
    BY <1>1 DEF Types, TypeOK
  <2>2. entry[cache[k]] # "none"
    BY <2>1 DEF Dedupe
  <2> QED BY <1>1, <1>2, <2>1, <2>2 DEF Types, TypeOK
<1>8. \A s \in Requests : pc'[s] = IF s = r THEN "done" ELSE pc[s]
  BY <1>1 DEF Types, TypeOK
<1>9. \A s \in Requests \ {r} : entry'[s] = entry[s] /\ answer'[s] = answer[s]
  BY <1>1 DEF Types, TypeOK
<1> QED BY <1>1, <1>4, <1>5, <1>6, <1>7, <1>8, <1>9 DEF Dedupe, Imaging

\* Steps before a request is at work.
LEMMA EarlyDedupe ==
    ASSUME Types, Dedupe, NEW r \in Requests, pc[r] \in {"new", "configure", "dedupe"},
           \A s \in Requests \ {r} : pc'[s] = pc[s] /\ answer'[s] = answer[s]
                                       /\ producer'[s] = producer[s],
           UNCHANGED <<kind, cache, entry>>,
           \/ pc'[r] = "done" /\ UNCHANGED producer
           \/ /\ pc'[r] \in {"configure", "dedupe", "order"} /\ UNCHANGED <<answer, producer>>
              /\ (pc'[r] = "order") => ~Imaging(r)
              /\ (pc'[r] = "dedupe") => Imaging(r)
           \/ /\ pc'[r] = "waiting" /\ Imaging(r) /\ UNCHANGED answer
              /\ producer'[r] = cache[kind[r]] /\ cache[kind[r]] # NoRequest
    PROVE  Dedupe'
<1>1. entry[r] = "none" /\ answer[r] = "none" /\ producer[r] = NoRequest
  BY DEF Dedupe
<1>2. kind[r] \in Kinds
  BY DEF Types, TypeOK
<1>3. ASSUME NEW s \in Requests \ {r}
      PROVE  /\ (Producing(s)' <=> Producing(s)) /\ (Imaging(s)' <=> Imaging(s))
             /\ producer[s] # r \/ producer[s] = NoRequest
  BY <1>1 DEF Producing, Imaging, Dedupe
<1>4. ~Producing(r)' /\ (Imaging(r)' <=> Imaging(r))
  BY DEF Producing, Imaging
<1> QED BY <1>1, <1>2, <1>3, <1>4 DEF Dedupe, Outcomes

LEMMA ProduceDedupe == ASSUME Types, Dedupe, NEW r \in Requests, Produce(r) PROVE Dedupe'
<1>1. /\ kind[r] \in Kinds /\ Imaging(r) /\ entry[r] = "none" /\ producer[r] = NoRequest
      /\ answer[r] = "none"
  BY DEF Produce, Dedupe, Types, TypeOK
<1>2. /\ entry'[r] = "open" /\ cache'[kind[r]] = r /\ pc'[r] = "order"
      /\ \A s \in Requests \ {r} : entry'[s] = entry[s] /\ pc'[s] = pc[s]
      /\ \A k \in Kinds \ {kind[r]} : cache'[k] = cache[k]
      /\ UNCHANGED <<kind, answer, producer>>
  BY <1>1 DEF Produce, Types, TypeOK
<1>3. \A s \in Requests : Imaging(s)' <=> Imaging(s)
  BY <1>2 DEF Imaging
<1>4. ASSUME NEW s \in Requests \ {r}, entry[s] = "open" PROVE kind[s] # kind[r]
  <2>1. cache[kind[s]] = s /\ s # NoRequest
    BY <1>4, Constants DEF Dedupe
  <2> QED BY <1>4, <2>1 DEF Produce
<1>5. ASSUME NEW s \in Requests, producer[s] # NoRequest
      PROVE  producer[s] # r /\ producer[s] \in Requests
  BY <1>1, <1>5 DEF Dedupe, Types, TypeOK
<1>6. \A k \in Kinds : cache'[k] # NoRequest => entry'[cache'[k]] # "none"
  <2> SUFFICES ASSUME NEW k \in Kinds, cache'[k] # NoRequest PROVE entry'[cache'[k]] # "none"
    OBVIOUS
  <2>1. CASE k = kind[r]
    BY <1>2, <2>1
  <2>2. CASE k # kind[r]
    <3>1. cache'[k] = cache[k] /\ cache[k] \in Requests /\ entry[cache[k]] # "none"
      BY <1>2, <2>2 DEF Dedupe, Types, TypeOK
    <3> QED BY <1>2, <3>1
  <2> QED BY <2>1, <2>2
<1>7. \A s \in Requests \ {r} : entry'[s] = "open" => cache'[kind[s]] = s
  BY <1>2, <1>4 DEF Dedupe, Types, TypeOK
<1>8. \A s \in Requests : Producing(s)' <=> entry'[s] = "open"
  BY <1>1, <1>2, <1>3 DEF Producing, Dedupe
<1>9. \A s \in Requests : producer'[s] # NoRequest =>
        /\ entry'[producer'[s]] # "none"
        /\ answer'[s] # "none" => answer'[s] = entry'[producer'[s]]
  BY <1>2, <1>5 DEF Dedupe
<1> QED BY <1>1, <1>2, <1>3, <1>6, <1>7, <1>8, <1>9 DEF Dedupe, Outcomes

LEMMA NextDedupe == Types /\ Dedupe /\ [Next]_vars => Dedupe'
<1> SUFFICES ASSUME Types, Dedupe, [Next]_vars PROVE Dedupe'
  OBVIOUS
<1>1. ASSUME NEW r \in Requests, Arrive(r) PROVE Dedupe'
  <2>1. CASE Refuse(r) \/ AnswerAtOnce(r)
    <3>1. /\ pc[r] = "new" /\ pc'[r] = "done" /\ UNCHANGED <<kind, cacheVars>>
          /\ \A s \in Requests \ {r} : pc'[s] = pc[s] /\ answer'[s] = answer[s]
      BY <2>1 DEF Refuse, AnswerAtOnce, Types, TypeOK
    <3> QED BY <3>1, EarlyDedupe
  <2>2. CASE Admit(r)
    <3>1. /\ pc[r] = "new" /\ pc'[r] \in {Enter(r), "configure"}
          /\ \A s \in Requests \ {r} : pc'[s] = pc[s]
          /\ UNCHANGED <<kind, answer, cacheVars>>
      BY <2>2, StepEffect DEF Admit
    <3> QED BY <3>1, EarlyDedupe DEF Enter
  <2> QED BY <1>1, <2>1, <2>2 DEF Arrive
<1>2. ASSUME NEW r \in Requests, Serve(r) PROVE Dedupe'
  <2>1. CASE Configure(r)
    <3>1. /\ pc[r] = "configure" /\ pc'[r] = Enter(r)
          /\ \A s \in Requests \ {r} : pc'[s] = pc[s]
          /\ UNCHANGED <<kind, answer, cacheVars>>
      BY <2>1, StepEffect DEF Configure
    <3> QED BY <3>1, EarlyDedupe DEF Enter
  <2>2. CASE Produce(r)
    BY <2>2, ProduceDedupe
  <2>3. CASE Join(r)
    <3>1. /\ pc[r] = "dedupe" /\ pc'[r] = "waiting" /\ producer'[r] = cache[kind[r]]
          /\ cache[kind[r]] # NoRequest
          /\ \A s \in Requests \ {r} : pc'[s] = pc[s] /\ producer'[s] = producer[s]
          /\ UNCHANGED <<kind, answer, cache, entry>>
      BY <2>3 DEF Join, Types, TypeOK
    <3>2. Imaging(r)
      BY <3>1 DEF Dedupe
    <3> QED BY <3>1, <3>2, EarlyDedupe
  <2>4. CASE Wake(r)
    <3>1. pc[r] = "waiting" /\ entry[producer[r]] \in Outcomes /\ Finish(r, entry[producer[r]])
      BY <2>4 DEF Wake, Dedupe, Types, TypeOK
    <3> QED BY <3>1, FinishDedupe
  <2>5. CASE Still(r)
    BY <2>5, StillDedupe
  <2>6. CASE pc[r] \in Busy /\ \E result \in Outcomes : Finish(r, result)
    BY <2>6, FinishDedupe
  <2> QED BY <1>2, <2>1, <2>2, <2>3, <2>4, <2>5, <2>6, ServeKinds
<1>3. CASE Admin \/ (\E r \in Requests : Cancel(r)) \/ UNCHANGED vars
  <2>1. UNCHANGED <<requestVars, cacheVars>>
    BY <1>3 DEF Admin, SaveSettings, Reconfigure, Cancel
  <2> QED BY <2>1 DEF Dedupe, Producing, Imaging
<1> QED BY <1>1, <1>2, <1>3 DEF Next

Base == Types /\ Dedupe

LEMMA InitBase == Init => Base
  BY InitTypes DEF Init, Base, Dedupe, Producing, Outcomes

LEMMA BaseHolds == Spec => []Base
<1>1. Init => Base
  BY InitBase
<1>2. Base /\ [Next]_vars => Base'
  BY NextTypes, NextDedupe DEF Base
<1> QED BY <1>1, <1>2, PTL DEF Spec

\* Types hold for any number of requests, accounts and settings; in particular no thread
\* uses an account or a limiter that is not there.
THEOREM TypeCorrect == Spec => []TypeOK
<1>1. Base => TypeOK
  BY DEF Base, Types
<1> QED BY <1>1, BaseHolds, PTL

\* One run for identical image requests, however many there are.
THEOREM OneProducerOfEach == Spec => []OneProducer
<1>1. Base => OneProducer
  BY DEF Base, Dedupe, OneProducer
<1> QED BY <1>1, BaseHolds, PTL

\* Every request that waited for an identical one gets that one's outcome.
THEOREM WaitersShare == Spec => []WaiterShares
<1>1. Base => WaiterShares
  BY DEF Base, Dedupe, WaiterShares, Types, TypeOK, Outcomes
<1> QED BY <1>1, BaseHolds, PTL

------------------------------------------------------------------------------
(* A step of one request leaves the others alone *)

Alone(r) ==
    /\ UNCHANGED <<kind, settingVars>>
    /\ \A s \in Requests \ {r} :
        /\ loop'[s] = loop[s] /\ pc'[s] = pc[s] /\ held'[s] = held[s]
        /\ delivered'[s] = delivered[s] /\ noticed'[s] = noticed[s]
        /\ op'[s] = op[s] /\ answer'[s] = answer[s]

LEMMA FinishAlone ==
    ASSUME Types, NEW r \in Requests, NEW result, Finish(r, result)
    PROVE  /\ kind' = kind /\ pc'[r] = "done" /\ answer'[r] = result /\ op'[r] # "running"
           /\ \A s \in Requests \ {r} : /\ loop'[s] = loop[s] /\ pc'[s] = pc[s]
                                        /\ op'[s] = op[s] /\ answer'[s] = answer[s]
           /\ loop'[r] = Fresh(server.accounts)
  BY DEF Finish, Step, Types, TypeOK

LEMMA GoOnAlone ==
    ASSUME Types, NEW r \in Requests, NEW code, GoOn(r, code)
    PROVE  /\ kind' = kind
           /\ \A s \in Requests \ {r} : /\ loop'[s] = loop[s] /\ pc'[s] = pc[s]
                                        /\ op'[s] = op[s] /\ answer'[s] = answer[s]
  BY FinishAlone, StepEffect DEF GoOn

LEMMA ReleaseAllAlone ==
    ASSUME Types, NEW r \in Requests, ReleaseAll(r)
    PROVE  held'[r] = {} /\ \A s \in Requests \ {r} : held'[s] = held[s]
  BY DEF ReleaseAll, Types, TypeOK

LEMMA FailsAlone ==
    ASSUME Types, NEW r \in Requests, NEW code, Fails(r, code),
           \A s \in Requests \ {r} : noticed'[s] = noticed[s]
    PROVE  Alone(r)
<1>1. CASE Diagnosed(r, code)
  BY <1>1, ReleaseAllAlone, StepEffect DEF Fails, Ask, Alone
<1>2. CASE ~Diagnosed(r, code)
  BY <1>2, ReleaseAllAlone, GoOnAlone DEF Fails, Alone
<1> QED BY <1>1, <1>2

LEMMA EndsAlone ==
    ASSUME Types, NEW r \in Requests, NEW result, Ends(r, result),
           \A s \in Requests \ {r} : noticed'[s] = noticed[s]
    PROVE  Alone(r)
  BY ReleaseAllAlone, FinishAlone DEF Ends, Alone

LEMMA RequestAlone == ASSUME Types, NEW r \in Requests, Arrive(r) \/ Serve(r) PROVE Alone(r)
<1>1. CASE Arrive(r)
  <2>1. CASE Refuse(r) \/ AnswerAtOnce(r)
    BY <2>1 DEF Refuse, AnswerAtOnce, Alone, Types, TypeOK
  <2>2. CASE Admit(r)
    <3>1. \A s \in Requests \ {r} : op'[s] = op[s]
      BY <2>2 DEF Admit, Types, TypeOK
    <3> QED BY <2>2, <3>1, StepEffect DEF Admit, Alone
  <2> QED BY <1>1, <2>1, <2>2 DEF Arrive
<1>2. CASE \/ Configure(r) \/ Produce(r) \/ Join(r) \/ Rank(r) \/ AskQuota(r)
           \/ StartCall(r) \/ ReadLimit(r) \/ TakeLimiter(r)
  <2>1. /\ UNCHANGED <<kind, limit, saved, dirty, held, delivered, noticed, answer>>
        /\ \A s \in Requests \ {r} : op'[s] = op[s]
    BY <1>2 DEF Configure, Produce, Join, Rank, AskQuota, Ask, StartCall, ReadLimit,
       TakeLimiter, Types, TypeOK
  <2> SUFFICES \A s \in Requests \ {r} : loop'[s] = loop[s] /\ pc'[s] = pc[s]
    BY <2>1 DEF Alone
  <2>2. CASE Configure(r) \/ StartCall(r) \/ ReadLimit(r) \/ TakeLimiter(r)
    <3>1. \E l, label : Step(r, l, label)
      BY <2>2 DEF Configure, StartCall, ReadLimit, TakeLimiter
    <3> QED BY <3>1, StepEffect
  <2>3. CASE Rank(r) \/ AskQuota(r)
    <3>1. \E l, label : Step(r, l, label)
      BY <2>3 DEF Rank, AskQuota, Ask
    <3> QED BY <3>1, StepEffect
  <2>4. CASE Produce(r) \/ Join(r)
    BY <2>4 DEF Produce, Join, Types, TypeOK
  <2> QED BY <1>2, <2>2, <2>3, <2>4
<1>3. CASE PickOrder(r)
  <2>1. \A s \in Requests \ {r} : loop'[s] = loop[s] /\ pc'[s] = pc[s]
    <3>1. PICK s, support, t : Step(r, [loop[r] EXCEPT !.order = t],
            IF Preflighted(r) /\ ManyAccounts(r) THEN "rank" ELSE "try")
      BY <1>3 DEF PickOrder
    <3> QED BY <3>1, StepEffect
  <2> QED BY <1>3, <2>1 DEF PickOrder, Alone
<1>4. CASE Wake(r) \/ NothingToSend(r) \/ CaptureMissing(r)
  BY <1>4, FinishAlone DEF Wake, NothingToSend, CaptureMissing, Alone
<1>5. CASE PreflightFails(r) \/ Diagnose(r)
  <2>1. \E code : GoOn(r, code)
    BY <1>5 DEF PreflightFails, Diagnose
  <2>2. \A s \in Requests \ {r} : held'[s] = held[s]
    BY <1>5, ReleaseAllAlone DEF PreflightFails, Diagnose
  <2> QED BY <1>5, <2>1, <2>2, GoOnAlone DEF PreflightFails, Diagnose, Alone
<1>6. CASE Acquire(r)
  <2>1. \A s \in Requests \ {r} : held'[s] = held[s]
    <3>1. held' = [held EXCEPT ![r] = @ \cup {loop[r].wait}]
      BY <1>6, AcquireEffect
    <3> QED BY <3>1 DEF Types, TypeOK
  <2> QED BY <1>6, <2>1, AcquireSteps DEF Alone
<1>7. CASE RankReturns(r) \/ InitReturns(r)
  BY <1>7, StepEffect, ReleaseAllAlone DEF RankReturns, InitReturns, Alone
<1>8. CASE HearConversation(r) \/ HearText(r)
  <2>1. \A s \in Requests \ {r} : delivered'[s] = delivered[s]
    BY <1>8 DEF HearConversation, HearText, Types, TypeOK
  <2> QED BY <1>8, <2>1, StepEffect DEF HearConversation, HearText, Alone
<1>9. CASE \/ FeatureDisabled(r) \/ NoticeCancel(r) \/ ClientGone(r) \/ ProviderFails(r)
           \/ NetworkFails(r) \/ NothingReturned(r)
  <2>1. \A s \in Requests \ {r} : noticed'[s] = noticed[s]
    BY <1>9 DEF FeatureDisabled, NoticeCancel, ClientGone, ProviderFails, NetworkFails,
                NothingReturned, Types, TypeOK
  <2>2. (\E code : Fails(r, code)) \/ \E result : Ends(r, result)
    BY <1>9 DEF FeatureDisabled, NoticeCancel, ClientGone, ProviderFails, NetworkFails,
                NothingReturned
  <2> QED BY <2>1, <2>2, FailsAlone, EndsAlone
<1>10. CASE Answered(r)
  <2>1. \A s \in Requests \ {r} : delivered'[s] = delivered[s]
    BY <1>10 DEF Answered, Types, TypeOK
  <2> QED BY <1>10, <2>1, ReleaseAllAlone, FinishAlone DEF Answered, Alone
<1> QED BY <1>1, <1>2, <1>3, <1>4, <1>5, <1>6, <1>7, <1>8, <1>9, <1>10 DEF Serve

\* Steps that are no request's own leave every request where it is.
LEMMA OtherStays ==
    ASSUME Admin \/ (\E r \in Requests : Cancel(r)) \/ UNCHANGED vars
    PROVE  UNCHANGED <<kind, loop, pc, held, delivered, noticed, op, answer>>
  BY DEF Admin, SaveSettings, Reconfigure, Cancel

------------------------------------------------------------------------------
(* Operations *)

OperationOf(r) ==
    /\ pc[r] = "new" => op[r] = "none"
    /\ pc[r] = "done" /\ op[r] = "running" => Imaging(r) /\ answer[r] = "badRequest"

LEMMA NextOperations ==
    ASSUME Types, \A r \in Requests : OperationOf(r), [Next]_vars
    PROVE  \A r \in Requests : OperationOf(r)'
<1>1. ASSUME NEW r \in Requests, Arrive(r) \/ Serve(r)
      PROVE  \A s \in Requests : OperationOf(s)'
  <2>1. \A s \in Requests \ {r} : OperationOf(s)'
    BY <1>1, RequestAlone DEF Alone, OperationOf, Imaging
  <2> SUFFICES OperationOf(r)'
    BY <2>1
  <2>2. CASE Arrive(r)
    <3>1. CASE Refuse(r) \/ AnswerAtOnce(r)
      BY <3>1 DEF Refuse, AnswerAtOnce, OperationOf, Imaging, Types, TypeOK
    <3>2. CASE Admit(r)
      <4>1. \E l : Step(r, l, "configure") \/ Step(r, l, "dedupe") \/ Step(r, l, "order")
        BY <3>2 DEF Admit, Enter
      <4> QED BY <4>1, StepEffect DEF OperationOf
    <3> QED BY <2>2, <3>1, <3>2 DEF Arrive
  <2>3. CASE Configure(r) \/ Produce(r) \/ Join(r)
    <3>1. pc'[r] \notin {"new", "done"}
      <4>1. CASE Configure(r)
        <5>1. \E l : Step(r, l, "dedupe") \/ Step(r, l, "order")
          BY <4>1 DEF Configure, Enter
        <5> QED BY <5>1, StepEffect
      <4> QED BY <2>3, <4>1 DEF Produce, Join, Types, TypeOK
    <3> QED BY <3>1 DEF OperationOf
  <2>4. CASE \E result : Finish(r, result)
    BY <2>4, FinishAlone DEF OperationOf
  <2>5. CASE Still(r)
    BY <2>5 DEF Still, Busy, OperationOf
  <2> QED BY <1>1, <2>2, <2>3, <2>4, <2>5, ServeKinds DEF Wake
<1>2. CASE Admin \/ (\E r \in Requests : Cancel(r)) \/ UNCHANGED vars
  BY <1>2, OtherStays DEF OperationOf, Imaging
<1> QED BY <1>1, <1>2 DEF Next

\* No operation is left running when its request has been answered, but for an image
\* request refused for its account.
THEOREM OperationsAreEnded == Spec => []OperationsEnd
<1> DEFINE Inv == \A r \in Requests : OperationOf(r)
<1>1. Init => Inv
  BY DEF Init, OperationOf
<1>2. Types /\ Inv /\ [Next]_vars => Inv'
  BY NextOperations
<1>3. Inv => OperationsEnd
  BY DEF OperationOf, OperationsEnd
<1>4. Base => Types
  BY DEF Base
<1> HIDE DEF Inv
<1> QED BY <1>1, <1>2, <1>3, <1>4, BaseHolds, PTL DEF Spec

------------------------------------------------------------------------------
(* Voices *)

\* While a request is served nothing has been delivered, or the account it is calling
\* has delivered; such a call can only end the request.
Voice(r) ==
    \/ delivered[r] = {}
    \/ /\ delivered[r] = {Account(r)} /\ Calling(r, "main")
       /\ loop[r].text = "text" /\ Streamed(r)
    \/ pc[r] = "done" /\ \E a \in Accounts : delivered[r] = {a}

LEMMA NextVoices ==
    ASSUME Types, \A r \in Requests : Voice(r), [Next]_vars
    PROVE  \A r \in Requests : Voice(r)'
<1>1. ASSUME NEW r \in Requests, Arrive(r) \/ Serve(r)
      PROVE  \A s \in Requests : Voice(s)'
  <2>1. \A s \in Requests \ {r} : Voice(s)'
    BY <1>1, RequestAlone DEF Alone, Voice, Account, Calling, Streamed
  <2> SUFFICES Voice(r)'
    BY <2>1
  <2>2. CASE delivered'[r] = {}
    BY <2>2 DEF Voice
  <2>3. ASSUME delivered'[r] = delivered[r], delivered[r] # {}, Finish(r, answer'[r])
        PROVE  Voice(r)'
    <3>1. \E a \in Accounts : delivered[r] = {a}
      <4>1. CASE pc[r] = "done"
        BY <2>3, <4>1 DEF Voice, Calling
      <4>2. CASE pc[r] # "done"
        BY <2>3, <4>2, OnAccount DEF Voice, Calling
      <4> QED BY <4>1, <4>2
    <3> QED BY <2>3, <3>1, FinishAlone DEF Voice
  <2>4. ASSUME delivered[r] # {} PROVE Calling(r, "main") /\ Streamed(r) /\ loop[r].text = "text"
    <3>1. pc[r] # "done"
      BY <1>1 DEF Arrive, Refuse, AnswerAtOnce, Admit, Serve, Configure, Produce, Join, Wake,
         NothingToSend, PickOrder, Rank, AskQuota, CaptureMissing, PreflightFails, Checked,
         StartCall, ReadLimit, FeatureDisabled, TakeLimiter, Acquire, RankReturns,
         InitReturns, Diagnose, HearConversation, NoticeCancel, HearText, ClientGone,
         ProviderFails, NetworkFails, NothingReturned, Answered, Calling
    <3> QED BY <2>4, <3>1 DEF Voice
  <2>5. CASE ~Calling(r, "main")
    <3>1. delivered[r] = {}
      BY <2>4, <2>5
    <3>2. delivered' = delivered
      BY <1>1, <2>5 DEF Arrive, Refuse, AnswerAtOnce, Admit, Serve, Configure, Produce, Join,
         Wake, NothingToSend, PickOrder, Rank, AskQuota, CaptureMissing, PreflightFails,
         StartCall, ReadLimit, FeatureDisabled, TakeLimiter, Acquire, RankReturns,
         InitReturns, Diagnose, HearConversation, NoticeCancel, HearText, ClientGone,
         ProviderFails, NetworkFails, NothingReturned, Answered, Fails
    <3> QED BY <2>2, <3>1, <3>2
  <2>6. CASE Calling(r, "main")
    <3> USE <2>6
    <3>1. CASE HearText(r)
      <4>1. delivered[r] = {}
        BY <2>4, <3>1 DEF HearText
      <4>2. CASE delivered'[r] # {}
        <5>1. /\ delivered'[r] = {Account(r)} /\ Streamed(r)
              /\ Step(r, [loop[r] EXCEPT !.text = "text"], "call") /\ kind' = kind
          BY <3>1, <4>1, <4>2 DEF HearText, Types, TypeOK
        <5>2. loop'[r] = [loop[r] EXCEPT !.text = "text"] /\ pc'[r] = "call"
          BY <5>1, StepEffect
        <5>3. loop[r] \in Locals /\ loop[r].purpose = "main"
          BY DEF Calling, Types, TypeOK
        <5>4. /\ loop'[r].order = loop[r].order /\ loop'[r].pos = loop[r].pos
              /\ loop'[r].purpose = "main" /\ loop'[r].text = "text"
          BY <5>2, <5>3 DEF Locals
        <5> QED BY <5>1, <5>2, <5>4 DEF Voice, Account, Calling, Streamed
      <4> QED BY <2>2, <4>2
    <3>2. CASE HearConversation(r)
      <4>1. /\ loop'[r] = [loop[r] EXCEPT !.conv = TRUE] /\ pc'[r] = "call"
            /\ UNCHANGED <<kind, delivered>>
        BY <3>2, StepEffect DEF HearConversation
      <4>2. loop[r] \in Locals /\ loop[r].purpose = "main"
        BY DEF Calling, Types, TypeOK
      <4>3. /\ loop'[r].order = loop[r].order /\ loop'[r].pos = loop[r].pos
            /\ loop'[r].purpose = "main" /\ loop'[r].text = loop[r].text
        BY <4>1, <4>2 DEF Locals
      <4> QED BY <4>1, <4>3 DEF Voice, Account, Calling, Streamed
    <3>3. CASE Answered(r)
      <4>1. PICK result : Finish(r, result)
        BY <3>3 DEF Answered
      <4>2. delivered'[r] = IF Streamed(r) THEN delivered[r] \cup {Account(r)} ELSE delivered[r]
        BY <3>3 DEF Answered, Types, TypeOK
      <4>3. Account(r) \in Accounts
        BY OnAccount DEF Calling
      <4>4. delivered'[r] = {} \/ delivered'[r] = {Account(r)}
        <5>1. delivered[r] = {} \/ delivered[r] = {Account(r)}
          BY DEF Voice, Calling
        <5> QED BY <2>4, <4>2, <5>1
      <4>5. pc'[r] = "done"
        BY <4>1, FinishAlone
      <4> QED BY <4>3, <4>4, <4>5 DEF Voice
    <3>4. CASE ~(HearText(r) \/ HearConversation(r) \/ Answered(r))
      <4>1. \/ NoticeCancel(r) \/ ClientGone(r) \/ ProviderFails(r) \/ NetworkFails(r)
            \/ NothingReturned(r)
        BY <1>1, <3>4 DEF Calling, Arrive, Refuse, AnswerAtOnce, Admit, Serve, Configure,
           Produce, Join, Wake, NothingToSend, PickOrder, Rank, AskQuota, CaptureMissing,
           PreflightFails, Checked, StartCall, ReadLimit, FeatureDisabled, TakeLimiter, Acquire,
           RankReturns, InitReturns, Diagnose
      <4>2. delivered' = delivered
        BY <4>1 DEF NoticeCancel, ClientGone, ProviderFails, NetworkFails, NothingReturned,
                    Fails, Ends
      <4>3. CASE delivered[r] # {}
        <5>1. \E result : Finish(r, result)
          BY <2>4, <4>1, <4>3 DEF NoticeCancel, ClientGone, ProviderFails, NetworkFails,
             NothingReturned, Ends
        <5>2. Finish(r, answer'[r])
          BY <5>1, FinishAlone
        <5> QED BY <2>3, <4>2, <4>3, <5>2
      <4> QED BY <2>2, <4>2, <4>3
    <3> QED BY <3>1, <3>2, <3>3, <3>4
  <2> QED BY <2>5, <2>6
<1>2. CASE Admin \/ (\E r \in Requests : Cancel(r)) \/ UNCHANGED vars
  BY <1>2, OtherStays DEF Voice, Account, Calling, Streamed
<1> QED BY <1>1, <1>2 DEF Next

\* What a client reads from one stream comes from one account, through any number of
\* failures and accounts.
THEOREM EachStreamHasOneVoice == Spec => []OneVoice
<1> DEFINE Inv == \A r \in Requests : Voice(r)
<1>1. Init => Inv
  BY DEF Init, Voice
<1>2. Types /\ Inv /\ [Next]_vars => Inv'
  BY NextVoices
<1>3. Inv => OneVoice
  <2> SUFFICES ASSUME NEW r \in Requests, Voice(r) PROVE Cardinality(delivered[r]) <= 1
    BY DEF OneVoice
  <2>1. CASE delivered[r] = {}
    BY <2>1, FS_EmptySet
  <2>2. ASSUME NEW a, delivered[r] = {a} PROVE Cardinality(delivered[r]) <= 1
    <3>1. Cardinality({a}) = 1
      BY FS_Singleton
    <3> QED BY <2>2, <3>1
  <2> QED BY <2>1, <2>2 DEF Voice
<1>4. Base => Types
  BY DEF Base
<1> HIDE DEF Inv
<1> QED BY <1>1, <1>2, <1>3, <1>4, BaseHolds, PTL DEF Spec

------------------------------------------------------------------------------
(* Cancellation *)

\* A call of conversation_init is left with the limiter of the account to take.  Where a
\* request is whose cancellation was noticed: it is over, or it only asks for the
\* metadata of its account, after which no other account follows.
Given(r) ==
    /\ loop[r].purpose # "main" /\ pc[r] \in {"read", "take", "acquire"} =>
        loop[r].need = <<"account">>
    /\ noticed[r] =>
        \/ pc[r] = "done" /\ answer[r] \in {"error", "gone"}
        \/ /\ pc[r] \in {"take", "acquire", "call"} /\ answer[r] = "none"
           /\ loop[r].purpose = "diagnose" /\ ~loop[r].failover

\* What a call for the metadata of an account does to the local variables.
LEMMA AskEffect ==
    ASSUME Types, NEW r \in Requests, NEW l \in Locals, NEW why, Ask(r, l, why)
    PROVE  /\ loop'[r].purpose = why /\ loop'[r].need = <<"account">>
           /\ loop'[r].failover = l.failover /\ pc'[r] = "take"
<1>1. /\ loop'[r] = [l EXCEPT !.purpose = why, !.need = <<"account">>]
      /\ pc'[r] = "take"
  BY StepEffect DEF Ask
<1> QED BY <1>1 DEF Locals

LEMMA FailsAsks ==
    ASSUME Types, NEW r \in Requests, NEW code, Fails(r, code), Diagnosed(r, code)
    PROVE  /\ loop'[r].purpose = "diagnose" /\ loop'[r].need = <<"account">>
           /\ loop'[r].failover = ShouldTryNext(r, code) /\ pc'[r] = "take"
           /\ answer' = answer
<1> DEFINE next == ShouldTryNext(r, code)
           l == [loop[r] EXCEPT !.failover = next, !.text = "none", !.conv = FALSE]
<1>1. Ask(r, l, "diagnose") /\ answer' = answer
  BY DEF Fails
<1>2. next \in BOOLEAN
  BY DEF ShouldTryNext, ManyAccounts
<1>3. loop[r] \in Locals
  BY DEF Types, TypeOK
<1> HIDE DEF next
<1>4. l \in Locals /\ l.failover = next
  BY <1>2, <1>3 DEF Locals
<1> HIDE DEF l
<1>5. loop'[r].failover = next
  BY <1>1, <1>4, AskEffect
<1>6. /\ loop'[r].purpose = "diagnose" /\ loop'[r].need = <<"account">>
      /\ pc'[r] = "take"
  BY <1>1, <1>4, AskEffect
<1> QED BY <1>1, <1>5, <1>6 DEF next

LEMMA LastTaken == Tail(<<"account">>) = <<>>
  OBVIOUS

\* Choosing the limiter to wait for leaves the purpose of a call as it is.
LEMMA WaitKeeps ==
    ASSUME NEW l \in Locals, NEW w, NEW m \in {[l EXCEPT !.wait = w, !.lim = 1]}
    PROVE  /\ m.purpose = l.purpose /\ m.need = l.need /\ m.failover = l.failover
           /\ m.order = l.order /\ m.pos = l.pos
  BY DEF Locals

LEMMA TakeLimiterWaits ==
    ASSUME Types, NEW r \in Requests, TakeLimiter(r), loop[r] \in Locals
    PROVE  /\ loop'[r].purpose = loop[r].purpose /\ loop'[r].need = loop[r].need
           /\ loop'[r].failover = loop[r].failover /\ pc'[r] = "acquire"
           /\ loop'[r].order = loop[r].order /\ loop'[r].pos = loop[r].pos
<1>1. PICK w : Step(r, [loop[r] EXCEPT !.wait = w, !.lim = 1], "acquire")
  BY TakeLimiterEffect
<1>2. loop'[r] = [loop[r] EXCEPT !.wait = w, !.lim = 1] /\ pc'[r] = "acquire"
  BY <1>1, StepEffect
<1> QED BY <1>2, WaitKeeps

LEMMA NextGiven ==
    ASSUME Types, Dedupe, \A r \in Requests : Given(r), [Next]_vars
    PROVE  \A r \in Requests : Given(r)'
<1>1. ASSUME NEW r \in Requests, Arrive(r) \/ Serve(r)
      PROVE  \A s \in Requests : Given(s)'
  <2>1. \A s \in Requests \ {r} : Given(s)'
    BY <1>1, RequestAlone DEF Alone, Given
  <2> SUFFICES Given(r)'
    BY <2>1
  <2>2. ASSUME NEW result \in {"error", "gone"}, Finish(r, result) PROVE Given(r)'
    BY <2>2, FinishAlone DEF Given
  <2>3. ASSUME ~noticed'[r], pc'[r] \notin {"read", "take", "acquire"} PROVE Given(r)'
    BY <2>3 DEF Given
  <2>4. loop[r] \in Locals /\ (answer[r] = "none" \/ pc[r] = "done")
    BY DEF Types, TypeOK, Dedupe
  <2>5. CASE NoticeCancel(r)
    <3>1. CASE Streamed(r)
      BY <2>2, <2>5, <3>1 DEF NoticeCancel, Ends
    <3>2. CASE ~Streamed(r)
      <4>1. Fails(r, "operation_cancelled") /\ ~ShouldTryNext(r, "operation_cancelled")
        BY <2>5, <3>2 DEF NoticeCancel, ShouldTryNext, RetryCodes
      <4>2. CASE Diagnosed(r, "operation_cancelled")
        <5>1. /\ loop'[r].purpose = "diagnose" /\ loop'[r].need = <<"account">>
              /\ ~loop'[r].failover /\ pc'[r] = "take" /\ answer' = answer
          BY <4>1, <4>2, FailsAsks
        <5>2. answer'[r] = "none"
          BY <2>4, <2>5, <5>1 DEF NoticeCancel, Calling
        <5> QED BY <5>1, <5>2 DEF Given
      <4>3. CASE ~Diagnosed(r, "operation_cancelled")
        BY <2>2, <4>1, <4>3 DEF Fails, GoOn
      <4> QED BY <4>2, <4>3
    <3> QED BY <3>1, <3>2
  <2>6. ASSUME Ask(r, loop[r], "rank") \/ Ask(r, loop[r], "init"), ~noticed'[r]
        PROVE  Given(r)'
    <3>1. loop'[r].need = <<"account">>
      BY <2>4, <2>6, AskEffect
    <3> QED BY <2>6, <3>1 DEF Given
  <2>7. CASE ~noticed[r] /\ ~NoticeCancel(r)
    <3>1. ~noticed'[r]
      BY <1>1, <2>7 DEF Arrive, Refuse, AnswerAtOnce, Admit, Serve, Configure, Produce, Join,
         Wake, NothingToSend, PickOrder, Rank, AskQuota, CaptureMissing, PreflightFails,
         StartCall, ReadLimit, FeatureDisabled, TakeLimiter, Acquire, RankReturns,
         InitReturns, Diagnose, HearConversation, HearText, ClientGone,
         ProviderFails, NetworkFails, NothingReturned, Answered
    <3> SUFFICES ASSUME loop'[r].purpose # "main", pc'[r] \in {"read", "take", "acquire"}
                 PROVE  loop'[r].need = <<"account">>
      BY <3>1 DEF Given
    <3>2. CASE Arrive(r)
      <4>1. CASE Admit(r)
        <5>1. \E l : Step(r, l, "configure") \/ Step(r, l, "dedupe") \/ Step(r, l, "order")
          BY <4>1 DEF Admit, Enter
        <5> QED BY <5>1, StepEffect
      <4> QED BY <3>2, <4>1 DEF Arrive, Refuse, AnswerAtOnce, Types, TypeOK
    <3>3. CASE Configure(r) \/ Produce(r) \/ Join(r) \/ PickOrder(r)
      BY <3>3 DEF Configure, Enter, Produce, Join, PickOrder, Step, Types, TypeOK
    <3>4. CASE \E result : Finish(r, result)
      BY <3>4, FinishAlone
    <3>5. CASE Rank(r) \/ AskQuota(r)
      <4>1. Ask(r, loop[r], "rank") \/ Ask(r, loop[r], "init") \/ pc'[r] = "try"
        BY <3>5 DEF Rank, AskQuota, Step, Types, TypeOK
      <4> QED BY <2>4, <4>1, AskEffect
    <3>6. CASE StartCall(r)
      <4>1. loop'[r] = [loop[r] EXCEPT !.purpose = "main", !.need = Needs[kind[r]]]
        BY <3>6, StepEffect DEF StartCall
      <4> QED BY <2>4, <4>1 DEF Locals
    <3>7. CASE ReadLimit(r) \/ TakeLimiter(r)
      <4>1. pc[r] \in {"read", "take"}
        BY <3>7 DEF ReadLimit, TakeLimiter
      <4>2. CASE ReadLimit(r)
        <5>1. \E n : loop'[r] = [loop[r] EXCEPT !.lim = n]
          BY <4>2, StepEffect DEF ReadLimit
        <5>2. loop'[r].purpose = loop[r].purpose /\ loop'[r].need = loop[r].need
          BY <2>4, <5>1 DEF Locals
        <5> QED BY <4>1, <5>2 DEF Given
      <4>3. CASE TakeLimiter(r)
        BY <2>4, <4>1, <4>3, TakeLimiterWaits DEF Given
      <4> QED BY <3>7, <4>2, <4>3
    <3>8. CASE Acquire(r)
      <4>1. /\ pc[r] = "acquire" /\ pc'[r] = Taking(Tail(loop[r].need))
            /\ loop'[r] = [loop[r] EXCEPT !.need = Tail(loop[r].need), !.wait = <<>>]
        BY <3>8, AcquireSteps
      <4>2. loop[r].purpose # "main"
        BY <2>4, <4>1 DEF Locals
      <4>3. Tail(loop[r].need) = <<>>
        BY <4>1, <4>2, LastTaken DEF Given
      <4> QED BY <4>1, <4>3 DEF Taking
    <3>9. CASE RankReturns(r) \/ InitReturns(r) \/ HearConversation(r) \/ HearText(r)
      BY <3>9 DEF RankReturns, InitReturns, HearConversation, HearText, Step, Types, TypeOK
    <3>10. CASE \E code : GoOn(r, code)
      BY <3>4, <3>10, StepEffect DEF GoOn
    <3>11. CASE \E code : Fails(r, code)
      <4>1. PICK code : Fails(r, code)
        BY <3>11
      <4>2. CASE Diagnosed(r, code)
        BY <4>1, <4>2, FailsAsks
      <4> QED BY <3>10, <4>1, <4>2 DEF Fails
    <3>12. CASE \/ FeatureDisabled(r) \/ ClientGone(r) \/ ProviderFails(r)
                \/ NetworkFails(r) \/ NothingReturned(r) \/ Answered(r) \/ Wake(r)
                \/ NothingToSend(r) \/ CaptureMissing(r) \/ PreflightFails(r) \/ Diagnose(r)
      BY <3>4, <3>10, <3>11, <3>12 DEF FeatureDisabled, ClientGone, ProviderFails, NetworkFails,
         NothingReturned, Answered, Wake, NothingToSend, CaptureMissing, PreflightFails,
         Diagnose, Ends
    <3> QED BY <1>1, <2>7, <3>2, <3>3, <3>5, <3>6, <3>7, <3>8, <3>9, <3>12 DEF Serve
  <2>8. CASE noticed[r] /\ ~NoticeCancel(r)
    <3>1. \/ pc[r] = "done"
          \/ /\ pc[r] \in {"take", "acquire", "call"} /\ answer[r] = "none"
             /\ loop[r].purpose = "diagnose" /\ ~loop[r].failover
      BY <2>8 DEF Given
    <3>2. TakeLimiter(r) \/ Acquire(r) \/ Diagnose(r)
      BY <1>1, <2>8, <3>1 DEF Arrive, Refuse, AnswerAtOnce, Admit, Serve, Configure, Produce, Join,
         Wake, NothingToSend, PickOrder, Rank, AskQuota, CaptureMissing, PreflightFails, Checked,
         StartCall, ReadLimit, FeatureDisabled, RankReturns, Calling,
         InitReturns, HearConversation, HearText, ClientGone,
         ProviderFails, NetworkFails, NothingReturned, Answered, TakeLimiter, Acquire, Diagnose
    <3>3. CASE TakeLimiter(r)
      <4>1. pc[r] = "take" /\ answer' = answer
        BY <3>3 DEF TakeLimiter
      <4> QED BY <2>4, <3>1, <3>3, <4>1, TakeLimiterWaits DEF Given
    <3>4. CASE Acquire(r)
      <4>1. /\ pc[r] = "acquire" /\ pc'[r] = Taking(Tail(loop[r].need)) /\ answer' = answer
            /\ loop'[r] = [loop[r] EXCEPT !.need = Tail(loop[r].need), !.wait = <<>>]
        BY <3>4, AcquireSteps
      <4>2. Tail(loop[r].need) = <<>>
        BY <3>1, <4>1, LastTaken DEF Given
      <4>3. pc'[r] = "call"
        BY <4>1, <4>2 DEF Taking
      <4>4. loop'[r].purpose = loop[r].purpose /\ loop'[r].failover = loop[r].failover
        BY <2>4, <4>1 DEF Locals
      <4> QED BY <3>1, <4>1, <4>3, <4>4 DEF Given
    <3>5. CASE Diagnose(r)
      <4>1. GoOn(r, "provider_error") /\ ~ShouldTryNext(r, "provider_error")
        BY <3>1, <3>5 DEF Diagnose, Calling, ShouldTryNext, RetryCodes
      <4> QED BY <2>2, <4>1 DEF GoOn
    <3> QED BY <3>2, <3>3, <3>4, <3>5
  <2> QED BY <2>5, <2>7, <2>8
<1>2. CASE Admin \/ (\E r \in Requests : Cancel(r)) \/ UNCHANGED vars
  BY <1>2, OtherStays DEF Given
<1> QED BY <1>1, <1>2 DEF Next

LEMMA GivenHolds == Spec => [](\A r \in Requests : Given(r))
<1> DEFINE Inv == \A r \in Requests : Given(r)
<1>1. Init => Inv
  BY DEF Init, Given
<1>2. Base /\ Inv /\ [Next]_vars => Inv'
  BY NextGiven DEF Base
<1> HIDE DEF Inv
<1>3. Spec => []Inv
  BY <1>1, <1>2, BaseHolds, PTL DEF Spec
<1> QED BY <1>3 DEF Inv

\* A cancellation that was noticed is final, whatever accounts are left.
THEOREM CancellationIsFinal == Spec => []CancelIsFinal
<1>1. (\A r \in Requests : Given(r)) => CancelIsFinal
  BY DEF Given, CancelIsFinal
<1> QED BY <1>1, GivenHolds, PTL

------------------------------------------------------------------------------
(* Permits *)

Holders(key, i) == {r \in Requests : <<key, i>> \in held[r]}

\* What a request holds has been made.
HoldsMade(r) == \A l \in held[r] : l[2] <= Len(limiters[l[1]])

LEMMA HoldersCounted ==
    ASSUME Types, NEW key, NEW i
    PROVE  /\ IsFiniteSet(Holders(key, i)) /\ Cardinality(Holders(key, i)) \in Nat
           /\ IsFiniteSet(Holders(key, i)') /\ Cardinality(Holders(key, i)') \in Nat
<1>1. Holders(key, i) \subseteq Requests /\ Holders(key, i)' \subseteq Requests
  BY DEF Holders
<1> QED BY <1>1, Constants, FS_Subset, FS_CardinalityType

LEMMA LimiterTyped ==
    ASSUME Types, NEW key \in Keys, NEW i \in 1 .. Len(limiters[key])
    PROVE  limiters[key][i] \in Limiter /\ Len(limiters[key]) \in Nat
<1>1. limiters[key] \in Seq(Limiter)
  BY DEF Types, TypeOK, Limiter
<1> QED BY <1>1

\* The equation for one limiter.
Balanced(key, i) ==
    limiters[key][i].free + Cardinality(Holders(key, i)) = limiters[key][i].size

LEMMA Balance ==
    /\ PermitsConserved <=> \A key \in Keys : \A i \in 1 .. Len(limiters[key]) : Balanced(key, i)
    /\ PermitsConserved' <=>
        \A key \in Keys : \A i \in 1 .. Len(limiters'[key]) : Balanced(key, i)'
  BY DEF PermitsConserved, Balanced, Holders

LEMMA ReplacePermits ==
    ASSUME Types, PermitsConserved, \A r \in Requests : HoldsMade(r),
           NEW key \in Keys, NEW n \in 0 .. MaxLimit, Replace(key, n), held' = held
    PROVE  PermitsConserved'
<1>1. SUFFICES ASSUME NEW k \in Keys, NEW i \in 1 .. Len(limiters'[k]) PROVE Balanced(k, i)'
  BY Balance
<1>2. Holders(k, i)' = Holders(k, i)
  BY DEF Holders
<1>3. CASE limiters'[k] = limiters[k]
  BY <1>2, <1>3, Balance DEF Balanced
<1>4. CASE limiters'[k] # limiters[k]
  <2>1. k = key /\ limiters'[k] = Append(limiters[k], [size |-> n, free |-> n])
    BY <1>4, ReplaceEffect
  <2>2. limiters[k] \in Seq(Limiter) /\ [size |-> n, free |-> n] \in Limiter
    <3>1. limiters[k] \in Seq(Limiter)
      BY DEF Types, TypeOK, Limiter
    <3>2. [size |-> n, free |-> n] \in Limiter
      BY DEF Limiter
    <3> QED BY <3>1, <3>2
  <2>3. i \in 1 .. Len(limiters[k]) \/ i = Len(limiters[k]) + 1
    <3>1. ASSUME NEW q \in Seq(Limiter), NEW e \in Limiter
          PROVE  Len(Append(q, e)) = Len(q) + 1 /\ Len(q) \in Nat
      OBVIOUS
    <3>2. Len(limiters'[k]) = Len(limiters[k]) + 1 /\ Len(limiters[k]) \in Nat
      BY <2>1, <2>2, <3>1
    <3> QED BY <3>2
  <2>4. CASE i \in 1 .. Len(limiters[k])
    <3>1. limiters'[k][i] = limiters[k][i]
      BY <2>1, <2>2, <2>4
    <3> QED BY <1>2, <2>4, <3>1, Balance DEF Balanced
  <2>5. CASE i = Len(limiters[k]) + 1
    <3>1. limiters'[k][i] = [size |-> n, free |-> n]
      BY <2>1, <2>2, <2>5
    <3>2. Holders(k, i) = {}
      <4> SUFFICES ASSUME NEW r \in Requests, <<k, i>> \in held[r] PROVE FALSE
        BY DEF Holders
      <4>1. i <= Len(limiters[k]) /\ Len(limiters[k]) \in Nat
        BY <2>2 DEF HoldsMade
      <4> QED BY <2>5, <4>1
    <3> QED BY <1>2, <3>1, <3>2, FS_EmptySet DEF Balanced
  <2> QED BY <2>3, <2>4, <2>5
<1> QED BY <1>3, <1>4

LEMMA AcquirePermits ==
    ASSUME Types, PermitsConserved, NEW r \in Requests, Acquire(r), loop[r].wait \notin held[r]
    PROVE  PermitsConserved'
<1>1. SUFFICES ASSUME NEW k \in Keys, NEW i \in 1 .. Len(limiters'[k]) PROVE Balanced(k, i)'
  BY Balance
<1>2. i \in 1 .. Len(limiters[k]) /\ limiters[k][i] \in Limiter /\ Balanced(k, i)
  BY AcquireEffect, LimiterTyped, Balance
<1>3. held' = [held EXCEPT ![r] = @ \cup {loop[r].wait}] /\ held \in [Requests -> SUBSET Limiters]
  BY AcquireEffect DEF Types, TypeOK
<1>4. CASE <<k, i>> = loop[r].wait
  <2>1. limiters'[k][i] = [limiters[k][i] EXCEPT !.free = @ - 1]
    BY <1>2, <1>4, AcquireEffect
  <2>2. Holders(k, i)' = Holders(k, i) \cup {r} /\ r \notin Holders(k, i)
    BY <1>3, <1>4 DEF Holders
  <2>3. Cardinality(Holders(k, i)') = Cardinality(Holders(k, i)) + 1
    BY <2>2, HoldersCounted, FS_AddElement
  <2>4. Cardinality(Holders(k, i)) \in Nat
    BY HoldersCounted
  <2> QED BY <1>2, <2>1, <2>3, <2>4 DEF Balanced, Limiter
<1>5. CASE <<k, i>> # loop[r].wait
  <2>1. limiters'[k][i] = limiters[k][i]
    BY <1>2, <1>5, AcquireEffect
  <2>2. Holders(k, i)' = Holders(k, i)
    BY <1>3, <1>5 DEF Holders
  <2> QED BY <1>2, <2>1, <2>2 DEF Balanced
<1> QED BY <1>4, <1>5

LEMMA ReleasePermits ==
    ASSUME Types, PermitsConserved, NEW r \in Requests, ReleaseAll(r)
    PROVE  PermitsConserved'
<1>1. SUFFICES ASSUME NEW k \in Keys, NEW i \in 1 .. Len(limiters'[k]) PROVE Balanced(k, i)'
  BY Balance
<1>2. /\ Len(limiters'[k]) = Len(limiters[k])
      /\ \A j \in 1 .. Len(limiters[k]) :
            limiters'[k][j] = IF <<k, j>> \in held[r]
                              THEN [limiters[k][j] EXCEPT !.free = @ + 1]
                              ELSE limiters[k][j]
  BY ReleasedEffect DEF ReleaseAll
<1>3. i \in 1 .. Len(limiters[k]) /\ limiters[k][i] \in Limiter /\ Balanced(k, i)
  BY <1>2, LimiterTyped, Balance
<1>4. held' = [held EXCEPT ![r] = {}] /\ held \in [Requests -> SUBSET Limiters]
  BY DEF ReleaseAll, Types, TypeOK
<1>5. CASE <<k, i>> \in held[r]
  <2>1. limiters'[k][i] = [limiters[k][i] EXCEPT !.free = @ + 1]
    BY <1>2, <1>3, <1>5
  <2>2. Holders(k, i)' = Holders(k, i) \ {r} /\ r \in Holders(k, i)
    BY <1>4, <1>5 DEF Holders
  <2>3. Cardinality(Holders(k, i)') = Cardinality(Holders(k, i)) - 1
    BY <2>2, HoldersCounted, FS_RemoveElement
  <2>4. Cardinality(Holders(k, i)) \in Nat
    BY HoldersCounted
  <2> QED BY <1>3, <2>1, <2>3, <2>4 DEF Balanced, Limiter
<1>6. CASE <<k, i>> \notin held[r]
  <2>1. limiters'[k][i] = limiters[k][i]
    BY <1>2, <1>3, <1>6
  <2>2. Holders(k, i)' = Holders(k, i)
    BY <1>4, <1>6 DEF Holders
  <2> QED BY <1>3, <2>1, <2>2 DEF Balanced
<1> QED BY <1>5, <1>6

------------------------------------------------------------------------------
(* Claims *)

Taker == {"read", "take", "acquire", "call"}

\* The limiters a call needs, by name.
Wanted(r) ==
    {"account"} \cup
        (IF loop[r].purpose = "main"
         THEN {Needs[kind[r]][i] : i \in 1 .. Len(Needs[kind[r]])} ELSE {})

ToTake(r) == {loop[r].need[i] : i \in 1 .. Len(loop[r].need)}

\* A request holds limiters during a call only, all of them made; those it has still to
\* take belong inside one another and inside those it holds; together they are all it
\* needs, on the account it is at.
Claim(r) ==
    /\ held[r] # {} => pc[r] \in Taker
    /\ HoldsMade(r)
    /\ pc[r] = "call" => loop[r].need = <<>>
    /\ pc[r] \in Taker =>
        /\ \A i, j \in 1 .. Len(loop[r].need) :
              i < j => Depth(loop[r].need[i]) < Depth(loop[r].need[j])
        /\ \A l \in held[r] : \A n \in ToTake(r) : Depth(l[1][1]) < Depth(n)
        /\ \A n \in Wanted(r) :
            n \in ToTake(r) \/ \E i \in 1 .. MaxGen : <<<<n, Account(r)>>, i>> \in held[r]

\* A request that holds nothing and is not in a call.
LEMMA ClaimNothing ==
    ASSUME Types, NEW r \in Requests, held'[r] = {}, pc'[r] \notin Taker
    PROVE  Claim(r)'
  BY DEF Claim, HoldsMade, Taker

\* A request that begins a call.
LEMMA ClaimBegins ==
    ASSUME Types, NEW r \in Requests, held'[r] = {}, pc'[r] # "call",
           \A i, j \in 1 .. Len(loop'[r].need) :
              i < j => Depth(loop'[r].need[i]) < Depth(loop'[r].need[j]),
           Wanted(r)' \subseteq ToTake(r)'
    PROVE  Claim(r)'
  BY DEF Claim, HoldsMade

\* A request that keeps its claim.
LEMMA ClaimStays ==
    ASSUME Types, LimitersGrow, NEW r \in Requests, Claim(r),
           kind' = kind, held'[r] = held[r],
           pc[r] = pc'[r] \/ (pc[r] \in Taker /\ pc'[r] \in Taker \ {"call"}),
           loop'[r].need = loop[r].need, loop'[r].purpose = loop[r].purpose,
           loop'[r].order = loop[r].order, loop'[r].pos = loop[r].pos
    PROVE  Claim(r)'
<1>1. held[r] \subseteq Limiters /\ \A l \in held[r] : l[1] \in Keys /\ l[2] \in Nat
  <2>1. held[r] \subseteq Limiters
    BY DEF Types, TypeOK
  <2> QED BY <2>1, Constants DEF Limiters
<1>2. HoldsMade(r)'
  <2> SUFFICES ASSUME NEW l \in held[r] PROVE l[2] <= Len(limiters'[l[1]])
    BY DEF HoldsMade
  <2>1. l[2] <= Len(limiters[l[1]]) /\ Len(limiters'[l[1]]) >= Len(limiters[l[1]])
    BY <1>1 DEF Claim, HoldsMade, LimitersGrow
  <2>2. Len(limiters[l[1]]) \in Nat /\ Len(limiters'[l[1]]) \in Nat
    BY <1>1 DEF Types, TypeOK, LimitersGrow
  <2> QED BY <1>1, <2>1, <2>2
<1>3. Wanted(r)' = Wanted(r) /\ ToTake(r)' = ToTake(r) /\ Account(r)' = Account(r)
  BY DEF Wanted, ToTake, Account
<1>4. /\ held'[r] # {} => pc'[r] \in Taker
      /\ pc'[r] = "call" => loop'[r].need = <<>>
      /\ pc'[r] \in Taker => pc[r] \in Taker
  BY DEF Claim, Taker
<1> QED BY <1>2, <1>3, <1>4 DEF Claim

LEMMA ClaimTakes ==
    ASSUME Types, NEW r \in Requests, Claim(r), Acquire(r)
    PROVE  Claim(r)' /\ loop[r].wait \notin held[r]
<1> DEFINE need == loop[r].need
           name == Head(need)
           rest == Tail(need)
           w == loop[r].wait
<1>1. need \in Seq(Names) /\ need # <<>> /\ pc[r] = "acquire" /\ loop[r] \in Locals
  BY AtKey, OnAccount DEF Acquire, Types, TakesSome
<1>2. /\ name = need[1] /\ 1 \in 1 .. Len(need) /\ Len(need) \in Nat
      /\ Len(rest) = Len(need) - 1 /\ \A i \in 1 .. Len(rest) : rest[i] = need[i + 1]
      /\ rest \in Seq(Names)
  BY <1>1
<1>3. /\ w[1] = <<name, Account(r)>> /\ w \in Limiters /\ LimitersGrow
      /\ w[2] \in 1 .. Len(limiters[w[1]])
      /\ held' = [held EXCEPT ![r] = @ \cup {w}]
      /\ \A k \in Keys : Len(limiters'[k]) = Len(limiters[k])
  BY AcquireEffect
<1>4. /\ loop'[r] = [loop[r] EXCEPT !.need = rest, !.wait = <<>>] /\ pc'[r] = Taking(rest)
      /\ kind' = kind
  BY AcquireSteps
<1> HIDE DEF need, name, rest, w
<1>5. /\ loop'[r].need = rest /\ loop'[r].purpose = loop[r].purpose
      /\ loop'[r].order = loop[r].order /\ loop'[r].pos = loop[r].pos
  BY <1>1, <1>4 DEF Locals
<1>6. held'[r] = held[r] \cup {w}
  BY <1>3 DEF Types, TypeOK
<1>7. /\ \A i, j \in 1 .. Len(need) : i < j => Depth(need[i]) < Depth(need[j])
      /\ \A l \in held[r] : \A n \in ToTake(r) : Depth(l[1][1]) < Depth(n)
      /\ \A n \in Wanted(r) :
          n \in ToTake(r) \/ \E i \in 1 .. MaxGen : <<<<n, Account(r)>>, i>> \in held[r]
  BY <1>1 DEF Claim, Taker, need
<1>8. ToTake(r) = {need[i] : i \in 1 .. Len(need)}
      /\ ToTake(r)' = {rest[i] : i \in 1 .. Len(rest)}
  BY <1>5 DEF ToTake, need
<1>9. ToTake(r) = {name} \cup ToTake(r)' /\ \A n \in ToTake(r)' : Depth(name) < Depth(n)
  <2>1. ASSUME NEW i \in 1 .. Len(need) PROVE need[i] = name \/ need[i] \in ToTake(r)'
    <3>1. i = 1 \/ i - 1 \in 1 .. Len(rest)
      BY <1>2
    <3>2. i - 1 \in 1 .. Len(rest) => rest[i - 1] = need[i]
      BY <1>2
    <3> QED BY <1>2, <1>8, <3>1, <3>2
  <2>2. ASSUME NEW i \in 1 .. Len(rest)
        PROVE  rest[i] \in ToTake(r) /\ Depth(name) < Depth(rest[i])
    <3>1. i + 1 \in 1 .. Len(need) /\ 1 < i + 1
      BY <1>2
    <3> QED BY <1>2, <1>7, <1>8, <3>1
  <2>3. name \in ToTake(r)
    BY <1>2, <1>8
  <2> QED BY <1>8, <2>1, <2>2, <2>3
<1>10. w \notin held[r]
  <2>1. ~(Depth(name) < Depth(name))
    BY DEF Depth
  <2>2. w[1][1] = name
    BY <1>3
  <2> QED BY <1>7, <1>9, <2>1, <2>2
<1>11. HoldsMade(r)'
  <2> SUFFICES ASSUME NEW l \in held[r] \cup {w} PROVE l[2] <= Len(limiters'[l[1]])
    BY <1>6 DEF HoldsMade
  <2>1. l[1] \in Keys
    BY <1>3 DEF Types, TypeOK, Limiters
  <2>2. l[2] <= Len(limiters[l[1]])
    <3>1. CASE l \in held[r]
      BY <3>1 DEF Claim, HoldsMade
    <3>2. CASE l = w
      <4>1. Len(limiters[w[1]]) \in Nat
        BY <2>1, <3>2 DEF Types, TypeOK
      <4> QED BY <1>3, <3>2, <4>1
    <3> QED BY <3>1, <3>2
  <2> QED BY <1>3, <2>1, <2>2
<1>12. pc'[r] \in Taker /\ (pc'[r] = "call" => rest = <<>>)
  BY <1>4, <1>2, TakingFits DEF Taker, Taking
<1>13. \A i, j \in 1 .. Len(rest) : i < j => Depth(rest[i]) < Depth(rest[j])
  <2> SUFFICES ASSUME NEW i \in 1 .. Len(rest), NEW j \in 1 .. Len(rest), i < j
               PROVE  Depth(rest[i]) < Depth(rest[j])
    OBVIOUS
  <2>1. i + 1 \in 1 .. Len(need) /\ j + 1 \in 1 .. Len(need) /\ i + 1 < j + 1
    BY <1>2
  <2>2. rest[i] = need[i + 1] /\ rest[j] = need[j + 1]
    BY <1>2
  <2> QED BY <1>7, <2>1, <2>2
<1>14. \A l \in held[r] \cup {w} : \A n \in ToTake(r)' : Depth(l[1][1]) < Depth(n)
  <2>1. w[1][1] = name
    BY <1>3
  <2> QED BY <1>7, <1>9, <2>1
<1>15. Wanted(r)' = Wanted(r) /\ Account(r)' = Account(r)
  BY <1>4, <1>5 DEF Wanted, Account
<1>16. \A n \in Wanted(r) : \/ n \in ToTake(r)'
                           \/ \E i \in 1 .. MaxGen : <<<<n, Account(r)>>, i>> \in held[r] \cup {w}
  <2>1. w = <<<<name, Account(r)>>, w[2]>> /\ w[2] \in 1 .. MaxGen
    BY <1>3 DEF Limiters
  <2> QED BY <1>7, <1>9, <2>1
<1>17. Claim(r)'
  BY <1>5, <1>6, <1>11, <1>12, <1>13, <1>14, <1>15, <1>16 DEF Claim
<1> QED BY <1>10, <1>17 DEF w

\* Every kind of request needs the limiter of the account.
LEMMA AccountNeeded ==
    ASSUME NEW k \in Kinds
    PROVE  \E i \in 1 .. Len(Needs[k]) : Needs[k][i] = "account"
<1>1. /\ \A n : /\ Len(<<n, "account">>) = 2 /\ <<n, "account">>[2] = "account"
      /\ \A n, m : Len(<<n, m, "account">>) = 3 /\ <<n, m, "account">>[3] = "account"
  OBVIOUS
<1>2. \/ \E n : Needs[k] = <<n, "account">>
      \/ \E n, m : Needs[k] = <<n, m, "account">>
  BY DEF Needs, Kinds
<1>3. CASE \E n : Needs[k] = <<n, "account">>
  <2>1. Len(Needs[k]) = 2 /\ Needs[k][2] = "account"
    BY <1>1, <1>3
  <2> QED BY <2>1
<1>4. CASE \E n, m : Needs[k] = <<n, m, "account">>
  <2>1. Len(Needs[k]) = 3 /\ Needs[k][3] = "account"
    BY <1>1, <1>4
  <2> QED BY <2>1
<1> QED BY <1>2, <1>3, <1>4

LEMMA StepClaims ==
    ASSUME Types, \A r \in Requests : Claim(r), NEW r \in Requests, Arrive(r) \/ Serve(r)
    PROVE  Claim(r)'
<1>1. Claim(r) /\ (pc[r] \notin Taker => held[r] = {})
  BY DEF Claim
<1>2. ASSUME pc[r] \notin Taker, held' = held, pc'[r] \notin Taker PROVE Claim(r)'
  BY <1>1, <1>2, ClaimNothing
<1>3. ASSUME ReleaseAll(r), pc'[r] \notin Taker PROVE Claim(r)'
  BY <1>3, ReleaseAllAlone, ClaimNothing
<1>4. ASSUME NEW l \in Locals, NEW why \in {"rank", "init", "diagnose"}, Ask(r, l, why),
             held'[r] = {}
      PROVE  Claim(r)'
  <2>1. loop'[r].purpose = why /\ loop'[r].need = <<"account">> /\ pc'[r] = "take"
    BY <1>4, AskEffect
  <2>2. Len(<<"account">>) = 1 /\ <<"account">>[1] = "account"
    OBVIOUS
  <2>3. Wanted(r)' = {"account"} /\ ToTake(r)' = {"account"}
    BY <2>1, <2>2 DEF Wanted, ToTake
  <2> QED BY <1>4, <2>1, <2>2, <2>3, ClaimBegins
<1>5. ASSUME NEW result, Finish(r, result) PROVE pc'[r] \notin Taker
  BY <1>5, FinishAlone DEF Taker
<1>6. ASSUME NEW code, GoOn(r, code) PROVE pc'[r] \notin Taker
  BY <1>5, <1>6, StepEffect DEF GoOn, Taker
<1>7. loop[r] \in Locals
  BY DEF Types, TypeOK
<1>8. CASE Arrive(r)
  <2>1. pc'[r] \notin Taker
    <3>1. CASE Admit(r)
      <4>1. \E l : Step(r, l, "configure") \/ Step(r, l, "dedupe") \/ Step(r, l, "order")
        BY <3>1 DEF Admit, Enter
      <4> QED BY <4>1, StepEffect DEF Taker
    <3> QED BY <1>8, <3>1 DEF Arrive, Refuse, AnswerAtOnce, Taker, Types, TypeOK
  <2>2. pc[r] \notin Taker /\ held' = held
    BY <1>8 DEF Arrive, Refuse, AnswerAtOnce, Admit, Taker
  <2> QED BY <1>2, <2>1, <2>2
<1>9. CASE Configure(r) \/ Produce(r) \/ Join(r)
  <2>1. pc'[r] \notin Taker
    <3>1. CASE Configure(r)
      <4>1. \E l : Step(r, l, "dedupe") \/ Step(r, l, "order")
        BY <3>1 DEF Configure, Enter
      <4> QED BY <4>1, StepEffect DEF Taker
    <3> QED BY <1>9, <3>1 DEF Produce, Join, Taker, Types, TypeOK
  <2>2. pc[r] \notin Taker /\ held' = held
    BY <1>9 DEF Configure, Produce, Join, Taker
  <2> QED BY <1>2, <2>1, <2>2
<1>10. CASE Wake(r) \/ NothingToSend(r) \/ CaptureMissing(r) \/ PreflightFails(r)
  <2>1. pc'[r] \notin Taker
    BY <1>5, <1>6, <1>10 DEF Wake, NothingToSend, CaptureMissing, PreflightFails
  <2>2. pc[r] \notin Taker /\ held' = held
    BY <1>10 DEF Wake, NothingToSend, CaptureMissing, PreflightFails, Checked, Taker
  <2> QED BY <1>2, <2>1, <2>2
<1>11. CASE PickOrder(r)
  <2>1. \E l : Step(r, l, "rank") \/ Step(r, l, "try")
    BY <1>11 DEF PickOrder
  <2>2. pc'[r] \notin Taker
    BY <2>1, StepEffect DEF Taker
  <2>3. pc[r] \notin Taker /\ held' = held
    BY <1>11 DEF PickOrder, Taker
  <2> QED BY <1>2, <2>2, <2>3
<1>12. CASE Rank(r) \/ AskQuota(r)
  <2>1. pc[r] \notin Taker /\ held' = held
    BY <1>12 DEF Rank, AskQuota, Taker
  <2>2. \/ Ask(r, loop[r], "rank") \/ Ask(r, loop[r], "init")
        \/ \E l : Step(r, l, "try")
    BY <1>12 DEF Rank, AskQuota
  <2>3. CASE \E l : Step(r, l, "try")
    <3>1. pc'[r] \notin Taker
      BY <2>3, StepEffect DEF Taker
    <3> QED BY <1>2, <2>1, <3>1
  <2> QED BY <1>1, <1>4, <1>7, <2>1, <2>2, <2>3
<1>13. CASE StartCall(r)
  <2> DEFINE names == Needs[kind[r]]
  <2>1. pc[r] \notin Taker /\ held' = held /\ kind' = kind
    BY <1>13 DEF StartCall, Checked, Taker
  <2>2. /\ names \in Seq(Names) /\ names # <<>>
        /\ \A i, j \in 1 .. Len(names) : i < j => Depth(names[i]) < Depth(names[j])
    BY NeedsTyped DEF Types, TypeOK
  <2>3. loop'[r] = [loop[r] EXCEPT !.purpose = "main", !.need = names]
        /\ pc'[r] = Taking(names)
    BY <1>13, StepEffect DEF StartCall
  <2>4. \E i \in 1 .. Len(names) : names[i] = "account"
    BY AccountNeeded DEF Types, TypeOK
  <2>5. pc'[r] # "call"
    BY <2>2, <2>3 DEF Taking
  <2>6. Needs[kind'[r]] = names
    BY <2>1
  <2> HIDE DEF names
  <2>7. loop'[r].purpose = "main" /\ loop'[r].need = names
    BY <1>7, <2>3 DEF Locals
  <2>8. Wanted(r)' \subseteq ToTake(r)'
    BY <2>4, <2>6, <2>7 DEF Wanted, ToTake
  <2> QED BY <1>1, <2>1, <2>2, <2>5, <2>7, <2>8, ClaimBegins
<1>14. CASE ReadLimit(r)
  <2>1. PICK n : Step(r, [loop[r] EXCEPT !.lim = n], "take")
    BY <1>14 DEF ReadLimit
  <2>2. /\ loop'[r].need = loop[r].need /\ loop'[r].purpose = loop[r].purpose
        /\ loop'[r].order = loop[r].order /\ loop'[r].pos = loop[r].pos /\ pc'[r] = "take"
    BY <1>7, <2>1, StepEffect DEF Locals
  <2>3. /\ pc[r] = "read" /\ kind' = kind /\ held' = held /\ limiters' = limiters
    BY <1>14 DEF ReadLimit
  <2> QED BY <1>1, <2>2, <2>3, LimitersStay, ClaimStays DEF Taker
<1>15. CASE TakeLimiter(r)
  <2>1. /\ loop'[r].need = loop[r].need /\ loop'[r].purpose = loop[r].purpose
        /\ loop'[r].order = loop[r].order /\ loop'[r].pos = loop[r].pos /\ pc'[r] = "acquire"
    BY <1>7, <1>15, TakeLimiterWaits
  <2>2. pc[r] = "take" /\ kind' = kind /\ held' = held /\ LimitersGrow
    BY <1>15, TakeLimiterEffect DEF TakeLimiter
  <2> QED BY <1>1, <2>1, <2>2, ClaimStays DEF Taker
<1>16. CASE Acquire(r)
  BY <1>1, <1>16, ClaimTakes
<1>17. CASE RankReturns(r) \/ InitReturns(r)
  <2>1. \E l : Step(r, l, "rank") \/ Step(r, l, "check")
    BY <1>17 DEF RankReturns, InitReturns
  <2>2. pc'[r] \notin Taker
    BY <2>1, StepEffect DEF Taker
  <2> QED BY <1>3, <1>17, <2>2 DEF RankReturns, InitReturns
<1>18. CASE Diagnose(r)
  BY <1>3, <1>6, <1>18 DEF Diagnose
<1>19. ASSUME NEW code, Fails(r, code) PROVE Claim(r)'
  <2>1. ReleaseAll(r)
    BY <1>19 DEF Fails
  <2>2. CASE Diagnosed(r, code)
    <3>1. /\ loop'[r].purpose = "diagnose" /\ loop'[r].need = <<"account">> /\ pc'[r] = "take"
      BY <1>19, <2>2, FailsAsks
    <3>2. Len(<<"account">>) = 1 /\ <<"account">>[1] = "account"
      OBVIOUS
    <3>3. Wanted(r)' = {"account"} /\ ToTake(r)' = {"account"}
      BY <3>1, <3>2 DEF Wanted, ToTake
    <3> QED BY <2>1, <3>1, <3>2, <3>3, ReleaseAllAlone, ClaimBegins
  <2>3. CASE ~Diagnosed(r, code)
    BY <1>3, <1>6, <1>19, <2>1, <2>3 DEF Fails
  <2> QED BY <2>2, <2>3
<1>20. ASSUME NEW result, Ends(r, result) PROVE Claim(r)'
  BY <1>3, <1>5, <1>20 DEF Ends
<1>21. CASE \/ FeatureDisabled(r) \/ NoticeCancel(r) \/ ClientGone(r) \/ ProviderFails(r)
            \/ NetworkFails(r) \/ NothingReturned(r)
  BY <1>19, <1>20, <1>21 DEF FeatureDisabled, NoticeCancel, ClientGone, ProviderFails,
     NetworkFails, NothingReturned
<1>22. CASE Answered(r)
  BY <1>3, <1>5, <1>22 DEF Answered
<1>23. CASE HearConversation(r) \/ HearText(r)
  <2>1. PICK l : /\ Step(r, l, "call")
                 /\ \/ l = [loop[r] EXCEPT !.conv = TRUE]
                    \/ l = [loop[r] EXCEPT !.text = "blank"]
                    \/ l = [loop[r] EXCEPT !.text = "text"]
    BY <1>23 DEF HearConversation, HearText
  <2>2. loop'[r] = l
    BY <2>1, StepEffect
  <2>3. /\ loop'[r].need = loop[r].need /\ loop'[r].purpose = loop[r].purpose
        /\ loop'[r].order = loop[r].order /\ loop'[r].pos = loop[r].pos
    BY <1>7, <2>1, <2>2 DEF Locals
  <2>4. pc[r] = "call" /\ pc'[r] = "call" /\ kind' = kind /\ held' = held /\ limiters' = limiters
    BY <1>23, <2>1, StepEffect DEF HearConversation, HearText, Calling
  <2> QED BY <1>1, <2>3, <2>4, LimitersStay, ClaimStays
<1> QED BY <1>8, <1>9, <1>10, <1>11, <1>12, <1>13, <1>14, <1>15, <1>16, <1>17, <1>18, <1>21,
           <1>22, <1>23 DEF Serve

LEMMA OtherClaims ==
    ASSUME Types, NEW r \in Requests, Claim(r), LimitersGrow,
           UNCHANGED <<kind>>, loop'[r] = loop[r], pc'[r] = pc[r], held'[r] = held[r]
    PROVE  Claim(r)'
  BY ClaimStays

\* What a step does to the limiters: they grow and their permits stay conserved.
Sound == LimitersGrow /\ PermitsConserved'

LEMMA SameSound ==
    ASSUME Types, PermitsConserved, UNCHANGED <<limiters, held>>
    PROVE  Sound
  BY LimitersStay DEF PermitsConserved, Sound

LEMMA ReleaseSound ==
    ASSUME Types, PermitsConserved, NEW r \in Requests, ReleaseAll(r)
    PROVE  Sound
  BY ReleaseAllTypes, ReleasePermits DEF Sound

LEMMA ReplaceSound ==
    ASSUME Types, PermitsConserved, \A r \in Requests : Claim(r),
           NEW key \in Keys, NEW n \in 0 .. MaxLimit, Replace(key, n), held' = held
    PROVE  Sound
  BY ReplaceEffect, ReplacePermits DEF Claim, Sound

\* What the steps of the bridge do to limiters and permits.
LEMMA LimiterSteps ==
    ASSUME Types, [Next]_vars
    PROVE  \/ UNCHANGED <<limiters, held>>
           \/ \E r \in Requests : Acquire(r) \/ ReleaseAll(r)
           \/ \E key \in Keys, n \in 0 .. MaxLimit :
                /\ Replace(key, n) /\ held' = held
                /\ (\E r \in Requests : n = loop[r].lim) \/ \E a \in dirty : n = limit["chat"][a]
<1>1. ASSUME NEW r \in Requests, Arrive(r) PROVE UNCHANGED <<limiters, held>>
  BY <1>1 DEF Arrive, Refuse, AnswerAtOnce, Admit
<1>2. ASSUME NEW r \in Requests, Serve(r)
      PROVE  \/ UNCHANGED <<limiters, held>> \/ Acquire(r) \/ ReleaseAll(r)
             \/ \E key \in Keys, n \in 0 .. MaxLimit :
                  Replace(key, n) /\ held' = held /\ n = loop[r].lim
  <2>0. loop[r].lim \in 0 .. MaxLimit
    BY DEF Types, TypeOK, Locals
  <2>1. CASE Configure(r)
    <3>1. <<"account", Account(r)>> \in Keys
      BY <2>1, OnAccount DEF Configure, Keys
    <3> QED BY <2>0, <2>1, <3>1 DEF Configure
  <2>2. CASE \/ Produce(r) \/ Join(r) \/ Wake(r) \/ NothingToSend(r) \/ PickOrder(r) \/ Rank(r)
             \/ AskQuota(r) \/ CaptureMissing(r) \/ PreflightFails(r) \/ StartCall(r)
             \/ ReadLimit(r) \/ HearConversation(r) \/ HearText(r)
    BY <2>2 DEF Produce, Join, Wake, NothingToSend, PickOrder, Rank, AskQuota,
       CaptureMissing, PreflightFails, StartCall, ReadLimit, HearConversation, HearText
  <2>3. CASE TakeLimiter(r)
    <3> DEFINE key == <<Head(loop[r].need), Account(r)>>
    <3>1. key \in Keys
      BY <2>3, AtKey DEF TakeLimiter
    <3>2. held' = held /\ (UNCHANGED limiters \/ Replace(key, loop[r].lim))
      BY <2>3 DEF TakeLimiter
    <3> HIDE DEF key
    <3> QED BY <2>0, <3>1, <3>2
  <2>4. CASE \/ FeatureDisabled(r) \/ NoticeCancel(r) \/ ClientGone(r) \/ ProviderFails(r)
             \/ NetworkFails(r) \/ NothingReturned(r)
    <3>1. (\E code : Fails(r, code)) \/ \E result : Ends(r, result)
      BY <2>4 DEF FeatureDisabled, NoticeCancel, ClientGone, ProviderFails, NetworkFails,
                  NothingReturned
    <3> QED BY <3>1 DEF Fails, Ends
  <2>5. CASE RankReturns(r) \/ InitReturns(r) \/ Diagnose(r) \/ Answered(r)
    BY <2>5 DEF RankReturns, InitReturns, Diagnose, Answered
  <2> QED BY <1>2, <2>1, <2>2, <2>3, <2>4, <2>5 DEF Serve
<1>3. ASSUME NEW a \in Accounts, Reconfigure(a)
      PROVE  \E key \in Keys, n \in 0 .. MaxLimit :
                Replace(key, n) /\ held' = held /\ \E b \in dirty : n = limit["chat"][b]
  <2>1. <<"account", a>> \in Keys /\ limit["chat"][a] \in 0 .. MaxLimit
    BY DEF Keys, Features, Types, TypeOK
  <2> QED BY <1>3, <2>1 DEF Reconfigure
<1>4. CASE SaveSettings \/ (\E r \in Requests : Cancel(r)) \/ UNCHANGED vars
  BY <1>4 DEF SaveSettings, Cancel
<1> QED BY <1>1, <1>2, <1>3, <1>4 DEF Next, Admin

LEMMA NextSound ==
    ASSUME Types, PermitsConserved, \A r \in Requests : Claim(r), [Next]_vars
    PROVE  Sound
<1>1. ASSUME NEW r \in Requests, Acquire(r) PROVE Sound
  BY <1>1, AcquireEffect, ClaimTakes, AcquirePermits DEF Sound
<1> QED BY <1>1, LimiterSteps, SameSound, ReleaseSound, ReplaceSound

LEMMA NextClaims ==
    ASSUME Types, PermitsConserved, \A r \in Requests : Claim(r), [Next]_vars
    PROVE  \A r \in Requests : Claim(r)'
<1>1. LimitersGrow
  BY NextSound DEF Sound
<1>2. ASSUME NEW r \in Requests, Arrive(r) \/ Serve(r)
      PROVE  \A s \in Requests : Claim(s)'
  <2>1. \A s \in Requests \ {r} : Claim(s)'
    BY <1>1, <1>2, RequestAlone, OtherClaims DEF Alone
  <2>2. Claim(r)'
    BY <1>2, StepClaims
  <2> QED BY <2>1, <2>2
<1>3. CASE Admin \/ (\E r \in Requests : Cancel(r)) \/ UNCHANGED vars
  BY <1>1, <1>3, OtherStays, OtherClaims
<1> QED BY <1>2, <1>3 DEF Next

\* What every run of the bridge keeps of permits and claims.
Claims == Base /\ PermitsConserved /\ \A r \in Requests : Claim(r)

LEMMA ClaimsHold == Spec => []Claims
<1>1. Init => Claims
  <2> SUFFICES ASSUME Init PROVE Claims
    OBVIOUS
  <2>1. Base
    BY InitBase
  <2>2. \A r \in Requests : Claim(r)
    BY DEF Init, Claim, HoldsMade, Taker
  <2>3. ASSUME NEW k \in Keys, NEW i \in 1 .. Len(limiters[k]) PROVE Balanced(k, i)
    <3>1. \/ limiters[k] = <<>>
          \/ limiters[k] = <<[size |-> 1, free |-> 1]>>
      BY DEF Init
    <3>2. Len(<<>>) = 0 /\ Len(<<[size |-> 1, free |-> 1]>>) = 1
          /\ <<[size |-> 1, free |-> 1]>>[1] = [size |-> 1, free |-> 1]
      OBVIOUS
    <3>3. limiters[k][i] = [size |-> 1, free |-> 1]
      BY <3>1, <3>2
    <3>4. Holders(k, i) = {}
      BY DEF Holders, Init
    <3> QED BY <3>3, <3>4, FS_EmptySet DEF Balanced
  <2> QED BY <2>1, <2>2, <2>3, Balance DEF Claims
<1>2. Claims /\ [Next]_vars => Claims'
  BY NextTypes, NextDedupe, NextSound, NextClaims DEF Claims, Base, Sound
<1> QED BY <1>1, <1>2, PTL DEF Spec

\* The permits of every limiter are conserved for any number of requests and accounts,
\* under any errors, cancellations and changes of settings.
THEOREM PermitsAreConserved == Spec => []PermitsConserved
<1>1. Claims => PermitsConserved
  BY DEF Claims
<1> QED BY <1>1, ClaimsHold, PTL

------------------------------------------------------------------------------
(* Limits *)

SmallLimiters(ls) ==
    \A key \in Keys : Len(ls[key]) <= 1 /\ \A i \in 1 .. Len(ls[key]) : ls[key][i].size = 1

\* Until the settings are saved every limit is one and every limiter has one permit.
Unsaved ==
    ~saved =>
        /\ dirty = {} /\ \A f \in Features, a \in Accounts : limit[f][a] = 1
        /\ SmallLimiters(limiters) /\ \A r \in Requests : loop[r].lim = 1

\* Steps that change no size and add no limiter.
SameSizes ==
    \A key \in Keys :
        /\ Len(limiters'[key]) = Len(limiters[key])
        /\ \A i \in 1 .. Len(limiters[key]) : limiters'[key][i].size = limiters[key][i].size

LEMMA SmallStays == ASSUME SameSizes, SmallLimiters(limiters) PROVE SmallLimiters(limiters')
  BY DEF SameSizes, SmallLimiters

LEMMA SmallReplaced ==
    ASSUME Types, SmallLimiters(limiters), NEW key \in Keys, Replace(key, 1)
    PROVE  SmallLimiters(limiters')
<1>1. /\ \A k \in Keys \ {key} : limiters'[k] = limiters[k]
      /\ \/ limiters' = limiters
         \/ limiters'[key] = Append(limiters[key], [size |-> 1, free |-> 1])
  <2>1. 1 \in 0 .. MaxLimit
    BY Constants
  <2> QED BY <2>1, ReplaceEffect
<1>2. CASE limiters' = limiters
  BY <1>2
<1>3. CASE limiters' # limiters
  <2>1. limiters[key] \in Seq(Limiter) /\ Len(limiters[key]) \in Nat
    <3>1. limiters[key] \in Seq(Limiter)
      BY DEF Types, TypeOK, Limiter
    <3> QED BY <3>1
  <2>2. limiters[key] = <<>>
    <3>1. ~(limiters[key] # <<>> /\ limiters[key][Len(limiters[key])].size = 1)
      BY <1>3 DEF Replace
    <3>2. limiters[key] # <<>> => Len(limiters[key]) \in 1 .. Len(limiters[key])
      BY <2>1
    <3> QED BY <3>1, <3>2 DEF SmallLimiters
  <2>3. limiters'[key] = <<[size |-> 1, free |-> 1]>>
    BY <1>1, <1>3, <2>2
  <2>4. ASSUME NEW e PROVE Len(<<e>>) = 1 /\ <<e>>[1] = e
    OBVIOUS
  <2>5. Len(limiters'[key]) = 1 /\ limiters'[key][1].size = 1
    BY <2>3, <2>4
  <2> QED BY <1>1, <2>5 DEF SmallLimiters
<1> QED BY <1>2, <1>3

LEMMA ReleasedSizes ==
    ASSUME Types, NEW r \in Requests, ReleaseAll(r)
    PROVE  SameSizes
<1>1. \A key \in Keys :
        /\ Len(limiters'[key]) = Len(limiters[key])
        /\ \A i \in 1 .. Len(limiters[key]) :
             limiters'[key][i] = IF <<key, i>> \in held[r]
                                 THEN [limiters[key][i] EXCEPT !.free = @ + 1]
                                 ELSE limiters[key][i]
  BY ReleasedEffect DEF ReleaseAll
<1> QED BY <1>1, LimiterTyped DEF SameSizes, Limiter

LEMMA AcquiredSizes ==
    ASSUME Types, NEW r \in Requests, Acquire(r)
    PROVE  SameSizes
BY AcquireEffect, LimiterTyped DEF SameSizes, Limiter

\* The limit a request has read, or will set, is one or comes from the settings.
LEMMA LimitRead ==
    ASSUME Types, NEW r \in Requests, Arrive(r) \/ Serve(r), NEW limits, 1 \in limits,
           loop[r].lim \in limits, \A a \in Accounts : limit["chat"][a] \in limits,
           \A f \in Features, a \in Accounts : limit[f][a] > 0 => limit[f][a] \in limits
    PROVE  loop'[r].lim \in limits
<1>1. loop[r] \in Locals /\ \A s : Fresh(s).lim = 1
  BY DEF Types, TypeOK, Fresh
<1>2. ASSUME NEW result, Finish(r, result) PROVE loop'[r].lim \in limits
  BY <1>1, <1>2, FinishAlone
<1>3. ASSUME NEW code, GoOn(r, code) PROVE loop'[r].lim \in limits
  <2>1. CASE ShouldTryNext(r, code) /\ loop[r].pos < Len(loop[r].order)
    <3>1. loop'[r] = [Fresh(loop[r].order) EXCEPT !.pos = loop[r].pos + 1,
                                                  !.quota = loop[r].quota]
      BY <1>3, <2>1, StepEffect DEF GoOn
    <3> QED BY <3>1 DEF Fresh
  <2>2. CASE ~(ShouldTryNext(r, code) /\ loop[r].pos < Len(loop[r].order))
    BY <1>2, <1>3, <2>2 DEF GoOn
  <2> QED BY <2>1, <2>2
<1>4. ASSUME NEW l \in Locals, NEW why, Ask(r, l, why), l.lim \in limits PROVE loop'[r].lim \in limits
  <2>1. loop'[r] = [l EXCEPT !.purpose = why, !.need = <<"account">>]
    BY <1>4, StepEffect DEF Ask
  <2> QED BY <1>4, <2>1 DEF Locals
<1>5. ASSUME NEW code, Fails(r, code) PROVE loop'[r].lim \in limits
  <2>1. CASE Diagnosed(r, code)
    <3> DEFINE next == ShouldTryNext(r, code)
               l == [loop[r] EXCEPT !.failover = next, !.text = "none", !.conv = FALSE]
    <3>1. Ask(r, l, "diagnose")
      BY <1>5, <2>1 DEF Fails
    <3>2. next \in BOOLEAN
      BY DEF ShouldTryNext, ManyAccounts
    <3> HIDE DEF next
    <3>3. l \in Locals /\ l.lim \in limits
      BY <1>1, <3>2 DEF Locals
    <3> HIDE DEF l
    <3> QED BY <1>4, <3>1, <3>3
  <2> QED BY <1>3, <1>5, <2>1 DEF Fails
<1>6. CASE Arrive(r)
  <2>1. CASE Refuse(r) \/ AnswerAtOnce(r)
    BY <2>1 DEF Refuse, AnswerAtOnce
  <2>2. CASE Admit(r)
    <3>1. ASSUME NEW a \in Accounts, NEW label,
                 Step(r, [Fresh(<<a>>) EXCEPT !.lim = limit["chat"][a]], label)
          PROVE  loop'[r].lim \in limits
      <4>1. loop'[r] = [Fresh(<<a>>) EXCEPT !.lim = limit["chat"][a]]
        BY <3>1, StepEffect
      <4> QED BY <4>1 DEF Fresh
    <3>2. server.named \subseteq Accounts
      BY ServerTyped DEF Types
    <3> QED BY <2>2, <3>1, <3>2, StepEffect DEF Admit
  <2> QED BY <1>6, <2>1, <2>2 DEF Arrive
<1>7. CASE Configure(r) \/ Produce(r) \/ Join(r)
  <2>1. CASE Configure(r)
    BY <1>1, <2>1, StepEffect DEF Configure
  <2> QED BY <1>7, <2>1 DEF Produce, Join
<1>8. CASE Wake(r) \/ NothingToSend(r) \/ CaptureMissing(r)
  BY <1>2, <1>8 DEF Wake, NothingToSend, CaptureMissing
<1>9. CASE PreflightFails(r) \/ Diagnose(r)
  BY <1>3, <1>9 DEF PreflightFails, Diagnose
<1>10. CASE PickOrder(r)
  <2>1. PICK l : (\E label : Step(r, l, label)) /\ \E t : l = [loop[r] EXCEPT !.order = t]
    BY <1>10 DEF PickOrder
  <2>2. loop'[r] = l
    BY <2>1, StepEffect
  <2>3. l.lim = loop[r].lim
    BY <1>1, <2>1 DEF Locals
  <2> QED BY <2>2, <2>3
<1>11. CASE Rank(r) \/ AskQuota(r)
  <2>1. \/ Ask(r, loop[r], "rank") \/ Ask(r, loop[r], "init")
        \/ \E l : Step(r, l, "try") /\ \E t : l = [loop[r] EXCEPT !.order = t, !.pos = 1]
    BY <1>11 DEF Rank, AskQuota
  <2>2. ASSUME NEW l, Step(r, l, "try"), NEW t, l = [loop[r] EXCEPT !.order = t, !.pos = 1]
        PROVE  loop'[r].lim \in limits
    <3>1. loop'[r] = l
      BY <2>2, StepEffect
    <3> QED BY <1>1, <2>2, <3>1 DEF Locals
  <2> QED BY <1>1, <1>4, <2>1, <2>2
<1>12. CASE StartCall(r)
  <2>1. loop'[r] = [loop[r] EXCEPT !.purpose = "main", !.need = Needs[kind[r]]]
    BY <1>12, StepEffect DEF StartCall
  <2> QED BY <1>1, <2>1 DEF Locals
<1>13. CASE ReadLimit(r)
  <2>1. pc[r] = "read" /\ Head(loop[r].need) \in Features /\ Account(r) \in Accounts
    BY <1>13, OnAccount DEF ReadLimit, Types, TakesSome
  <2> DEFINE n == limit[Head(loop[r].need)][Account(r)]
  <2>2. n \in limits
    BY <1>13, <2>1 DEF ReadLimit
  <2>3. loop'[r] = [loop[r] EXCEPT !.lim = n]
    BY <1>13, StepEffect DEF ReadLimit
  <2> HIDE DEF n
  <2> QED BY <1>1, <2>2, <2>3 DEF Locals
<1>14. CASE TakeLimiter(r)
  <2>1. PICK w : Step(r, [loop[r] EXCEPT !.wait = w, !.lim = 1], "acquire")
    BY <1>14, TakeLimiterEffect
  <2>2. loop'[r] = [loop[r] EXCEPT !.wait = w, !.lim = 1]
    BY <2>1, StepEffect
  <2> QED BY <1>1, <2>2 DEF Locals
<1>15. CASE Acquire(r)
  <2>1. loop'[r] = [loop[r] EXCEPT !.need = Tail(loop[r].need), !.wait = <<>>]
    BY <1>15, AcquireSteps
  <2> QED BY <1>1, <2>1 DEF Locals
<1>16. CASE RankReturns(r) \/ InitReturns(r)
  <2>1. PICK l : /\ \E label : Step(r, l, label)
                 /\ \/ \E q : l = [loop[r] EXCEPT !.quota[Account(r)] = q, !.pos = @ + 1]
                    \/ \E q : l = [loop[r] EXCEPT !.quota[Account(r)] = q]
    BY <1>16 DEF RankReturns, InitReturns
  <2>2. loop'[r] = l
    BY <2>1, StepEffect
  <2>3. l.lim = loop[r].lim
    BY <1>1, <2>1 DEF Locals
  <2> QED BY <2>2, <2>3
<1>17. CASE HearConversation(r) \/ HearText(r)
  <2>1. PICK l : /\ Step(r, l, "call")
                 /\ \/ l = [loop[r] EXCEPT !.conv = TRUE]
                    \/ l = [loop[r] EXCEPT !.text = "blank"]
                    \/ l = [loop[r] EXCEPT !.text = "text"]
    BY <1>17 DEF HearConversation, HearText
  <2>2. loop'[r] = l
    BY <2>1, StepEffect
  <2> QED BY <1>1, <2>1, <2>2 DEF Locals
<1>18. CASE \/ FeatureDisabled(r) \/ NoticeCancel(r) \/ ClientGone(r) \/ ProviderFails(r)
            \/ NetworkFails(r) \/ NothingReturned(r)
  <2>1. (\E code : Fails(r, code)) \/ \E result : Ends(r, result)
    BY <1>18 DEF FeatureDisabled, NoticeCancel, ClientGone, ProviderFails, NetworkFails,
                 NothingReturned
  <2> QED BY <1>2, <1>5, <2>1 DEF Ends
<1>19. CASE Answered(r)
  BY <1>2, <1>19 DEF Answered
<1> QED BY <1>6, <1>7, <1>8, <1>9, <1>10, <1>11, <1>12, <1>13, <1>14, <1>15, <1>16, <1>17,
           <1>18, <1>19 DEF Serve

LEMMA NextSmall ==
    ASSUME Types, ~saved, Unsaved, [Next]_vars
    PROVE  SmallLimiters(limiters')
<1>1. /\ SmallLimiters(limiters) /\ dirty = {} /\ \A r \in Requests : loop[r].lim = 1
      /\ UNCHANGED limiters => SmallLimiters(limiters')
  BY DEF Unsaved
<1> QED BY <1>1, LimiterSteps, AcquiredSizes, ReleasedSizes, SmallStays, SmallReplaced

LEMMA NextUnsaved == Types /\ Unsaved /\ [Next]_vars => Unsaved'
<1> SUFFICES ASSUME Types, Unsaved, [Next]_vars, ~saved' PROVE Unsaved'
  BY DEF Unsaved
<1>1. ~saved
  <2>1. ASSUME NEW r \in Requests, Arrive(r) \/ Serve(r) PROVE saved' = saved
    BY <2>1, RequestAlone DEF Alone
  <2>2. CASE Admin \/ (\E r \in Requests : Cancel(r)) \/ UNCHANGED vars
    BY <2>2 DEF Admin, SaveSettings, Reconfigure, Cancel
  <2> QED BY <2>1, <2>2 DEF Next
<1>2. SmallLimiters(limiters')
  BY <1>1, NextSmall
<1>3. UNCHANGED <<limit, dirty>> /\ \A r \in Requests : loop'[r].lim = 1
  <2>1. ASSUME NEW r \in Requests, Arrive(r) \/ Serve(r)
        PROVE  UNCHANGED <<limit, dirty>> /\ \A s \in Requests : loop'[s].lim = 1
    <3>1. loop'[r].lim \in {1}
      <4>1. /\ loop[r].lim \in {1} /\ \A f \in Features, a \in Accounts : limit[f][a] \in {1}
            /\ "chat" \in Features /\ 1 \in {1}
        BY <1>1 DEF Unsaved, Features
      <4> QED BY <2>1, <4>1, LimitRead
    <3>2. UNCHANGED <<limit, dirty>> /\ \A s \in Requests \ {r} : loop'[s] = loop[s]
      BY <2>1, RequestAlone DEF Alone
    <3> QED BY <1>1, <3>1, <3>2 DEF Unsaved
  <2>2. CASE Admin \/ (\E r \in Requests : Cancel(r)) \/ UNCHANGED vars
    <3>1. UNCHANGED loop
      BY <2>2, OtherStays
    <3>2. UNCHANGED <<limit, dirty>>
      BY <1>1, <2>2 DEF Unsaved, Admin, SaveSettings, Reconfigure, Cancel
    <3> QED BY <1>1, <3>1, <3>2 DEF Unsaved
  <2> QED BY <2>1, <2>2 DEF Next
<1> QED BY <1>1, <1>2, <1>3 DEF Unsaved

\* The requests that use a limiter hold its one permit.
LEMMA UsersHold ==
    ASSUME Claims, Unsaved, ~saved, NEW n \in Names, NEW a \in Accounts
    PROVE  Using(n, a) \subseteq Holders(<<n, a>>, 1) /\ <<n, a>> \in Keys
<1>1. <<n, a>> \in Keys
  BY DEF Keys, Names
<1>2. ASSUME NEW r \in Using(n, a) PROVE r \in Holders(<<n, a>>, 1)
  <2>1. r \in Requests /\ pc[r] = "call" /\ Account(r) = a /\ n \in Wanted(r)
    BY <1>2 DEF Using, Wanted
  <2>2. Claim(r) /\ Len(<<>>) = 0
    BY <2>1 DEF Claims
  <2>3. ToTake(r) = {}
    BY <2>1, <2>2 DEF Claim, ToTake
  <2>4. PICK i \in 1 .. MaxGen : <<<<n, a>>, i>> \in held[r]
    BY <2>1, <2>2, <2>3 DEF Claim, Taker
  <2>5. i <= Len(limiters[<<n, a>>]) /\ Len(limiters[<<n, a>>]) <= 1
    BY <1>1, <2>2, <2>4 DEF Claim, HoldsMade, Unsaved, SmallLimiters
  <2>6. Len(limiters[<<n, a>>]) \in Nat
    BY <1>1 DEF Claims, Base, Types, TypeOK
  <2>7. i = 1
    BY <2>5, <2>6, Constants
  <2> QED BY <2>1, <2>4, <2>7 DEF Holders
<1> QED BY <1>1, <1>2

\* Until the settings are changed, calls in progress keep to the limits of the accounts
\* and of the features, however many requests and accounts there are.
THEOREM CallsKeepLimits == Spec => []CallsWithinLimits
<1>1. Init => Unsaved
  <2> SUFFICES ASSUME Init PROVE Unsaved
    OBVIOUS
  <2>1. SmallLimiters(limiters)
    <3> SUFFICES ASSUME NEW k \in Keys
                 PROVE  /\ Len(limiters[k]) <= 1
                        /\ \A i \in 1 .. Len(limiters[k]) : limiters[k][i].size = 1
      BY DEF SmallLimiters
    <3>1. limiters[k] = <<>> \/ limiters[k] = <<[size |-> 1, free |-> 1]>>
      BY DEF Init
    <3>2. Len(<<>>) = 0 /\ Len(<<[size |-> 1, free |-> 1]>>) = 1
          /\ <<[size |-> 1, free |-> 1]>>[1] = [size |-> 1, free |-> 1]
      OBVIOUS
    <3>3. CASE limiters[k] = <<>>
      BY <3>2, <3>3
    <3>4. CASE limiters[k] = <<[size |-> 1, free |-> 1]>>
      <4>1. Len(limiters[k]) = 1 /\ limiters[k][1].size = 1
        BY <3>2, <3>4
      <4> QED BY <4>1
    <3> QED BY <3>1, <3>3, <3>4
  <2> QED BY <2>1 DEF Init, Unsaved, Fresh
<1>2. Claims /\ Unsaved /\ [Next]_vars => Unsaved'
  BY NextUnsaved DEF Claims, Base
<1>3. Claims /\ Unsaved => CallsWithinLimits
  <2> SUFFICES ASSUME Claims, Unsaved, ~saved, NEW n \in Names, NEW a \in Accounts
               PROVE  Cardinality(Using(n, a)) <= limit[IF n = "account" THEN "chat" ELSE n][a]
    BY DEF CallsWithinLimits, Names
  <2> DEFINE key == <<n, a>>
  <2>1. limit[IF n = "account" THEN "chat" ELSE n][a] = 1
    BY DEF Unsaved, Names, Features
  <2>2. Types /\ PermitsConserved
    BY DEF Claims, Base
  <2>3. /\ IsFiniteSet(Holders(key, 1)) /\ Cardinality(Holders(key, 1)) \in Nat
    BY <2>2, HoldersCounted
  <2>4. /\ Cardinality(Using(n, a)) <= Cardinality(Holders(key, 1))
        /\ Cardinality(Using(n, a)) \in Nat
    BY <2>3, UsersHold, FS_Subset, FS_CardinalityType
  <2>5. CASE limiters[key] = <<>>
    <3>1. Using(n, a) = {}
      <4> SUFFICES ASSUME NEW r \in Using(n, a) PROVE FALSE
        OBVIOUS
      <4>1. r \in Requests /\ <<key, 1>> \in held[r]
        BY UsersHold DEF Holders
      <4>2. 1 <= Len(limiters[key])
        BY <4>1 DEF Claims, Claim, HoldsMade
      <4>3. Len(<<>>) = 0
        OBVIOUS
      <4> QED BY <2>5, <4>2, <4>3
    <3> QED BY <2>1, <3>1, FS_EmptySet
  <2>6. CASE limiters[key] # <<>>
    <3>1. limiters[key] \in Seq(Limiter)
      BY <2>2, UsersHold DEF Types, TypeOK, Limiter
    <3>2. 1 \in 1 .. Len(limiters[key]) /\ limiters[key][1] \in Limiter
      BY <2>6, <3>1
    <3>3. Balanced(key, 1)
      BY <2>2, <3>2, UsersHold, Balance
    <3>4. limiters[key][1].size = 1 /\ limiters[key][1].free \in Nat
      BY <3>2, UsersHold DEF Unsaved, SmallLimiters, Limiter
    <3> QED BY <2>1, <2>3, <2>4, <3>3, <3>4 DEF Balanced
  <2> QED BY <2>5, <2>6
<1> HIDE DEF Claims
<1> QED BY <1>1, <1>2, <1>3, ClaimsHold, PTL DEF Spec

------------------------------------------------------------------------------
(* Deadlock *)

\* No limiter is made without a permit: the limit of an account is not saved as zero,
\* and one of a feature that is zero is not taken.
LimitersPositive(ls) ==
    \A key \in Keys : \A i \in 1 .. Len(ls[key]) : ls[key][i].size > 0

Positive ==
    /\ \A a \in Accounts : limit["chat"][a] > 0
    /\ \A r \in Requests : loop[r].lim > 0
    /\ LimitersPositive(limiters)

LEMMA PositiveReplaced ==
    ASSUME Types, LimitersPositive(limiters), NEW key \in Keys, NEW n \in 0 .. MaxLimit, n > 0,
           Replace(key, n)
    PROVE  LimitersPositive(limiters')
<1> SUFFICES ASSUME NEW k \in Keys, NEW i \in 1 .. Len(limiters'[k])
             PROVE  limiters'[k][i].size > 0
  BY DEF LimitersPositive
<1>1. CASE limiters'[k] = limiters[k]
  BY <1>1 DEF LimitersPositive
<1>2. CASE limiters'[k] # limiters[k]
  <2> DEFINE e == [size |-> n, free |-> n]
  <2>1. limiters'[k] = Append(limiters[k], e)
    BY <1>2, ReplaceEffect
  <2>2. limiters[k] \in Seq(Limiter) /\ e.size = n
    BY DEF Types, TypeOK, Limiter
  <2>3. e \in Limiter
    BY DEF Limiter
  <2> HIDE DEF e
  <2>4. ASSUME NEW q \in Seq(Limiter), NEW j \in 1 .. Len(Append(q, e))
        PROVE  IF j \in 1 .. Len(q) THEN Append(q, e)[j] = q[j] ELSE Append(q, e)[j] = e
    BY <2>3
  <2> QED BY <2>1, <2>2, <2>4 DEF LimitersPositive
<1> QED BY <1>1, <1>2

LEMMA NextPositive == Types /\ Positive /\ [Next]_vars => Positive'
<1> SUFFICES ASSUME Types, Positive, [Next]_vars PROVE Positive'
  OBVIOUS
<1>1. \A a \in Accounts : limit'["chat"][a] > 0
  <2>1. ASSUME NEW r \in Requests, Arrive(r) \/ Serve(r) PROVE limit' = limit
    BY <2>1, RequestAlone DEF Alone
  <2>2. CASE SaveSettings
    <3>1. PICK key \in server.saves, n \in 0 .. MaxLimit :
            /\ key[1] = "chat" => n > 0
            /\ limit' = [limit EXCEPT ![key[1]][key[2]] = n]
      BY <2>2 DEF SaveSettings
    <3>2. limit \in [Features -> [Accounts -> 0 .. MaxLimit]] /\ "chat" \in Features
      BY DEF Types, TypeOK, Features
    <3> QED BY <3>1, <3>2 DEF Positive
  <2>3. CASE \/ \E a \in Accounts : Reconfigure(a)
             \/ (\E r \in Requests : Cancel(r)) \/ UNCHANGED vars
    BY <2>3 DEF Reconfigure, Cancel, Positive
  <2> QED BY <2>1, <2>2, <2>3 DEF Next, Admin, Positive
<1>2. \A r \in Requests : loop'[r].lim > 0
  <2>1. ASSUME NEW r \in Requests, Arrive(r) \/ Serve(r)
        PROVE  \A s \in Requests : loop'[s].lim > 0
    <3> DEFINE limits == Nat \ {0}
    <3>1. /\ loop[r].lim \in limits /\ \A a \in Accounts : limit["chat"][a] \in limits
          /\ \A f \in Features, a \in Accounts : limit[f][a] > 0 => limit[f][a] \in limits
      <4>1. /\ loop[r].lim \in Nat /\ limit \in [Features -> [Accounts -> 0 .. MaxLimit]]
            /\ "chat" \in Features
        BY DEF Types, TypeOK, Locals, Features
      <4> QED BY <4>1 DEF Positive
    <3>2. loop'[r].lim \in limits
      <4> HIDE DEF limits
      <4>1. 1 \in limits
        BY DEF limits
      <4> QED BY <2>1, <3>1, <4>1, LimitRead
    <3>3. \A s \in Requests \ {r} : loop'[s] = loop[s]
      BY <2>1, RequestAlone DEF Alone
    <3> QED BY <3>2, <3>3 DEF Positive
  <2>2. CASE Admin \/ (\E r \in Requests : Cancel(r)) \/ UNCHANGED vars
    BY <2>2, OtherStays DEF Positive
  <2> QED BY <2>1, <2>2 DEF Next
<1>3. LimitersPositive(limiters')
  <2>1. ASSUME SameSizes PROVE LimitersPositive(limiters')
    BY <2>1 DEF SameSizes, Positive, LimitersPositive
  <2>2. \A r \in Requests : loop[r].lim > 0
    BY DEF Positive
  <2>3. \A a \in dirty : limit["chat"][a] > 0
    BY DEF Positive, Types, TypeOK
  <2>4. LimitersPositive(limiters) /\ (UNCHANGED limiters => LimitersPositive(limiters'))
    BY DEF Positive
  <2> QED BY <2>1, <2>2, <2>3, <2>4, LimiterSteps, AcquiredSizes, ReleasedSizes, PositiveReplaced
<1> QED BY <1>1, <1>2, <1>3 DEF Positive

\* How far inside the limiters of its call a blocked request is.
Height(r) == IF pc[r] = "acquire" THEN Depth(Head(loop[r].need)) ELSE 0

\* A blocked request waits for one that is not blocked or further inside.
LEMMA WaitsInward ==
    ASSUME Claims, Positive, NEW r \in Requests, Blocked(r)
    PROVE  \E s \in Awaits(r) \cap Requests : ~Blocked(s) \/ Height(r) < Height(s)
<1>1. Types /\ Dedupe
  BY DEF Claims, Base
<1>2. CASE pc[r] = "waiting"
  <2>1. producer[r] \in Requests /\ entry[producer[r]] = "open"
    BY <1>1, <1>2 DEF Blocked, Dedupe, Types, TypeOK
  <2>2. pc[producer[r]] # "waiting"
    BY <1>1, <2>1 DEF Dedupe, Producing
  <2>3. Blocked(producer[r]) => Height(r) < Height(producer[r])
    BY <1>2, <2>2 DEF Blocked, Height, Depth
  <2> QED BY <1>2, <2>1, <2>3 DEF Awaits
<1>3. CASE pc[r] = "acquire"
  <2> DEFINE name == Head(loop[r].need)
             key == <<name, Account(r)>>
  <2>1. PICK n \in 1 .. Len(limiters[key]) : loop[r].wait = <<key, n>>
    BY <1>1, <1>3 DEF Types, TakesSome
  <2>2. key \in Keys
    BY <1>1, <1>3, AtKey
  <2> HIDE DEF key
  <2>3. limiters[key][n] \in Limiter /\ limiters[key][n].size > 0
    BY <1>1, <2>2, LimiterTyped DEF Positive, LimitersPositive
  <2>4. limiters[key][n].free = 0
    BY <1>3, <2>1 DEF Blocked
  <2>5. limiters[key][n].free + Cardinality(Holders(key, n)) = limiters[key][n].size
    BY <2>2, Balance DEF Claims, Balanced
  <2>6. Holders(key, n) # {}
    <3>1. Cardinality({}) = 0
      BY FS_EmptySet
    <3>2. Cardinality(Holders(key, n)) # 0
      BY <2>3, <2>4, <2>5 DEF Limiter
    <3> QED BY <3>1, <3>2
  <2>7. PICK s \in Requests : <<key, n>> \in held[s]
    BY <2>6 DEF Holders
  <2>8. s \in Awaits(r)
    BY <1>3, <2>1, <2>7 DEF Awaits
  <2>9. ASSUME Blocked(s) PROVE Height(r) < Height(s)
    <3>1. Claim(s) /\ pc[s] \in Taker
      BY <2>7 DEF Claims, Claim
    <3>2. pc[s] = "acquire"
      BY <2>9, <3>1 DEF Blocked, Taker
    <3>3. Head(loop[s].need) \in ToTake(s)
      <4>1. loop[s].need \in Seq(Names) /\ loop[s].need # <<>>
        BY <1>1, <3>2, AtKey DEF Types, TakesSome
      <4>2. Head(loop[s].need) = loop[s].need[1] /\ 1 \in 1 .. Len(loop[s].need)
        BY <4>1
      <4> QED BY <4>2 DEF ToTake
    <3>4. <<key, n>>[1][1] = name
      BY DEF key
    <3>5. Depth(name) < Depth(Head(loop[s].need))
      BY <2>7, <3>1, <3>3, <3>4 DEF Claim
    <3> QED BY <1>3, <3>2, <3>5 DEF Height
  <2> QED BY <2>8, <2>9
<1> QED BY <1>2, <1>3 DEF Blocked

LEMMA HeightsBounded == ASSUME NEW r PROVE Height(r) \in 0 .. 3
BY DEF Height, Depth

\* Requests never block each other for good: not with any number of them, of accounts
\* and of limiters that are replaced while they are held.
THEOREM NobodyIsStuck == Spec => []NoDeadlock
<1>1. Init => Positive
  <2> SUFFICES ASSUME Init PROVE Positive
    OBVIOUS
  <2>1. LimitersPositive(limiters)
    <3> SUFFICES ASSUME NEW k \in Keys
                 PROVE  \A i \in 1 .. Len(limiters[k]) : limiters[k][i].size > 0
      BY DEF LimitersPositive
    <3>1. limiters[k] = <<>> \/ limiters[k] = <<[size |-> 1, free |-> 1]>>
      BY DEF Init
    <3>2. Len(<<>>) = 0 /\ Len(<<[size |-> 1, free |-> 1]>>) = 1
          /\ <<[size |-> 1, free |-> 1]>>[1] = [size |-> 1, free |-> 1]
      OBVIOUS
    <3> QED BY <3>1, <3>2
  <2> QED BY <2>1 DEF Init, Positive, Fresh, Features
<1>2. Claims /\ Positive /\ [Next]_vars => Positive'
  BY NextPositive DEF Claims, Base
<1>3. Claims /\ Positive => NoDeadlock
  <2> SUFFICES ASSUME Claims, Positive, NEW blocked \in SUBSET {r \in Requests : Blocked(r)},
                      \A r \in blocked : Awaits(r) \subseteq blocked
               PROVE  blocked = {}
    BY DEF NoDeadlock
  <2>1. ASSUME NEW r \in blocked PROVE \E s \in blocked : Height(r) < Height(s)
    BY WaitsInward
  <2>2. \A r \in blocked : Height(r) # 3
    BY <2>1, HeightsBounded
  <2>3. \A r \in blocked : Height(r) # 2
    BY <2>1, <2>2, HeightsBounded
  <2>4. \A r \in blocked : Height(r) # 1
    BY <2>1, <2>2, <2>3, HeightsBounded
  <2>5. \A r \in blocked : Height(r) # 0
    BY <2>1, <2>2, <2>3, <2>4, HeightsBounded
  <2> QED BY <2>2, <2>3, <2>4, <2>5, HeightsBounded
<1> HIDE DEF Claims
<1> QED BY <1>1, <1>2, <1>3, ClaimsHold, PTL DEF Spec

------------------------------------------------------------------------------
(* Requests are bounded: values of the bound *)

LEMMA LeftOutside ==
    ASSUME NEW l
    PROVE  /\ StepsLeft(l, "configure") = 35 * Len(l.order) + 9
           /\ StepsLeft(l, "dedupe") = 35 * Len(l.order) + 8
           /\ StepsLeft(l, "waiting") = 35 * Len(l.order) + 7
           /\ StepsLeft(l, "order") = 35 * Len(l.order) + 7
           /\ StepsLeft(l, "rank") = 28 * Len(l.order) + 7 * Later(l) + 13
           /\ StepsLeft(l, "try") = 28 * Later(l) + 27
           /\ StepsLeft(l, "check") = 28 * Later(l) + 20
           /\ StepsLeft(l, "done") = 0
  BY DEF StepsLeft

LEMMA LeftInside ==
    ASSUME NEW l
    PROVE  /\ StepsLeft(l, "read") = 3 * Len(l.need) + 3 + AfterCall(l)
           /\ StepsLeft(l, "take") = 3 * Len(l.need) + 2 + AfterCall(l)
           /\ StepsLeft(l, "acquire") = 3 * Len(l.need) + 1 + AfterCall(l)
           /\ StepsLeft(l, "call") = CallLeft(l, "call") + AfterCall(l)
<1>1. /\ CallLeft(l, "read") = 3 * Len(l.need) + 3
      /\ CallLeft(l, "take") = 3 * Len(l.need) + 2
      /\ CallLeft(l, "acquire") = 3 * Len(l.need) + 1
  BY DEF CallLeft
<1>2. \A at \in {"read", "take", "acquire", "call"} :
        StepsLeft(l, at) = CallLeft(l, at) + AfterCall(l)
  BY DEF StepsLeft
<1> QED BY <1>1, <1>2

LEMMA LeftInCall ==
    ASSUME NEW l \in Locals
    PROVE  /\ CallLeft(l, "call") \in 0 .. 3
           /\ CallLeft(l, "call") =
                (IF l.text = "none" THEN 2 ELSE IF l.text = "blank" THEN 1 ELSE 0)
                    + IF l.conv THEN 0 ELSE 1
<1>1. l.text \in {"none", "blank", "text"} /\ l.conv \in BOOLEAN
  BY DEF Locals
<1>2. [none |-> 2, blank |-> 1, text |-> 0][l.text]
        = IF l.text = "none" THEN 2 ELSE IF l.text = "blank" THEN 1 ELSE 0
  BY <1>1
<1>3. CallLeft(l, "call") =
        (IF l.text = "none" THEN 2 ELSE IF l.text = "blank" THEN 1 ELSE 0)
            + IF l.conv THEN 0 ELSE 1
  BY <1>2 DEF CallLeft
<1> QED BY <1>1, <1>3

LEMMA LeftAfter ==
    ASSUME NEW l
    PROVE  /\ l.purpose = "rank" => AfterCall(l) = 28 * Len(l.order) + 7 * Later(l) + 7
           /\ l.purpose = "init" => AfterCall(l) = 28 * Later(l) + 21
           /\ l.purpose = "main" => AfterCall(l) = 28 * Later(l) + 7
           /\ l.purpose = "diagnose" => AfterCall(l) = 28 * Later(l) + 1
  BY DEF AfterCall

\* Calls have the same end whatever happened in between.
LEMMA SameAfter ==
    ASSUME NEW l, NEW m, m.purpose = l.purpose, m.order = l.order, m.pos = l.pos
    PROVE  AfterCall(m) = AfterCall(l)
  BY DEF AfterCall, Later

\* What the account walk knows: how many accounts there are and how many come later.
LEMMA Walk ==
    ASSUME NEW l \in Locals, l.order # <<>>, l.pos \in 1 .. Len(l.order) + 1
    PROVE  /\ Len(l.order) \in Nat \ {0} /\ Later(l) = Len(l.order) - l.pos
           /\ Later(l) \in -1 .. Len(l.order) - 1 /\ l.pos \in Nat
           /\ Len(l.need) \in Nat /\ AfterCall(l) \in Int
           /\ l.pos <= Len(l.order) => Later(l) \in Nat /\ AfterCall(l) \in Nat \ {0}
<1>1. Len(l.order) \in Nat \ {0} /\ Len(l.need) \in Nat
  BY DEF Locals
<1>2. l.purpose \in {"rank", "init", "main", "diagnose"}
  BY DEF Locals
<1>3. /\ Later(l) = Len(l.order) - l.pos /\ Later(l) \in -1 .. Len(l.order) - 1
      /\ l.pos <= Len(l.order) => Later(l) \in Nat
  BY <1>1 DEF Later
<1>4. /\ AfterCall(l) \in Int
      /\ l.pos <= Len(l.order) => AfterCall(l) \in Nat \ {0}
  <2> DEFINE n == Len(l.order)
             m == Later(l)
  <2>1. n \in Nat \ {0} /\ m \in Int /\ (l.pos <= n => m \in Nat)
    BY <1>1, <1>3
  <2> HIDE DEF n, m
  <2>2. \/ AfterCall(l) = 28 * n + 7 * m + 7 \/ AfterCall(l) = 28 * m + 21
        \/ AfterCall(l) = 28 * m + 7 \/ AfterCall(l) = 28 * m + 1
    BY <1>2, LeftAfter DEF n, m
  <2>3. AfterCall(l) \in Int
    BY <2>1, <2>2
  <2>4. ASSUME l.pos <= n PROVE AfterCall(l) \in Nat \ {0}
    BY <2>1, <2>2, <2>4
  <2> QED BY <2>3, <2>4 DEF n
<1> QED BY <1>1, <1>3, <1>4

LEMMA WalkAt ==
    ASSUME Types, NEW r \in Requests
    PROVE  /\ loop[r] \in Locals /\ Len(loop[r].order) \in Nat \ {0}
           /\ Later(loop[r]) = Len(loop[r].order) - loop[r].pos /\ loop[r].pos \in Nat
           /\ Later(loop[r]) \in -1 .. Len(loop[r].order) - 1
           /\ Len(loop[r].need) \in Nat /\ AfterCall(loop[r]) \in Int
           /\ pc[r] # "rank" \/ loop[r].pos <= Len(loop[r].order) =>
                /\ loop[r].pos <= Len(loop[r].order) /\ Later(loop[r]) \in Nat
                /\ AfterCall(loop[r]) \in Nat \ {0}
<1>1. /\ loop[r] \in Locals /\ loop[r].order # <<>> /\ loop[r].pos \in Nat
      /\ \/ loop[r].pos \in 1 .. Len(loop[r].order)
         \/ pc[r] = "rank" /\ loop[r].pos = Len(loop[r].order) + 1
  BY DEF Types, TypeOK, Placed, Locals
<1>2. loop[r].pos \in 1 .. Len(loop[r].order) + 1 /\ Len(loop[r].order) \in Nat
  BY <1>1 DEF Locals
<1>3. pc[r] # "rank" => loop[r].pos <= Len(loop[r].order)
  BY <1>1, <1>2
<1> QED BY <1>1, <1>2, <1>3, Walk

------------------------------------------------------------------------------
(* Requests are bounded: what the parts of a step do *)

Advances(r) == StepsLeft(loop'[r], pc'[r]) < StepsLeft(loop[r], pc[r])

LEMMA SomeLeft ==
    ASSUME Types, NEW r \in Requests, pc[r] \notin {"new", "done"}
    PROVE  StepsLeft(loop[r], pc[r]) \in Nat \ {0}
<1> DEFINE n == Len(loop[r].order)
           m == Later(loop[r])
           k == Len(loop[r].need)
           c == CallLeft(loop[r], "call")
           e == AfterCall(loop[r])
           left == StepsLeft(loop[r], pc[r])
<1>1. n \in Nat \ {0} /\ m \in -1 .. n - 1 /\ k \in Nat /\ c \in 0 .. 3
  BY WalkAt, LeftInCall
<1>2. pc[r] # "rank" => m \in Nat /\ e \in Nat \ {0}
  BY WalkAt
<1>3. /\ pc[r] = "configure" => left = 35 * n + 9
      /\ pc[r] = "dedupe" => left = 35 * n + 8
      /\ pc[r] = "waiting" => left = 35 * n + 7
      /\ pc[r] = "order" => left = 35 * n + 7
      /\ pc[r] = "rank" => left = 28 * n + 7 * m + 13
      /\ pc[r] = "try" => left = 28 * m + 27
      /\ pc[r] = "check" => left = 28 * m + 20
  BY LeftOutside
<1>4. /\ pc[r] = "read" => left = 3 * k + 3 + e
      /\ pc[r] = "take" => left = 3 * k + 2 + e
      /\ pc[r] = "acquire" => left = 3 * k + 1 + e
      /\ pc[r] = "call" => left = c + e
  BY LeftInside
<1>5. pc[r] \in Labels \ {"new", "done"}
  BY DEF Types, TypeOK
<1> HIDE DEF n, m, k, c, e, left
<1>6. CASE pc[r] \in {"read", "take", "acquire", "call"}
  <2>1. e \in Nat \ {0}
    BY <1>2, <1>6
  <2>2. CASE pc[r] = "call"
    BY <1>1, <1>4, <2>1, <2>2 DEF left
  <2>3. CASE pc[r] # "call"
    BY <1>1, <1>4, <1>6, <2>1, <2>3 DEF left
  <2> QED BY <2>2, <2>3
<1>7. CASE pc[r] = "rank"
  BY <1>1, <1>3, <1>7 DEF left
<1>8. CASE pc[r] \in {"configure", "dedupe", "waiting", "order", "try", "check"}
  <2>1. m \in Nat
    BY <1>2, <1>8
  <2> QED BY <1>1, <1>3, <1>8, <2>1 DEF left
<1> QED BY <1>5, <1>6, <1>7, <1>8 DEF Labels

LEMMA FinishAdvances ==
    ASSUME Types, NEW r \in Requests, NEW result, Finish(r, result),
           pc[r] \notin {"new", "done"}
    PROVE  Advances(r)
<1>1. StepsLeft(loop'[r], pc'[r]) = 0
  BY FinishAlone, LeftOutside
<1> QED BY <1>1, SomeLeft DEF Advances

\* The next account comes after the one that failed.
LEMMA GoOnAdvances ==
    ASSUME Types, NEW r \in Requests, NEW code, GoOn(r, code),
           pc[r] \notin {"new", "done", "rank"},
           StepsLeft(loop[r], pc[r]) >= 28 * Later(loop[r])
    PROVE  Advances(r)
<1> DEFINE s == loop[r].order
           l == [Fresh(s) EXCEPT !.pos = loop[r].pos + 1, !.quota = loop[r].quota]
           n == Len(s)
<1>1. CASE Finish(r, "error")
  BY <1>1, FinishAdvances
<1>2. CASE Step(r, l, "try")
  <2>1. loop'[r] = l /\ pc'[r] = "try"
    <3> HIDE DEF l
    <3> QED BY <1>2, StepEffect
  <2>2. l.order = s /\ l.pos = loop[r].pos + 1
    BY DEF Fresh
  <2> HIDE DEF l
  <2>3. Later(loop'[r]) = n - (loop[r].pos + 1)
    BY <2>1, <2>2 DEF Later
  <2>4. n \in Nat /\ loop[r].pos \in Nat /\ Later(loop[r]) = n - loop[r].pos
    BY WalkAt
  <2> HIDE DEF n
  <2>5. StepsLeft(loop'[r], pc'[r]) = 28 * (Later(loop[r]) - 1) + 27
    BY <2>1, <2>3, <2>4, LeftOutside
  <2>6. StepsLeft(loop[r], pc[r]) \in Nat /\ Later(loop[r]) \in Int
    BY <2>4, SomeLeft
  <2> QED BY <2>5, <2>6 DEF Advances
<1> QED BY <1>1, <1>2 DEF GoOn

\* A call of conversation_init: at most five steps, then what follows it.
LEMMA AskLeft ==
    ASSUME Types, NEW r \in Requests, NEW l \in Locals, NEW why, Ask(r, l, why),
           l.order = loop[r].order, l.pos = loop[r].pos
    PROVE  LET n == Len(loop[r].order)
               m == Later(loop[r])
           IN  /\ why = "rank" => StepsLeft(loop'[r], pc'[r]) = 28 * n + 7 * m + 12
               /\ why = "init" => StepsLeft(loop'[r], pc'[r]) = 28 * m + 26
               /\ why = "diagnose" => StepsLeft(loop'[r], pc'[r]) = 28 * m + 6
<1> DEFINE n == Len(loop[r].order)
           m == Later(loop[r])
           k == loop'[r]
<1>1. k.purpose = why /\ k.need = <<"account">> /\ pc'[r] = "take"
  BY AskEffect
<1>2. k = [l EXCEPT !.purpose = why, !.need = <<"account">>]
  BY StepEffect DEF Ask
<1>3. k.order = loop[r].order /\ k.pos = loop[r].pos
  BY <1>2 DEF Locals
<1> HIDE DEF k
<1>4. Later(k) = m /\ Len(k.order) = n /\ Len(k.need) = 1
  BY <1>1, <1>3 DEF Later
<1>5. n \in Nat /\ m \in Int
  BY WalkAt
<1>6. StepsLeft(k, pc'[r]) = 5 + AfterCall(k)
  <2>1. StepsLeft(k, "take") = 3 * Len(k.need) + 2 + AfterCall(k)
    BY LeftInside
  <2> QED BY <1>1, <1>4, <2>1
<1>7. /\ why = "rank" => AfterCall(k) = 28 * n + 7 * m + 7
      /\ why = "init" => AfterCall(k) = 28 * m + 21
      /\ why = "diagnose" => AfterCall(k) = 28 * m + 1
  BY <1>1, <1>4, LeftAfter
<1> HIDE DEF n, m
<1>8. /\ why = "rank" => StepsLeft(k, pc'[r]) = 28 * n + 7 * m + 12
      /\ why = "init" => StepsLeft(k, pc'[r]) = 28 * m + 26
      /\ why = "diagnose" => StepsLeft(k, pc'[r]) = 28 * m + 6
  BY <1>5, <1>6, <1>7
<1> QED BY <1>8 DEF k, n, m

\* A failure, or any other end of a call, or the limit of zero.
LEMMA FailsAdvances ==
    ASSUME Types, NEW r \in Requests, NEW code, Fails(r, code),
           pc[r] \in {"read", "call"}, loop[r].purpose = "main"
    PROVE  Advances(r)
<1> DEFINE m == Later(loop[r])
           left == StepsLeft(loop[r], pc[r])
<1>1. left >= 28 * m + 7 /\ m \in Nat
  <2>1. m \in Nat /\ Len(loop[r].need) \in Nat /\ CallLeft(loop[r], "call") \in 0 .. 3
    BY WalkAt, LeftInCall
  <2>2. AfterCall(loop[r]) = 28 * m + 7
    BY LeftAfter
  <2> HIDE DEF m
  <2>3. CASE pc[r] = "read"
    BY <2>1, <2>2, <2>3, LeftInside
  <2>4. CASE pc[r] = "call"
    BY <2>1, <2>2, <2>4, LeftInside
  <2> QED BY <2>1, <2>3, <2>4
<1>2. CASE Diagnosed(r, code)
  <2> DEFINE next == ShouldTryNext(r, code)
             l == [loop[r] EXCEPT !.failover = next, !.text = "none", !.conv = FALSE]
  <2>1. Ask(r, l, "diagnose")
    BY <1>2 DEF Fails
  <2>2. next \in BOOLEAN /\ loop[r] \in Locals
    BY DEF ShouldTryNext, ManyAccounts, Types, TypeOK
  <2> HIDE DEF next
  <2>3. l \in Locals /\ l.order = loop[r].order /\ l.pos = loop[r].pos
    BY <2>2 DEF Locals
  <2> HIDE DEF l
  <2>4. StepsLeft(loop'[r], pc'[r]) = 28 * m + 6
    BY <2>1, <2>3, AskLeft
  <2>5. left \in Nat
    BY SomeLeft
  <2> HIDE DEF m
  <2> QED BY <1>1, <2>4, <2>5 DEF Advances
<1>3. CASE ~Diagnosed(r, code)
  <2>1. GoOn(r, code)
    BY <1>3 DEF Fails
  <2>2. left >= 28 * m
    <3>1. left \in Nat
      BY SomeLeft
    <3> HIDE DEF left, m
    <3> QED BY <1>1, <3>1
  <2> QED BY <2>1, <2>2, GoOnAdvances
<1> QED BY <1>2, <1>3

\* A step within a call leaves what follows the call as it is.
LEMMA CallAdvances ==
    ASSUME Types, NEW r \in Requests, NEW a \in Int, NEW b \in Int, a < b,
           StepsLeft(loop'[r], pc'[r]) = a + AfterCall(loop'[r]),
           StepsLeft(loop[r], pc[r]) = b + AfterCall(loop[r]),
           loop'[r].purpose = loop[r].purpose, loop'[r].order = loop[r].order,
           loop'[r].pos = loop[r].pos
    PROVE  Advances(r)
<1>1. AfterCall(loop'[r]) = AfterCall(loop[r]) /\ AfterCall(loop[r]) \in Int
  BY WalkAt, SameAfter
<1> QED BY <1>1 DEF Advances

------------------------------------------------------------------------------
(* Requests are bounded: the steps *)

LEMMA ArrivedAdvances ==
    ASSUME Types, NEW r \in Requests, Configure(r) \/ Produce(r) \/ Join(r)
    PROVE  Advances(r)
<1> DEFINE n == Len(loop[r].order)
<1>1. n \in Nat
  BY WalkAt
<1>2. CASE Configure(r)
  <2> DEFINE l == Fresh(loop[r].order)
  <2>1. l.order = loop[r].order
    BY DEF Fresh
  <2>2. Step(r, l, Enter(r)) /\ pc[r] = "configure"
    BY <1>2 DEF Configure
  <2> HIDE DEF l
  <2>3. loop'[r].order = loop[r].order /\ pc'[r] \in {"dedupe", "order"}
    BY <2>1, <2>2, StepEffect DEF Enter
  <2>4. StepsLeft(loop[r], pc[r]) = 35 * n + 9
    BY <2>2, LeftOutside
  <2>5. /\ pc'[r] = "dedupe" => StepsLeft(loop'[r], pc'[r]) = 35 * n + 8
        /\ pc'[r] = "order" => StepsLeft(loop'[r], pc'[r]) = 35 * n + 7
    BY <2>3, LeftOutside
  <2> HIDE DEF n
  <2> QED BY <1>1, <2>3, <2>4, <2>5 DEF Advances
<1>3. CASE Produce(r) \/ Join(r)
  <2>1. loop' = loop /\ pc[r] = "dedupe" /\ pc'[r] \in {"waiting", "order"}
    BY <1>3 DEF Produce, Join, Types, TypeOK
  <2>2. /\ StepsLeft(loop[r], pc[r]) = 35 * n + 8
        /\ StepsLeft(loop'[r], pc'[r]) = 35 * n + 7
    BY <2>1, LeftOutside
  <2> HIDE DEF n
  <2> QED BY <1>1, <2>2 DEF Advances
<1> QED BY <1>2, <1>3

LEMMA PickOrderAdvances == ASSUME Types, NEW r \in Requests, PickOrder(r) PROVE Advances(r)
<1> DEFINE n == Len(loop[r].order)
           m == Later(loop[r])
<1>1. PICK s \in RouterOrders(loop[r].order), support \in [Accounts -> DOMAIN SupportRank] :
        \E t \in BySupport(s, support) :
            Step(r, [loop[r] EXCEPT !.order = t],
                 IF Preflighted(r) /\ ManyAccounts(r) THEN "rank" ELSE "try")
  BY DEF PickOrder
<1> PICK t \in BySupport(s, support) :
        Step(r, [loop[r] EXCEPT !.order = t],
             IF Preflighted(r) /\ ManyAccounts(r) THEN "rank" ELSE "try")
  BY <1>1
<1>2. loop[r].order \in Seq(Accounts) /\ loop[r].order # <<>> /\ loop[r] \in Locals /\ TypeOK
  BY DEF Types, TypeOK, Placed, Locals
<1>3. Len(t) = n /\ t \in Seq(Accounts)
  BY <1>1, <1>2, OrdersTyped, BySupportTyped
<1> DEFINE l == [loop[r] EXCEPT !.order = t]
<1>4. l.order = t /\ l.pos = loop[r].pos
  BY <1>2 DEF Locals
<1>5. loop'[r] = l /\ pc'[r] \in {"rank", "try"}
  BY <1>1, StepEffect
<1> HIDE DEF l
<1>6. Len(loop'[r].order) = n /\ Later(loop'[r]) = m
  BY <1>3, <1>4, <1>5 DEF Later
<1>7. pc[r] = "order" /\ StepsLeft(loop[r], pc[r]) = 35 * n + 7
  BY LeftOutside DEF PickOrder
<1>8. n \in Nat \ {0} /\ m \in 0 .. n - 1
  BY <1>7, WalkAt
<1>9. /\ pc'[r] = "rank" => StepsLeft(loop'[r], pc'[r]) = 28 * n + 7 * m + 13
      /\ pc'[r] = "try" => StepsLeft(loop'[r], pc'[r]) = 28 * m + 27
  BY <1>6, LeftOutside
<1> HIDE DEF n, m
<1>10. 28 * n + 7 * m + 13 < 35 * n + 7 /\ 28 * m + 27 < 35 * n + 7
  BY <1>8
<1> QED BY <1>5, <1>7, <1>9, <1>10 DEF Advances

LEMMA RankAdvances == ASSUME Types, NEW r \in Requests, Rank(r) PROVE Advances(r)
<1> DEFINE n == Len(loop[r].order)
           m == Later(loop[r])
<1>1. loop[r] \in Locals /\ n \in Nat \ {0} /\ m = n - loop[r].pos /\ loop[r].pos \in Nat
      /\ m \in -1 .. n - 1
  BY WalkAt
<1>2. StepsLeft(loop[r], pc[r]) = 28 * n + 7 * m + 13
  BY LeftOutside DEF Rank
<1>3. CASE loop[r].pos <= Len(loop[r].order)
  <2>1. StepsLeft(loop'[r], pc'[r]) = 28 * n + 7 * m + 12
    BY <1>1, <1>3, AskLeft DEF Rank
  <2> HIDE DEF n, m
  <2> QED BY <1>1, <1>2, <2>1 DEF Advances
<1>4. CASE ~(loop[r].pos <= Len(loop[r].order))
  <2>1. PICK t \in ByQuota(loop[r]) : Step(r, [loop[r] EXCEPT !.order = t, !.pos = 1], "try")
    BY <1>4 DEF Rank
  <2>2. Len(t) = n /\ t \in Seq(Accounts)
    <3>1. loop[r].order \in Seq(Accounts) /\ loop[r].order # <<>>
      BY DEF Types, TypeOK, Placed, Locals
    <3>2. t \in Arrangements(loop[r].order)
      BY DEF ByQuota
    <3> QED BY <3>1, <3>2, ArrangementsTyped
  <2> DEFINE l == [loop[r] EXCEPT !.order = t, !.pos = 1]
  <2>3. l.order = t /\ l.pos = 1
    BY <1>1 DEF Locals
  <2>4. loop'[r] = l /\ pc'[r] = "try"
    <3> HIDE DEF l
    <3> QED BY <2>1, StepEffect DEF l
  <2> HIDE DEF l
  <2>5. Later(loop'[r]) = n - 1
    BY <2>2, <2>3, <2>4 DEF Later
  <2>6. StepsLeft(loop'[r], pc'[r]) = 28 * (n - 1) + 27
    BY <2>4, <2>5, LeftOutside
  <2> HIDE DEF n, m
  <2> QED BY <1>1, <1>2, <2>6 DEF Advances
<1> QED BY <1>3, <1>4

\* Whether its account is still to be checked or has been.
LEMMA CheckedLeft ==
    ASSUME Types, NEW r \in Requests, Checked(r)
    PROVE  /\ pc[r] \in {"try", "check"} /\ Later(loop[r]) \in Nat
           /\ StepsLeft(loop[r], pc[r]) \in {28 * Later(loop[r]) + 27, 28 * Later(loop[r]) + 20}
  BY WalkAt, LeftOutside DEF Checked

LEMMA ChecksAdvance ==
    ASSUME Types, NEW r \in Requests, AskQuota(r) \/ PreflightFails(r) \/ StartCall(r)
    PROVE  Advances(r)
<1> DEFINE m == Later(loop[r])
<1>1. loop[r] \in Locals
  BY WalkAt
<1>2. CASE AskQuota(r)
  <2>1. pc[r] = "try" /\ StepsLeft(loop[r], pc[r]) = 28 * m + 27
    BY <1>2, LeftOutside DEF AskQuota
  <2>2. m \in Nat
    BY <2>1, WalkAt
  <2>3. StepsLeft(loop'[r], pc'[r]) = 28 * m + 26
    BY <1>1, <1>2, AskLeft DEF AskQuota
  <2> HIDE DEF m
  <2> QED BY <2>1, <2>2, <2>3 DEF Advances
<1>3. CASE PreflightFails(r)
  <2>1. PICK code : GoOn(r, code)
    BY <1>3 DEF PreflightFails
  <2>2. Checked(r)
    BY <1>3 DEF PreflightFails
  <2>3. StepsLeft(loop[r], pc[r]) >= 28 * m /\ pc[r] \in {"try", "check"}
    <3>1. m \in Nat /\ StepsLeft(loop[r], pc[r]) \in {28 * m + 27, 28 * m + 20}
      BY <2>2, CheckedLeft
    <3> HIDE DEF m
    <3> QED BY <2>2, <3>1, CheckedLeft
  <2> QED BY <2>1, <2>3, GoOnAdvances
<1>4. CASE StartCall(r)
  <2> DEFINE need == Needs[kind[r]]
             l == [loop[r] EXCEPT !.purpose = "main", !.need = need]
  <2>1. Checked(r) /\ Step(r, l, Taking(need))
    BY <1>4 DEF StartCall
  <2>2. need # <<>> /\ Len(need) \in 0 .. 3
    <3>1. kind[r] \in Kinds
      BY DEF Types, TypeOK
    <3>2. need \in Seq(Names) /\ need # <<>> /\ Len(need) <= 3
      BY <3>1, NeedsTyped
    <3> HIDE DEF need
    <3>3. Len(need) \in Nat
      BY <3>2
    <3>4. Len(need) <= 3
      BY <3>2
    <3>5. ASSUME NEW n \in Nat, n <= 3 PROVE n \in 0 .. 3
      BY <3>5
    <3> QED BY <3>2, <3>3, <3>4, <3>5
  <2> HIDE DEF need
  <2>3. l.purpose = "main" /\ l.need = need /\ l.order = loop[r].order /\ l.pos = loop[r].pos
    BY <1>1 DEF Locals
  <2> HIDE DEF l
  <2>4. loop'[r] = l /\ pc'[r] \in {"read", "take"}
    BY <2>1, <2>2, StepEffect DEF Taking
  <2>5. Later(l) = m
    BY <2>3 DEF Later
  <2>6. AfterCall(l) = 28 * m + 7
    BY <2>3, <2>5, LeftAfter
  <2>7. StepsLeft(loop'[r], pc'[r])
          \in {3 * Len(need) + 3 + AfterCall(l), 3 * Len(need) + 2 + AfterCall(l)}
    BY <2>3, <2>4, LeftInside
  <2>8. m \in Nat /\ StepsLeft(loop[r], pc[r]) \in {28 * m + 27, 28 * m + 20}
    BY <2>1, CheckedLeft
  <2> HIDE DEF m
  <2>9. ASSUME NEW k \in 0 .. 3, NEW left,
               left \in {3 * k + 3 + (28 * m + 7), 3 * k + 2 + (28 * m + 7)}
        PROVE  left \in Nat /\ left <= 28 * m + 19
    BY <2>8, <2>9
  <2>10. StepsLeft(loop'[r], pc'[r]) \in Nat /\ StepsLeft(loop'[r], pc'[r]) <= 28 * m + 19
    BY <2>2, <2>6, <2>7, <2>9
  <2> QED BY <2>8, <2>10 DEF Advances
<1> QED BY <1>2, <1>3, <1>4

LEMMA LimitersAdvance ==
    ASSUME Types, NEW r \in Requests, ReadLimit(r) \/ TakeLimiter(r) \/ Acquire(r)
    PROVE  Advances(r)
<1> DEFINE k == Len(loop[r].need)
<1>1. loop[r] \in Locals /\ k \in Nat
  BY WalkAt
<1>2. CASE ReadLimit(r)
  <2>1. PICK n : Step(r, [loop[r] EXCEPT !.lim = n], "take")
    BY <1>2 DEF ReadLimit
  <2>2. loop'[r] = [loop[r] EXCEPT !.lim = n] /\ pc'[r] = "take" /\ pc[r] = "read"
    BY <1>2, <2>1, StepEffect DEF ReadLimit
  <2>3. /\ loop'[r].purpose = loop[r].purpose /\ loop'[r].need = loop[r].need
        /\ loop'[r].order = loop[r].order /\ loop'[r].pos = loop[r].pos
    BY <1>1, <2>2 DEF Locals
  <2>4. /\ StepsLeft(loop[r], pc[r]) = 3 * k + 3 + AfterCall(loop[r])
        /\ StepsLeft(loop'[r], pc'[r]) = 3 * k + 2 + AfterCall(loop'[r])
    BY <2>2, <2>3, LeftInside
  <2> HIDE DEF k
  <2>5. 3 * k + 3 \in Int /\ 3 * k + 2 \in Int /\ 3 * k + 2 < 3 * k + 3
    BY <1>1
  <2> QED BY <2>3, <2>4, <2>5, CallAdvances
<1>3. CASE TakeLimiter(r)
  <2>1. /\ loop'[r].purpose = loop[r].purpose /\ loop'[r].need = loop[r].need
        /\ loop'[r].order = loop[r].order /\ loop'[r].pos = loop[r].pos
        /\ pc'[r] = "acquire" /\ pc[r] = "take"
    BY <1>1, <1>3, TakeLimiterWaits DEF TakeLimiter
  <2>2. /\ StepsLeft(loop[r], pc[r]) = 3 * k + 2 + AfterCall(loop[r])
        /\ StepsLeft(loop'[r], pc'[r]) = 3 * k + 1 + AfterCall(loop'[r])
    BY <2>1, LeftInside
  <2> HIDE DEF k
  <2>3. 3 * k + 2 \in Int /\ 3 * k + 1 \in Int /\ 3 * k + 1 < 3 * k + 2
    BY <1>1
  <2> QED BY <2>1, <2>2, <2>3, CallAdvances
<1>4. CASE Acquire(r)
  <2> DEFINE rest == Tail(loop[r].need)
  <2>1. /\ pc[r] = "acquire" /\ pc'[r] = Taking(rest)
        /\ loop'[r] = [loop[r] EXCEPT !.need = rest, !.wait = <<>>]
    BY <1>4, AcquireSteps
  <2>2. k \in Nat \ {0} /\ Len(rest) = k - 1
    <3>1. loop[r].need \in Seq(Names) /\ loop[r].need # <<>>
      BY <2>1, AtKey DEF Types, TakesSome
    <3> QED BY <3>1
  <2> HIDE DEF rest
  <2>3. /\ loop'[r].purpose = loop[r].purpose /\ loop'[r].need = rest
        /\ loop'[r].order = loop[r].order /\ loop'[r].pos = loop[r].pos
        /\ loop'[r].text = loop[r].text /\ loop'[r].conv = loop[r].conv
    BY <1>1, <2>1 DEF Locals
  <2>4. StepsLeft(loop[r], pc[r]) = 3 * k + 1 + AfterCall(loop[r])
    BY <2>1, LeftInside
  <2> HIDE DEF k
  <2>5. CASE rest = <<>>
    <3>1. CallLeft(loop'[r], "call") = CallLeft(loop[r], "call")
      BY <2>3 DEF CallLeft
    <3>2. CallLeft(loop'[r], "call") \in 0 .. 3
      BY <1>1, <3>1, LeftInCall
    <3>3. StepsLeft(loop'[r], pc'[r]) = CallLeft(loop'[r], "call") + AfterCall(loop'[r])
      BY <2>1, <2>5, LeftInside DEF Taking
    <3>4. 3 * k + 1 \in Int /\ CallLeft(loop'[r], "call") < 3 * k + 1
      BY <2>2, <3>2
    <3> QED BY <2>3, <2>4, <3>2, <3>3, <3>4, CallAdvances
  <2>6. CASE rest # <<>>
    <3>1. \/ StepsLeft(loop'[r], pc'[r]) = 3 * Len(rest) + 3 + AfterCall(loop'[r])
          \/ StepsLeft(loop'[r], pc'[r]) = 3 * Len(rest) + 2 + AfterCall(loop'[r])
      BY <2>1, <2>3, <2>6, LeftInside DEF Taking
    <3>2. /\ 3 * k + 1 \in Int
          /\ 3 * Len(rest) + 3 \in Int /\ 3 * Len(rest) + 3 < 3 * k + 1
          /\ 3 * Len(rest) + 2 \in Int /\ 3 * Len(rest) + 2 < 3 * k + 1
      BY <2>2
    <3> QED BY <2>3, <2>4, <3>1, <3>2, CallAdvances
  <2> QED BY <2>5, <2>6
<1> QED BY <1>2, <1>3, <1>4

LEMMA ReturnsAdvance ==
    ASSUME Types, NEW r \in Requests, RankReturns(r) \/ InitReturns(r) \/ Diagnose(r)
    PROVE  Advances(r)
<1> DEFINE n == Len(loop[r].order)
           m == Later(loop[r])
           c == CallLeft(loop[r], "call")
<1>1. pc[r] = "call" /\ StepsLeft(loop[r], pc[r]) = c + AfterCall(loop[r])
  BY LeftInside DEF RankReturns, InitReturns, Diagnose, Calling
<1>2. /\ loop[r] \in Locals /\ n \in Nat /\ m \in Nat /\ c \in 0 .. 3
      /\ m = n - loop[r].pos /\ loop[r].pos \in Nat
  BY <1>1, WalkAt, LeftInCall
<1>3. CASE RankReturns(r)
  <2>1. PICK q \in Quotas :
          Step(r, [loop[r] EXCEPT !.quota[Account(r)] = q, !.pos = @ + 1], "rank")
    BY <1>3 DEF RankReturns
  <2> DEFINE l == [loop[r] EXCEPT !.quota[Account(r)] = q, !.pos = @ + 1]
  <2>2. l.order = loop[r].order /\ l.pos = loop[r].pos + 1
    BY <1>2 DEF Locals
  <2>3. loop'[r] = l /\ pc'[r] = "rank"
    <3> HIDE DEF l
    <3> QED BY <2>1, StepEffect DEF l
  <2> HIDE DEF l
  <2>4. Len(loop'[r].order) = n /\ Later(loop'[r]) = n - (loop[r].pos + 1)
    BY <2>2, <2>3 DEF Later
  <2>5. StepsLeft(loop'[r], pc'[r]) = 28 * n + 7 * (n - (loop[r].pos + 1)) + 13
    BY <2>3, <2>4, LeftOutside
  <2>6. AfterCall(loop[r]) = 28 * n + 7 * m + 7
    BY <1>3, LeftAfter DEF RankReturns, Calling
  <2> HIDE DEF n, m, c
  <2>7. StepsLeft(loop'[r], pc'[r]) = 28 * n + 7 * m + 6
    BY <1>2, <2>5
  <2>8. StepsLeft(loop[r], pc[r]) = c + (28 * n + 7 * m + 7)
    BY <1>1, <2>6
  <2> QED BY <1>2, <2>7, <2>8 DEF Advances
<1>4. CASE InitReturns(r)
  <2>1. PICK q \in Quotas : Step(r, [loop[r] EXCEPT !.quota[Account(r)] = q], "check")
    BY <1>4 DEF InitReturns
  <2> DEFINE l == [loop[r] EXCEPT !.quota[Account(r)] = q]
  <2>2. l.order = loop[r].order /\ l.pos = loop[r].pos
    BY <1>2 DEF Locals
  <2>3. loop'[r] = l /\ pc'[r] = "check"
    <3> HIDE DEF l
    <3> QED BY <2>1, StepEffect DEF l
  <2> HIDE DEF l
  <2>4. Later(loop'[r]) = m
    BY <2>2, <2>3 DEF Later
  <2>5. StepsLeft(loop'[r], pc'[r]) = 28 * m + 20
    BY <2>3, <2>4, LeftOutside
  <2>6. AfterCall(loop[r]) = 28 * m + 21
    BY <1>4, LeftAfter DEF InitReturns, Calling
  <2> HIDE DEF m, c
  <2>7. StepsLeft(loop[r], pc[r]) = c + (28 * m + 21)
    BY <1>1, <2>6
  <2> QED BY <1>2, <2>5, <2>7 DEF Advances
<1>5. CASE Diagnose(r)
  <2>1. PICK code : GoOn(r, code)
    BY <1>5 DEF Diagnose
  <2>2. AfterCall(loop[r]) = 28 * m + 1
    BY <1>5, LeftAfter DEF Diagnose, Calling
  <2>3. StepsLeft(loop[r], pc[r]) = c + (28 * m + 1)
    BY <1>1, <2>2
  <2>4. StepsLeft(loop[r], pc[r]) >= 28 * m
    <3> HIDE DEF m, c
    <3> QED BY <1>2, <2>3
  <2> QED BY <1>1, <2>1, <2>4, GoOnAdvances
<1> QED BY <1>3, <1>4, <1>5

\* The conversation and the text are heard once each.
LEMMA HearingAdvances ==
    ASSUME Types, NEW r \in Requests, HearConversation(r) \/ HearText(r)
    PROVE  Advances(r)
<1> DEFINE c == CallLeft(loop[r], "call")
           d == CallLeft(loop'[r], "call")
<1>1. PICK l \in {[loop[r] EXCEPT !.conv = TRUE], [loop[r] EXCEPT !.text = "blank"],
                  [loop[r] EXCEPT !.text = "text"]} :
        /\ Step(r, l, "call") /\ pc[r] = "call"
        /\ \/ l = [loop[r] EXCEPT !.conv = TRUE] /\ ~loop[r].conv
           \/ l = [loop[r] EXCEPT !.text = "blank"] /\ loop[r].text = "none"
           \/ l = [loop[r] EXCEPT !.text = "text"] /\ loop[r].text # "text"
  BY DEF HearConversation, HearText, Calling
<1>2. loop[r] \in Locals
  BY WalkAt
<1>3. /\ l \in Locals /\ l.purpose = loop[r].purpose /\ l.order = loop[r].order
      /\ l.pos = loop[r].pos
      /\ \/ l.conv /\ ~loop[r].conv /\ l.text = loop[r].text
         \/ l.conv = loop[r].conv /\ l.text = "blank" /\ loop[r].text = "none"
         \/ l.conv = loop[r].conv /\ l.text = "text" /\ loop[r].text # "text"
  BY <1>1, <1>2 DEF Locals
<1>4. loop'[r] = l /\ pc'[r] = "call"
  BY <1>1, StepEffect
<1>5. c \in 0 .. 3 /\ d \in 0 .. 3 /\ d < c
  <2>1. loop[r].text \in {"none", "blank", "text"} /\ loop[r].conv \in BOOLEAN
    BY <1>2 DEF Locals
  <2> QED BY <1>2, <1>3, <1>4, <2>1, LeftInCall
<1>6. /\ StepsLeft(loop[r], pc[r]) = c + AfterCall(loop[r])
      /\ StepsLeft(loop'[r], pc'[r]) = d + AfterCall(loop'[r])
  BY <1>1, <1>4, LeftInside
<1> HIDE DEF c, d
<1> QED BY <1>3, <1>4, <1>5, <1>6, CallAdvances

LEMMA EndingAdvances ==
    ASSUME Types, NEW r \in Requests, Given(r),
           \/ FeatureDisabled(r) \/ NoticeCancel(r) \/ ClientGone(r) \/ ProviderFails(r)
           \/ NetworkFails(r) \/ NothingReturned(r) \/ Answered(r) \/ Wake(r)
           \/ NothingToSend(r) \/ CaptureMissing(r)
    PROVE  Advances(r)
<1>1. CASE \E result : Finish(r, result)
  BY <1>1, FinishAdvances DEF FeatureDisabled, NoticeCancel, ClientGone, ProviderFails,
     NetworkFails, NothingReturned, Answered, Wake, NothingToSend, CaptureMissing, Calling
<1>2. CASE \E code : Fails(r, code)
  <2>1. CASE Calling(r, "main")
    BY <1>2, <2>1, FailsAdvances DEF Calling
  <2>2. CASE FeatureDisabled(r)
    <3>1. pc[r] = "read" /\ Head(loop[r].need) # "account"
      BY <2>2 DEF FeatureDisabled, Types, TakesSome, Features
    <3>2. loop[r].need # <<"account">>
      BY <3>1
    <3>3. loop[r].purpose = "main"
      BY <3>1, <3>2 DEF Given
    <3> QED BY <1>2, <3>1, <3>3, FailsAdvances
  <2>3. CASE Wake(r) \/ NothingToSend(r) \/ CaptureMissing(r)
    BY <1>1, <2>3 DEF Wake, NothingToSend, CaptureMissing
  <2> QED BY <2>1, <2>2, <2>3 DEF NoticeCancel, ClientGone, ProviderFails, NetworkFails,
             NothingReturned, Answered
<1> QED BY <1>1, <1>2 DEF FeatureDisabled, NoticeCancel, ClientGone, ProviderFails,
           NetworkFails, NothingReturned, Answered, Wake, NothingToSend, CaptureMissing, Ends

LEMMA ServeAdvances ==
    ASSUME Types, NEW r \in Requests, Given(r), Serve(r)
    PROVE  Advances(r)
  BY ArrivedAdvances, PickOrderAdvances, RankAdvances, ChecksAdvance, LimitersAdvance,
     ReturnsAdvance, HearingAdvances, EndingAdvances DEF Serve

\* No request goes on for ever by itself: each step of its own brings it nearer to its
\* answer, however many accounts there are and whatever fails.
THEOREM RequestsAreBounded == Spec => RequestIsBounded
<1> DEFINE Inv == \A r \in Requests : Given(r)
           Falls == \A r \in Requests :
                pc[r] # "new" /\ <<pc'[r], loop'[r]>> # <<pc[r], loop[r]>>
                    => StepsLeft(loop'[r], pc'[r]) < StepsLeft(loop[r], pc[r])
<1>1. ASSUME Base, Inv, [Next]_vars PROVE [Falls]_vars
  <2> SUFFICES ASSUME NEW r \in Requests, pc[r] # "new",
                      <<pc'[r], loop'[r]>> # <<pc[r], loop[r]>>
               PROVE  StepsLeft(loop'[r], pc'[r]) < StepsLeft(loop[r], pc[r])
    OBVIOUS
  <2>1. Types /\ Given(r)
    BY <1>1 DEF Base
  <2>2. ~(Admin \/ (\E s \in Requests : Cancel(s)) \/ UNCHANGED vars)
    BY OtherStays
  <2>3. PICK s \in Requests : Arrive(s) \/ Serve(s)
    BY <1>1, <2>2 DEF Next
  <2>4. s = r
    BY <2>1, <2>3, RequestAlone DEF Alone
  <2>5. ~Arrive(r)
    BY DEF Arrive, Refuse, AnswerAtOnce, Admit
  <2> QED BY <2>1, <2>3, <2>4, <2>5, ServeAdvances DEF Advances
<1> HIDE DEF Inv, Falls
<1>2. Spec => [][Falls]_vars
  <2>1. Spec => []Inv
    BY GivenHolds DEF Inv
  <2> QED BY <1>1, <2>1, BaseHolds, PTL DEF Spec
<1> QED BY <1>2 DEF Falls, RequestIsBounded
=============================================================================
