----------------------- MODULE OperationRegistryProofs -----------------------
(***************************************************************************)
(* Proofs about OperationRegistry: for any accounts, any number of threads *)
(* that cancel, and any number of attempts of the job.                     *)
(***************************************************************************)
EXTENDS OperationRegistry, TLAPS

USE DEF registryVars, runnerVars, stopVars, vars, Run

Record == [account : Account \cup {None}, session : Account \cup {None},
           cancel : BOOLEAN, completed : BOOLEAN]

------------------------------------------------------------------------------
(* The inductive invariant *)

\* While an attempt is made, the record of the newest attempt is the one found under the id.
Attempting == Calling \cup {"recheck", "finish"}

Control ==
    /\ current \in {0, Run}
    /\ pc \in {"create", "waiting"} => Run < MaxRuns
    /\ pc # "create" => Run > 0
    /\ pc \in Attempting => current = Run /\ ~records[Run].completed
    /\ pc = "recheck" => records[Run].session = None
    /\ jobStatus = "cancelled" => pc \in {"waiting", "done"}
    /\ pc \in {"post", "report", "check", "poll"} => records[Run].account \in Account
    /\ pc = "post" => records[Run].session # records[Run].account
    /\ Run > 0 =>
        /\ records[Run].account \in tried \cup {None}
        /\ records[Run].session \in tried \cup {None}
        /\ records[Run].account = None => records[Run].session = None

\* A thread that stops an operation has a record, and a provider when it comes to the session.
StopsGood ==
    \A s \in Stopper :
        /\ stopPc[s] \in {"mark", "provider", "session"} => stopRecord[s] > 0
        /\ stopPc[s] = "session" => stopAccount[s] \in Account

\* Once a job is cancelled, its newest operation is marked, or a callback has yet to mark
\* it, or no research of it is known and none will be started.
Reached ==
    jobStatus \in {"cancel_requested", "cancelled"} /\ current # 0 =>
        \/ records[Run].cancel
        \/ \E c \in Canceller : stopPc[c] \in {"lookup", "mark"}
        \/ records[Run].session = None /\ pc \in {"recheck", "settle", "done"}

\* A thread that has still to stop the research of the newest operation.
Pending(s) ==
    \/ stopPc[s] \in {"lookup", "mark"}
    \/ stopPc[s] \in {"provider", "session"} /\ stopRecord[s] = Run

\* The research that a marked operation names is over, or somebody is about to stop it.
Stopped ==
    /\ current # 0 /\ ~stopFailed
    /\ records[Run].cancel /\ records[Run].session # None
    /\ remote[Run][records[Run].session] = "running"
    => \E s \in Stopper : Pending(s)

Inv == TypeOK /\ Control /\ StopsGood /\ Reached /\ Stopped

LEMMA InitInv == Init => Inv
<1> SUFFICES ASSUME Init PROVE Inv
  OBVIOUS
<1>1. Len(records) = 0 /\ records \in Seq(Record)
  BY DEF Init
<1>2. TypeOK
  <2>1. Run \in 0 .. MaxRuns /\ current \in 0 .. Run /\ stopRecord \in [Stopper -> 0 .. Run]
    BY <1>1, RegistryAssumption DEF Init
  <2> QED BY <1>1, <2>1 DEF Init, TypeOK, Label, Record
<1>3. Control
  BY <1>1, RegistryAssumption DEF Init, Control, Attempting, Calling
<1>4. StopsGood /\ Reached /\ Stopped
  BY DEF Init, StopsGood, Reached, Stopped
<1> QED BY <1>2, <1>3, <1>4 DEF Inv

------------------------------------------------------------------------------
(* Changes of the records *)

LEMMA Constants == None \notin Account /\ Runner \in Stopper /\ Canceller \subseteq Stopper
                   /\ MaxRuns \in Nat /\ MaxRuns > 0 /\ Runner \notin Canceller
  BY RegistryAssumption DEF Stopper

LEMMA RecordsTyped ==
    ASSUME TypeOK
    PROVE  /\ records \in Seq(Record) /\ Run \in Nat /\ Run <= MaxRuns
           /\ \A n \in 1 .. Run : records[n] \in Record
<1>1. records \in Seq(Record) /\ Run \in 0 .. MaxRuns
  BY DEF TypeOK, Record
<1> QED BY <1>1, Constants

LEMMA PutEffect ==
    ASSUME TypeOK, NEW n \in 1 .. Run, NEW e \in Record, records' = [records EXCEPT ![n] = e]
    PROVE  /\ records' \in Seq(Record) /\ Run' = Run /\ records'[n] = e
           /\ \A i \in 1 .. Run : i # n => records'[i] = records[i]
<1>1. records \in [1 .. Run -> Record] /\ records \in Seq(Record) /\ Run \in Nat
  BY RecordsTyped
<1>2. /\ records' \in [1 .. Run -> Record] /\ records'[n] = e
      /\ \A i \in 1 .. Run : i # n => records'[i] = records[i]
  BY <1>1
<1>3. records' \in Seq(Record) /\ Len(records') = Len(records)
  BY <1>1, <1>2
<1> QED BY <1>2, <1>3

LEMMA MarkEffect ==
    ASSUME TypeOK, NEW n \in 1 .. Run, records' = [records EXCEPT ![n].cancel = TRUE]
    PROVE  /\ records' \in Seq(Record) /\ Run' = Run
           /\ records'[n] = [records[n] EXCEPT !.cancel = TRUE] /\ records'[n].cancel
           /\ \A i \in 1 .. Run :
                /\ records'[i].account = records[i].account
                /\ records'[i].session = records[i].session
                /\ records'[i].completed = records[i].completed
                /\ records[i].cancel => records'[i].cancel
<1> DEFINE e == [records[n] EXCEPT !.cancel = TRUE]
<1>1. records[n] \in Record /\ \A i \in 1 .. Run : records[i] \in Record
  BY RecordsTyped
<1>2. /\ e \in Record /\ e.cancel = TRUE /\ e.account = records[n].account
      /\ e.session = records[n].session /\ e.completed = records[n].completed
  BY <1>1 DEF Record
<1>3. records' = [records EXCEPT ![n] = e]
  OBVIOUS
<1> HIDE DEF e
<1>4. /\ records' \in Seq(Record) /\ Run' = Run /\ records'[n] = e
      /\ \A i \in 1 .. Run : i # n => records'[i] = records[i]
  BY <1>2, <1>3, PutEffect
<1> QED BY <1>2, <1>4 DEF e

------------------------------------------------------------------------------
(* Steps of a thread that stops an operation *)

LEMMA LookupStep == ASSUME Inv, NEW s \in Stopper, Lookup(s) PROVE Inv'
<1>1. /\ UNCHANGED <<jobStatus, records, current, pc, tried, outcome, remote, stopAccount,
                     stopFailed>>
      /\ stopRecord' = [stopRecord EXCEPT ![s] = current]
      /\ stopPc' = [stopPc EXCEPT ![s] = IF current = 0 THEN "no" ELSE "mark"]
      /\ stopPc[s] = "lookup"
  BY DEF Lookup, StopGoto, StopKeeps
<1>2. TypeOK /\ stopPc \in [Stopper -> {"no", "lookup", "mark", "provider", "session"}]
        /\ stopRecord \in [Stopper -> 0 .. Run] /\ current \in 0 .. Run
  BY DEF Inv, TypeOK
<1>3. TypeOK'
  BY <1>1, <1>2 DEF TypeOK
<1>4. Control'
  BY <1>1 DEF Inv, Control
<1>5. StopsGood'
  BY <1>1, <1>2 DEF Inv, StopsGood
<1>6. current # 0 => \A t \in Stopper : stopPc[t] \in {"lookup", "mark"} => stopPc'[t] \in {"lookup", "mark"}
  BY <1>1, <1>2
<1>7. Reached'
  BY <1>1, <1>6, Constants DEF Inv, Reached
<1>8. current # 0 => \A t \in Stopper : Pending(t) => Pending(t)'
  BY <1>1, <1>2 DEF Pending
<1>9. Stopped'
  BY <1>1, <1>8 DEF Inv, Stopped
<1> QED BY <1>3, <1>4, <1>5, <1>7, <1>9 DEF Inv

\* Marking the newest record keeps what is known of it.
LEMMA MarkKeeps ==
    ASSUME Inv, NEW n \in 1 .. Run, records' = [records EXCEPT ![n].cancel = TRUE],
           UNCHANGED <<jobStatus, current, pc, tried>>
    PROVE  Control'
<1>1. /\ Run' = Run
      /\ \A i \in 1 .. Run : /\ records'[i].account = records[i].account
                             /\ records'[i].session = records[i].session
                             /\ records'[i].completed = records[i].completed
  BY MarkEffect DEF Inv
<1>2. Run \in 1 .. Run
  BY RecordsTyped DEF Inv
<1> QED BY <1>1, <1>2 DEF Inv, Control

LEMMA MarkStep == ASSUME Inv, NEW s \in Stopper, Mark(s) PROVE Inv'
<1>1. /\ UNCHANGED <<jobStatus, current, pc, tried, outcome, remote, stopAccount, stopFailed>>
      /\ stopPc' = [stopPc EXCEPT ![s] = "provider"] /\ stopPc[s] = "mark"
  BY DEF Mark, StopGoto, StopKeeps
<1>2. /\ TypeOK /\ stopPc \in [Stopper -> {"no", "lookup", "mark", "provider", "session"}]
      /\ stopRecord \in [Stopper -> 0 .. Run] /\ current \in {0, Run} /\ Run \in Nat
  BY RecordsTyped DEF Inv, TypeOK, Control
<1>3. CASE current # 0
  <2>1. /\ records' = [records EXCEPT ![Run].cancel = TRUE] /\ Run \in 1 .. Run
        /\ stopRecord' = [stopRecord EXCEPT ![s] = Run]
    BY <1>2, <1>3 DEF Mark
  <2>2. records' \in Seq(Record) /\ Run' = Run /\ records'[Run].cancel
    BY <1>2, <2>1, MarkEffect
  <2>3. TypeOK'
    BY <1>1, <1>2, <2>1, <2>2 DEF TypeOK, Record
  <2>4. Control'
    BY <1>1, <2>1, MarkKeeps
  <2>5. StopsGood'
    BY <1>1, <1>2, <2>1 DEF Inv, StopsGood
  <2>6. Reached'
    BY <2>2 DEF Reached
  <2>7. Pending(s)'
    BY <1>1, <1>2, <2>1, <2>2 DEF Pending
  <2>8. Stopped'
    BY <2>7 DEF Stopped
  <2> QED BY <2>3, <2>4, <2>5, <2>6, <2>8 DEF Inv
<1>4. CASE current = 0
  <2>1. UNCHANGED <<records, stopRecord>>
    BY <1>4 DEF Mark
  <2>2. TypeOK'
    BY <1>1, <1>2, <2>1 DEF TypeOK
  <2>3. Control' /\ StopsGood'
    BY <1>1, <1>2, <2>1 DEF Inv, Control, StopsGood
  <2>4. Reached' /\ Stopped'
    BY <1>1, <1>4 DEF Reached, Stopped
  <2> QED BY <2>2, <2>3, <2>4 DEF Inv
<1> QED BY <1>3, <1>4

LEMMA ReadProviderStep == ASSUME Inv, NEW s \in Stopper, ReadProvider(s) PROVE Inv'
<1> DEFINE account == records[stopRecord[s]].account
<1>1. /\ UNCHANGED <<jobStatus, records, current, pc, tried, outcome, remote, stopRecord,
                     stopFailed>>
      /\ stopPc' = [stopPc EXCEPT ![s] = IF account = None THEN "no" ELSE "session"]
      /\ stopAccount' = [stopAccount EXCEPT ![s] = account] /\ stopPc[s] = "provider"
  BY DEF ReadProvider, StopGoto, StopKeeps
<1>2. /\ TypeOK /\ stopPc \in [Stopper -> {"no", "lookup", "mark", "provider", "session"}]
      /\ stopRecord \in [Stopper -> 0 .. Run] /\ current \in {0, Run}
      /\ stopAccount \in [Stopper -> Account \cup {None}]
  BY DEF Inv, TypeOK, Control
<1>3. stopRecord[s] \in 1 .. Run
  BY <1>1, <1>2 DEF Inv, StopsGood
<1>4. account \in Account \cup {None}
  BY <1>2, <1>3, RecordsTyped DEF Record
<1> HIDE DEF account
<1>5. TypeOK'
  BY <1>1, <1>2, <1>4 DEF TypeOK
<1>6. Control'
  BY <1>1 DEF Inv, Control
<1>7. StopsGood'
  BY <1>1, <1>2, <1>4 DEF Inv, StopsGood
<1>8. Reached'
  <2>1. \A t \in Stopper : stopPc[t] \in {"lookup", "mark"} => stopPc'[t] = stopPc[t]
    BY <1>1, <1>2
  <2> QED BY <1>1, <2>1, Constants DEF Inv, Reached
<1>9. Stopped'
  <2>1. CASE account = None /\ stopRecord[s] = Run
    <3>1. records[Run].session = None
      BY <1>3, <2>1 DEF account, Inv, Control
    <3> QED BY <1>1, <3>1 DEF Stopped
  <2>2. CASE account # None \/ stopRecord[s] # Run
    <3>1. \A t \in Stopper : Pending(t) => Pending(t)'
      BY <1>1, <1>2, <2>2 DEF Pending
    <3> QED BY <1>1, <3>1 DEF Inv, Stopped
  <2> QED BY <2>1, <2>2
<1> QED BY <1>5, <1>6, <1>7, <1>8, <1>9 DEF Inv

\* What a stop of the research of record n, account a, does to the research.
LEMMA StopResearchEffect ==
    ASSUME TypeOK, NEW n \in 1 .. MaxRuns, NEW a \in Account, StopResearch(n, a)
    PROVE  /\ remote' \in [1 .. MaxRuns -> [Account -> {"none", "running", "stopped", "ended"}]]
           /\ remote'[n][a] # "running"
           /\ \A m \in 1 .. MaxRuns, b \in Account : remote'[m][b] = "running" => remote[m][b] = "running"
  BY DEF StopResearch, TypeOK

LEMMA StopSessionStep == ASSUME Inv, NEW s \in Stopper, StopSession(s) \/ StopRaises(s) PROVE Inv'
<1> DEFINE n == stopRecord[s]
           session == records[n].session
<1>1. /\ UNCHANGED <<jobStatus, records, current, tried, stopRecord, stopAccount>>
      /\ stopPc' = [stopPc EXCEPT ![s] = "no"] /\ stopPc[s] = "session"
  BY DEF StopSession, StopRaises, StopGoto, StopKeeps
<1>2. /\ TypeOK /\ stopPc \in [Stopper -> {"no", "lookup", "mark", "provider", "session"}]
      /\ stopRecord \in [Stopper -> 0 .. Run] /\ current \in {0, Run} /\ stopFailed \in BOOLEAN
      /\ Run \in Nat /\ Run <= MaxRuns /\ MaxRuns \in Nat
  BY RecordsTyped, Constants DEF Inv, TypeOK, Control
<1>3. n \in 1 .. Run /\ n \in 1 .. MaxRuns /\ stopAccount[s] \in Account
  BY <1>1, <1>2 DEF Inv, StopsGood
<1>4. \/ session = None /\ UNCHANGED <<remote, stopFailed>>
      \/ StopResearch(n, session) /\ session \in Account /\ stopFailed' = stopFailed
      \/ stopFailed' = TRUE /\ UNCHANGED remote
  BY <1>3 DEF StopSession, StopRaises
<1>5. \/ UNCHANGED <<pc, outcome>>
      \/ /\ pc \in {"post", "check"} /\ pc' \in {"choose", "finish"}
         /\ outcome' \in {outcome, "error"}
  BY DEF StopSession, StopKeeps, StopRaises, NextAccount, EndRun
<1> HIDE DEF n, session
<1>6. TypeOK'
  <2>1. remote' \in [1 .. MaxRuns -> [Account -> {"none", "running", "stopped", "ended"}]]
    BY <1>2, <1>3, <1>4, StopResearchEffect DEF TypeOK
  <2>2. pc' \in Label /\ outcome' \in {"none", "answered", "cancelled", "error"}
    BY <1>2, <1>5 DEF TypeOK, Label
  <2>3. stopFailed' \in BOOLEAN
    BY <1>2, <1>4
  <2> QED BY <1>1, <1>2, <2>1, <2>2, <2>3 DEF TypeOK
<1>7. Control'
  BY <1>1, <1>5 DEF Inv, Control, Attempting, Calling
<1>8. StopsGood'
  BY <1>1, <1>2 DEF Inv, StopsGood
<1>9. Reached'
  <2>1. \A t \in Stopper : stopPc[t] \in {"lookup", "mark"} => stopPc'[t] = stopPc[t]
    BY <1>1, <1>2
  <2> QED BY <1>1, <1>5, <2>1, Constants DEF Inv, Reached
<1>10. Stopped'
  <2> SUFFICES ASSUME current # 0, ~stopFailed', records[Run].cancel,
                      records[Run].session # None,
                      remote'[Run][records[Run].session] = "running"
               PROVE  \E t \in Stopper : Pending(t)'
    BY <1>1 DEF Stopped
  <2>1. Run \in 1 .. MaxRuns /\ records[Run].session \in Account /\ ~stopFailed
    <3>1. Run \in 1 .. Run
      BY <1>2
    <3> QED BY <1>2, <1>4, <3>1, RecordsTyped DEF Record
  <2>2. remote[Run][records[Run].session] = "running"
    BY <1>2, <1>3, <1>4, <2>1, StopResearchEffect
  <2>3. n # Run
    BY <1>2, <1>3, <1>4, <2>1, StopResearchEffect DEF session
  <2>4. \A t \in Stopper : Pending(t) => Pending(t)'
    BY <1>1, <1>2, <2>3 DEF Pending, n
  <2> QED BY <2>1, <2>2, <2>4 DEF Inv, Stopped
<1> QED BY <1>6, <1>7, <1>8, <1>9, <1>10 DEF Inv

------------------------------------------------------------------------------
(* Steps of clients and of the coordinator *)

LEMMA CancelJobStep == ASSUME Inv, NEW c \in Canceller, CancelJob(c) PROVE Inv'
<1>1. /\ UNCHANGED <<records, current, pc, tried, outcome, remote, stopRecord, stopAccount,
                     stopFailed>>
      /\ jobStatus' = "cancel_requested" /\ stopPc[c] = "no"
      /\ stopPc' = [stopPc EXCEPT ![c] = "lookup"]
  BY DEF CancelJob, StopGoto
<1>2. /\ TypeOK /\ stopPc \in [Stopper -> {"no", "lookup", "mark", "provider", "session"}]
      /\ c \in Stopper
  BY Constants DEF Inv, TypeOK
<1>3. TypeOK'
  BY <1>1, <1>2 DEF TypeOK
<1>4. Control' /\ StopsGood'
  BY <1>1, <1>2 DEF Inv, Control, StopsGood
<1>5. Reached'
  BY <1>1, <1>2 DEF Reached
<1>6. \A t \in Stopper : Pending(t) => Pending(t)'
  BY <1>1, <1>2 DEF Pending
<1>7. Stopped'
  BY <1>1, <1>6 DEF Inv, Stopped
<1> QED BY <1>3, <1>4, <1>5, <1>7 DEF Inv

LEMMA CancelOperationStep == ASSUME Inv, NEW c \in Canceller, CancelOperation(c) PROVE Inv'
<1>1. /\ UNCHANGED <<jobStatus, current, pc, tried, outcome, remote, stopAccount, stopFailed>>
      /\ stopPc[c] = "no" /\ stopPc' = [stopPc EXCEPT ![c] = "mark"]
      /\ current # 0 /\ stopRecord' = [stopRecord EXCEPT ![c] = current]
      /\ records' = [records EXCEPT ![current].cancel = TRUE]
  BY DEF CancelOperation, StopGoto
<1>2. /\ TypeOK /\ stopPc \in [Stopper -> {"no", "lookup", "mark", "provider", "session"}]
      /\ stopRecord \in [Stopper -> 0 .. Run] /\ current \in {0, Run} /\ Run \in Nat
      /\ c \in Stopper
  BY RecordsTyped, Constants DEF Inv, TypeOK, Control
<1>3. current = Run /\ Run \in 1 .. Run
  BY <1>1, <1>2
<1>4. records' \in Seq(Record) /\ Run' = Run /\ records'[Run].cancel
  BY <1>1, <1>2, <1>3, MarkEffect
<1>5. TypeOK'
  BY <1>1, <1>2, <1>3, <1>4 DEF TypeOK, Record
<1>6. Control'
  BY <1>1, <1>3, MarkKeeps
<1>7. StopsGood'
  BY <1>1, <1>2, <1>3 DEF Inv, StopsGood
<1>8. Reached'
  BY <1>4 DEF Reached
<1>9. Pending(c)'
  BY <1>1, <1>2 DEF Pending
<1>10. Stopped'
  BY <1>2, <1>9 DEF Stopped
<1> QED BY <1>5, <1>6, <1>7, <1>8, <1>10 DEF Inv

LEMMA PruneStep == ASSUME Inv, Prune PROVE Inv'
<1>1. /\ UNCHANGED <<jobStatus, records, runnerVars, remote, stopVars, stopFailed>>
      /\ current' = 0 /\ current # 0 /\ records[current].completed
  BY DEF Prune
<1>2. pc \notin Attempting /\ current = Run
  BY <1>1 DEF Inv, Control
<1>3. TypeOK'
  BY <1>1, RecordsTyped DEF Inv, TypeOK
<1>4. Control' /\ StopsGood'
  BY <1>1, <1>2 DEF Inv, Control, StopsGood
<1>5. Reached' /\ Stopped'
  BY <1>1 DEF Reached, Stopped
<1> QED BY <1>3, <1>4, <1>5 DEF Inv

LEMMA FinalizeStep == ASSUME Inv, FinalizeCancelled PROVE Inv'
<1>1. /\ UNCHANGED <<registryVars, runnerVars, remote, stopVars, stopFailed>>
      /\ jobStatus = "cancel_requested" /\ jobStatus' = "cancelled" /\ pc = "waiting"
  BY DEF FinalizeCancelled
<1>2. TypeOK'
  BY <1>1 DEF Inv, TypeOK
<1>3. Control' /\ StopsGood'
  BY <1>1 DEF Inv, Control, StopsGood, registryVars, runnerVars, stopVars
<1>4. Reached'
  BY <1>1 DEF Inv, Reached
<1>5. Stopped'
  BY <1>1 DEF Inv, Stopped, Pending
<1> QED BY <1>2, <1>3, <1>4, <1>5 DEF Inv

------------------------------------------------------------------------------
(* Steps of the executor *)

LEMMA CreateStep == ASSUME Inv, Create PROVE Inv'
<1>1. /\ UNCHANGED <<jobStatus, stopFailed, remote, stopVars>>
      /\ pc = "create" /\ pc' = "recheck" /\ tried' = {} /\ outcome' = "none"
      /\ records' = Append(records, NewRecord) /\ current' = Run + 1
  BY DEF Create, At, RunnerKeeps
<1>2. /\ TypeOK /\ records \in Seq(Record) /\ Run \in Nat /\ Run < MaxRuns /\ MaxRuns \in Nat
      /\ stopRecord \in [Stopper -> 0 .. Run]
  BY <1>1, RecordsTyped, Constants DEF Inv, Control, TypeOK
<1>3. NewRecord \in Record
  BY DEF NewRecord, Record
<1>4. records' \in Seq(Record) /\ Run' = Run + 1 /\ records'[Run + 1] = NewRecord
  BY <1>1, <1>2, <1>3
<1>5. TypeOK'
  <2>1. stopRecord' \in [Stopper -> 0 .. Run'] /\ current' \in 0 .. Run' /\ Run' \in 0 .. MaxRuns
    BY <1>1, <1>2, <1>4
  <2> QED BY <1>1, <1>2, <1>4, <2>1 DEF TypeOK, Record, Label
<1>6. Control'
  <2>1. jobStatus # "cancelled"
    BY <1>1 DEF Inv, Control
  <2> QED BY <1>1, <1>2, <1>4, <2>1 DEF Control, NewRecord
<1>7. StopsGood'
  BY <1>1 DEF Inv, StopsGood
<1>8. Reached' /\ Stopped'
  BY <1>1, <1>4 DEF Reached, Stopped, NewRecord
<1> QED BY <1>5, <1>6, <1>7, <1>8 DEF Inv

\* The executor is between two calls of its own, so that it stops nothing itself.
LEMMA StopsItselfEffect ==
    ASSUME Inv, stopPc[Runner] = "no", Run' = Run, StopsItself
    PROVE  /\ stopPc' \in [Stopper -> {"no", "lookup", "mark", "provider", "session"}]
           /\ UNCHANGED <<stopRecord, stopAccount>> /\ stopPc'[Runner] = "lookup"
           /\ \A s \in Stopper : s # Runner => stopPc'[s] = stopPc[s]
           /\ StopsGood' /\ Pending(Runner)' /\ \A s \in Stopper : Pending(s) => Pending(s)'
<1>1. stopPc \in [Stopper -> {"no", "lookup", "mark", "provider", "session"}]
  BY DEF Inv, TypeOK
<1>2. stopPc' = [stopPc EXCEPT ![Runner] = "lookup"] /\ UNCHANGED <<stopRecord, stopAccount>>
  BY DEF StopsItself, StopGoto
<1> QED BY <1>1, <1>2, Constants DEF Pending, Inv, StopsGood

LEMMA RecheckStep == ASSUME Inv, Recheck PROVE Inv'
<1>1. /\ UNCHANGED <<jobStatus, stopFailed, records, current, tried, remote>>
      /\ pc = "recheck" /\ stopPc[Runner] = "no"
      /\ current = Run /\ records[Run].session = None
  BY DEF Recheck, At, RunnerKeeps, Inv, Control, Attempting
<1>2. Stopped'
  BY <1>1 DEF Stopped
<1>3. CASE jobStatus = "cancel_requested"
  <2>1. pc' = "settle" /\ outcome' = "cancelled" /\ StopsItself
    BY <1>3 DEF Recheck
  <2>2. TypeOK'
    BY <1>1, <2>1, StopsItselfEffect DEF Inv, TypeOK, Label
  <2>3. Control'
    BY <1>1, <2>1 DEF Inv, Control, Attempting, Calling
  <2>4. Reached'
    BY <1>1, <2>1 DEF Reached
  <2> QED BY <1>1, <1>2, <2>1, <2>2, <2>3, <2>4, StopsItselfEffect DEF Inv
<1>4. CASE jobStatus # "cancel_requested"
  <2>1. pc' = "choose" /\ UNCHANGED <<outcome, stopVars>>
    BY <1>4 DEF Recheck
  <2>2. TypeOK' /\ StopsGood'
    BY <1>1, <2>1 DEF Inv, TypeOK, Label, StopsGood
  <2>3. Control'
    BY <1>1, <2>1 DEF Inv, Control, Attempting, Calling
  <2>4. jobStatus # "cancelled"
    BY <1>1 DEF Inv, Control
  <2>5. Reached'
    BY <1>1, <1>4, <2>4 DEF Reached
  <2> QED BY <1>2, <2>2, <2>3, <2>5 DEF Inv
<1> QED BY <1>3, <1>4

\* A change of the newest record that leaves its mark as it is.
LEMMA UpdateEffect ==
    ASSUME Inv, pc \in Attempting, stopPc[Runner] = "no",
           NEW e \in Record, e.cancel = records[Run].cancel, Update(e)
    PROVE  /\ Run \in 1 .. Run /\ current = Run /\ current' = Run /\ Run' = Run
           /\ records' \in Seq(Record) /\ records'[Run] = e
           /\ stopPc' \in [Stopper -> {"no", "lookup", "mark", "provider", "session"}]
           /\ UNCHANGED <<stopRecord, stopAccount>> /\ StopsGood'
           /\ \A s \in Stopper : Pending(s) => Pending(s)'
           /\ \A c \in Canceller : stopPc'[c] = stopPc[c]
           /\ e.cancel /\ ~e.completed /\ e.session # None => Pending(Runner)'
<1>1. Run \in 1 .. Run /\ current = Run
  BY RecordsTyped DEF Inv, Control, Attempting, Calling
<1>2. records' = [records EXCEPT ![Run] = e] /\ current' = current
  BY DEF Update
<1>3. records' \in Seq(Record) /\ Run' = Run /\ records'[Run] = e
  BY <1>1, <1>2, PutEffect DEF Inv
<1>4. CASE e.cancel /\ ~e.completed /\ e.session # None
  <2>1. StopsItself
    BY <1>4 DEF Update
  <2> QED BY <1>1, <1>2, <1>3, <2>1, StopsItselfEffect, Constants
<1>5. CASE ~(e.cancel /\ ~e.completed /\ e.session # None)
  <2>1. UNCHANGED stopVars
    BY <1>5 DEF Update
  <2>2. StopsGood' /\ \A s \in Stopper : Pending(s) => Pending(s)'
    BY <1>3, <2>1 DEF Inv, StopsGood, Pending
  <2> QED BY <1>1, <1>2, <1>3, <1>5, <2>1, <2>2 DEF Inv, TypeOK
<1> QED BY <1>4, <1>5

LEMMA NewestTyped ==
    ASSUME Inv, pc \in Attempting
    PROVE  records[Run] \in Record /\ Run \in 1 .. Run /\ Run \in 1 .. MaxRuns /\ current = Run
<1>1. Run > 0 /\ current = Run
  BY DEF Inv, Control, Attempting, Calling
<1> QED BY <1>1, RecordsTyped, Constants DEF Inv

\* While a call is made, a callback that has yet to mark is all that may lack a mark.
LEMMA ReachedStays ==
    ASSUME Inv, pc \in Calling \cup {"finish"}, jobStatus' = jobStatus,
           current' = current, records'[Run'].cancel = records[Run].cancel,
           \A c \in Canceller : stopPc'[c] = stopPc[c]
    PROVE  Reached'
<1>1. pc \notin {"recheck", "settle", "done"}
  BY DEF Calling
<1> QED BY <1>1 DEF Inv, Reached

LEMMA BindStep == ASSUME Inv, NEW a \in Account, Bind(a) PROVE Inv'
<1> DEFINE e == [records[Run] EXCEPT !.account = a]
<1>1. /\ UNCHANGED <<jobStatus, stopFailed, outcome, remote>>
      /\ pc = "choose" /\ stopPc[Runner] = "no" /\ a \notin tried /\ pc' = "post"
      /\ Update(e) /\ tried' = tried \cup {a}
  BY DEF Bind, At, RunnerKeeps
<1>2. pc \in Attempting /\ pc \in Calling
  BY <1>1 DEF Attempting, Calling
<1>3. /\ e \in Record /\ e.account = a /\ e.session = records[Run].session
      /\ e.cancel = records[Run].cancel /\ e.completed = records[Run].completed
  BY <1>2, NewestTyped DEF Record
<1> HIDE DEF e
<1>4. /\ Run \in 1 .. Run /\ current = Run /\ current' = Run /\ Run' = Run
      /\ records' \in Seq(Record) /\ records'[Run] = e
      /\ stopPc' \in [Stopper -> {"no", "lookup", "mark", "provider", "session"}]
      /\ UNCHANGED <<stopRecord, stopAccount>> /\ StopsGood'
      /\ \A c \in Canceller : stopPc'[c] = stopPc[c]
      /\ e.cancel /\ ~e.completed /\ e.session # None => Pending(Runner)'
  BY <1>1, <1>2, <1>3, UpdateEffect
<1>5. TypeOK'
  BY <1>1, <1>4 DEF Inv, TypeOK, Record, Label
<1>6. Control'
  <2>1. /\ records[Run].session \in tried \cup {None} /\ ~records[Run].completed
        /\ jobStatus # "cancelled" /\ a # None
    BY <1>1, <1>2, <1>4, Constants DEF Inv, Control
  <2> QED BY <1>1, <1>3, <1>4, <2>1 DEF Control
<1>7. Reached'
  BY <1>1, <1>2, <1>3, <1>4, ReachedStays
<1>8. Stopped'
  <2>1. ~records[Run].completed
    BY <1>2 DEF Inv, Control
  <2> QED BY <1>3, <1>4, <2>1, Constants DEF Stopped
<1> QED BY <1>4, <1>5, <1>6, <1>7, <1>8 DEF Inv

\* Steps of a call that leave records and stops alone.
LEMMA QuietStep ==
    ASSUME Inv, pc \in Calling, UNCHANGED <<jobStatus, registryVars, stopVars>>,
           pc' \in Calling \cup {"finish"},
           outcome' \in {"none", "answered", "cancelled", "error"},
           tried' \subseteq Account, tried \subseteq tried',
           pc' \in {"post", "report", "check", "poll"} => records[Run].account \in Account,
           pc' = "post" => records[Run].session # records[Run].account,
           remote' \in [1 .. MaxRuns -> [Account -> {"none", "running", "stopped", "ended"}]],
           stopFailed' \in BOOLEAN,
           \/ stopFailed'
           \/ /\ stopFailed' = stopFailed
              /\ records[Run].session # None /\ remote'[Run][records[Run].session] = "running"
                    => remote[Run][records[Run].session] = "running"
    PROVE  Inv'
<1>1. TypeOK'
  BY DEF Inv, TypeOK, Label, Calling
<1>2. Control'
  BY DEF Inv, Control, Attempting, Calling
<1>3. StopsGood'
  BY DEF Inv, StopsGood
<1>4. Reached'
  BY ReachedStays
<1>5. Stopped'
  BY DEF Inv, Stopped, Pending
<1> QED BY <1>1, <1>2, <1>3, <1>4, <1>5 DEF Inv

LEMMA ChooseSteps ==
    ASSUME Inv, NoAccountLeft \/ (\E a \in Account : Skip(a))
    PROVE  Inv'
<1>1. /\ UNCHANGED <<jobStatus, registryVars, stopVars, remote, stopFailed>>
      /\ pc = "choose" /\ pc' \in {"choose", "finish"} /\ outcome' \in {outcome, "error"}
      /\ tried \subseteq tried' /\ tried' \subseteq tried \cup Account
  BY DEF NoAccountLeft, Skip, At, RunnerKeeps, EndRun
<1>2. /\ outcome \in {"none", "answered", "cancelled", "error"} /\ tried \subseteq Account
      /\ remote \in [1 .. MaxRuns -> [Account -> {"none", "running", "stopped", "ended"}]]
      /\ stopFailed \in BOOLEAN
  BY DEF Inv, TypeOK
<1>3. pc \in Calling /\ pc' \in Calling \cup {"finish"}
  BY <1>1 DEF Calling
<1> QED BY <1>1, <1>2, <1>3, QuietStep

\* Where the account loop goes after a call.
LEMMA NextAccountEffect ==
    ASSUME NextAccount
    PROVE  pc' \in {"choose", "finish"} /\ outcome' \in {outcome, "error"}
  BY DEF NextAccount, EndRun

LEMMA CallFacts ==
    ASSUME Inv, pc \in {"post", "report", "check", "poll"}
    PROVE  /\ pc \in Calling /\ pc \in Attempting /\ Run \in 1 .. MaxRuns
           /\ records[Run].account \in Account /\ current = Run /\ records[Run] \in Record
           /\ pc = "post" => records[Run].session # records[Run].account
           /\ outcome \in {"none", "answered", "cancelled", "error"} /\ tried \subseteq Account
           /\ remote \in [1 .. MaxRuns -> [Account -> {"none", "running", "stopped", "ended"}]]
           /\ stopFailed \in BOOLEAN
<1>1. pc \in Calling /\ pc \in Attempting
  BY DEF Calling, Attempting
<1> QED BY <1>1, NewestTyped DEF Inv, TypeOK, Control

LEMMA PostStep == ASSUME Inv, Post PROVE Inv'
<1>1. /\ UNCHANGED <<jobStatus, registryVars, stopVars, stopFailed, tried>> /\ pc = "post"
  BY DEF Post, At, RunnerKeeps
<1>2. CASE /\ remote' = [remote EXCEPT ![Run][records[Run].account] = "running"]
           /\ pc' = "report" /\ outcome' = outcome
  <2>1. records[Run].session # None => records[Run].session \in Account
    BY <1>1, CallFacts DEF Record
  <2>2. /\ remote' \in [1 .. MaxRuns -> [Account -> {"none", "running", "stopped", "ended"}]]
        /\ records[Run].session # None =>
            remote'[Run][records[Run].session] = remote[Run][records[Run].session]
    BY <1>1, <1>2, <2>1, CallFacts
  <2>3. pc' \in Calling
    BY <1>2 DEF Calling
  <2> QED BY <1>1, <1>2, <2>2, <2>3, CallFacts, QuietStep
<1>3. CASE NextAccount /\ remote' = remote
  <2>1. pc' \in Calling \cup {"finish"} /\ pc' \notin {"post", "report", "check", "poll"}
    BY <1>3, NextAccountEffect DEF Calling
  <2> QED BY <1>1, <1>3, <2>1, NextAccountEffect, CallFacts, QuietStep
<1> QED BY <1>2, <1>3 DEF Post

LEMMA CheckStep == ASSUME Inv, CheckCancelled PROVE Inv'
<1>1. /\ UNCHANGED <<jobStatus, registryVars, stopVars, tried>> /\ pc \in {"check", "poll"}
  BY DEF CheckCancelled, At
<1>2. CASE StopOwnSession
  <2>1. CASE /\ StopResearch(Run, records[Run].account)
             /\ EndRun("cancelled") /\ stopFailed' = stopFailed
    <3>1. /\ remote' \in [1 .. MaxRuns -> [Account -> {"none", "running", "stopped", "ended"}]]
          /\ \A b \in Account : remote'[Run][b] = "running" => remote[Run][b] = "running"
      BY <1>1, <2>1, CallFacts, StopResearchEffect DEF Inv
    <3>2. records[Run].session # None => records[Run].session \in Account
      BY <1>1, CallFacts DEF Record
    <3>3. pc' = "finish" /\ outcome' = "cancelled"
      BY <2>1 DEF EndRun
    <3> QED BY <1>1, <2>1, <3>1, <3>2, <3>3, CallFacts, QuietStep
  <2>2. CASE stopFailed' = TRUE /\ NextAccount /\ remote' = remote
    <3>1. pc' \in Calling \cup {"finish"} /\ pc' \notin {"post", "report", "check", "poll"}
      BY <2>2, NextAccountEffect DEF Calling
    <3> QED BY <1>1, <2>2, <3>1, NextAccountEffect, CallFacts, QuietStep
  <2> QED BY <1>2, <2>1, <2>2 DEF StopOwnSession
<1>3. CASE pc' = "poll" /\ UNCHANGED <<outcome, remote, stopFailed>>
  <2>1. pc' \in Calling
    BY <1>3 DEF Calling
  <2> QED BY <1>1, <1>3, <2>1, CallFacts, QuietStep
<1> QED BY <1>2, <1>3 DEF CheckCancelled

LEMMA AnswerStep == ASSUME Inv, Answer \/ Error PROVE Inv'
<1>1. /\ UNCHANGED <<jobStatus, registryVars, stopVars, tried, stopFailed>>
      /\ pc \in {"report", "poll"}
  BY DEF Answer, Error, At, RunnerKeeps
<1>2. CASE Answer
  <2>1. /\ remote' = [remote EXCEPT ![Run][records[Run].account] =
                        IF @ = "running" THEN "ended" ELSE @]
        /\ pc' = "finish" /\ outcome' = "answered"
    BY <1>2 DEF Answer, EndRun
  <2>2. records[Run].session # None => records[Run].session \in Account
    BY <1>1, CallFacts DEF Record
  <2>3. /\ remote' \in [1 .. MaxRuns -> [Account -> {"none", "running", "stopped", "ended"}]]
        /\ \A b \in Account : remote'[Run][b] = "running" => remote[Run][b] = "running"
    BY <1>1, <2>1, CallFacts
  <2> QED BY <1>1, <2>1, <2>2, <2>3, CallFacts, QuietStep
<1>3. CASE Error
  <2>1. NextAccount /\ remote' = remote
    BY <1>3 DEF Error
  <2>2. pc' \in Calling \cup {"finish"} /\ pc' \notin {"post", "report", "check", "poll"}
    BY <2>1, NextAccountEffect DEF Calling
  <2> QED BY <1>1, <2>1, <2>2, NextAccountEffect, CallFacts, QuietStep
<1> QED BY <1>2, <1>3

LEMMA ReportStep == ASSUME Inv, Report PROVE Inv'
<1> DEFINE e == [records[Run] EXCEPT !.session = records[Run].account]
<1>1. /\ UNCHANGED <<jobStatus, stopFailed, outcome, remote, tried>>
      /\ pc = "report" /\ stopPc[Runner] = "no" /\ pc' = "check" /\ Update(e)
  BY DEF Report, At, RunnerKeeps
<1>2. /\ e \in Record /\ e.account = records[Run].account /\ e.session = records[Run].account
      /\ e.cancel = records[Run].cancel /\ e.completed = records[Run].completed
  BY <1>1, CallFacts DEF Record
<1> HIDE DEF e
<1>3. /\ Run \in 1 .. Run /\ current = Run /\ current' = Run /\ Run' = Run
      /\ records' \in Seq(Record) /\ records'[Run] = e
      /\ stopPc' \in [Stopper -> {"no", "lookup", "mark", "provider", "session"}]
      /\ UNCHANGED <<stopRecord, stopAccount>> /\ StopsGood'
      /\ \A c \in Canceller : stopPc'[c] = stopPc[c]
      /\ e.cancel /\ ~e.completed /\ e.session # None => Pending(Runner)'
  BY <1>1, <1>2, CallFacts, UpdateEffect
<1>4. /\ records[Run].account \in tried /\ ~records[Run].completed /\ jobStatus # "cancelled"
      /\ records[Run].account \in Account
  BY <1>1, <1>3, CallFacts, Constants DEF Inv, Control
<1>5. TypeOK'
  BY <1>1, <1>3 DEF Inv, TypeOK, Record, Label
<1>6. Control'
  BY <1>1, <1>2, <1>3, <1>4, Constants DEF Control
<1>7. Reached'
  BY <1>1, <1>2, <1>3, CallFacts, ReachedStays
<1>8. Stopped'
  BY <1>2, <1>3, <1>4, Constants DEF Stopped
<1> QED BY <1>3, <1>5, <1>6, <1>7, <1>8 DEF Inv

LEMMA FinishStep == ASSUME Inv, Finish PROVE Inv'
<1> DEFINE e == [records[Run] EXCEPT !.completed = TRUE]
<1>1. /\ UNCHANGED <<jobStatus, stopFailed, outcome, remote, tried>>
      /\ pc = "finish" /\ stopPc[Runner] = "no" /\ pc' = "settle" /\ Update(e)
  BY DEF Finish, At, RunnerKeeps
<1>2. pc \in Attempting
  BY <1>1 DEF Attempting
<1>3. /\ e \in Record /\ e.account = records[Run].account /\ e.session = records[Run].session
      /\ e.cancel = records[Run].cancel
  BY <1>2, NewestTyped DEF Record
<1> HIDE DEF e
<1>4. /\ Run \in 1 .. Run /\ current = Run /\ current' = Run /\ Run' = Run
      /\ records' \in Seq(Record) /\ records'[Run] = e
      /\ stopPc' \in [Stopper -> {"no", "lookup", "mark", "provider", "session"}]
      /\ UNCHANGED <<stopRecord, stopAccount>> /\ StopsGood'
      /\ \A s \in Stopper : Pending(s) => Pending(s)'
      /\ \A c \in Canceller : stopPc'[c] = stopPc[c]
  BY <1>1, <1>2, <1>3, UpdateEffect
<1>5. TypeOK'
  BY <1>1, <1>4 DEF Inv, TypeOK, Record, Label
<1>6. Control'
  BY <1>1, <1>3, <1>4 DEF Inv, Control, Attempting, Calling
<1>7. Reached'
  BY <1>1, <1>3, <1>4, ReachedStays
<1>8. Stopped'
  BY <1>1, <1>3, <1>4 DEF Inv, Stopped
<1> QED BY <1>4, <1>5, <1>6, <1>7, <1>8 DEF Inv

LEMMA SettleStep == ASSUME Inv, Settle \/ Retry PROVE Inv'
<1>1. /\ UNCHANGED <<registryVars, tried, outcome, remote, stopVars, stopFailed>>
  BY DEF Settle, Retry
<1>2. \/ pc = "settle" /\ pc' = "done" /\ jobStatus = "running" /\ jobStatus' \in {"succeeded", "failed"}
      \/ pc = "settle" /\ pc' = "waiting" /\ jobStatus' = "retry_wait" /\ Run < MaxRuns
      \/ /\ pc = "settle" /\ pc' = "done" /\ jobStatus = "cancel_requested"
         /\ jobStatus' \in {"cancelled", "cancel_requested"}
      \/ pc = "waiting" /\ pc' = "create" /\ jobStatus' = "running"
  BY DEF Settle, Retry, At
<1>3. TypeOK'
  BY <1>1, <1>2 DEF Inv, TypeOK, Label
<1>4. Control' /\ StopsGood'
  BY <1>1, <1>2 DEF Inv, Control, StopsGood, Attempting, Calling
<1>5. Reached'
  BY <1>1, <1>2 DEF Inv, Reached
<1>6. Stopped'
  BY <1>1 DEF Inv, Stopped, Pending
<1> QED BY <1>3, <1>4, <1>5, <1>6 DEF Inv

------------------------------------------------------------------------------
(* Theorems *)

LEMMA NextInv == Inv /\ [Next]_vars => Inv'
<1> SUFFICES ASSUME Inv, [Next]_vars PROVE Inv'
  OBVIOUS
<1>1. CASE RunnerStep
  BY <1>1, CreateStep, RecheckStep, BindStep, ChooseSteps, PostStep, ReportStep, CheckStep,
     AnswerStep, FinishStep, SettleStep DEF RunnerStep, ChooseStep
<1>2. CASE FinalizeCancelled \/ Prune
  BY <1>2, FinalizeStep, PruneStep
<1>3. ASSUME NEW s \in Stopper, StopStep(s) PROVE Inv'
  BY <1>3, LookupStep, MarkStep, ReadProviderStep, StopSessionStep DEF StopStep
<1>4. ASSUME NEW c \in Canceller, CancelJob(c) \/ CancelOperation(c) PROVE Inv'
  BY <1>4, CancelJobStep, CancelOperationStep
<1>5. CASE UNCHANGED vars
  BY <1>5 DEF Inv, TypeOK, Control, StopsGood, Reached, Stopped, Pending
<1> QED BY <1>1, <1>2, <1>3, <1>4, <1>5 DEF Next

LEMMA InvHolds == Spec => []Inv
  BY InitInv, NextInv, PTL DEF Spec

\* Types of the registry, the attempt and the stops, for any number of threads; a stop
\* always has a record to work on.
THEOREM TypeCorrect == Spec => []TypeOK
<1>1. Inv => TypeOK
  BY DEF Inv
<1> QED BY <1>1, InvHolds, PTL

\* However many clients cancel a job, and in whatever attempt, once a callback has run the
\* attempt in progress is marked (request_cancel with _cancel_chatgpt_operation_by_id).
THEOREM CancelIsNeverMissed == Spec => []CancelReachesOperation
<1>1. Inv => CancelReachesOperation
  <2> SUFFICES ASSUME Inv, pc \in Calling, jobStatus = "cancel_requested",
                      \A c \in Canceller : stopPc[c] \notin {"lookup", "mark"}
               PROVE  records[Run].cancel
    BY DEF CancelReachesOperation
  <2>1. pc \in Attempting /\ pc \notin {"recheck", "settle", "done"}
    BY DEF Attempting, Calling
  <2>2. current # 0
    BY <2>1, NewestTyped
  <2> QED BY <2>1, <2>2 DEF Inv, Reached
<1> QED BY <1>1, InvHolds, PTL

\* When a cancelled job has come to rest and no stop was refused, the research that its
\* operation names is over, for any number of clients, accounts and attempts.
THEOREM ResearchIsStopped == Spec => []CancelledResearchIsStopped
<1>1. Inv => CancelledResearchIsStopped
  <2> SUFFICES ASSUME Inv, jobStatus \in {"cancel_requested", "cancelled"},
                      \A s \in Stopper : stopPc[s] = "no", current # 0, ~stopFailed,
                      NEW a \in Account, records[current].session = a,
                      remote[current][a] = "running"
               PROVE  FALSE
    BY DEF CancelledResearchIsStopped
  <2>1. current = Run /\ records[Run].session # None
    BY Constants DEF Inv, Control
  <2>2. records[Run].cancel
    BY <2>1, Constants DEF Inv, Reached
  <2> QED BY <2>1, <2>2 DEF Inv, Stopped, Pending
<1> QED BY <1>1, InvHolds, PTL
=============================================================================
