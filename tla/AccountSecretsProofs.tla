------------------------ MODULE AccountSecretsProofs ------------------------
(***************************************************************************)
(* Proofs about AccountSecrets, for any accounts, server threads and       *)
(* passphrases, and any number of saves, keys, rotations and crashes.      *)
(***************************************************************************)
EXTENDS AccountSecrets, FiniteSetTheorems, TLAPS

USE DEF keyVars, threadVars, bufferVars, targetVars, rotateVars, countVars, writeVars,
        ghostVars, vars

ThreadSteps == {"idle", "empty", "fill", "loadkey", "delete"}

Types ==
    /\ TypeOK
    /\ tpc \in [Threads -> ThreadSteps] /\ on \in [Threads -> Accounts \cup {None}]
    /\ doc \in [Threads -> Text] /\ tkey \in [Threads -> Keys \cup {Plain}]
    /\ before \in [Accounts -> {None} \cup Capture]
    /\ saves \in 0 .. MaxSaves
    /\ ended \in {"none", "done", "broken"}

\* What a rotation makes of the capture it found under account a.
Moved(a) ==
    IF before[a] = None THEN capture[a] = None
    ELSE capture[a] = [text |-> before[a].text, key |-> newKey]

\* Where the captures are that no request has written or deleted: while a rotation runs,
\* those still to do are as they were found and the others are moved; in between there
\* is the one being written, whose text is in the buffer.
Underway ==
    /\ ended = "none"
    /\ \A a \in Accounts \ changed :
        /\ a \in todo /\ ~(rpc = "fill" /\ a = at) => capture[a] = before[a]
        /\ a \notin todo => Moved(a)
        /\ a = at => before[a] # None /\ capture[a] # None /\ buffer = before[a].text
        /\ rpc = "fill" /\ a = at => capture[a] = Empty
    /\ rpc \in {"unlink", "newkey"} => \A a \in Accounts \ todo : before[a] = None

\* Afterwards they are all moved, or one may be lost.
Over ==
    /\ ended = "none" => Lost = {}
    /\ ended = "done" => \A a \in Accounts \ changed : Moved(a)
    /\ ended = "broken" => \E x \in Accounts \cup {None} : Lost \subseteq {x}

Kept == IF rpc = "idle" THEN Over ELSE Underway

\* Keys at hand.
Known == Passphrases \cup {Plain, keyFile}

\* A save that no rotation overlaps has a key that stays at hand; while a rotation runs,
\* it overlaps every save.
SavesKnown ==
    /\ \A t \in Threads : tpc[t] \in {"empty", "fill"} /\ t \notin overlap => tkey[t] \in Known
    /\ rpc # "idle" => \A t \in Threads : tpc[t] \in {"empty", "fill"} => t \in overlap

\* What a rotation is done with has its new key, which is the key file or a passphrase.
RotationKnown ==
    /\ rpc \in {"unlink", "newkey"} =>
        /\ to = "file"
        /\ \A a \in Accounts \ (touched \cup todo) : capture[a] = None
    /\ rpc \in {"next", "empty", "fill"} =>
        /\ IF to = "file" THEN newKey = keyFile /\ keyFile # 0 ELSE newKey \in Passphrases
        /\ \A a \in Accounts \ (touched \cup todo) : capture[a] = None \/ capture[a].key = newKey
    /\ rpc = "fill" /\ at \notin touched => capture[at] \in {None, Empty}

Readable == SavesKnown /\ RotationKnown /\ CapturesReadable

------------------------------------------------------------------------------
(* Types *)

LEMMA Constants ==
    /\ None \notin Accounts /\ None \notin Capture /\ "file" \notin Passphrases
    /\ None \notin Nat
    /\ MaxSaves \in Nat /\ MaxKeys \in Nat \ {0} /\ MaxRotations \in Nat /\ MaxCrashes \in Nat
<1>1. {MaxSaves, MaxRotations, MaxCrashes} \subseteq Nat /\ MaxKeys \in Nat \ {0}
  BY SecretsAssumption
<1>2. Capture \subseteq [text : Nat, key : Nat \cup Passphrases \cup {Plain, None}]
  BY <1>1 DEF Capture, Text, Keys
<1> QED BY <1>1, <1>2, SecretsAssumption

LEMMA EmptyIsCapture ==
    Empty \in Capture /\ Torn \in Capture /\ Empty # None /\ Torn # None
<1>1. Empty \in Capture /\ Torn \in Capture
  BY Constants DEF Empty, Torn, Capture, Text
<1> QED BY <1>1, Constants

\* Loading a key leaves the key file as it is, or makes it.
LEMMA LoadKeyEffect ==
    ASSUME Types, NEW source \in Sources, NEW k \in Keys, LoadKey(source, k)
    PROVE  /\ keys' \in 0 .. MaxKeys /\ keyFile' \in 0 .. keys'
           /\ keyFile' = keyFile \/ keyFile = 0
           /\ IF source = "file" THEN k = keyFile' /\ k # 0 ELSE k \in Passphrases
  BY Constants DEF Types, TypeOK, LoadKey, LoadAutoKey, Sources

LEMMA InitTypes == Init => Types
<1> SUFFICES ASSUME Init PROVE Types
  OBVIOUS
<1>1. keyFile \in 0 .. keys /\ keys \in 0 .. MaxKeys
  BY Constants DEF Init
<1>2. capture \in [Accounts -> {None} \cup Capture]
  BY <1>1, Constants DEF Init, Capture, Text, Keys
<1>3. /\ tpc \in [Threads -> ThreadSteps] /\ on \in [Threads -> Accounts \cup {None}]
      /\ doc \in [Threads -> Text] /\ tkey \in [Threads -> Keys \cup {Plain}]
      /\ dir \in [Accounts -> BOOLEAN] /\ \A a \in Accounts : capture[a] # None => dir[a]
      /\ before \in [Accounts -> {None} \cup Capture]
  <2>1. /\ tpc \in [Threads -> ThreadSteps] /\ on \in [Threads -> Accounts \cup {None}]
        /\ doc \in [Threads -> Text] /\ tkey \in [Threads -> Keys \cup {Plain}]
    BY Constants DEF Init, ThreadSteps, Text
  <2>2. dir \in [Accounts -> BOOLEAN] /\ \A a \in Accounts : capture[a] # None => dir[a]
    <3>1. dir = [a \in Accounts |-> capture[a] # None]
      BY DEF Init
    <3> QED BY <3>1
  <2>3. before \in [Accounts -> {None} \cup Capture]
    BY <1>2 DEF Init
  <2> QED BY <2>1, <2>2, <2>3
<1>4. /\ mode \in Sources /\ to \in Sources /\ oldKey = Plain /\ newKey = Plain
      /\ todo = {} /\ buffer = 0 /\ at = None /\ rpc = "idle" /\ ended = "none"
      /\ saves \in 0 .. MaxSaves /\ buffer \in Text
      /\ \A t \in Threads : tpc[t] = "idle" /\ on[t] = None
  BY Constants DEF Init, Sources, Text
<1> QED BY <1>1, <1>2, <1>3, <1>4 DEF Types, TypeOK

LEMMA SaveEmptiesTypes == ASSUME Types, NEW t \in Threads, SaveEmpties(t) PROVE Types'
  BY Constants, EmptyIsCapture DEF SaveEmpties, Types, TypeOK, ThreadSteps, GoTo, Writes

LEMMA LoadReadsTypes == ASSUME Types, NEW t \in Threads, NEW a \in Accounts, LoadReads(t, a) PROVE Types'
  BY Constants DEF LoadReads, Types, TypeOK, ThreadSteps, GoTo

LEMMA DeleteBeginsTypes == ASSUME Types, NEW t \in Threads, NEW a \in Accounts, DeleteBegins(t, a) PROVE Types'
  BY Constants DEF DeleteBegins, Types, TypeOK, ThreadSteps, GoTo

LEMMA FailsTypes == ASSUME Types, NEW t \in Threads, Fails(t) PROVE Types'
  BY Constants DEF Fails, Types, TypeOK, ThreadSteps, GoTo, Leaves, Text

LEMMA RestartTypes == ASSUME Types, Restart PROVE Types'
  BY Constants DEF Restart, Types, TypeOK, ThreadSteps, Text

LEMMA RotateUnlinksTypes == ASSUME Types, RotateUnlinks PROVE Types'
  BY Constants DEF RotateUnlinks, Types, TypeOK, ThreadSteps

LEMMA RotateNewKeyTypes == ASSUME Types, RotateNewKey PROVE Types'
  BY Constants DEF RotateNewKey, Types, TypeOK, ThreadSteps, LoadAutoKey

LEMMA RotateReadsTypes == ASSUME Types, NEW a \in Accounts, RotateReads(a) PROVE Types'
  BY Constants DEF RotateReads, Types, TypeOK, ThreadSteps, RotationOver, Opens, Text, Capture

LEMMA RotateEmptiesTypes == ASSUME Types, RotateEmpties PROVE Types'
  BY Constants, EmptyIsCapture DEF RotateEmpties, Types, TypeOK, ThreadSteps, RotationOver, Text

\* What filling a file leaves of the captures; alone, the writer leaves its own.
LEMMA FillingEffect ==
    ASSUME Types, NEW a \in Accounts, NEW new \in Capture, Filling(a, new)
    PROVE  /\ capture' \in [Accounts -> {None} \cup Capture]
           /\ \A b \in Accounts : b # a => capture'[b] = capture[b]
           /\ \A b \in Accounts : capture'[b] # None => capture[b] # None
           /\ capture[a] = None => capture'[a] = None
           /\ capture[a] = Empty => capture'[a] = new
           /\ capture[a] # None => capture'[a] \in {new, Torn}
<1>1. new # None
  BY Constants
<1> QED BY <1>1, EmptyIsCapture DEF Filling, Types, TypeOK

LEMMA RotateFillsTypes == ASSUME Types, RotateFills PROVE Types'
<1>1. at \in Accounts /\ [text |-> buffer, key |-> newKey] \in Capture
  BY DEF RotateFills, Types, TypeOK, Capture
<1>2. /\ capture' \in [Accounts -> {None} \cup Capture]
      /\ \A b \in Accounts : capture'[b] # None => dir[b]
  BY <1>1, FillingEffect DEF RotateFills, Types, TypeOK
<1> QED BY <1>2, Constants DEF RotateFills, Types, TypeOK, ThreadSteps, Text

LEMMA RotateEndsTypes == ASSUME Types, RotateEnds PROVE Types'
  BY Constants DEF RotateEnds, Types, TypeOK, ThreadSteps, RotationOver, Text

LEMMA RotateKilledTypes == ASSUME Types, RotateKilled PROVE Types'
  BY Constants DEF RotateKilled, Types, TypeOK, ThreadSteps, RotationOver, Text

LEMMA SaveBeginsTypes ==
    ASSUME Types, NEW t \in Threads, NEW a \in Accounts, SaveBegins(t, a)
    PROVE  Types'
<1>1. PICK k \in Keys : LoadKey(mode, k) /\ tkey' = [tkey EXCEPT ![t] = k]
  BY DEF SaveBegins
<1>2. keys' \in 0 .. MaxKeys /\ keyFile' \in 0 .. keys'
  BY <1>1, LoadKeyEffect DEF Types, TypeOK
<1>3. saves' \in 0 .. MaxSaves /\ doc' \in [Threads -> Text]
  BY Constants DEF SaveBegins, Types, Text
<1>4. tkey' \in [Threads -> Keys \cup {Plain}]
  BY <1>1 DEF Types
<1>5. /\ tpc' \in [Threads -> ThreadSteps] /\ on' \in [Threads -> Accounts \cup {None}]
      /\ \A u \in Threads : IF tpc'[u] = "idle" THEN on'[u] = None ELSE on'[u] \in Accounts
  BY Constants DEF SaveBegins, GoTo, Types, TypeOK, ThreadSteps
<1>6. dir' \in [Accounts -> BOOLEAN] /\ \A b \in Accounts : capture'[b] # None => dir'[b]
  BY DEF SaveBegins, Types, TypeOK
<1> QED BY <1>2, <1>3, <1>4, <1>5, <1>6 DEF SaveBegins, Types, TypeOK

\* A request that is over leaves nothing behind.
LEMMA LeavesTypes ==
    ASSUME Types, NEW t \in Threads, Leaves(t)
    PROVE  /\ tpc' \in [Threads -> ThreadSteps] /\ on' \in [Threads -> Accounts \cup {None}]
           /\ doc' \in [Threads -> Text] /\ tkey' \in [Threads -> Keys \cup {Plain}]
           /\ \A u \in Threads :
                IF tpc'[u] = "idle" THEN on'[u] = None ELSE on'[u] \in Accounts
  BY Constants DEF Leaves, GoTo, Types, TypeOK, ThreadSteps, Text

LEMMA SaveFillsTypes == ASSUME Types, NEW t \in Threads, SaveFills(t) PROVE Types'
<1>1. on[t] \in Accounts /\ [text |-> doc[t], key |-> tkey[t]] \in Capture
  BY DEF SaveFills, Types, TypeOK, Capture
<1>2. /\ capture' \in [Accounts -> {None} \cup Capture]
      /\ \A b \in Accounts : capture'[b] # None => capture[b] # None
  BY <1>1, FillingEffect DEF SaveFills
<1>3. dir' \in [Accounts -> BOOLEAN] /\ \A b \in Accounts : capture'[b] # None => dir'[b]
  BY <1>1, <1>2 DEF SaveFills, Types, TypeOK
<1> QED BY <1>2, <1>3, LeavesTypes DEF SaveFills, Types, TypeOK

LEMMA LoadKeyAfterTypes == ASSUME Types, NEW t \in Threads, LoadKeyAfter(t) PROVE Types'
<1>1. keys' \in 0 .. MaxKeys /\ keyFile' \in 0 .. keys'
  BY LoadKeyEffect DEF LoadKeyAfter, Types, TypeOK
<1> QED BY <1>1, LeavesTypes DEF LoadKeyAfter, Types, TypeOK

LEMMA DeleteEndsTypes == ASSUME Types, NEW t \in Threads, DeleteEnds(t) PROVE Types'
<1>1. dir' \in [Accounts -> BOOLEAN] /\ \A b \in Accounts : capture'[b] # None => dir'[b]
  BY DEF DeleteEnds, Types, TypeOK
<1> QED BY <1>1, LeavesTypes DEF DeleteEnds, Types, TypeOK

LEMMA RotateBeginsTypes == ASSUME Types, RotateBegins PROVE Types'
<1>1. PICK from \in Sources, k \in Keys : LoadKey(from, k) /\ oldKey' = k
  BY DEF RotateBegins
<1>2. keys' \in 0 .. MaxKeys /\ keyFile' \in 0 .. keys'
  BY <1>1, LoadKeyEffect
<1>3. to' \in Sources /\ newKey' \in Keys \cup {Plain} /\ oldKey' \in Keys \cup {Plain}
  BY <1>1 DEF RotateBegins, Sources, Keys
<1>4. todo' \subseteq Accounts /\ rpc' \in {"unlink", "next"} /\ at' = None
  BY DEF RotateBegins, Types, TypeOK
<1> QED BY <1>2, <1>3, <1>4 DEF RotateBegins, Types, TypeOK

LEMMA StepTypes == Types /\ [Next]_vars => Types'
<1> SUFFICES ASSUME Types, [Next]_vars PROVE Types'
  OBVIOUS
<1>1. CASE Server
  BY <1>1, SaveBeginsTypes, LoadReadsTypes, DeleteBeginsTypes, SaveEmptiesTypes,
     SaveFillsTypes, LoadKeyAfterTypes, DeleteEndsTypes, FailsTypes, RestartTypes DEF Server
<1>2. CASE Rotation
  BY <1>2, RotateBeginsTypes, RotateUnlinksTypes, RotateNewKeyTypes, RotateReadsTypes,
     RotateEmptiesTypes, RotateFillsTypes, RotateEndsTypes, RotateKilledTypes DEF Rotation
<1>3. CASE UNCHANGED vars
  BY <1>3 DEF Types, TypeOK
<1> QED BY <1>1, <1>2, <1>3 DEF Next

LEMMA TypesHold == Spec => []Types
<1>1. Init => Types
  BY InitTypes
<1>2. Types /\ [Next]_vars => Types'
  BY StepTypes
<1> QED BY <1>1, <1>2, PTL DEF Spec

\* The files keep their types, and what a rotation works on is still to be done, for any
\* number of server threads, keys and crashes.
THEOREM TypeCorrect == Spec => []TypeOK
<1>1. Types => TypeOK
  BY DEF Types
<1> QED BY <1>1, TypesHold, PTL

------------------------------------------------------------------------------
(* Captures through a rotation *)

\* A step of the server changes only captures that it takes note of.
LEMMA ServerTakesNote ==
    ASSUME Types, Server
    PROVE  /\ changed \subseteq changed' /\ UNCHANGED <<rotateVars, before, ended>>
           /\ \A a \in Accounts \ changed' : capture'[a] = capture[a]
<1>1. CASE \E t \in Threads, a \in Accounts : SaveBegins(t, a) \/ LoadReads(t, a)
  BY <1>1 DEF SaveBegins, LoadReads
<1>2. CASE \E t \in Threads, a \in Accounts : DeleteBegins(t, a)
  BY <1>2 DEF DeleteBegins, Types, TypeOK
<1>3. ASSUME NEW t \in Threads, SaveEmpties(t) \/ SaveFills(t)
      PROVE  /\ changed \subseteq changed' /\ UNCHANGED <<rotateVars, before, ended>>
             /\ \A a \in Accounts \ changed' : capture'[a] = capture[a]
  <2>1. on[t] \in Accounts /\ [text |-> doc[t], key |-> tkey[t]] \in Capture
    BY <1>3 DEF SaveEmpties, SaveFills, Types, TypeOK, Capture
  <2>2. changed' = changed \cup {on[t]} /\ UNCHANGED <<rotateVars, before, ended>>
    BY <1>3 DEF SaveEmpties, SaveFills, Writes
  <2>3. \A a \in Accounts : a # on[t] => capture'[a] = capture[a]
    <3>1. CASE SaveEmpties(t)
      BY <3>1, <2>1 DEF SaveEmpties, Types, TypeOK
    <3>2. CASE SaveFills(t)
      BY <3>2, <2>1, FillingEffect DEF SaveFills
    <3> QED BY <1>3, <3>1, <3>2
  <2> QED BY <2>2, <2>3
<1>4. CASE \E t \in Threads : LoadKeyAfter(t) \/ DeleteEnds(t) \/ Fails(t)
  BY <1>4 DEF LoadKeyAfter, DeleteEnds, Fails
<1>5. CASE Restart
  BY <1>5 DEF Restart
<1> QED BY <1>1, <1>2, <1>3, <1>4, <1>5 DEF Server

LEMMA ServerKeeps == ASSUME Types, Kept, Server PROVE Kept'
<1>1. /\ changed \subseteq changed' /\ UNCHANGED <<rotateVars, before, ended>>
      /\ \A a \in Accounts \ changed' : capture'[a] = capture[a]
  BY ServerTakesNote
<1>2. \A a \in Accounts \ changed' : Moved(a) => Moved(a)'
  BY <1>1 DEF Moved
<1>3. Lost' \subseteq Lost
  BY <1>1 DEF Lost
<1>4. CASE rpc = "idle"
  <2>1. Over'
    BY <1>1, <1>2, <1>3, <1>4 DEF Kept, Over
  <2> QED BY <1>1, <1>4, <2>1 DEF Kept
<1>5. CASE rpc # "idle"
  <2>1. Underway'
    BY <1>1, <1>2, <1>5 DEF Kept, Underway
  <2> QED BY <1>1, <1>5, <2>1 DEF Kept
<1> QED BY <1>4, <1>5

\* While a rotation runs only the capture being written can be lost.
LEMMA LostUnderway ==
    ASSUME Types, Underway
    PROVE  Lost \subseteq IF rpc = "fill" THEN {at} ELSE {}
<1> SUFFICES ASSUME NEW a \in Accounts \ changed, before[a] # None,
                    ~(rpc = "fill" /\ a = at)
             PROVE  capture[a] # None /\ capture[a].text = before[a].text
  BY DEF Lost
<1>1. CASE a \in todo
  BY <1>1 DEF Underway
<1>2. CASE a \notin todo
  <2>1. [text |-> before[a].text, key |-> newKey] \in Capture
    BY DEF Types, TypeOK, Capture
  <2> QED BY <1>2, <2>1, Constants DEF Underway, Moved
<1> QED BY <1>1, <1>2

LEMMA OverKeeps == ASSUME Types, Underway, rpc # "idle", RotationOver("broken"),
                          UNCHANGED <<capture, before, changed>>
                   PROVE  Kept'
<1>1. Lost' = Lost
  BY DEF Lost
<1>2. \E x \in Accounts \cup {None} : Lost \subseteq {x}
  <2>1. at \in Accounts \cup {None}
    BY DEF Types, TypeOK
  <2> QED BY <2>1, LostUnderway
<1> QED BY <1>1, <1>2 DEF Kept, Over, RotationOver

LEMMA RotationKeeps == ASSUME Types, Kept, Rotation PROVE Kept'
<1>1. CASE RotateBegins
  <2>1. /\ rpc' # "idle" /\ ended' = "none" /\ UNCHANGED <<capture, at>> /\ at = None
        /\ before' = capture /\ todo' = {a \in Accounts : dir[a]} /\ rpc' # "fill"
    BY <1>1 DEF RotateBegins, Types, TypeOK
  <2>2. \A a \in Accounts : a \notin todo' => capture[a] = None
    BY <2>1 DEF Types, TypeOK
  <2>3. Underway'
    BY <2>1, <2>2, Constants DEF Underway, Moved
  <2> QED BY <2>1, <2>3 DEF Kept
<1>2. CASE RotateUnlinks
  BY <1>2 DEF RotateUnlinks, Kept, Underway, Moved
<1>3. CASE RotateNewKey
  <2>1. /\ UNCHANGED <<capture, todo, at, buffer, before, ended, changed>>
        /\ rpc = "newkey" /\ rpc' = "next"
    BY <1>3 DEF RotateNewKey
  <2>2. \A a \in Accounts \ todo : before[a] = None
    BY <2>1 DEF Kept, Underway
  <2>3. Underway'
    BY <2>1, <2>2 DEF Kept, Underway, Moved
  <2> QED BY <2>1, <2>3 DEF Kept
<1>4. ASSUME NEW a \in Accounts, RotateReads(a) PROVE Kept'
  <2> USE <1>4
  <2>1. rpc = "next" /\ a \in todo /\ Underway /\ UNCHANGED <<capture, before, changed, newKey>>
    BY DEF RotateReads, Kept
  <2>2. CASE capture[a] = None /\ todo' = todo \ {a} /\ UNCHANGED <<rpc, at, buffer, ended>>
    <3>1. Underway'
      BY <2>1, <2>2 DEF Underway, Moved
    <3> QED BY <2>1, <2>2, <3>1 DEF Kept
  <2>3. CASE Opens(a) /\ at' = a /\ buffer' = capture[a].text /\ rpc' = "empty"
               /\ UNCHANGED <<todo, ended>>
    <3>1. Underway'
      BY <2>1, <2>3 DEF Underway, Moved, Opens
    <3> QED BY <2>3, <3>1 DEF Kept
  <2>4. CASE RotationOver("broken")
    BY <2>1, <2>4, OverKeeps
  <2> QED BY <2>2, <2>3, <2>4 DEF RotateReads
<1>5. CASE RotateEmpties
  <2>1. rpc = "empty" /\ Underway /\ at \in todo /\ at \in Accounts
          /\ UNCHANGED <<before, changed, newKey>>
    BY <1>5 DEF RotateEmpties, Kept, Types, TypeOK
  <2>2. CASE capture' = [capture EXCEPT ![at] = Empty] /\ rpc' = "fill"
               /\ UNCHANGED <<todo, at, buffer, ended>>
    <3>1. /\ capture'[at] = Empty /\ Empty # None
          /\ \A a \in Accounts \ {at} : capture'[a] = capture[a]
      BY <2>1, <2>2, EmptyIsCapture DEF Types, TypeOK
    <3>2. Underway'
      BY <2>1, <2>2, <3>1 DEF Underway, Moved
    <3> QED BY <2>2, <3>2 DEF Kept
  <2>3. CASE RotationOver("broken") /\ UNCHANGED capture
    BY <2>1, <2>3, OverKeeps
  <2> QED BY <1>5, <2>2, <2>3 DEF RotateEmpties
<1>6. CASE RotateFills
  <2>1. /\ rpc = "fill" /\ rpc' = "next" /\ Underway /\ at \in todo /\ at \in Accounts
        /\ todo' = todo \ {at} /\ at' = None
        /\ UNCHANGED <<before, changed, newKey, ended>>
    BY <1>6 DEF RotateFills, Kept, Types, TypeOK
  <2>2. /\ Filling(at, [text |-> buffer, key |-> newKey])
        /\ [text |-> buffer, key |-> newKey] \in Capture
    BY <1>6 DEF RotateFills, Types, TypeOK, Capture
  <2>3. /\ \A a \in Accounts \ {at} : capture'[a] = capture[a]
        /\ at \notin changed =>
             before[at] # None /\ capture'[at] = [text |-> before[at].text, key |-> newKey]
    <3>1. /\ \A a \in Accounts \ {at} : capture'[a] = capture[a]
          /\ capture[at] = Empty => capture'[at] = [text |-> buffer, key |-> newKey]
      BY <2>1, <2>2, FillingEffect
    <3>2. at \notin changed =>
            before[at] # None /\ capture[at] = Empty /\ buffer = before[at].text
      BY <2>1 DEF Underway
    <3> QED BY <3>1, <3>2
  <2>4. Underway'
    BY <2>1, <2>3, Constants DEF Underway, Moved
  <2> QED BY <2>1, <2>4 DEF Kept
<1>7. CASE RotateEnds
  <2>1. /\ rpc = "next" /\ todo = {} /\ Underway /\ rpc' = "idle" /\ ended' = "done"
        /\ UNCHANGED <<capture, before, changed, newKey>>
    BY <1>7 DEF RotateEnds, RotationOver, Kept
  <2>2. \A a \in Accounts \ changed' : Moved(a)'
    BY <2>1 DEF Underway, Moved
  <2> QED BY <2>1, <2>2 DEF Kept, Over
<1>8. CASE RotateKilled
  BY <1>8, OverKeeps DEF RotateKilled, Kept
<1> QED BY <1>1, <1>2, <1>3, <1>4, <1>5, <1>6, <1>7, <1>8 DEF Rotation

LEMMA KeptGives == Types /\ Kept => RotationKeepsCaptures
<1> SUFFICES ASSUME Types, Kept PROVE RotationKeepsCaptures
  OBVIOUS
<1>1. CASE rpc # "idle"
  <2>1. Underway /\ ended = "none"
    BY <1>1 DEF Kept, Underway
  <2>2. CASE Lost = {}
    BY <2>1, <2>2, FS_EmptySet DEF RotationKeepsCaptures
  <2>3. CASE rpc = "fill" /\ Lost = {at}
    BY <2>1, <2>3, FS_Singleton DEF RotationKeepsCaptures
  <2> QED BY <2>1, <2>2, <2>3, LostUnderway
<1>2. CASE rpc = "idle"
  <2>1. Over
    BY <1>2 DEF Kept
  <2>2. ended = "done" => Lost = {}
    <3> SUFFICES ASSUME ended = "done", NEW a \in Accounts \ changed, before[a] # None
                 PROVE  capture[a] # None /\ capture[a].text = before[a].text
      BY DEF Lost
    <3>1. [text |-> before[a].text, key |-> newKey] \in Capture
      BY DEF Types, TypeOK, Capture
    <3> QED BY <2>1, <3>1, Constants DEF Over, Moved
  <2>3. ASSUME ended = "done", NEW a \in Accounts \ changed
        PROVE  IF before[a] = None THEN capture[a] = None ELSE capture[a].key = newKey
    <3>1. Moved(a)
      BY <2>1, <2>3 DEF Over
    <3>2. CASE before[a] = None
      BY <3>1, <3>2 DEF Moved
    <3>3. CASE before[a] # None
      <4>1. capture[a] = [text |-> before[a].text, key |-> newKey]
        BY <3>1, <3>3 DEF Moved
      <4> QED BY <4>1, <3>3
    <3> QED BY <3>2, <3>3
  <2>4. Lost # {} => ended = "broken"
    BY <2>1, <2>2 DEF Over, Types
  <2>5. Lost = {} \/ \E x : Lost = {x}
    BY <2>1, <2>4 DEF Over
  <2>6. Cardinality(Lost) <= 1
    <3>1. CASE Lost = {}
      BY <3>1, FS_EmptySet
    <3>2. ASSUME NEW x, Lost = {x} PROVE Cardinality(Lost) <= 1
      <4>1. Cardinality({x}) = 1
        BY FS_Singleton
      <4> QED BY <4>1, <3>2
    <3> QED BY <3>1, <3>2, <2>5
  <2> QED BY <2>3, <2>4, <2>6 DEF RotationKeepsCaptures
<1> QED BY <1>1, <1>2

\* A rotation that ends well has moved every capture, and one that breaks off anywhere has
\* lost one at most, with any number of accounts and of requests that write meanwhile.
THEOREM CapturesKept == Spec => []RotationKeepsCaptures
<1>1. Init => Kept
  BY DEF Init, Kept, Over, Lost
<1>2. Types /\ Kept /\ [Next]_vars => Kept'
  <2> SUFFICES ASSUME Types, Kept, UNCHANGED vars PROVE Kept'
    BY ServerKeeps, RotationKeeps DEF Next
  <2> QED BY DEF Kept, Over, Underway, Moved, Lost
<1>3. Types /\ Kept => RotationKeepsCaptures
  BY KeptGives
<1> QED BY <1>1, <1>2, <1>3, TypesHold, PTL DEF Spec

------------------------------------------------------------------------------
(* Keys at hand *)

\* A key at hand stays so when the key file stays, or is made.
LEMMA StaysKnown ==
    ASSUME Types, keyFile' = keyFile \/ keyFile = 0, NEW k \in Keys \cup {Plain, None}, k \in Known
    PROVE  k \in Known'
<1>1. 0 \notin 1 .. MaxKeys /\ None # 0
  BY Constants
<1>2. CASE k \in Passphrases \cup {Plain}
  BY <1>2 DEF Known
<1>3. CASE k = keyFile /\ keyFile' = keyFile
  BY <1>3 DEF Known
<1>4. CASE k = keyFile /\ keyFile = 0
  BY <1>1, <1>2, <1>4 DEF Keys
<1> QED BY <1>2, <1>3, <1>4 DEF Known

\* What a request of the server may do to the captures and the saves under way.
LEMMA ServerFrame ==
    ASSUME Types, Readable, UNCHANGED <<rotateVars, cut>>,
           keyFile' = keyFile \/ keyFile = 0,
           \A a \in Accounts \ touched' :
             \/ a \notin touched /\ capture'[a] = capture[a]
             \/ capture'[a] = None
             \/ rpc = "idle" /\ capture'[a].key \in Known',
           \A t \in Threads : tpc'[t] \in {"empty", "fill"} =>
             \/ /\ tpc[t] \in {"empty", "fill"} /\ tkey'[t] = tkey[t]
                /\ t \in overlap' <=> t \in overlap
             \/ /\ tkey'[t] \in Known'
                /\ rpc # "idle" => t \in overlap'
    PROVE  Readable'
<1>1. SavesKnown'
  <2>1. ASSUME NEW t \in Threads, tpc'[t] \in {"empty", "fill"}, t \notin overlap'
        PROVE  tkey'[t] \in Known'
    <3>1. tkey[t] \in Keys \cup {Plain}
      BY DEF Types
    <3> QED BY <2>1, <3>1, StaysKnown DEF Readable, SavesKnown
  <2>2. rpc' # "idle" => \A t \in Threads : tpc'[t] \in {"empty", "fill"} => t \in overlap'
    BY DEF Readable, SavesKnown
  <2> QED BY <2>1, <2>2 DEF SavesKnown
<1>2. RotationKnown'
  <2>1. rpc \in {"next", "empty", "fill"} =>
          IF to = "file" THEN newKey = keyFile' /\ keyFile' # 0 ELSE newKey \in Passphrases
    BY DEF Readable, RotationKnown
  <2>2. rpc \in {"unlink", "newkey", "next", "empty", "fill"} =>
          \A a \in Accounts \ touched' :
            (a \notin touched /\ capture'[a] = capture[a]) \/ capture'[a] = None
    OBVIOUS
  <2>3. rpc = "fill" /\ at \notin touched' => capture'[at] \in {None, Empty}
    <3>1. rpc = "fill" => at \in Accounts
      BY DEF Types, TypeOK
    <3> QED BY <2>2, <3>1 DEF Readable, RotationKnown
  <2> QED BY <2>1, <2>2, <2>3 DEF Readable, RotationKnown
<1>3. CapturesReadable'
  <2> SUFFICES ASSUME ~cut, rpc = "idle" \/ to # "file", NEW a \in Accounts \ touched',
                      capture'[a] # None
               PROVE  capture'[a].key \in Known'
    BY DEF CapturesReadable, Known
  <2>1. CASE a \notin touched /\ capture'[a] = capture[a]
    <3>1. capture[a].key \in Known
      BY <2>1 DEF Readable, CapturesReadable, Known
    <3>2. capture[a].key \in Keys \cup {Plain, None}
      BY <2>1 DEF Types, TypeOK, Capture
    <3> QED BY <2>1, <3>1, <3>2, StaysKnown
  <2> QED BY <2>1
<1> QED BY <1>1, <1>2, <1>3 DEF Readable

\* A thread that leaves is not saving, and no longer overlaps.
LEMMA LeavesSaves ==
    ASSUME Types, NEW t \in Threads, Leaves(t)
    PROVE  \A u \in Threads : tpc'[u] \in {"empty", "fill"} =>
             /\ tpc[u] \in {"empty", "fill"} /\ tkey'[u] = tkey[u]
             /\ u \in overlap' <=> u \in overlap
  BY DEF Leaves, GoTo, Types

LEMMA ServerReadable == ASSUME Types, Readable, Server PROVE Readable'
<1>1. ASSUME NEW t \in Threads, NEW a \in Accounts, SaveBegins(t, a) PROVE Readable'
  <2>1. PICK k \in Keys : LoadKey(mode, k) /\ tkey' = [tkey EXCEPT ![t] = k]
    BY <1>1 DEF SaveBegins
  <2>2. k \in Known' /\ (keyFile' = keyFile \/ keyFile = 0)
    BY <2>1, LoadKeyEffect DEF Known, Types, TypeOK
  <2>3. ASSUME NEW u \in Threads, tpc'[u] \in {"empty", "fill"}
        PROVE  \/ /\ tpc[u] \in {"empty", "fill"} /\ tkey'[u] = tkey[u]
                  /\ u \in overlap' <=> u \in overlap
               \/ tkey'[u] \in Known' /\ (rpc # "idle" => u \in overlap')
    <3>1. CASE u = t
      BY <1>1, <2>1, <2>2, <3>1 DEF SaveBegins, Types
    <3>2. CASE u # t
      BY <1>1, <2>1, <2>3, <3>2 DEF SaveBegins, GoTo, Types
    <3> QED BY <3>1, <3>2
  <2>4. UNCHANGED <<rotateVars, cut, capture, touched>>
    BY <1>1 DEF SaveBegins
  <2> QED BY <2>2, <2>3, <2>4, ServerFrame
<1>2. ASSUME NEW t \in Threads, NEW a \in Accounts, LoadReads(t, a) \/ DeleteBegins(t, a)
      PROVE  Readable'
  <2>1. \A b \in Accounts : capture'[b] = capture[b] \/ capture'[b] = None
    BY <1>2 DEF LoadReads, DeleteBegins, Types, TypeOK
  <2>2. /\ \A u \in Threads : tpc'[u] \in {"empty", "fill"} => tpc[u] \in {"empty", "fill"}
        /\ UNCHANGED <<rotateVars, cut, keyFile, touched, tkey, overlap>>
    BY <1>2 DEF LoadReads, DeleteBegins, GoTo, Types
  <2> QED BY <2>1, <2>2, ServerFrame
<1>3. ASSUME NEW t \in Threads, SaveEmpties(t) PROVE Readable'
  <2>1. /\ on[t] \in Accounts
        /\ rpc # "idle" => t \in overlap
    BY <1>3 DEF SaveEmpties, Readable, SavesKnown, Types, TypeOK
  <2>2. ASSUME NEW b \in Accounts \ touched'
        PROVE  \/ b \notin touched /\ capture'[b] = capture[b]
               \/ rpc = "idle" /\ capture'[b].key \in Known'
    <3>1. CASE b = on[t]
      BY <1>3, <2>1, <3>1 DEF SaveEmpties, Writes, Empty, Known, Types, TypeOK
    <3>2. CASE b # on[t]
      BY <1>3, <2>1, <3>2 DEF SaveEmpties, Writes, Types, TypeOK
    <3> QED BY <3>1, <3>2
  <2>3. /\ \A u \in Threads : tpc'[u] \in {"empty", "fill"} => tpc[u] \in {"empty", "fill"}
        /\ UNCHANGED <<rotateVars, cut, keyFile, tkey, overlap>>
    BY <1>3 DEF SaveEmpties, GoTo, Types
  <2> QED BY <2>2, <2>3, ServerFrame
<1>4. ASSUME NEW t \in Threads, SaveFills(t) PROVE Readable'
  <2>1. /\ on[t] \in Accounts
        /\ rpc # "idle" => t \in overlap
        /\ t \notin overlap => tkey[t] \in Known
        /\ UNCHANGED <<rotateVars, cut, keyFile>>
        /\ Filling(on[t], [text |-> doc[t], key |-> tkey[t]])
        /\ [text |-> doc[t], key |-> tkey[t]] \in Capture
    BY <1>4 DEF SaveFills, Readable, SavesKnown, Types, TypeOK, Capture
  <2>2. ASSUME NEW b \in Accounts \ touched'
        PROVE  \/ b \notin touched /\ capture'[b] = capture[b]
               \/ capture'[b] = None
               \/ rpc = "idle" /\ capture'[b].key \in Known'
    <3>1. CASE b = on[t]
      <4>1. t \notin overlap
        BY <1>4, <3>1, <2>2 DEF SaveFills, Writes
      <4>2. \/ capture'[b] = None
            \/ capture'[b] = [text |-> doc[t], key |-> tkey[t]]
        <5>1. capture[b] \in {None, Empty}
          BY <1>4, <3>1, <2>2 DEF SaveFills, Writes
        <5> QED BY <2>1, <3>1, <5>1, FillingEffect
      <4>3. tkey[t] \in Known'
        BY <2>1, <4>1 DEF Known
      <4> QED BY <2>1, <4>1, <4>2, <4>3
    <3>2. CASE b # on[t]
      <4>1. capture'[b] = capture[b]
        BY <2>1, <3>2, FillingEffect
      <4> QED BY <1>4, <2>2, <3>2, <4>1 DEF SaveFills, Writes
    <3> QED BY <3>1, <3>2
  <2>3. Leaves(t)
    BY <1>4 DEF SaveFills
  <2> QED BY <2>1, <2>2, <2>3, LeavesSaves, ServerFrame
<1>5. ASSUME NEW t \in Threads, LoadKeyAfter(t) \/ DeleteEnds(t) \/ Fails(t)
      PROVE  Readable'
  <2>1. Leaves(t) /\ UNCHANGED <<rotateVars, cut, capture, touched>>
    BY <1>5 DEF LoadKeyAfter, DeleteEnds, Fails
  <2>2. keyFile' = keyFile \/ keyFile = 0
    BY <1>5, LoadKeyEffect DEF LoadKeyAfter, DeleteEnds, Fails, Types, TypeOK
  <2> QED BY <2>1, <2>2, LeavesSaves, ServerFrame
<1>6. CASE Restart
  <2>1. /\ \A u \in Threads : tpc'[u] = "idle"
        /\ UNCHANGED <<rotateVars, cut, capture, touched, keyFile>>
    BY <1>6 DEF Restart
  <2> QED BY <2>1, ServerFrame
<1> QED BY <1>1, <1>2, <1>3, <1>4, <1>5, <1>6 DEF Server

\* However it is over, a rotation leaves what it found or has written to be opened.
LEMMA OverReadable ==
    ASSUME Types, Readable, rpc # "idle", RotationOver("broken"),
           UNCHANGED <<capture, touched, keyFile, to, tpc, tkey, overlap>>
    PROVE  Readable'
<1>1. SavesKnown' /\ RotationKnown'
  BY DEF RotationOver, Readable, SavesKnown, RotationKnown
<1>2. CapturesReadable'
  BY DEF RotationOver, Readable, CapturesReadable
<1> QED BY <1>1, <1>2 DEF Readable

\* A step of a rotation that is under way and goes on, one that does not touch the key.
LEMMA RotationFrame ==
    ASSUME Types, Readable, rpc \in {"next", "empty", "fill"},
           rpc' \in {"next", "empty", "fill"},
           UNCHANGED <<keyFile, to, newKey, tpc, tkey, overlap, touched, cut>>,
           todo' \subseteq todo,
           \A a \in Accounts :
             \/ capture'[a] = capture[a] /\ (a \in todo' \/ a \notin todo \/ capture[a] = None)
             \/ a \in todo' /\ capture'[a].key = Plain
             \/ capture'[a] # None /\ capture'[a].key = newKey
             \/ capture'[a] # None /\ a \in touched,
           rpc' = "fill" /\ at' \notin touched => capture'[at'] \in {None, Empty}
    PROVE  Readable'
<1>1. SavesKnown'
  BY DEF Readable, SavesKnown, Known
<1>2. RotationKnown'
  BY DEF Readable, RotationKnown
<1>3. CapturesReadable'
  <2> SUFFICES ASSUME ~cut, to # "file", NEW a \in Accounts \ touched, capture'[a] # None
               PROVE  capture'[a].key \in Passphrases \cup {Plain, keyFile}
    BY DEF CapturesReadable
  <2>1. newKey \in Passphrases
    BY DEF Readable, RotationKnown
  <2> QED BY <2>1 DEF Readable, CapturesReadable
<1> QED BY <1>1, <1>2, <1>3 DEF Readable

LEMMA RotationReadable == ASSUME Types, Readable, Rotation PROVE Readable'
<1>1. CASE RotateBegins
  <2>1. PICK from \in Sources, k \in Keys : LoadKey(from, k)
    BY <1>1 DEF RotateBegins
  <2>2. keyFile' = keyFile \/ keyFile = 0
    BY <2>1, LoadKeyEffect
  <2>3. /\ rpc = "idle" /\ UNCHANGED <<capture, touched, cut, tpc, tkey>>
        /\ todo' = {a \in Accounts : dir[a]} /\ overlap' = {t \in Threads : tpc[t] # "idle"}
        /\ \/ to' = "file" /\ rpc' = "unlink"
           \/ to' \in Passphrases /\ newKey' = to' /\ rpc' = "next"
    BY <1>1, Constants DEF RotateBegins, Sources
  <2>4. \A a \in Accounts \ todo' : capture'[a] = None
    BY <2>3 DEF Types, TypeOK
  <2>5. SavesKnown'
    BY <2>3 DEF SavesKnown
  <2>6. RotationKnown'
    BY <2>3, <2>4, Constants DEF RotationKnown
  <2>7. CapturesReadable'
    <3> SUFFICES ASSUME ~cut, NEW a \in Accounts \ touched, capture[a] # None
                 PROVE  capture[a].key \in Known'
      BY <2>3 DEF CapturesReadable, Known
    <3>1. capture[a].key \in Known
      BY <2>3 DEF Readable, CapturesReadable, Known
    <3>2. capture[a].key \in Keys \cup {Plain, None}
      BY DEF Types, TypeOK, Capture
    <3> QED BY <2>2, <3>1, <3>2, StaysKnown
  <2> QED BY <2>5, <2>6, <2>7 DEF Readable
<1>2. CASE RotateUnlinks \/ RotateNewKey
  <2>1. /\ rpc \in {"unlink", "newkey"} /\ to = "file"
        /\ rpc' # "idle" /\ UNCHANGED <<capture, touched, todo, to, tpc, overlap>>
    BY <1>2 DEF RotateUnlinks, RotateNewKey, Readable, RotationKnown
  <2>2. SavesKnown' /\ CapturesReadable'
    BY <2>1 DEF Readable, SavesKnown, CapturesReadable
  <2>3. \/ rpc' = "newkey"
        \/ rpc' = "next" /\ newKey' = keyFile' /\ keyFile' # 0
    <3>1. CASE RotateUnlinks
      BY <3>1 DEF RotateUnlinks
    <3>2. CASE RotateNewKey
      <4>1. PICK k \in Keys : LoadAutoKey(k) /\ newKey' = k /\ rpc' = "next"
        BY <3>2 DEF RotateNewKey
      <4>2. keys \in Nat
        BY Constants DEF Types, TypeOK
      <4> QED BY <4>1, <4>2 DEF LoadAutoKey
    <3> QED BY <1>2, <3>1, <3>2
  <2>4. RotationKnown'
    BY <2>1, <2>3 DEF Readable, RotationKnown
  <2> QED BY <2>2, <2>4 DEF Readable
<1>3. ASSUME NEW a \in Accounts, RotateReads(a) PROVE Readable'
  <2>1. /\ rpc = "next"
        /\ UNCHANGED <<capture, keyFile, to, newKey, tpc, tkey, overlap, touched>>
    BY <1>3 DEF RotateReads
  <2>2. CASE RotationOver("broken")
    BY <2>1, <2>2, OverReadable
  <2>3. CASE ~RotationOver("broken")
    <3>1. /\ rpc' \in {"next", "empty"} /\ cut' = cut
          /\ todo' = todo \/ (todo' = todo \ {a} /\ capture[a] = None)
      BY <1>3, <2>1, <2>3 DEF RotateReads
    <3> QED BY <2>1, <3>1, RotationFrame
  <2> QED BY <2>2, <2>3
<1>4. CASE RotateEmpties
  <2>1. /\ rpc = "empty" /\ at \in todo /\ at \in Accounts
        /\ UNCHANGED <<keyFile, to, newKey, tpc, tkey, overlap, touched>>
    BY <1>4 DEF RotateEmpties, Types, TypeOK
  <2>2. CASE capture' = [capture EXCEPT ![at] = Empty] /\ rpc' = "fill"
               /\ UNCHANGED <<todo, bufferVars, cut>>
    <3>1. \A a \in Accounts : IF a = at THEN a \in todo' /\ capture'[a].key = Plain
                              ELSE capture'[a] = capture[a]
      BY <2>1, <2>2 DEF Empty, Types, TypeOK
    <3>2. at' = at /\ capture'[at] = Empty
      BY <2>1, <2>2 DEF Types, TypeOK
    <3> QED BY <2>1, <2>2, <3>1, <3>2, RotationFrame
  <2>3. CASE RotationOver("broken") /\ UNCHANGED capture
    BY <2>1, <2>3, OverReadable
  <2> QED BY <1>4, <2>2, <2>3 DEF RotateEmpties
<1>5. CASE RotateFills
  <2>1. /\ rpc = "fill" /\ rpc' = "next" /\ at \in todo /\ at \in Accounts
        /\ todo' = todo \ {at}
        /\ UNCHANGED <<keyFile, to, newKey, tpc, tkey, overlap, touched, cut>>
        /\ Filling(at, [text |-> buffer, key |-> newKey])
        /\ [text |-> buffer, key |-> newKey] \in Capture
    BY <1>5 DEF RotateFills, Types, TypeOK, Capture
  <2>2. \A a \in Accounts \ {at} :
          capture'[a] = capture[a] /\ (a \in todo' \/ a \notin todo)
    BY <2>1, FillingEffect
  <2>3. \/ capture'[at] = capture[at] /\ capture[at] = None
        \/ capture'[at] # None /\ capture'[at].key = newKey
        \/ capture'[at] # None /\ at \in touched
    <3>1. CASE capture[at] = None
      BY <2>1, <3>1, FillingEffect
    <3>2. CASE capture[at] = Empty
      <4>1. capture'[at] = [text |-> buffer, key |-> newKey]
        BY <2>1, <3>2, FillingEffect
      <4> QED BY <2>1, <4>1, Constants
    <3>3. CASE capture[at] \notin {None, Empty}
      <4>1. at \in touched
        BY <2>1, <3>3 DEF Readable, RotationKnown
      <4>2. capture'[at] # None
        BY <2>1, <3>3, FillingEffect, EmptyIsCapture, Constants
      <4> QED BY <4>1, <4>2
    <3> QED BY <3>1, <3>2, <3>3
  <2> QED BY <2>1, <2>2, <2>3, RotationFrame
<1>6. CASE RotateEnds
  <2>1. /\ rpc = "next" /\ rpc' = "idle" /\ todo = {}
        /\ keyFile' = IF to = "file" THEN keyFile ELSE 0
        /\ UNCHANGED <<capture, tpc, tkey, overlap, touched>>
    BY <1>6 DEF RotateEnds, RotationOver
  <2>2. SavesKnown' /\ RotationKnown'
    BY <2>1 DEF Readable, SavesKnown, RotationKnown
  <2>3. CapturesReadable'
    <3>1. \A a \in Accounts \ touched : capture[a] = None \/ capture[a].key = newKey
      BY <2>1 DEF Readable, RotationKnown
    <3>2. newKey \in Passphrases \cup {keyFile'}
      BY <2>1 DEF Readable, RotationKnown
    <3> QED BY <2>1, <3>1, <3>2 DEF CapturesReadable
  <2> QED BY <2>2, <2>3 DEF Readable
<1>7. CASE RotateKilled
  BY <1>7, OverReadable DEF RotateKilled
<1> QED BY <1>1, <1>2, <1>3, <1>4, <1>5, <1>6, <1>7 DEF Rotation

\* Captures stay readable: whatever the server and any number of rotations do to the
\* files, and wherever they break off, each capture can be opened with a key at hand
\* (up to the exceptions CapturesReadable names).
THEOREM CapturesStayReadable == Spec => []CapturesReadable
<1>1. Init => Readable
  <2> SUFFICES ASSUME Init PROVE Readable
    OBVIOUS
  <2>1. SavesKnown /\ RotationKnown
    BY DEF Init, SavesKnown, RotationKnown
  <2>2. ASSUME NEW a \in Accounts, capture[a] # None
        PROVE  capture[a].key \in Passphrases \cup {Plain, keyFile}
    BY <2>2 DEF Init
  <2> QED BY <2>1, <2>2 DEF Readable, CapturesReadable
<1>2. Types /\ Readable /\ [Next]_vars => Readable'
  <2> SUFFICES ASSUME Types, Readable, UNCHANGED vars PROVE Readable'
    BY ServerReadable, RotationReadable DEF Next
  <2> QED BY DEF Readable, SavesKnown, RotationKnown, CapturesReadable, Known
<1>3. Readable => CapturesReadable
  BY DEF Readable
<1> QED BY <1>1, <1>2, <1>3, TypesHold, PTL DEF Spec

=============================================================================
