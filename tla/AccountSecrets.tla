--------------------------- MODULE AccountSecrets ---------------------------
(***************************************************************************)
(* The captures of the ChatGPT accounts: files encrypted at rest with a    *)
(* key file next to them or with a passphrase.  Threads of the server      *)
(* save, load and delete captures; `secrets rotate`, a process of its own, *)
(* moves all of them to another key.  Nothing locks the files, and a file  *)
(* is rewritten in place: emptied first, then filled.                      *)
(*                                                                         *)
(* A capture is the number of its text and the key it is encrypted with.   *)
(* What it says is left out, and so are the account's settings and its row *)
(* in the store, which no key protects; the settings only keep the         *)
(* account's directory from being removed.                                 *)
(***************************************************************************)
EXTENDS Integers, FiniteSets

CONSTANTS
    Accounts, Threads,
    Passphrases,    \* passphrases the operator may use: never lost
    None, Plain,    \* no capture, account or key; a capture that is not encrypted
    MaxSaves, MaxKeys, MaxRotations, MaxCrashes   \* bounds of the counters

ASSUME SecretsAssumption ==
    /\ IsFiniteSet(Accounts) /\ IsFiniteSet(Threads) /\ None \notin Accounts
    /\ "file" \notin Passphrases /\ Plain \notin Passphrases
    /\ None \notin Nat \cup Passphrases \cup {Plain}
    /\ None \notin [text : Nat, key : Nat \cup Passphrases \cup {Plain, None}]
    /\ {MaxSaves, MaxRotations, MaxCrashes} \subseteq Nat /\ MaxKeys \in Nat \ {0}

VARIABLES
    capture, dir,             \* the capture of an account, and its directory
    keyFile, keys,            \* number of the key in .master.key, 0 for none; keys made
    mode,                     \* key source of the server: "file" or a passphrase
    tpc, on, doc, tkey,       \* a thread of the server: its account, text and key
    rpc, to, oldKey, newKey,  \* the rotation: target source, keys
    todo, at, buffer,         \* profiles left, the one it is at and the text it read
    saves, rotations, crashes, \* bounded counters
    before, ended, cut,       \* captures when the rotation began; how it ended; a
                              \* rotation to a fresh key file has broken off
    changed, touched, overlap \* accounts written by the server since the rotation
                              \* began; those last written by a save beside another
                              \* writer; threads whose request overlaps a rotation

keyVars == <<keyFile, keys>>
threadVars == <<tpc, on, doc, tkey>>
bufferVars == <<at, buffer>>
targetVars == <<to, oldKey, newKey>>
rotateVars == <<rpc, targetVars, todo, bufferVars>>
countVars == <<saves, rotations, crashes>>
writeVars == <<changed, touched, overlap>>
ghostVars == <<before, ended, cut, writeVars>>
vars == <<capture, dir, keyVars, mode, threadVars, rotateVars, countVars, ghostVars>>

Text == 0 .. MaxSaves + 1
Keys == 1 .. MaxKeys \cup Passphrases
Capture == [text : Text, key : Keys \cup {Plain, None}]
Empty == [text |-> 0, key |-> Plain]
\* The end of a longer text after a shorter one: encrypted, but no key opens it.
Torn == [text |-> 0, key |-> None]
Sources == {"file"} \cup Passphrases

Init ==
    /\ keyFile \in {0, 1} /\ keys = keyFile
    /\ mode \in Sources
    /\ capture \in [Accounts -> {None} \cup
                     [text : {1}, key : {Plain} \cup (1 .. keyFile) \cup Passphrases]]
    /\ dir = [a \in Accounts |-> capture[a] # None]
    /\ tpc = [t \in Threads |-> "idle"] /\ on = [t \in Threads |-> None]
    /\ doc = [t \in Threads |-> 0] /\ tkey = [t \in Threads |-> Plain]
    /\ rpc = "idle" /\ to = "file" /\ oldKey = Plain /\ newKey = Plain
    /\ todo = {} /\ at = None /\ buffer = 0
    /\ saves = 0 /\ rotations = 0 /\ crashes = 0
    /\ before = capture /\ ended = "none" /\ cut = FALSE
    /\ changed = {} /\ touched = {} /\ overlap = {}

------------------------------------------------------------------------------
(* Keys *)

\* Reads the key file, made on first use.
LoadAutoKey(k) ==
    \/ keyFile # 0 /\ k = keyFile /\ UNCHANGED keyVars
    \/ /\ keyFile = 0 /\ keys < MaxKeys
       /\ k = keys + 1
       /\ keyFile' = k /\ keys' = k

\* load_secrets_key: a passphrase comes first, the key file last.
LoadKey(source, k) ==
    \/ source # "file" /\ k = source /\ UNCHANGED keyVars
    \/ source = "file" /\ LoadAutoKey(k)

------------------------------------------------------------------------------
(* The server *)

GoTo(t, step) == tpc' = [tpc EXCEPT ![t] = step]

\* The request of thread t is over.
Leaves(t) ==
    /\ GoTo(t, "idle")
    /\ on' = [on EXCEPT ![t] = None]
    /\ doc' = [doc EXCEPT ![t] = 0] /\ tkey' = [tkey EXCEPT ![t] = Plain]
    /\ overlap' = overlap \ {t}

\* A file that was emptied is filled.  One unlinked meanwhile is filled out of sight;
\* where another has filled it meanwhile, the end of a longer text may stay behind.
Filling(a, new) ==
    \/ capture[a] = None /\ UNCHANGED capture
    \/ capture[a] # None /\ capture' = [capture EXCEPT ![a] = new]
    \/ capture[a] \notin {None, Empty} /\ capture' = [capture EXCEPT ![a] = Torn]

\* The file of the account is written by thread t, alone or beside another.
Writes(t, alone) ==
    /\ changed' = changed \cup {on[t]}
    /\ touched' = IF alone THEN touched \ {on[t]} ELSE touched \cup {on[t]}

\* A capture that passed the inspection, or is forced, is going to be saved: its
\* directory and its key come first.
SaveBegins(t, a) ==
    /\ tpc[t] = "idle" /\ saves < MaxSaves
    /\ saves' = saves + 1
    /\ on' = [on EXCEPT ![t] = a]
    /\ doc' = [doc EXCEPT ![t] = saves' + 1]
    /\ dir' = [dir EXCEPT ![a] = TRUE]
    /\ \E k \in Keys : LoadKey(mode, k) /\ tkey' = [tkey EXCEPT ![t] = k]
    /\ overlap' = IF rpc = "idle" THEN overlap ELSE overlap \cup {t}
    /\ GoTo(t, "empty")
    /\ UNCHANGED <<capture, mode, rotateVars, rotations, crashes, before, ended, cut,
                   changed, touched>>

\* write_text opens the file, which empties it.
SaveEmpties(t) ==
    /\ tpc[t] = "empty" /\ dir[on[t]]
    /\ capture' = [capture EXCEPT ![on[t]] = Empty]
    /\ Writes(t, t \notin overlap) /\ GoTo(t, "fill")
    /\ UNCHANGED <<dir, keyVars, mode, on, doc, tkey, rotateVars, countVars, before,
                   ended, cut, overlap>>

\* The settings, when given, are saved beside the capture, which makes the directory
\* again.
SaveFills(t) ==
    /\ tpc[t] = "fill"
    /\ Filling(on[t], [text |-> doc[t], key |-> tkey[t]])
    /\ \/ UNCHANGED dir
       \/ dir' = [dir EXCEPT ![on[t]] = TRUE]
    /\ Writes(t, t \notin overlap /\ capture[on[t]] \in {None, Empty}) /\ Leaves(t)
    /\ UNCHANGED <<keyVars, mode, rotateVars, countVars, before, ended, cut>>

\* A request, a check or the usage page opens an encrypted capture: the key is
\* loaded after the file was read, and made if it is gone.  With another key than
\* the capture's the load is an error.
LoadReads(t, a) ==
    /\ tpc[t] = "idle" /\ capture[a] # None /\ capture[a].key # Plain
    /\ on' = [on EXCEPT ![t] = a]
    /\ GoTo(t, "loadkey")
    /\ UNCHANGED <<capture, dir, keyVars, mode, doc, tkey, rotateVars, countVars, ghostVars>>

LoadKeyAfter(t) ==
    /\ tpc[t] = "loadkey"
    /\ \E k \in Keys : LoadKey(mode, k)
    /\ Leaves(t)
    /\ UNCHANGED <<capture, dir, mode, rotateVars, countVars, before, ended, cut,
                   changed, touched>>

\* An account is deleted, capture and settings as asked for ...
DeleteBegins(t, a) ==
    /\ tpc[t] = "idle" /\ dir[a]
    /\ on' = [on EXCEPT ![t] = a]
    /\ capture' \in {capture, [capture EXCEPT ![a] = None]}
    /\ changed' = changed \cup {a}
    /\ GoTo(t, "delete")
    /\ UNCHANGED <<dir, keyVars, mode, doc, tkey, rotateVars, countVars, before, ended, cut,
                   touched, overlap>>

\* ... then the directory goes, if neither is left in it.
DeleteEnds(t) ==
    /\ tpc[t] = "delete"
    /\ \/ UNCHANGED dir
       \/ capture[on[t]] = None /\ dir' = [dir EXCEPT ![on[t]] = FALSE]
    /\ Leaves(t)
    /\ UNCHANGED <<capture, keyVars, mode, rotateVars, countVars, before, ended, cut,
                   changed, touched>>

\* A step of a request may fail, as it must when its directory is gone.
Fails(t) ==
    /\ tpc[t] # "idle"
    /\ Leaves(t)
    /\ UNCHANGED <<capture, dir, keyVars, mode, rotateVars, countVars, before, ended, cut,
                   changed, touched>>

\* The server goes down and comes back, possibly with another key source.
Restart ==
    /\ crashes < MaxCrashes
    /\ crashes' = crashes + 1
    /\ tpc' = [t \in Threads |-> "idle"] /\ on' = [t \in Threads |-> None]
    /\ doc' = [t \in Threads |-> 0] /\ tkey' = [t \in Threads |-> Plain]
    /\ overlap' = {}
    /\ mode' \in Sources
    /\ UNCHANGED <<capture, dir, keyVars, rotateVars, saves, rotations, before, ended, cut,
                   changed, touched>>

------------------------------------------------------------------------------
(* secrets rotate *)

\* The old key is loaded and the profiles are listed.  Towards a passphrase the
\* new key is known at once, otherwise the old key file is removed first.
RotateBegins ==
    /\ rpc = "idle" /\ rotations < MaxRotations
    /\ rotations' = rotations + 1
    /\ \E from \in Sources, k \in Keys : LoadKey(from, k) /\ oldKey' = k
    /\ todo' = {a \in Accounts : dir[a]} /\ todo' # {}
    /\ to' \in Sources
    /\ newKey' = IF to' = "file" THEN Plain ELSE to'
    /\ rpc' = IF to' = "file" THEN "unlink" ELSE "next"
    /\ before' = capture /\ ended' = "none" /\ changed' = {}
    /\ overlap' = {t \in Threads : tpc[t] # "idle"}
    /\ UNCHANGED <<capture, dir, mode, threadVars, bufferVars, saves, crashes, cut, touched>>

RotateUnlinks ==
    /\ rpc = "unlink"
    /\ keyFile' = 0
    /\ rpc' = "newkey"
    /\ UNCHANGED <<capture, dir, keys, mode, threadVars, targetVars, todo, bufferVars,
                   countVars, ghostVars>>

RotateNewKey ==
    /\ rpc = "newkey"
    /\ \E k \in Keys : LoadAutoKey(k) /\ newKey' = k
    /\ rpc' = "next"
    /\ UNCHANGED <<capture, dir, mode, threadVars, to, oldKey, todo, bufferVars, countVars,
                   ghostVars>>

\* The rotation is over; towards a fresh key file, breaking off is final.
RotationOver(how) ==
    /\ rpc' = "idle" /\ ended' = how
    /\ cut' = (cut \/ (how = "broken" /\ to = "file"))
    /\ todo' = {} /\ at' = None /\ buffer' = 0

\* The rotation can read the capture of account a.
Opens(a) == capture[a] # None /\ capture[a].key \in {Plain, oldKey}

\* A mutant of RotateReads: a capture that the old key does not open is skipped.
RotateReadsOrSkips(a) ==
    /\ rpc = "next" /\ a \in todo
    /\ \/ ~Opens(a) /\ todo' = todo \ {a} /\ UNCHANGED <<rpc, bufferVars>>
       \/ /\ Opens(a)
          /\ at' = a /\ buffer' = capture[a].text /\ rpc' = "empty"
          /\ UNCHANGED todo
    /\ UNCHANGED <<capture, dir, keyVars, mode, threadVars, targetVars, countVars,
                   ghostVars>>

\* The next capture: none, one that the old key opens, or one that it does not,
\* which ends the command.
RotateReads(a) ==
    /\ rpc = "next" /\ a \in todo
    /\ \/ /\ capture[a] = None
          /\ todo' = todo \ {a} /\ UNCHANGED <<rpc, bufferVars, ended, cut>>
       \/ /\ Opens(a)
          /\ at' = a /\ buffer' = capture[a].text /\ rpc' = "empty"
          /\ UNCHANGED <<todo, ended, cut>>
       \/ capture[a] # None /\ ~Opens(a) /\ RotationOver("broken")
    /\ UNCHANGED <<capture, dir, keyVars, mode, threadVars, targetVars, countVars, before,
                   writeVars>>

\* The file is opened for writing, and made again if it was deleted in between;
\* without its directory the command ends.
RotateEmpties ==
    /\ rpc = "empty"
    /\ \/ /\ dir[at]
          /\ capture' = [capture EXCEPT ![at] = Empty] /\ rpc' = "fill"
          /\ UNCHANGED <<todo, bufferVars, ended, cut>>
       \/ ~dir[at] /\ RotationOver("broken") /\ UNCHANGED capture
    /\ UNCHANGED <<dir, keyVars, mode, threadVars, targetVars, countVars, before, writeVars>>

RotateFills ==
    /\ rpc = "fill"
    /\ Filling(at, [text |-> buffer, key |-> newKey])
    /\ todo' = todo \ {at} /\ at' = None /\ buffer' = 0
    /\ rpc' = "next"
    /\ UNCHANGED <<dir, keyVars, mode, threadVars, targetVars, countVars, ghostVars>>

\* A mutant of RotateEnds: the key file goes wherever the rotation went.
RotateEndsWithoutKey ==
    /\ rpc = "next" /\ todo = {}
    /\ keyFile' = 0
    /\ RotationOver("done")
    /\ UNCHANGED <<capture, dir, keys, mode, threadVars, targetVars, countVars, before,
                   writeVars>>

\* Towards a passphrase the key file goes when every capture has been written.
RotateEnds ==
    /\ rpc = "next" /\ todo = {}
    /\ keyFile' = IF to = "file" THEN keyFile ELSE 0
    /\ RotationOver("done")
    /\ UNCHANGED <<capture, dir, keys, mode, threadVars, targetVars, countVars, before,
                   writeVars>>

\* The command is killed, or a file operation of its own fails.
RotateKilled ==
    /\ rpc # "idle" /\ crashes < MaxCrashes
    /\ crashes' = crashes + 1
    /\ RotationOver("broken")
    /\ UNCHANGED <<capture, dir, keyVars, mode, threadVars, targetVars, saves, rotations,
                   before, writeVars>>

------------------------------------------------------------------------------
Server ==
    \/ \E t \in Threads, a \in Accounts :
        SaveBegins(t, a) \/ LoadReads(t, a) \/ DeleteBegins(t, a)
    \/ \E t \in Threads :
        \/ SaveEmpties(t) \/ SaveFills(t) \/ LoadKeyAfter(t) \/ DeleteEnds(t) \/ Fails(t)
    \/ Restart

Rotation ==
    \/ RotateBegins \/ RotateUnlinks \/ RotateNewKey
    \/ \E a \in Accounts : RotateReads(a)
    \/ RotateEmpties \/ RotateFills \/ RotateEnds \/ RotateKilled

Next == Server \/ Rotation
Spec == Init /\ [][Next]_vars

------------------------------------------------------------------------------
\* Types, and what ties the files and the two programs' locals together: a capture
\* has a directory, a rotation at work on a capture has it still to do.
TypeOK ==
    /\ capture \in [Accounts -> {None} \cup Capture]
    /\ dir \in [Accounts -> BOOLEAN] /\ \A a \in Accounts : capture[a] # None => dir[a]
    /\ keys \in 0 .. MaxKeys /\ keyFile \in 0 .. keys
    /\ mode \in Sources /\ to \in Sources
    /\ \A t \in Threads : /\ doc[t] \in Text /\ tkey[t] \in Keys \cup {Plain}
                          /\ IF tpc[t] = "idle" THEN on[t] = None ELSE on[t] \in Accounts
    /\ oldKey \in Keys \cup {Plain} /\ newKey \in Keys \cup {Plain}
    /\ todo \subseteq Accounts /\ buffer \in Text
    /\ IF rpc \in {"empty", "fill"} THEN at \in todo ELSE at = None
    /\ rpc \in {"idle", "unlink", "newkey", "next", "empty", "fill"}

\* Accounts whose capture the rotation found and that no longer hold its text
\* although no request of the server has written or deleted them since.
Lost ==
    {a \in Accounts \ changed :
        before[a] # None /\ (capture[a] = None \/ capture[a].text # before[a].text)}

\* A rotation carries every capture over: when it has ended well, each capture
\* that no request has written or deleted since says what it said, under the new
\* key (and an account without one still has none).  Broken off anywhere, killed
\* or stopped by a capture it cannot open, it has lost the text of one capture at
\* most, the one it was writing: cmd_secrets_rotate and encrypt_or_reencrypt_file.
RotationKeepsCaptures ==
    /\ Cardinality(Lost) <= 1
    /\ Lost # {} => ended = "broken" \/ (rpc = "fill" /\ Lost = {at})
    /\ ended = "done" =>
        \A a \in Accounts \ changed :
            IF before[a] = None THEN capture[a] = None ELSE capture[a].key = newKey

\* Every capture can be opened with a passphrase of the operator's or with the key
\* file as it is, whatever the server and a rotation have done to the files and
\* wherever the rotation broke off: the old key file goes only when nothing needs
\* it.  Two things the code does not promise are left out: captures written by a
\* save that overlapped a rotation or another save of the same capture, which may
\* be torn, and rotations to a fresh key file that are under way or have broken off,
\* since those remove the old key first.
CapturesReadable ==
    ~cut /\ (rpc = "idle" \/ to # "file") =>
        \A a \in Accounts \ touched :
            \/ capture[a] = None
            \/ capture[a].key \in Passphrases \cup {Plain, keyFile}
=============================================================================
