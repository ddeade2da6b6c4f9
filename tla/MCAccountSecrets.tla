-------------------------- MODULE MCAccountSecrets --------------------------
(* Two accounts, a thread of the server, a passphrase and two rotations.      *)
EXTENDS AccountSecrets, TLC

CONSTANTS a1, a2, t1, p1
MCAccounts == {a1, a2}
MCThreads == {t1}
MCPassphrases == {p1}
Symmetry == Permutations(MCAccounts)
=============================================================================
