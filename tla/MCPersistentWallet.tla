-------------------------- MODULE MCPersistentWallet --------------------------
(***************************************************************************)
(* Two paths and two nonces besides 0, which are interchangeable.  Both    *)
(* wallets have the same credentials, so that only what is bound to a      *)
(* wallet tells their backups apart.                                       *)
(***************************************************************************)
EXTENDS PersistentWallet, TLC

CONSTANTS a, b, n1, n2

MCCredentials == {[identity |-> "provider", passphrase |-> "secret"]}
MCNonces == {0, n1, n2}
MCSymmetry ==
    Permutations({a, b}) \cup Permutations({n1, n2})
=============================================================================
