---------------------------- MODULE WalletCatalog ----------------------------
(***************************************************************************)
(* The wallet database of the provider: one redb file that holds the       *)
(* encrypted keystore and an append-only catalog of every locator issued,  *)
(* and the backup artifact exported from it.                               *)
(*                                                                         *)
(* The catalog table maps a nonce to a revision and a locator.  The stored *)
(* checkpoint is a chain of tags under the wallet's key, a root and one    *)
(* link for each entry; it is modelled by the sequence of those links.     *)
(***************************************************************************)
EXTENDS RfqWallet

CONSTANTS MaxCatalogEntries      \* MAX_WALLET_CATALOG_ENTRIES

ASSUME CatalogAssumption == MaxCatalogEntries \in Nat

-----------------------------------------------------------------------------
(* The authenticated catalog *)

KeystoreDigest(envelope) == <<"sha256", envelope>>

Entry(revision, locator) == [revision |-> revision, locator |-> locator]

\* A mutant: the chain counts the entries and forgets which they are.
CountingLink(w, revision, locator) == Tag(w, "catalog-entry", <<revision>>)

\* What one more link of the chain authenticates.
EntryLink(w, revision, locator) == Tag(w, "catalog-entry", <<revision, locator>>)

RootCheckpoint(w, envelope) ==
    <<Tag(w, "catalog-root", <<w.identity, w.walletId, KeystoreDigest(envelope)>>)>>

EntryCheckpoint(w, previous, revision, locator) == Append(previous, EntryLink(w, revision, locator))

\* The checkpoint of a whole catalog: the root, then a link for each entry.
RecomputeCheckpoint(w, envelope, entries) ==
    [n \in 1..Len(entries) + 1 |->
        IF n = 1 THEN RootCheckpoint(w, envelope)[1]
        ELSE EntryLink(w, entries[n - 1].revision, entries[n - 1].locator)]

-----------------------------------------------------------------------------
(* The database file *)

\* The catalog rows of a list of entries, keyed by nonce.
Rows(entries) ==
    [nonce \in {entries[i].locator.nonce : i \in DOMAIN entries} |->
        CHOOSE e \in {entries[i] : i \in DOMAIN entries} : e.locator.nonce = nonce]

InitializeDatabase(w, envelope, entries, checkpoint) ==
    When(/\ Len(entries) <= MaxCatalogEntries
         /\ \A i, j \in DOMAIN entries : entries[i].locator.nonce = entries[j].locator.nonce => i = j,
         [identity |-> w.identity, walletId |-> w.walletId, envelope |-> envelope,
          digest |-> KeystoreDigest(envelope), revision |-> Len(entries),
          checkpoint |-> checkpoint, catalog |-> Rows(entries)])

LoadEnvelope(db, identity) ==
    When(db.identity = identity /\ db.digest = KeystoreDigest(db.envelope), db.envelope)

\* The rows sorted by revision, where revisions are unique and contiguous.
SortedEntries(db) ==
    [r \in 1..db.revision |-> CHOOSE e \in {db.catalog[n] : n \in DOMAIN db.catalog} : e.revision = r]

\* Each row authenticates under the wallet and is filed under its own nonce.
RowsAreAuthentic(w, db) ==
    \A n \in DOMAIN db.catalog :
        \E d \in DecodeLocator(w, db.catalog[n].locator) : d.nonce = n

RevisionsAreContiguous(db) ==
    /\ \A m, n \in DOMAIN db.catalog : db.catalog[m].revision = db.catalog[n].revision => m = n
    /\ {db.catalog[n].revision : n \in DOMAIN db.catalog} = 1..db.revision

ReadAndValidateState(w, db) ==
    When(/\ db.identity = w.identity /\ db.walletId = w.walletId
         /\ db.digest = KeystoreDigest(db.envelope)
         /\ db.revision <= MaxCatalogEntries
         /\ RowsAreAuthentic(w, db)
         /\ RevisionsAreContiguous(db)
         /\ db.checkpoint = RecomputeCheckpoint(w, db.envelope, SortedEntries(db)),
         [envelope |-> db.envelope, revision |-> db.revision,
          checkpoint |-> db.checkpoint, entries |-> SortedEntries(db)])

ValidateDatabase(w, db, envelope) ==
    \E state \in ReadAndValidateState(w, db) : state.envelope = envelope

-----------------------------------------------------------------------------
(* Backups *)

EncodeBackup(w, state) ==
    [identity |-> w.identity, walletId |-> w.walletId, revision |-> state.revision,
     envelope |-> state.envelope, checkpoint |-> state.checkpoint,
     locators |-> [i \in DOMAIN state.entries |-> state.entries[i].locator]]

\* The structural checks that need no key.
ParseBackup(backup) ==
    When(/\ backup.walletId # 0
         /\ backup.revision = Len(backup.locators)
         /\ backup.revision <= MaxCatalogEntries,
         backup)

ValidateBackupCatalog(w, envelope, backup) ==
    LET entries == [i \in DOMAIN backup.locators |-> Entry(i, backup.locators[i])] IN
    When(/\ \A i \in DOMAIN entries : DecodeLocator(w, entries[i].locator) # {}
         /\ \A i, j \in DOMAIN entries : entries[i].locator.nonce = entries[j].locator.nonce => i = j
         /\ RecomputeCheckpoint(w, envelope, entries) = backup.checkpoint,
         entries)
=============================================================================
