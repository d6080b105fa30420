--------------------------- MODULE PersistentWallet ---------------------------
(***************************************************************************)
(* PersistentRfqWallet: wallet databases in one directory, the handles     *)
(* processes hold on them, and the backups exported from them.             *)
(*                                                                         *)
(* A database is staged under a temporary name, published without          *)
(* replacing the target, and confirmed by syncing the directory; a kill or *)
(* an error may come between any two of these steps.  A power loss undoes  *)
(* a directory entry that was not synced.  A commit of redb is atomic, and *)
(* durable when it reports success; when it reports failure it may have    *)
(* happened or not.  A restore reads whatever the operator kept, which may *)
(* mix or disorder what was exported.                                      *)
(***************************************************************************)
EXTENDS WalletCatalog

CONSTANTS Paths,           \* target paths in the wallet directory
          Credentials,     \* the [identity, passphrase] operators present
          IssuePurposes,   \* the purposes destinations are asked for
          Nonces,          \* values of the random nonce, 0 included
          MaxFiles, MaxHandles, MaxBackups, MaxRows    \* bounds of the instance

ASSUME WalletAssumption == 0 \in Nonces /\ IssuePurposes \subseteq Purposes

VARIABLES disk,        \* the database files, by inode number
          dir,         \* the inode a path names, 0 if none
          synced,      \* what dir is after a power loss, if that came now
          handles,     \* the databases held open, each under its file lock
          exported,    \* the backups exported so far
          returned,    \* history: the destinations returned from each file
          confirmed    \* history: the <<path, inode>> whose creation succeeded

vars == <<disk, dir, synced, handles, exported, returned, confirmed>>

Init ==
    /\ disk = <<>> /\ returned = <<>>
    /\ dir = [p \in Paths |-> 0] /\ synced = dir
    /\ handles = {} /\ exported = {} /\ confirmed = {}

Locked(inode) == \E h \in handles : h.inode = inode

Handle(step, path, inode, wallet) ==
    [step |-> step, path |-> path, inode |-> inode, wallet |-> wallet, poisoned |-> FALSE]

-----------------------------------------------------------------------------
(* Creation and restoration *)

\* create_staging_database, initialize_database, validate_database.
Stage(path, w, envelope, entries, checkpoint) ==
    /\ Len(disk) < MaxFiles /\ Cardinality(handles) < MaxHandles
    /\ dir[path] = 0
    /\ \E db \in InitializeDatabase(w, envelope, entries, checkpoint) :
          /\ ValidateDatabase(w, db, envelope)
          /\ disk' = Append(disk, db)
          /\ returned' = Append(returned, <<>>)
          /\ handles' = handles \cup {Handle("staged", path, Len(disk) + 1, w)}
    /\ UNCHANGED <<dir, synced, exported, confirmed>>

\* A new wallet draws fresh entropy and a fresh wallet id.
Create(path, identity, passphrase) ==
    \E envelope \in Seal(identity, passphrase, Len(disk) + 1, Len(disk) + 1) :
    \E w \in Unlock(envelope, identity, passphrase) :
        Stage(path, w, envelope, <<>>, RootCheckpoint(w, envelope))

Restore(path, identity, passphrase, backup) ==
    \E parsed \in ParseBackup(backup) :
        /\ parsed.identity = identity
        /\ \E w \in Unlock(parsed.envelope, identity, passphrase) :
              /\ w.walletId = parsed.walletId
              /\ \E entries \in ValidateBackupCatalog(w, parsed.envelope, parsed) :
                    Stage(path, w, parsed.envelope, entries, parsed.checkpoint)

\* What an operator may hold: parts of exported backups, in some order.
Reversed(s) == [i \in 1 .. Len(s) |-> s[Len(s) + 1 - i]]

LocatorLists ==
    UNION {{b.locators, Reversed(b.locators), SubSeq(b.locators, 1, Len(b.locators) - 1)} : b \in exported}

Spliced(a, c, s) == [a EXCEPT !.locators = s, !.revision = Len(s), !.checkpoint = c.checkpoint]

Artifacts == {Spliced(a, c, s) : a \in exported, c \in exported, s \in LocatorLists}

\* persist_noclobber: the file gets its name unless the name is taken.
Publish(h) ==
    /\ h.step = "staged"
    /\ IF dir[h.path] = 0
       THEN /\ dir' = [dir EXCEPT ![h.path] = h.inode]
            /\ handles' = (handles \ {h}) \cup {[h EXCEPT !.step = "linked"]}
       ELSE /\ handles' = handles \ {h}
            /\ dir' = dir
    /\ UNCHANGED <<disk, synced, exported, returned, confirmed>>

\* The inode check, the directory sync and the last validation.
Confirm(h) ==
    /\ h.step = "linked"
    /\ dir[h.path] = h.inode
    /\ ValidateDatabase(h.wallet, disk[h.inode], disk[h.inode].envelope)
    /\ synced' = dir
    /\ handles' = (handles \ {h}) \cup {[h EXCEPT !.step = "open"]}
    /\ confirmed' = confirmed \cup {<<h.path, h.inode>>}
    /\ UNCHANGED <<disk, dir, exported, returned>>

\* PublishedButUnconfirmed: the caller learns nothing about the sync.
ConfirmFails(h) ==
    /\ h.step = "linked"
    /\ synced' \in {synced, dir}
    /\ handles' = handles \ {h}
    /\ UNCHANGED <<disk, dir, exported, returned, confirmed>>

Open(path, identity, passphrase) ==
    /\ Cardinality(handles) < MaxHandles
    /\ dir[path] # 0 /\ ~ Locked(dir[path])
    /\ \E envelope \in LoadEnvelope(disk[dir[path]], identity) :
       \E w \in Unlock(envelope, identity, passphrase) :
          /\ ValidateDatabase(w, disk[dir[path]], envelope)
          /\ handles' = handles \cup {Handle("open", path, dir[path], w)}
    /\ UNCHANGED <<disk, dir, synced, exported, returned, confirmed>>

-----------------------------------------------------------------------------
(* Use of an open wallet *)

Healthy(h) == h.step = "open" /\ ~ h.poisoned

\* A mutant: only the same locator is refused, not the same nonce.
NewLocator(db, nonce, locator) == \A n \in DOMAIN db.catalog : db.catalog[n].locator # locator

NewNonce(db, nonce, locator) == nonce \notin DOMAIN db.catalog

\* The write of issue_destination: the row, the revision and the checkpoint.
Issued(db, w, nonce, locator) ==
    LET revision == db.revision + 1 IN
    [db EXCEPT !.revision = revision,
               !.checkpoint = EntryCheckpoint(w, @, revision, locator),
               !.catalog = [n \in DOMAIN @ \cup {nonce} |->
                               IF n = nonce THEN Entry(revision, locator) ELSE @[n]]]

Written(h, nonce, locator) == [disk EXCEPT ![h.inode] = Issued(@, h.wallet, nonce, locator)]

\* The random nonces whose candidate destination passes the catalog checks.
FreshNonces(h, purpose) ==
    {nonce \in Nonces \ {0} :
        /\ NewNonce(disk[h.inode], nonce, EncodeLocator(h.wallet, purpose, nonce))
        /\ disk[h.inode].revision < MaxCatalogEntries
        /\ SumOver(DOMAIN disk, LAMBDA f : disk[f].revision) < MaxRows}

Issue(h, purpose) ==
    /\ Healthy(h)
    /\ \E nonce \in FreshNonces(h, purpose) :
       \E d \in DestinationForLocator(h.wallet, EncodeLocator(h.wallet, purpose, nonce)) :
          /\ disk' = Written(h, nonce, d.locator)
          /\ returned' = [returned EXCEPT ![h.inode] = Append(@, d)]
    /\ UNCHANGED <<dir, synced, handles, exported, confirmed>>

\* The commit reports failure: the handle is poisoned, the row may be there.
IssueFails(h, purpose) ==
    /\ Healthy(h)
    /\ \E nonce \in FreshNonces(h, purpose) :
       \E d \in DestinationForLocator(h.wallet, EncodeLocator(h.wallet, purpose, nonce)) :
          disk' \in {disk, Written(h, nonce, d.locator)}
    /\ handles' = (handles \ {h}) \cup {[h EXCEPT !.poisoned = TRUE]}
    /\ UNCHANGED <<dir, synced, exported, returned, confirmed>>

ExportBackup(h) ==
    /\ Healthy(h)
    /\ \E state \in ReadAndValidateState(h.wallet, disk[h.inode]) :
          exported' = exported \cup {EncodeBackup(h.wallet, state)}
    /\ Cardinality(exported') <= MaxBackups
    /\ UNCHANGED <<disk, dir, synced, handles, returned, confirmed>>

\* The handle is dropped, by its owner, by an error or by a kill.
Close(h) ==
    /\ handles' = handles \ {h}
    /\ UNCHANGED <<disk, dir, synced, exported, returned, confirmed>>

\* The machine stops.  Of each entry that was not synced, either value is left.
PowerLoss ==
    /\ handles' = {}
    /\ dir' \in {d \in [Paths -> 0..Len(disk)] : \A p \in Paths : d[p] \in {dir[p], synced[p]}}
    /\ synced' = dir'
    /\ UNCHANGED <<disk, exported, returned, confirmed>>

Next ==
    \/ \E p \in Paths, c \in Credentials :
          \/ Create(p, c.identity, c.passphrase)
          \/ Open(p, c.identity, c.passphrase)
          \/ Len(disk) < MaxFiles /\ \E backup \in Artifacts : Restore(p, c.identity, c.passphrase, backup)
    \/ \E h \in handles :
          \/ Publish(h) \/ Confirm(h) \/ ConfirmFails(h) \/ ExportBackup(h) \/ Close(h)
          \/ \E purpose \in IssuePurposes : Issue(h, purpose) \/ IssueFails(h, purpose)
    \/ PowerLoss

Spec == Init /\ [][Next]_vars

-----------------------------------------------------------------------------
(* Properties *)

\* A confirmed database keeps its name: no creation replaces it and no power
\* loss takes it away.
ConfirmedFilesStay ==
    \A c \in confirmed : dir[c[1]] = c[2] /\ synced[c[1]] = c[2]

\* What a file holds opens under the credentials that sealed it.
Reopens(db) ==
    /\ LoadEnvelope(db, db.identity) = {db.envelope}
    /\ \A w \in Unlock(db.envelope, db.identity, db.envelope.opensWith) : ValidateDatabase(w, db, db.envelope)

\* What was returned from a file is in it, once, and is derived again from it.
Survives(db, given) ==
    /\ \A i, j \in DOMAIN given : given[i].locator.nonce = given[j].locator.nonce => i = j
    /\ \A i \in DOMAIN given :
          \E n \in DOMAIN db.catalog :
              /\ db.catalog[n].locator = given[i].locator
              /\ \A w \in Unlock(db.envelope, db.identity, db.envelope.opensWith) :
                    DestinationForLocator(w, db.catalog[n].locator) = {given[i]}

\* Every destination issue_destination ever returned survives: it is a row of
\* its database, no nonce was returned twice from one database whatever
\* purposes were asked for and whatever commits were ambiguous, the database
\* validates when it is opened again, the wallet it opens to derives the very
\* destination from the row, and a confirmed database keeps its name through
\* racing creations, kills and power losses.
DestinationsSurvive ==
    /\ ConfirmedFilesStay
    /\ \A f \in DOMAIN disk : Reopens(disk[f]) /\ Survives(disk[f], returned[f])

BeginsWith(t, s) == Len(s) <= Len(t) /\ s = SubSeq(t, 1, Len(s))

NewFilesAreExact ==
    \A f \in DOMAIN disk' \ DOMAIN disk :
        \/ disk'[f].revision = 0
        \/ \E g \in DOMAIN disk :
              /\ disk[g].envelope = disk'[f].envelope /\ disk[g].identity = disk'[f].identity
              /\ BeginsWith(SortedEntries(disk[g]), SortedEntries(disk'[f]))

\* Whatever artifact restore is given, the catalog it stages is a prefix of
\* the catalog of a database of the same wallet, in the order of issuance:
\* an edited, shortened or disordered backup is refused.
RestoresAreExact == [][NewFilesAreExact]_vars
=============================================================================
