----------------------- MODULE PersistentWalletProofs -----------------------
(***************************************************************************)
(* The two properties of the wallet directory, for any directory, nonces,  *)
(* credentials and number of files: no returned destination is lost, and   *)
(* only exact backups are restored.  They rest on lemmas about a wallet    *)
(* database: what validation accepts, what sorting its rows gives, what    *)
(* its checkpoint determines, and that a destination issued under a new    *)
(* nonce leaves it valid.                                                  *)
(***************************************************************************)
EXTENDS PersistentWallet, TLAPS

-----------------------------------------------------------------------------
(* Sequences of anything *)

\* s is a sequence, whatever its elements are.
IsSeq(s) == \E n \in Nat : s = [i \in 1..n |-> s[i]]

\* A sequence is a function on 1..Len.
LEMMA SeqFacts ==
    ASSUME NEW s, IsSeq(s)
    PROVE  /\ Len(s) \in Nat
           /\ DOMAIN s = 1..Len(s)
           /\ s = [i \in 1..Len(s) |-> s[i]]
           /\ s \in Seq({s[i] : i \in DOMAIN s})
  <1>1. PICK n \in Nat : s = [i \in 1..n |-> s[i]] BY DEF IsSeq
  <1>2. DOMAIN s = 1..n BY <1>1
  <1> DEFINE T == {s[i] : i \in DOMAIN s}
  <1>3. s \in [1..n -> T] BY <1>1, <1>2
  <1> HIDE DEF T
  <1>4. s \in Seq(T) BY <1>3
  <1>5. Len(s) = n BY <1>3
  <1>6. QED BY <1>1, <1>2, <1>4, <1>5 DEF T

\* A function on 1..n is a sequence of length n.
LEMMA SeqOfLen ==
    ASSUME NEW s, NEW n \in Nat, s = [i \in 1..n |-> s[i]]
    PROVE  IsSeq(s) /\ Len(s) = n
  <1>1. IsSeq(s) BY DEF IsSeq
  <1>2. DOMAIN s = 1..n /\ DOMAIN s = 1..Len(s) /\ Len(s) \in Nat BY <1>1, SeqFacts
  <1>3. QED BY <1>1, <1>2

\* What Append does to a sequence of anything.
LEMMA AppendFacts ==
    ASSUME NEW s, IsSeq(s), NEW x
    PROVE  /\ IsSeq(Append(s, x))
           /\ Len(Append(s, x)) = Len(s) + 1
           /\ Append(s, x)[Len(s) + 1] = x
           /\ \A i \in 1..Len(s) : Append(s, x)[i] = s[i]
           /\ DOMAIN Append(s, x) = 1..Len(s) + 1
  <1> DEFINE S == {s[i] : i \in DOMAIN s} \cup {x}
  <1>1. s \in Seq(S) /\ x \in S /\ Len(s) \in Nat
    <2>1. s \in Seq({s[i] : i \in DOMAIN s}) /\ Len(s) \in Nat BY SeqFacts
    <2>2. {s[i] : i \in DOMAIN s} \subseteq S OBVIOUS
    <2>3. s \in Seq(S) BY <2>1, <2>2
    <2>4. QED BY <2>1, <2>3
  <1> HIDE DEF S
  <1>2. /\ Append(s, x) \in Seq(S)
        /\ Len(Append(s, x)) = Len(s) + 1
        /\ Append(s, x)[Len(s) + 1] = x
        /\ \A i \in 1..Len(s) : Append(s, x)[i] = s[i]
    BY <1>1
  <1> DEFINE t == Append(s, x)
  <1> HIDE DEF t
  <1>3. t \in Seq(S) /\ Len(t) = Len(s) + 1 BY <1>2 DEF t
  <1>4. DOMAIN t = 1..Len(t) /\ t \in [1..Len(t) -> S] BY <1>3
  <1>5. t = [i \in 1..Len(s) + 1 |-> t[i]] BY <1>3, <1>4
  <1>6. IsSeq(t) BY <1>1, <1>5 DEF IsSeq
  <1>7. QED BY <1>2, <1>3, <1>4, <1>6 DEF t

Replaced(s, k, x) == [s EXCEPT ![k] = x]

\* Replacing an element keeps a sequence.
LEMMA ExceptFacts ==
    ASSUME NEW s, IsSeq(s), NEW k \in 1..Len(s), NEW x, NEW t, t = Replaced(s, k, x)
    PROVE  /\ IsSeq(t) /\ Len(t) = Len(s)
           /\ t[k] = x
           /\ \A i \in 1..Len(s) : i # k => t[i] = s[i]
  <1>1. Len(s) \in Nat /\ DOMAIN s = 1..Len(s) BY SeqFacts
  <1>2. t = [i \in 1..Len(s) |-> t[i]] BY <1>1, Zenon DEF Replaced
  <1>3. IsSeq(t) /\ Len(t) = Len(s) BY <1>1, <1>2, SeqOfLen, Zenon
  <1>4. QED BY <1>1, <1>3 DEF Replaced

\* A sequence in Seq(S) is one in the sense used here.
LEMMA SeqIsSeq ==
    ASSUME NEW S, NEW s \in Seq(S)
    PROVE  IsSeq(s)
  <1>1. Len(s) \in Nat /\ s \in [1..Len(s) -> S] OBVIOUS
  <1>2. s = [i \in 1..Len(s) |-> s[i]] BY <1>1
  <1>3. QED BY <1>1, <1>2 DEF IsSeq

\* What SubSeq keeps of the beginning of a sequence.
LEMMA SubSeqFacts ==
    ASSUME NEW s, IsSeq(s), NEW n \in Int, n <= Len(s)
    PROVE  /\ IsSeq(SubSeq(s, 1, n))
           /\ n >= 0 => /\ Len(SubSeq(s, 1, n)) = n
                        /\ \A i \in 1..n : SubSeq(s, 1, n)[i] = s[i]
  <1> DEFINE S == {s[i] : i \in DOMAIN s}
  <1>1. Len(s) \in Nat /\ DOMAIN s = 1..Len(s) BY SeqFacts
  <1>2. \A i \in 1..n : s[i] \in S BY <1>1
  <1> HIDE DEF S
  <1>3. /\ SubSeq(s, 1, n) \in Seq(S)
        /\ Len(SubSeq(s, 1, n)) = IF 1 <= n THEN n - 1 + 1 ELSE 0
        /\ \A i \in 1..n - 1 + 1 : SubSeq(s, 1, n)[i] = s[1 + i - 1]
    BY <1>2
  <1>4. IsSeq(SubSeq(s, 1, n)) BY <1>3, SeqIsSeq, Zenon
  <1>5. n - 1 + 1 = n /\ \A i \in 1..n : 1 + i - 1 = i OBVIOUS
  <1>6. n >= 0 => Len(SubSeq(s, 1, n)) = n BY <1>3
  <1>7. QED BY <1>3, <1>4, <1>5, <1>6

\* A sequence that agrees with the beginning of another is a prefix of it.
LEMMA PrefixFacts ==
    ASSUME NEW s, IsSeq(s), NEW t, IsSeq(t), Len(s) <= Len(t), \A i \in 1..Len(s) : s[i] = t[i]
    PROVE  BeginsWith(t, s)
  <1>1. PICK k : k = Len(s) BY Zenon
  <1>2. k \in Nat /\ k \in Int /\ k >= 0 /\ k <= Len(s) /\ k <= Len(t) BY <1>1, SeqFacts
  <1>3. PICK b : b = SubSeq(t, 1, k) BY Zenon
  <1>4. IsSeq(b) /\ Len(b) = k /\ \A i \in 1..k : b[i] = t[i] BY <1>2, <1>3, SubSeqFacts
  <1>5. s = [i \in 1..k |-> s[i]] /\ b = [i \in 1..k |-> b[i]] BY <1>1, <1>4, SeqFacts, Zenon
  <1>6. \A i \in 1..k : s[i] = b[i] BY <1>1, <1>4
  <1>7. s = b BY <1>5, <1>6, Zenon
  <1>8. QED BY <1>1, <1>3, <1>7 DEF BeginsWith

-----------------------------------------------------------------------------
(* A database and the wallet it unlocks to *)

WalletOf(e) == [seed |-> e.entropy, identity |-> e.identity, walletId |-> e.walletId]

IsEntry(e) == e = Entry(e.revision, e.locator)

IsDatabase(db) ==
    /\ db = [identity |-> db.identity, walletId |-> db.walletId, envelope |-> db.envelope,
              digest |-> db.digest, revision |-> db.revision,
              checkpoint |-> db.checkpoint, catalog |-> db.catalog]
    /\ db.catalog = [n \in DOMAIN db.catalog |-> db.catalog[n]]
    /\ \A n \in DOMAIN db.catalog : IsEntry(db.catalog[n])
    /\ db.revision \in Nat

\* What ReadAndValidateState requires.
Bound(w, db) ==
    /\ db.identity = w.identity /\ db.walletId = w.walletId
    /\ db.digest = KeystoreDigest(db.envelope)

Chained(w, db) == db.checkpoint = RecomputeCheckpoint(w, db.envelope, SortedEntries(db))

Valid(w, db) ==
    /\ Bound(w, db)
    /\ db.revision <= MaxCatalogEntries
    /\ RowsAreAuthentic(w, db)
    /\ RevisionsAreContiguous(db)
    /\ Chained(w, db)

FileOK(db) == IsDatabase(db) /\ Valid(WalletOf(db.envelope), db)

\* An unlocked wallet is the one its envelope seals.
LEMMA UnlockFacts ==
    ASSUME NEW e, NEW identity, NEW passphrase, NEW w \in Unlock(e, identity, passphrase)
    PROVE  w = WalletOf(e) /\ e.identity = identity /\ e.opensWith = passphrase
  BY Zenon DEF Unlock, When, WalletOf

\* read_and_validate_state succeeds exactly on valid databases.
LEMMA ReadFacts ==
    ASSUME NEW w, NEW db
    PROVE  ReadAndValidateState(w, db) =
               IF Valid(w, db)
               THEN {[envelope |-> db.envelope, revision |-> db.revision,
                      checkpoint |-> db.checkpoint, entries |-> SortedEntries(db)]}
               ELSE {}
  BY Zenon DEF ReadAndValidateState, Valid, Bound, Chained, When

\* And so does validate_database, with the envelope it is given.
LEMMA ValidateFacts ==
    ASSUME NEW w, NEW db, NEW e
    PROVE  ValidateDatabase(w, db, e) <=> Valid(w, db) /\ db.envelope = e
  <1>1. CASE Valid(w, db)
    <2>1. ReadAndValidateState(w, db) = {[envelope |-> db.envelope, revision |-> db.revision,
                      checkpoint |-> db.checkpoint, entries |-> SortedEntries(db)]}
      BY <1>1, ReadFacts, Zenon
    <2>2. QED BY <1>1, <2>1 DEF ValidateDatabase
  <1>2. CASE ~ Valid(w, db)
    <2>1. ReadAndValidateState(w, db) = {} BY <1>2, ReadFacts, Zenon
    <2>2. QED BY <1>2, <2>1 DEF ValidateDatabase
  <1>3. QED BY <1>1, <1>2

\* A good file opens again.
LEMMA GoodFileReopens ==
    ASSUME NEW db, FileOK(db)
    PROVE  Reopens(db)
  <1>1. LoadEnvelope(db, db.identity) = {db.envelope}
    BY DEF LoadEnvelope, When, FileOK, Valid, Bound
  <1>2. ASSUME NEW w \in Unlock(db.envelope, db.identity, db.envelope.opensWith)
        PROVE  ValidateDatabase(w, db, db.envelope)
    BY UnlockFacts, ValidateFacts DEF FileOK
  <1>3. QED BY <1>1, <1>2 DEF Reopens

-----------------------------------------------------------------------------
(* The sorted catalog *)

\* The entry of revision r is the row that has it.
LEMMA SortedRow ==
    ASSUME NEW db, RevisionsAreContiguous(db), db.revision \in Nat, NEW n \in DOMAIN db.catalog
    PROVE  /\ db.catalog[n].revision \in 1..db.revision
           /\ SortedEntries(db)[db.catalog[n].revision] = db.catalog[n]
  <1> DEFINE R == {db.catalog[m] : m \in DOMAIN db.catalog}
             r == db.catalog[n].revision
             e == CHOOSE x \in R : x.revision = r
  <1>1. r \in 1..db.revision BY DEF RevisionsAreContiguous
  <1>2. db.catalog[n] \in R /\ db.catalog[n].revision = r OBVIOUS
  <1>3. e \in R /\ e.revision = r BY <1>2, Zenon
  <1>4. PICK m \in DOMAIN db.catalog : e = db.catalog[m] BY <1>3, Zenon
  <1>5. m = n BY <1>3, <1>4, Zenon DEF RevisionsAreContiguous
  <1>6. SortedEntries(db)[r] = e BY <1>1 DEF SortedEntries
  <1>7. QED BY <1>1, <1>4, <1>5, <1>6

\* Every revision has a row.
LEMMA RowOfRevision ==
    ASSUME NEW db, RevisionsAreContiguous(db), db.revision \in Nat, NEW r \in 1..db.revision
    PROVE  \E n \in DOMAIN db.catalog : db.catalog[n].revision = r /\ SortedEntries(db)[r] = db.catalog[n]
  <1>1. PICK n \in DOMAIN db.catalog : db.catalog[n].revision = r BY Zenon DEF RevisionsAreContiguous
  <1>2. SortedEntries(db)[r] = db.catalog[n] BY <1>1, SortedRow, Zenon
  <1>3. QED BY <1>1, <1>2

\* The sorted catalog is a sequence as long as the revision.
LEMMA SortedSeq ==
    ASSUME NEW db, db.revision \in Nat
    PROVE  IsSeq(SortedEntries(db)) /\ Len(SortedEntries(db)) = db.revision
  <1> DEFINE entry(r) == CHOOSE e \in {db.catalog[n] : n \in DOMAIN db.catalog} : e.revision = r
             s == [r \in 1..db.revision |-> entry(r)]
  <1>1. SortedEntries(db) = s BY Zenon DEF SortedEntries
  <1> HIDE DEF entry
  <1>2. s = [r \in 1..db.revision |-> s[r]] OBVIOUS
  <1> HIDE DEF s
  <1>3. QED BY <1>1, <1>2, SeqOfLen

\* The checkpoint of a catalog is a root and one link for each entry.
LEMMA CheckpointFacts ==
    ASSUME NEW w, NEW e, NEW entries, IsSeq(entries),
           NEW c, c = RecomputeCheckpoint(w, e, entries)
    PROVE  /\ IsSeq(c) /\ Len(c) = Len(entries) + 1
           /\ DOMAIN c = 1..Len(entries) + 1
           /\ c[1] = RootCheckpoint(w, e)[1]
           /\ \A i \in 1..Len(entries) : c[i + 1] = EntryLink(w, entries[i].revision, entries[i].locator)
  <1> DEFINE k == Len(entries) + 1
  <1>1. Len(entries) \in Nat BY SeqFacts
  <1>2. c = [n \in 1..k |-> c[n]] /\ DOMAIN c = 1..k BY Zenon DEF RecomputeCheckpoint
  <1>3. IsSeq(c) /\ Len(c) = k
    <2>1. k \in Nat BY <1>1
    <2>2. QED BY <1>2, <2>1, SeqOfLen, Zenon
  <1>4. c[1] = RootCheckpoint(w, e)[1] BY <1>1 DEF RecomputeCheckpoint
  <1>5. ASSUME NEW i \in 1..Len(entries)
        PROVE  c[i + 1] = EntryLink(w, entries[i].revision, entries[i].locator)
    <2>1. i + 1 \in 1..k /\ i + 1 # 1 /\ (i + 1) - 1 = i BY <1>1
    <2>2. QED BY <2>1 DEF RecomputeCheckpoint
  <1>6. QED BY <1>2, <1>3, <1>4, <1>5, Zenon

\* A link determines its entry.
LEMMA LinkFacts ==
    ASSUME NEW w, NEW r, NEW l, NEW v, NEW q, NEW m, EntryLink(w, r, l) = EntryLink(v, q, m)
    PROVE  r = q /\ l = m
  <1>1. PICK x, y : x = <<r, l>> /\ y = <<q, m>> BY Zenon
  <1>2. EntryLink(w, r, l).message = x /\ EntryLink(v, q, m).message = y BY <1>1 DEF EntryLink, Tag
  <1>3. x = y BY <1>2
  <1>4. x[1] = r /\ x[2] = l /\ y[1] = q /\ y[2] = m BY <1>1
  <1>5. QED BY <1>3, <1>4

RootLink(w, e) == RootCheckpoint(w, e)[1]

\* A root determines its wallet and its keystore.
LEMMA RootFacts ==
    ASSUME NEW w, NEW e, NEW v, NEW g, RootLink(w, e) = RootLink(v, g)
    PROVE  w = v /\ e = g
  <1>1. PICK x, y : x = <<w.identity, w.walletId, KeystoreDigest(e)>> /\ y = <<v.identity, v.walletId, KeystoreDigest(g)>>
    BY Zenon
  <1>2. Tag(w, "catalog-root", x) = Tag(v, "catalog-root", y) BY <1>1 DEF RootLink, RootCheckpoint
  <1>3. w = v /\ x = y
    <2>1. /\ Tag(w, "catalog-root", x).wallet = w /\ Tag(w, "catalog-root", x).message = x
          /\ Tag(v, "catalog-root", y).wallet = v /\ Tag(v, "catalog-root", y).message = y
      BY DEF Tag
    <2>2. QED BY <1>2, <2>1
  <1>4. KeystoreDigest(e) = KeystoreDigest(g)
    <2>1. x[3] = KeystoreDigest(e) /\ y[3] = KeystoreDigest(g) BY <1>1
    <2>2. QED BY <1>3, <2>1
  <1>5. KeystoreDigest(e)[2] = e /\ KeystoreDigest(g)[2] = g BY DEF KeystoreDigest
  <1>6. QED BY <1>3, <1>4, <1>5

-----------------------------------------------------------------------------
(* Issuing a destination *)

\* What the write of issue_destination changes.
LEMMA IssuedFacts ==
    ASSUME NEW db, IsDatabase(db), NEW w, NEW nonce, NEW locator,
           NEW new, new = Issued(db, w, nonce, locator)
    PROVE  /\ IsDatabase(new)
           /\ new.identity = db.identity /\ new.walletId = db.walletId
           /\ new.envelope = db.envelope /\ new.digest = db.digest
           /\ new.revision = db.revision + 1
           /\ new.checkpoint = Append(db.checkpoint, EntryLink(w, db.revision + 1, locator))
           /\ DOMAIN new.catalog = DOMAIN db.catalog \cup {nonce}
           /\ new.catalog[nonce] = Entry(db.revision + 1, locator)
           /\ \A n \in DOMAIN db.catalog : n # nonce => new.catalog[n] = db.catalog[n]
  <1> DEFINE r == db.revision + 1
             C == [n \in DOMAIN db.catalog \cup {nonce} |->
                      IF n = nonce THEN Entry(r, locator) ELSE db.catalog[n]]
             c == Append(db.checkpoint, EntryLink(w, r, locator))
  <1>1. new = [db EXCEPT !.revision = r, !.checkpoint = c, !.catalog = C]
    BY DEF Issued, EntryCheckpoint
  <1>2. r \in Nat BY DEF IsDatabase
  <1>3. /\ DOMAIN C = DOMAIN db.catalog \cup {nonce}
        /\ C[nonce] = Entry(r, locator)
        /\ \A n \in DOMAIN db.catalog : n # nonce => C[n] = db.catalog[n]
        /\ C = [n \in DOMAIN C |-> C[n]]
    BY Zenon
  <1> HIDE DEF r, C, c
  <1>4. new = [identity |-> db.identity, walletId |-> db.walletId, envelope |-> db.envelope,
               digest |-> db.digest, revision |-> r, checkpoint |-> c, catalog |-> C]
    BY <1>1, Zenon DEF IsDatabase
  <1>5. /\ new.identity = db.identity /\ new.walletId = db.walletId
        /\ new.envelope = db.envelope /\ new.digest = db.digest
        /\ new.revision = r /\ new.checkpoint = c /\ new.catalog = C
    BY <1>4
  <1>6. IsDatabase(new)
    <2>1. IsEntry(Entry(r, locator)) BY DEF IsEntry, Entry
    <2>2. \A n \in DOMAIN new.catalog : IsEntry(new.catalog[n]) BY <1>3, <1>5, <2>1 DEF IsDatabase
    <2>3. QED BY <1>2, <1>3, <1>4, <1>5, <2>2 DEF IsDatabase
  <1>7. QED BY <1>3, <1>5, <1>6 DEF r, c

\* A locator the wallet encodes is one it decodes.
LEMMA LocatorRoundTrip ==
    ASSUME NEW w, NEW purpose \in Purposes, NEW nonce
    PROVE  DecodeLocator(w, EncodeLocator(w, purpose, nonce)) = {[purpose |-> purpose, nonce |-> nonce]}
  BY DEF DecodeLocator, EncodeLocator, When, Tag

\* Issuing keeps every row authentic and files the new one under its nonce.
LEMMA IssuedAuthentic ==
    ASSUME NEW db, IsDatabase(db), NEW w, RowsAreAuthentic(w, db),
           NEW purpose \in Purposes, NEW nonce, NEW l, l = EncodeLocator(w, purpose, nonce),
           NEW new, new = Issued(db, w, nonce, l)
    PROVE  RowsAreAuthentic(w, new)
  <1>1. /\ DOMAIN new.catalog = DOMAIN db.catalog \cup {nonce}
        /\ new.catalog[nonce] = Entry(db.revision + 1, l)
        /\ \A n \in DOMAIN db.catalog : n # nonce => new.catalog[n] = db.catalog[n]
    BY IssuedFacts
  <1>2. ASSUME NEW n \in DOMAIN new.catalog
        PROVE  \E d \in DecodeLocator(w, new.catalog[n].locator) : d.nonce = n
    <2>1. CASE n = nonce
      <3>1. new.catalog[n].locator = l BY <1>1, <2>1 DEF Entry
      <3>2. DecodeLocator(w, l) = {[purpose |-> purpose, nonce |-> nonce]} BY LocatorRoundTrip
      <3>3. QED BY <2>1, <3>1, <3>2
    <2>2. CASE n # nonce
      BY <1>1, <2>2 DEF RowsAreAuthentic
    <2>3. QED BY <2>1, <2>2
  <1>3. QED BY <1>2 DEF RowsAreAuthentic

\* Issuing under a new nonce gives the next revision to the new row.
LEMMA IssuedContiguous ==
    ASSUME NEW db, IsDatabase(db), RevisionsAreContiguous(db),
           NEW w, NEW nonce, nonce \notin DOMAIN db.catalog, NEW locator,
           NEW new, new = Issued(db, w, nonce, locator)
    PROVE  RevisionsAreContiguous(new)
  <1> DEFINE k == db.revision
  <1>0. /\ DOMAIN new.catalog = DOMAIN db.catalog \cup {nonce}
        /\ new.catalog[nonce] = Entry(db.revision + 1, locator)
        /\ \A n \in DOMAIN db.catalog : n # nonce => new.catalog[n] = db.catalog[n]
        /\ new.revision = db.revision + 1
        /\ IsDatabase(new)
    BY IssuedFacts
  <1>1. /\ DOMAIN new.catalog = DOMAIN db.catalog \cup {nonce}
        /\ new.catalog[nonce].revision = k + 1
        /\ \A n \in DOMAIN db.catalog : new.catalog[n] = db.catalog[n]
        /\ new.revision = k + 1
    BY <1>0 DEF Entry
  <1>2. k \in Nat BY DEF IsDatabase
  <1>3. \A n \in DOMAIN db.catalog : new.catalog[n].revision \in 1..k
    BY <1>1 DEF RevisionsAreContiguous
  <1>4. ASSUME NEW m \in DOMAIN new.catalog, NEW n \in DOMAIN new.catalog,
               new.catalog[m].revision = new.catalog[n].revision
        PROVE  m = n
    <2>1. CASE m \in DOMAIN db.catalog /\ n \in DOMAIN db.catalog
      BY <1>1, <1>4, <2>1 DEF RevisionsAreContiguous
    <2>2. CASE m = nonce \/ n = nonce
      <3>1. \A x \in DOMAIN db.catalog : new.catalog[x].revision # k + 1 BY <1>2, <1>3
      <3>2. QED BY <1>1, <1>4, <2>2, <3>1
    <2>3. QED BY <1>1, <2>1, <2>2
  <1>5. {new.catalog[n].revision : n \in DOMAIN new.catalog} = 1..k + 1
    <2>1. 1..k + 1 = (1..k) \cup {k + 1} BY <1>2
    <2>2. {new.catalog[n].revision : n \in DOMAIN db.catalog} = 1..k
      <3>1. {db.catalog[n].revision : n \in DOMAIN db.catalog} = 1..k BY DEF RevisionsAreContiguous
      <3>2. QED BY <1>1, <3>1
    <2>3. QED BY <1>1, <2>1, <2>2
  <1>6. QED BY <1>1, <1>4, <1>5 DEF RevisionsAreContiguous

\* The sorted catalog grows at its end.
LEMMA IssuedSorted ==
    ASSUME NEW db, IsDatabase(db), RevisionsAreContiguous(db),
           NEW w, NEW nonce, nonce \notin DOMAIN db.catalog, NEW locator,
           NEW new, new = Issued(db, w, nonce, locator)
    PROVE  /\ IsSeq(SortedEntries(new)) /\ Len(SortedEntries(new)) = db.revision + 1
           /\ SortedEntries(new)[db.revision + 1] = Entry(db.revision + 1, locator)
           /\ \A r \in 1..db.revision : SortedEntries(new)[r] = SortedEntries(db)[r]
  <1> DEFINE k == db.revision
  <1>0. /\ DOMAIN new.catalog = DOMAIN db.catalog \cup {nonce}
        /\ new.catalog[nonce] = Entry(db.revision + 1, locator)
        /\ \A n \in DOMAIN db.catalog : n # nonce => new.catalog[n] = db.catalog[n]
        /\ new.revision = db.revision + 1
        /\ IsDatabase(new)
    BY IssuedFacts
  <1>3. RevisionsAreContiguous(new) BY IssuedContiguous
  <1>1. /\ DOMAIN new.catalog = DOMAIN db.catalog \cup {nonce}
        /\ new.catalog[nonce] = Entry(k + 1, locator)
        /\ \A n \in DOMAIN db.catalog : new.catalog[n] = db.catalog[n]
        /\ new.revision = k + 1 /\ new.revision \in Nat
    BY <1>0 DEF IsDatabase
  <1>2. k \in Nat BY DEF IsDatabase
  <1>4. IsSeq(SortedEntries(new)) /\ Len(SortedEntries(new)) = k + 1 BY <1>1, SortedSeq
  <1>5. SortedEntries(new)[k + 1] = Entry(k + 1, locator)
    <2>1. new.catalog[nonce].revision = k + 1 BY <1>1 DEF Entry
    <2>2. QED BY <1>1, <1>3, <2>1, SortedRow
  <1>6. ASSUME NEW r \in 1..k PROVE SortedEntries(new)[r] = SortedEntries(db)[r]
    <2>1. PICK n \in DOMAIN db.catalog : db.catalog[n].revision = r /\ SortedEntries(db)[r] = db.catalog[n]
      BY <1>2, RowOfRevision
    <2>2. n \in DOMAIN new.catalog /\ new.catalog[n] = db.catalog[n] BY <1>1
    <2>3. SortedEntries(new)[new.catalog[n].revision] = new.catalog[n] BY <1>1, <1>3, <2>2, SortedRow
    <2>4. QED BY <2>1, <2>2, <2>3
  <1>7. QED BY <1>4, <1>5, <1>6

\* The link appended is the one the recomputation finds at the end.
LEMMA IssuedChained ==
    ASSUME NEW db, IsDatabase(db), RevisionsAreContiguous(db), NEW w, Chained(w, db),
           NEW nonce, nonce \notin DOMAIN db.catalog, NEW locator,
           NEW new, new = Issued(db, w, nonce, locator)
    PROVE  Chained(w, new)
  <1> DEFINE k == db.revision
             es == SortedEntries(db)
             ns == SortedEntries(new)
             link == EntryLink(w, k + 1, locator)
             c == RecomputeCheckpoint(w, db.envelope, es)
             d == RecomputeCheckpoint(w, db.envelope, ns)
  <1>1. k \in Nat BY DEF IsDatabase
  <1>2. IsSeq(es) /\ Len(es) = k BY <1>1, SortedSeq
  <1>3. /\ IsSeq(ns) /\ Len(ns) = k + 1 /\ ns[k + 1] = Entry(k + 1, locator)
        /\ \A r \in 1..k : ns[r] = es[r]
    BY IssuedSorted
  <1>4. new.checkpoint = Append(c, link) /\ new.envelope = db.envelope
    <2>1. new.checkpoint = Append(db.checkpoint, link) /\ new.envelope = db.envelope BY IssuedFacts
    <2>2. db.checkpoint = c BY DEF Chained
    <2>3. QED BY <2>1, <2>2
  <1>a. /\ c = RecomputeCheckpoint(w, db.envelope, es)
        /\ d = RecomputeCheckpoint(w, db.envelope, ns)
    OBVIOUS
  <1> HIDE DEF es, ns, c, d
  <1>5. /\ IsSeq(c) /\ Len(c) = k + 1
        /\ c[1] = RootCheckpoint(w, db.envelope)[1]
        /\ \A i \in 1..k : c[i + 1] = EntryLink(w, es[i].revision, es[i].locator)
    BY <1>a, <1>2, CheckpointFacts
  <1>6. /\ IsSeq(d) /\ Len(d) = k + 2
        /\ d[1] = RootCheckpoint(w, db.envelope)[1]
        /\ \A i \in 1..k + 1 : d[i + 1] = EntryLink(w, ns[i].revision, ns[i].locator)
    <2>1. (k + 1) + 1 = k + 2 BY <1>1
    <2>2. QED BY <1>a, <1>3, <2>1, CheckpointFacts
  <1>7. d[k + 2] = link
    <2>1. k + 1 \in 1..k + 1 /\ (k + 1) + 1 = k + 2 BY <1>1
    <2>2. d[k + 2] = EntryLink(w, ns[k + 1].revision, ns[k + 1].locator) BY <1>6, <2>1
    <2>3. QED BY <1>3, <2>2 DEF Entry
  <1>8. ASSUME NEW i \in 1..k + 1 PROVE d[i] = c[i]
    <2>1. CASE i = 1 BY <1>5, <1>6, <2>1
    <2>2. CASE i # 1
      <3> DEFINE j == i - 1
      <3>1. j \in 1..k /\ j \in 1..k + 1 /\ j + 1 = i BY <1>1, <2>2
      <3> HIDE DEF j
      <3>2. d[j + 1] = EntryLink(w, ns[j].revision, ns[j].locator) BY <1>6, <3>1
      <3>3. c[j + 1] = EntryLink(w, es[j].revision, es[j].locator) BY <1>5, <3>1
      <3>4. QED BY <1>3, <3>1, <3>2, <3>3
    <2>3. QED BY <2>1, <2>2
  <1>9. d = Append(c, link)
    <2> DEFINE a == Append(c, link)
    <2>1. /\ IsSeq(a) /\ Len(a) = k + 2 /\ a[k + 2] = link
          /\ \A i \in 1..k + 1 : a[i] = c[i]
      <3>1. (k + 1) + 1 = k + 2 BY <1>1
      <3>2. QED BY <1>5, <3>1, AppendFacts
    <2> HIDE DEF a, link
    <2>2. d = [i \in 1..k + 2 |-> d[i]] /\ a = [i \in 1..k + 2 |-> a[i]]
      BY <1>6, <2>1, SeqFacts, Zenon
    <2>3. \A i \in 1..k + 2 : d[i] = a[i]
      <3>1. \A i \in 1..k + 2 : i \in 1..k + 1 \/ i = k + 2 BY <1>1
      <3>2. QED BY <1>7, <1>8, <2>1, <3>1
    <2>4. QED BY <2>2, <2>3, Zenon DEF a
  <1>10. QED BY <1>4, <1>9 DEF Chained, d, ns

\* The checkpoint of a valid database has a root and a link for each revision.
LEMMA CheckpointLen ==
    ASSUME NEW db, FileOK(db)
    PROVE  IsSeq(db.checkpoint) /\ Len(db.checkpoint) = db.revision + 1
  <1> DEFINE es == SortedEntries(db)
             w == WalletOf(db.envelope)
  <1>1. db.revision \in Nat BY DEF FileOK, IsDatabase
  <1>2. IsSeq(es) /\ Len(es) = db.revision BY <1>1, SortedSeq
  <1>3. db.checkpoint = RecomputeCheckpoint(w, db.envelope, es) BY DEF FileOK, Valid, Chained
  <1> HIDE DEF es, w
  <1>4. QED BY <1>2, <1>3, CheckpointFacts

\* Issuing keeps a database valid.
LEMMA IssuedValid ==
    ASSUME NEW db, FileOK(db), NEW purpose \in Purposes, NEW nonce,
           nonce \notin DOMAIN db.catalog, db.revision < MaxCatalogEntries,
           NEW w, w = WalletOf(db.envelope), NEW l, l = EncodeLocator(w, purpose, nonce),
           NEW new, new = Issued(db, w, nonce, l)
    PROVE  FileOK(new)
  <1>1. IsDatabase(db) /\ Valid(w, db) BY DEF FileOK
  <1>2. /\ IsDatabase(new) /\ new.envelope = db.envelope /\ new.revision = db.revision + 1
        /\ new.identity = db.identity /\ new.walletId = db.walletId /\ new.digest = db.digest
    BY <1>1, IssuedFacts
  <1>3. RowsAreAuthentic(w, new) BY <1>1, IssuedAuthentic DEF Valid
  <1>4. RevisionsAreContiguous(new) BY <1>1, IssuedContiguous DEF Valid
  <1>5. Chained(w, new) BY <1>1, IssuedChained DEF Valid
  <1>6. Bound(w, new) BY <1>1, <1>2 DEF Valid, Bound
  <1>7. new.revision <= MaxCatalogEntries BY <1>1, <1>2, CatalogAssumption DEF IsDatabase
  <1>8. Valid(w, new) BY <1>3, <1>4, <1>5, <1>6, <1>7 DEF Valid
  <1>9. QED BY <1>2, <1>8 DEF FileOK

-----------------------------------------------------------------------------
(* The invariant *)

LeadsTo(w, l, d) == DestinationForLocator(w, l) = {d}

\* The destinations returned from a database are rows of it, and the wallet
\* derives them again.
ReturnedOK(db, R) ==
    /\ IsSeq(R)
    /\ \A i, j \in DOMAIN R : R[i].locator.nonce = R[j].locator.nonce => i = j
    /\ \A i \in DOMAIN R :
          /\ R[i].locator.nonce \in DOMAIN db.catalog
          /\ db.catalog[R[i].locator.nonce].locator = R[i].locator
          /\ LeadsTo(WalletOf(db.envelope), R[i].locator, R[i])

FilesInv ==
    /\ IsSeq(disk) /\ IsSeq(returned) /\ Len(returned) = Len(disk)
    /\ \A f \in 1..Len(disk) : FileOK(disk[f]) /\ ReturnedOK(disk[f], returned[f])

NamesInv ==
    /\ dir \in [Paths -> 0..Len(disk)] /\ synced \in [Paths -> 0..Len(disk)]
    /\ \A c \in confirmed : c[1] \in Paths /\ c[2] # 0
    /\ ConfirmedFilesStay

IsHandle(h) ==
    /\ h = [step |-> h.step, path |-> h.path, inode |-> h.inode,
            wallet |-> h.wallet, poisoned |-> h.poisoned]
    /\ h.path \in Paths /\ h.inode \in 1..Len(disk)
    /\ h.wallet = WalletOf(disk[h.inode].envelope)

HandlesInv == \A h \in handles : IsHandle(h)

\* The chain of links s is where the chain t once stood.
Covers(t, s) ==
    /\ IsSeq(s) /\ 1 <= Len(s) /\ Len(s) <= Len(t)
    /\ \A i \in 1..Len(s) : s[i] = t[i]

IsBackup(b) ==
    /\ b = [identity |-> b.identity, walletId |-> b.walletId, revision |-> b.revision,
            envelope |-> b.envelope, checkpoint |-> b.checkpoint, locators |-> b.locators]
    /\ IsSeq(b.locators)
    /\ \E g \in 1..Len(disk) : Covers(disk[g].checkpoint, b.checkpoint)

BackupsInv == \A b \in exported : IsBackup(b)

IInv == FilesInv /\ NamesInv /\ HandlesInv /\ BackupsInv

-----------------------------------------------------------------------------
(* What a growing disk keeps *)

Grows(db, new) == new.envelope = db.envelope /\ Covers(new.checkpoint, db.checkpoint)

\* Files are only added, keep their envelope and extend their chain.
DiskGrows ==
    /\ Len(disk') \in Nat /\ Len(disk) <= Len(disk')
    /\ \A f \in 1..Len(disk) : Grows(disk[f], disk'[f])

\* Handles, names and backups stay good on a growing disk.
LEMMA GrowthKeeps ==
    ASSUME IInv, DiskGrows
    PROVE  /\ \A h : IsHandle(h) => IsHandle(h)'
           /\ \A b : IsBackup(b) => IsBackup(b)'
           /\ [Paths -> 0..Len(disk)] \subseteq [Paths -> 0..Len(disk')]
  <1>1. Len(disk) \in Nat BY SeqFacts DEF IInv, FilesInv
  <1>2. 1..Len(disk) \subseteq 1..Len(disk') /\ 0..Len(disk) \subseteq 0..Len(disk')
    BY <1>1 DEF DiskGrows
  <1>3. ASSUME NEW h, IsHandle(h) PROVE IsHandle(h)'
    BY <1>2, <1>3 DEF IsHandle, DiskGrows, Grows
  <1>4. ASSUME NEW b, IsBackup(b) PROVE IsBackup(b)'
    <2>1. PICK g \in 1..Len(disk) : Covers(disk[g].checkpoint, b.checkpoint) BY <1>4 DEF IsBackup
    <2>2. Covers(disk'[g].checkpoint, disk[g].checkpoint) BY DEF DiskGrows, Grows
    <2>3. Len(b.checkpoint) \in Nat /\ Len(disk[g].checkpoint) \in Nat
      BY <2>1, <2>2, SeqFacts DEF Covers
    <2>4. Covers(disk'[g].checkpoint, b.checkpoint)
      <3> DEFINE s == b.checkpoint
                 t == disk[g].checkpoint
                 u == disk'[g].checkpoint
      <3>1. Covers(t, s) /\ Covers(u, t) /\ Len(s) \in Nat /\ Len(t) \in Nat BY <2>1, <2>2, <2>3
      <3> HIDE DEF s, t, u
      <3>2. Covers(u, s) BY <3>1 DEF Covers
      <3>3. QED BY <3>2 DEF s, u
    <2>5. QED BY <1>2, <1>4, <2>4 DEF IsBackup
  <1>5. QED BY <1>2, <1>3, <1>4

\* A file that stays the same grows.
LEMMA SameFileGrows ==
    ASSUME NEW db, FileOK(db)
    PROVE  Grows(db, db)
  <1>1. db.revision \in Nat BY DEF FileOK, IsDatabase
  <1>2. IsSeq(db.checkpoint) /\ Len(db.checkpoint) = db.revision + 1 BY CheckpointLen
  <1>3. QED BY <1>1, <1>2 DEF Grows, Covers

\* A disk that stays the same grows.
LEMMA SameDiskGrows ==
    ASSUME IInv, disk' = disk
    PROVE  DiskGrows
  <1>1. Len(disk) \in Nat BY SeqFacts DEF IInv, FilesInv
  <1>2. \A f \in 1..Len(disk) : Grows(disk[f], disk[f]) BY SameFileGrows DEF IInv, FilesInv
  <1>3. QED BY <1>1, <1>2 DEF DiskGrows

-----------------------------------------------------------------------------
(* Staging a database *)

\* The database initialize_database writes, when it validates, is good.
LEMMA StagedFile ==
    ASSUME NEW w, NEW envelope, w = WalletOf(envelope),
           NEW entries, IsSeq(entries), \A i \in 1..Len(entries) : IsEntry(entries[i]),
           NEW checkpoint,
           NEW db \in InitializeDatabase(w, envelope, entries, checkpoint),
           ValidateDatabase(w, db, envelope)
    PROVE  FileOK(db) /\ db.envelope = envelope
  <1>1. Len(entries) \in Nat /\ DOMAIN entries = 1..Len(entries) BY SeqFacts
  <1> DEFINE C == Rows(entries)
  <1>2. db = [identity |-> w.identity, walletId |-> w.walletId, envelope |-> envelope,
              digest |-> KeystoreDigest(envelope), revision |-> Len(entries),
              checkpoint |-> checkpoint, catalog |-> C]
    BY Zenon DEF InitializeDatabase, When
  <1>3. C = [n \in DOMAIN C |-> C[n]] BY DEF Rows
  <1>4. ASSUME NEW n \in DOMAIN C PROVE IsEntry(C[n])
    <2> DEFINE E == {entries[i] : i \in DOMAIN entries}
    <2>1. \E e \in E : e.locator.nonce = n BY DEF Rows
    <2>2. C[n] = CHOOSE e \in E : e.locator.nonce = n BY DEF Rows
    <2>3. C[n] \in E BY <2>1, <2>2
    <2>4. QED BY <1>1, <2>3
  <1> HIDE DEF C
  <1>5. IsDatabase(db) BY <1>1, <1>2, <1>3, <1>4 DEF IsDatabase
  <1>6. Valid(w, db) /\ db.envelope = envelope BY ValidateFacts
  <1>7. QED BY <1>5, <1>6 DEF FileOK

\* Staging keeps the invariant: the new file is good and has no name yet.
LEMMA StageInv ==
    ASSUME IInv, NEW path \in Paths, NEW w, NEW envelope, w = WalletOf(envelope),
           NEW entries, IsSeq(entries), \A i \in 1..Len(entries) : IsEntry(entries[i]),
           NEW checkpoint, Stage(path, w, envelope, entries, checkpoint)
    PROVE  IInv'
  <1> DEFINE k == Len(disk)
  <1>0. PICK new : new = Handle("staged", path, k + 1, w) BY Zenon
  <1>1. PICK db \in InitializeDatabase(w, envelope, entries, checkpoint) :
           /\ ValidateDatabase(w, db, envelope)
           /\ disk' = Append(disk, db)
           /\ returned' = Append(returned, <<>>)
           /\ handles' = handles \cup {new}
    BY <1>0 DEF Stage
  <1>2. UNCHANGED <<dir, synced, exported, confirmed>> BY DEF Stage
  <1>3. FileOK(db) /\ db.envelope = envelope BY <1>1, StagedFile
  <1>4. k \in Nat /\ IsSeq(disk) /\ IsSeq(returned) /\ Len(returned) = k BY SeqFacts DEF IInv, FilesInv
  <1>5. /\ IsSeq(disk') /\ Len(disk') = k + 1 /\ disk'[k + 1] = db
        /\ \A f \in 1..k : disk'[f] = disk[f]
    BY <1>1, <1>4, AppendFacts
  <1>6. /\ IsSeq(returned') /\ Len(returned') = k + 1 /\ returned'[k + 1] = <<>>
        /\ \A f \in 1..k : returned'[f] = returned[f]
    BY <1>1, <1>4, AppendFacts
  <1>7. FilesInv'
    <2>1. ReturnedOK(db, <<>>)
      <3>1. IsSeq(<<>>) /\ DOMAIN <<>> = {} BY DEF IsSeq
      <3>2. QED BY <3>1 DEF ReturnedOK
    <2>2. ASSUME NEW f \in 1..k + 1 PROVE FileOK(disk'[f]) /\ ReturnedOK(disk'[f], returned'[f])
      <3>1. CASE f \in 1..k BY <1>5, <1>6, <3>1 DEF IInv, FilesInv
      <3>2. CASE f = k + 1 BY <1>3, <1>5, <1>6, <2>1, <3>2
      <3>3. QED BY <1>4, <3>1, <3>2
    <2>3. QED BY <1>5, <1>6, <2>2 DEF FilesInv
  <1>8. DiskGrows
    <2>1. \A f \in 1..k : Grows(disk[f], disk[f]) BY SameFileGrows DEF IInv, FilesInv
    <2>2. QED BY <1>4, <1>5, <2>1 DEF DiskGrows
  <1>9. /\ \A h : IsHandle(h) => IsHandle(h)'
        /\ \A b : IsBackup(b) => IsBackup(b)'
        /\ [Paths -> 0..k] \subseteq [Paths -> 0..Len(disk')]
    BY <1>8, GrowthKeeps
  <1>10. NamesInv' BY <1>2, <1>9 DEF IInv, NamesInv, ConfirmedFilesStay
  <1>11. IsHandle(new)'
    <2>1. /\ new = [step |-> new.step, path |-> new.path, inode |-> new.inode,
                    wallet |-> new.wallet, poisoned |-> new.poisoned]
          /\ new.path = path /\ new.inode = k + 1 /\ new.wallet = w
      BY <1>0 DEF Handle
    <2>2. QED BY <1>3, <1>4, <1>5, <2>1 DEF IsHandle
  <1>12. HandlesInv' BY <1>1, <1>9, <1>11 DEF IInv, HandlesInv
  <1>13. BackupsInv' BY <1>2, <1>9 DEF IInv, BackupsInv
  <1>14. QED BY <1>7, <1>10, <1>12, <1>13 DEF IInv

\* Staging adds one file.
LEMMA OneNewFile ==
    ASSUME IInv, NEW db, disk' = Append(disk, db)
    PROVE  /\ DOMAIN disk = 1..Len(disk)
           /\ \A f \in DOMAIN disk' \ DOMAIN disk : disk'[f] = db
  <1>1. IsSeq(disk) BY Zenon DEF IInv, FilesInv
  <1>2. PICK n \in Nat : n = Len(disk) /\ DOMAIN disk = 1..n BY <1>1, SeqFacts, Zenon
  <1>3. DOMAIN disk' = 1..n + 1 /\ disk'[n + 1] = db BY <1>1, <1>2, AppendFacts, Zenon
  <1>4. \A f \in (1..n + 1) \ (1..n) : f = n + 1 BY <1>2
  <1>5. QED BY <1>2, <1>3, <1>4, Zenon

\* A creation keeps the invariant.
LEMMA CreateInv ==
    ASSUME IInv, NEW path \in Paths, NEW identity, NEW passphrase, Create(path, identity, passphrase)
    PROVE  IInv'
  <1>1. PICK envelope \in Seal(identity, passphrase, Len(disk) + 1, Len(disk) + 1) :
        \E w \in Unlock(envelope, identity, passphrase) :
            Stage(path, w, envelope, <<>>, RootCheckpoint(w, envelope))
    BY DEF Create
  <1>2. PICK w \in Unlock(envelope, identity, passphrase) :
            Stage(path, w, envelope, <<>>, RootCheckpoint(w, envelope))
    BY <1>1
  <1>3. w = WalletOf(envelope) BY UnlockFacts
  <1>4. IsSeq(<<>>) /\ Len(<<>>) = 0 BY DEF IsSeq
  <1>5. \A i \in 1..Len(<<>>) : IsEntry(<<>>[i]) BY <1>4
  <1>6. PICK checkpoint : checkpoint = RootCheckpoint(w, envelope) BY Zenon
  <1>7. QED BY <1>2, <1>3, <1>4, <1>5, <1>6, StageInv

\* Whatever artifact is read, its locators are a list and its checkpoint is
\* that of some exported backup.
LEMMA ArtifactFacts ==
    ASSUME IInv, NEW backup \in Artifacts
    PROVE  /\ IsSeq(backup.locators)
           /\ \E c \in exported : backup.checkpoint = c.checkpoint
  <1> DEFINE Parts(b) == {b.locators, Reversed(b.locators), SubSeq(b.locators, 1, Len(b.locators) - 1)}
  <1>1. PICK a \in exported, c \in exported, s \in LocatorLists : backup = Spliced(a, c, s)
    BY DEF Artifacts
  <1>2. PICK b \in exported : s \in Parts(b) BY Zenon DEF LocatorLists
  <1>3. IsBackup(a) /\ IsBackup(b) BY DEF IInv, BackupsInv
  <1>4. IsSeq(s)
    <2> DEFINE t == b.locators
    <2>1. IsSeq(t) BY <1>3 DEF IsBackup
    <2> HIDE DEF t
    <2>2. Len(t) \in Nat BY <2>1, SeqFacts
    <2>3. IsSeq(Reversed(t))
      <3> DEFINE r == Reversed(t)
      <3>1. r = [i \in 1..Len(t) |-> r[i]] BY DEF Reversed
      <3> HIDE DEF r
      <3>2. IsSeq(r) BY <2>2, <3>1 DEF IsSeq
      <3>3. QED BY <3>2 DEF r
    <2>4. IsSeq(SubSeq(t, 1, Len(t) - 1))
      <3> DEFINE n == Len(t) - 1
      <3>1. n \in Int /\ n <= Len(t) BY <2>2
      <3> HIDE DEF n
      <3>2. IsSeq(SubSeq(t, 1, n)) BY <2>1, <3>1, SubSeqFacts
      <3>3. QED BY <3>2 DEF n
    <2>5. s \in {t, Reversed(t), SubSeq(t, 1, Len(t) - 1)} BY <1>2 DEF t
    <2>6. QED BY <2>1, <2>3, <2>4, <2>5, Zenon
  <1>5. backup.locators = s /\ backup.checkpoint = c.checkpoint
    <2>1. backup = [identity |-> a.identity, walletId |-> a.walletId, revision |-> Len(s),
                    envelope |-> a.envelope, checkpoint |-> c.checkpoint, locators |-> s]
      BY <1>1, <1>3, Zenon DEF IsBackup, Spliced
    <2>2. QED BY <2>1
  <1>6. QED BY <1>4, <1>5

\* The entries a restore makes of an artifact.
LEMMA RestoredEntries ==
    ASSUME NEW w, NEW envelope, NEW backup, IsSeq(backup.locators),
           NEW entries \in ValidateBackupCatalog(w, envelope, backup)
    PROVE  /\ IsSeq(entries)
           /\ \A i \in 1..Len(entries) : IsEntry(entries[i]) /\ entries[i].revision = i
           /\ \A i, j \in 1..Len(entries) : entries[i].locator.nonce = entries[j].locator.nonce => i = j
           /\ RecomputeCheckpoint(w, envelope, entries) = backup.checkpoint
  <1> DEFINE t == backup.locators
             new == [i \in DOMAIN t |-> Entry(i, t[i])]
  <1>1. Len(t) \in Nat /\ DOMAIN t = 1..Len(t) BY SeqFacts
  <1>2. /\ entries = new
        /\ \A i, j \in DOMAIN new : new[i].locator.nonce = new[j].locator.nonce => i = j
        /\ RecomputeCheckpoint(w, envelope, new) = backup.checkpoint
    BY Zenon DEF ValidateBackupCatalog, When
  <1> HIDE DEF t
  <1>3. DOMAIN new = 1..Len(t) /\ \A i \in 1..Len(t) : new[i] = Entry(i, t[i]) BY <1>1
  <1>4. new = [i \in 1..Len(t) |-> new[i]] BY <1>1
  <1> HIDE DEF new
  <1>5. IsSeq(new) /\ Len(new) = Len(t) BY <1>1, <1>4, SeqOfLen, Zenon
  <1>6. \A i \in 1..Len(t) : IsEntry(new[i]) /\ new[i].revision = i BY <1>3 DEF IsEntry, Entry
  <1>7. QED BY <1>2, <1>3, <1>5, <1>6

\* What a restore stages.
LEMMA RestoreFacts ==
    ASSUME IInv, NEW path, NEW identity, NEW passphrase, NEW backup \in Artifacts,
           Restore(path, identity, passphrase, backup)
    PROVE  \E w, envelope, entries :
              /\ w = WalletOf(envelope) /\ IsSeq(entries)
              /\ \A i \in 1..Len(entries) : IsEntry(entries[i]) /\ entries[i].revision = i
              /\ \A i, j \in 1..Len(entries) : entries[i].locator.nonce = entries[j].locator.nonce => i = j
              /\ RecomputeCheckpoint(w, envelope, entries) = backup.checkpoint
              /\ Stage(path, w, envelope, entries, backup.checkpoint)
  <1>1. PICK parsed \in ParseBackup(backup) :
            \E w \in Unlock(parsed.envelope, identity, passphrase) :
            \E entries \in ValidateBackupCatalog(w, parsed.envelope, parsed) :
                Stage(path, w, parsed.envelope, entries, parsed.checkpoint)
    BY Zenon DEF Restore
  <1>2. parsed = backup BY Zenon DEF ParseBackup, When
  <1>3. PICK w \in Unlock(backup.envelope, identity, passphrase) :
            \E entries \in ValidateBackupCatalog(w, backup.envelope, backup) :
                Stage(path, w, backup.envelope, entries, backup.checkpoint)
    BY <1>1, <1>2
  <1>4. PICK entries \in ValidateBackupCatalog(w, backup.envelope, backup) :
            Stage(path, w, backup.envelope, entries, backup.checkpoint)
    BY <1>3
  <1>5. IsSeq(backup.locators) BY ArtifactFacts
  <1>6. w = WalletOf(backup.envelope) BY UnlockFacts, Zenon
  <1>7. /\ IsSeq(entries)
        /\ \A i \in 1..Len(entries) : IsEntry(entries[i]) /\ entries[i].revision = i
        /\ \A i, j \in 1..Len(entries) : entries[i].locator.nonce = entries[j].locator.nonce => i = j
        /\ RecomputeCheckpoint(w, backup.envelope, entries) = backup.checkpoint
    BY <1>5, RestoredEntries
  <1>8. QED BY <1>4, <1>6, <1>7

\* A restoration keeps the invariant.
LEMMA RestoreInv ==
    ASSUME IInv, NEW path \in Paths, NEW identity, NEW passphrase, NEW backup \in Artifacts,
           Restore(path, identity, passphrase, backup)
    PROVE  IInv'
  <1>1. PICK w, envelope, entries :
              /\ w = WalletOf(envelope) /\ IsSeq(entries)
              /\ \A i \in 1..Len(entries) : IsEntry(entries[i])
              /\ Stage(path, w, envelope, entries, backup.checkpoint)
    BY RestoreFacts
  <1>2. PICK checkpoint : checkpoint = backup.checkpoint BY Zenon
  <1>3. QED BY <1>1, <1>2, StageInv, Zenon
-----------------------------------------------------------------------------
(* Issuing a destination *)

\* A locator leads to one destination, which carries it.
LEMMA DestinationFacts ==
    ASSUME NEW w, NEW purpose \in Purposes, NEW nonce, NEW l, l = EncodeLocator(w, purpose, nonce)
    PROVE  \E d : LeadsTo(w, l, d) /\ d.locator = l
  <1> DEFINE x == [purpose |-> purpose, nonce |-> nonce]
             key == SpendKey(w, x)
             d == [script |-> P2tr(key), blinding |-> BlindingKey(w, P2tr(key)), key |-> key, locator |-> l]
  <1>1. DecodeLocator(w, l) = {x} BY LocatorRoundTrip
  <1> HIDE DEF x
  <1>2. DestinationForLocator(w, l) =
            ConfidentialDestination(P2tr(key), BlindingKey(w, P2tr(key)), key, l)
    BY <1>1 DEF DestinationForLocator
  <1>3. LeadsTo(w, l, d) BY <1>2, Zenon DEF LeadsTo, ConfidentialDestination, When
  <1>4. d.locator = l OBVIOUS
  <1> HIDE DEF d
  <1>5. QED BY <1>3, <1>4

\* nonce and l may be written to db, and lead the wallet w to d.
Ready(db, w, purpose, nonce, l, d) ==
    /\ w = WalletOf(db.envelope)
    /\ purpose \in Purposes /\ nonce \notin DOMAIN db.catalog /\ db.revision < MaxCatalogEntries
    /\ l = EncodeLocator(w, purpose, nonce)
    /\ d.locator = l /\ LeadsTo(w, l, d)

\* A row written under a new nonce leaves the file good, extends its chain and
\* disturbs no destination returned before.
LEMMA GrownDatabase ==
    ASSUME NEW db, FileOK(db), NEW w, NEW purpose, NEW nonce, NEW l, NEW d,
           Ready(db, w, purpose, nonce, l, d),
           NEW new, new = Issued(db, w, nonce, l), NEW R, ReturnedOK(db, R)
    PROVE  FileOK(new) /\ Grows(db, new) /\ ReturnedOK(new, R)
  <1>1. /\ w = WalletOf(db.envelope) /\ purpose \in Purposes /\ nonce \notin DOMAIN db.catalog
        /\ db.revision < MaxCatalogEntries /\ l = EncodeLocator(w, purpose, nonce)
    BY DEF Ready
  <1>2. IsDatabase(db) BY DEF FileOK
  <1>3. FileOK(new) BY <1>1, IssuedValid
  <1>4. /\ new.envelope = db.envelope
        /\ new.checkpoint = Append(db.checkpoint, EntryLink(w, db.revision + 1, l))
        /\ DOMAIN new.catalog = DOMAIN db.catalog \cup {nonce}
        /\ \A n \in DOMAIN db.catalog : n # nonce => new.catalog[n] = db.catalog[n]
    BY <1>2, IssuedFacts
  <1>5. Grows(db, new)
    <2>1. PICK link, c : link = EntryLink(w, db.revision + 1, l) /\ c = db.checkpoint BY Zenon
    <2>2. IsSeq(c) /\ Len(c) = db.revision + 1 /\ db.revision \in Nat
      BY <1>2, <2>1, CheckpointLen, Zenon DEF IsDatabase
    <2>3. Len(Append(c, link)) = Len(c) + 1 /\ \A i \in 1..Len(c) : Append(c, link)[i] = c[i]
      BY <2>2, AppendFacts
    <2>4. Covers(Append(c, link), c) BY <2>2, <2>3 DEF Covers
    <2>5. QED BY <1>4, <2>1, <2>4 DEF Grows
  <1>6. \A n \in DOMAIN db.catalog : n \in DOMAIN new.catalog /\ new.catalog[n] = db.catalog[n] BY <1>1, <1>4, Zenon
  <1>7. ReturnedOK(new, R)
    <2>1. new.envelope = db.envelope BY <1>4, Zenon
    <2>2. QED BY <1>6, <2>1, Zenon DEF ReturnedOK
  <1>8. QED BY <1>3, <1>5, <1>7

\* The destination of the new row joins the ones returned.
LEMMA ReturnedGrows ==
    ASSUME NEW db, FileOK(db), NEW w, NEW purpose, NEW nonce, NEW l, NEW d,
           Ready(db, w, purpose, nonce, l, d),
           NEW new, new = Issued(db, w, nonce, l), NEW R, ReturnedOK(db, R),
           NEW S, S = Append(R, d)
    PROVE  ReturnedOK(new, S)
  <1>1. ReturnedOK(new, R) BY GrownDatabase
  <1>2. PICK k : k = Len(R) BY Zenon
  <1>3. IsSeq(R) /\ k \in Nat /\ DOMAIN R = 1..k BY <1>2, SeqFacts, Zenon DEF ReturnedOK
  <1>4. /\ IsSeq(S) /\ DOMAIN S = 1..k + 1 /\ S[k + 1] = d
        /\ \A i \in 1..k : S[i] = R[i]
    BY <1>2, <1>3, AppendFacts
  <1>5. \A i \in 1..k + 1 : i \in 1..k \/ i = k + 1 BY <1>3
  <1>6. d.locator.nonce = nonce /\ nonce \notin DOMAIN db.catalog /\ w = WalletOf(db.envelope)
        /\ d.locator = l /\ LeadsTo(w, l, d)
    BY DEF Ready, EncodeLocator
  <1>7. /\ nonce \in DOMAIN new.catalog /\ new.catalog[nonce].locator = l
        /\ new.envelope = db.envelope
    <2>1. /\ new.envelope = db.envelope
          /\ DOMAIN new.catalog = DOMAIN db.catalog \cup {nonce}
          /\ new.catalog[nonce] = Entry(db.revision + 1, l)
      BY IssuedFacts DEF FileOK
    <2>2. QED BY <2>1 DEF Entry
  <1>8. \A i \in 1..k : R[i].locator.nonce # nonce BY <1>3, <1>6 DEF ReturnedOK
  <1>9. ASSUME NEW i \in 1..k + 1, NEW j \in 1..k + 1, S[i].locator.nonce = S[j].locator.nonce
        PROVE  i = j
    <2>1. CASE i \in 1..k /\ j \in 1..k BY <1>3, <1>4, <1>9, <2>1, Zenon DEF ReturnedOK
    <2>2. CASE i = k + 1 \/ j = k + 1 BY <1>4, <1>5, <1>6, <1>8, <1>9, <2>2, Zenon
    <2>3. QED BY <1>5, <2>1, <2>2, Zenon
  <1>10. ASSUME NEW i \in 1..k + 1
         PROVE  /\ S[i].locator.nonce \in DOMAIN new.catalog
                /\ new.catalog[S[i].locator.nonce].locator = S[i].locator
                /\ LeadsTo(WalletOf(new.envelope), S[i].locator, S[i])
    <2>1. CASE i \in 1..k BY <1>1, <1>3, <1>4, <2>1, Zenon DEF ReturnedOK
    <2>2. CASE i = k + 1
      <3>1. S[i] = d BY <1>4, <2>2, Zenon
      <3>2. WalletOf(new.envelope) = w BY <1>6, <1>7, Zenon
      <3>3. QED BY <1>6, <1>7, <3>1, <3>2, Zenon
    <2>3. QED BY <1>5, <2>1, <2>2, Zenon
  <1>11. QED BY <1>4, <1>9, <1>10, Zenon DEF ReturnedOK

\* The disk after one of its files has grown.
LEMMA GrownFile ==
    ASSUME IInv, NEW f \in 1..Len(disk), NEW new, disk' = Replaced(disk, f, new),
           FileOK(new), Grows(disk[f], new), ReturnedOK(new, returned[f])
    PROVE  /\ IsSeq(disk') /\ Len(disk') = Len(disk) /\ disk'[f] = new
           /\ \A g \in 1..Len(disk) : FileOK(disk'[g]) /\ ReturnedOK(disk'[g], returned[g])
           /\ DiskGrows
  <1>1. /\ Len(disk) \in Nat /\ IsSeq(disk)
        /\ \A g \in 1..Len(disk) : FileOK(disk[g]) /\ ReturnedOK(disk[g], returned[g])
    BY SeqFacts DEF IInv, FilesInv
  <1>2. /\ IsSeq(disk') /\ Len(disk') = Len(disk) /\ disk'[f] = new
        /\ \A g \in 1..Len(disk) : g # f => disk'[g] = disk[g]
    BY <1>1, ExceptFacts
  <1>3. \A g \in 1..Len(disk) : Grows(disk[g], disk[g]) BY <1>1, SameFileGrows
  <1>4. \A g \in 1..Len(disk) : /\ FileOK(disk'[g]) /\ ReturnedOK(disk'[g], returned[g])
                                /\ Grows(disk[g], disk'[g])
    BY <1>1, <1>2, <1>3, Zenon
  <1>5. QED BY <1>1, <1>2, <1>4 DEF DiskGrows

\* What a nonce that passes the checks of issue_destination gives.
LEMMA FreshFacts ==
    ASSUME IInv, NEW h \in handles, NEW purpose \in IssuePurposes,
           NEW nonce \in FreshNonces(h, purpose), NEW l, l = EncodeLocator(h.wallet, purpose, nonce),
           NEW d \in DestinationForLocator(h.wallet, l),
           NEW db, db = disk[h.inode]
    PROVE  /\ h.inode \in 1..Len(disk) /\ FileOK(db) /\ ReturnedOK(db, returned[h.inode])
           /\ Ready(db, h.wallet, purpose, nonce, l, d)
           /\ Written(h, nonce, l) = Replaced(disk, h.inode, Issued(db, h.wallet, nonce, l))
  <1>1. h.inode \in 1..Len(disk) /\ h.wallet = WalletOf(db.envelope) BY Zenon DEF IInv, HandlesInv, IsHandle
  <1>2. purpose \in Purposes BY WalletAssumption
  <1>3. nonce \notin DOMAIN db.catalog /\ db.revision < MaxCatalogEntries
    BY Zenon DEF FreshNonces, NewNonce
  <1>4. PICK x : LeadsTo(h.wallet, l, x) /\ x.locator = l BY <1>2, DestinationFacts
  <1>5. x = d BY <1>4, Zenon DEF LeadsTo
  <1>6. Ready(db, h.wallet, purpose, nonce, l, d) BY <1>1, <1>2, <1>3, <1>4, <1>5 DEF Ready
  <1>7. Written(h, nonce, l) = Replaced(disk, h.inode, Issued(db, h.wallet, nonce, l))
    BY Zenon DEF Written, Replaced
  <1>8. QED BY <1>1, <1>6, <1>7 DEF IInv, FilesInv

\* Issuing keeps the invariant: the destination returned is a row.
LEMMA IssueInv ==
    ASSUME IInv, NEW h \in handles, NEW purpose \in IssuePurposes, Issue(h, purpose)
    PROVE  IInv'
  <1>1. PICK nonce \in FreshNonces(h, purpose) :
        \E d \in DestinationForLocator(h.wallet, EncodeLocator(h.wallet, purpose, nonce)) :
          disk' = Written(h, nonce, d.locator) /\ returned' = [returned EXCEPT ![h.inode] = Append(@, d)]
    BY Zenon DEF Issue
  <1>2. PICK l : l = EncodeLocator(h.wallet, purpose, nonce) BY Zenon
  <1>3. PICK d \in DestinationForLocator(h.wallet, l) :
          disk' = Written(h, nonce, d.locator) /\ returned' = [returned EXCEPT ![h.inode] = Append(@, d)]
    BY <1>1, <1>2, Zenon
  <1>4. PICK f, w, db, new : /\ f = h.inode /\ w = h.wallet /\ db = disk[h.inode]
                             /\ new = Issued(db, w, nonce, l)
    BY Zenon
  <1>5. /\ f \in 1..Len(disk) /\ FileOK(db) /\ ReturnedOK(db, returned[f])
        /\ Ready(db, w, purpose, nonce, l, d)
        /\ Written(h, nonce, l) = Replaced(disk, f, new)
    BY <1>2, <1>4, FreshFacts
  <1>6. PICK R, S : R = returned[f] /\ S = Append(R, d) BY Zenon
  <1>7. disk' = Replaced(disk, f, new) /\ returned' = Replaced(returned, f, S)
    <2>1. d.locator = l BY <1>5 DEF Ready
    <2>2. disk' = Replaced(disk, f, new) BY <1>3, <1>5, <2>1
    <2>3. returned' = Replaced(returned, f, S) BY <1>3, <1>4, <1>6, Zenon DEF Replaced
    <2>4. QED BY <2>2, <2>3, Zenon
  <1>8. FileOK(new) /\ Grows(db, new) /\ ReturnedOK(new, R) BY <1>4, <1>5, <1>6, GrownDatabase
  <1>9. ReturnedOK(new, S)
    <2>1. ReturnedOK(db, R) /\ S = Append(R, d) /\ new = Issued(db, w, nonce, l) BY <1>4, <1>5, <1>6, Zenon
    <2>2. FileOK(db) /\ Ready(db, w, purpose, nonce, l, d) BY <1>5
    <2>3. QED BY <2>1, <2>2, ReturnedGrows, Zenon
  <1>10. /\ IsSeq(disk') /\ Len(disk') = Len(disk) /\ disk'[f] = new
         /\ \A g \in 1..Len(disk) : FileOK(disk'[g]) /\ ReturnedOK(disk'[g], returned[g])
         /\ DiskGrows
    <2>1. /\ disk' = Replaced(disk, f, new) /\ FileOK(new)
          /\ Grows(disk[f], new) /\ ReturnedOK(new, returned[f])
      BY <1>4, <1>5, <1>6, <1>7, <1>8, Zenon
    <2>2. QED BY <1>5, <2>1, GrownFile
  <1>11. IsSeq(returned) /\ Len(returned) = Len(disk) BY Zenon DEF IInv, FilesInv
  <1>12. /\ IsSeq(returned') /\ Len(returned') = Len(disk) /\ returned'[f] = S
         /\ \A g \in 1..Len(disk) : g # f => returned'[g] = returned[g]
    BY <1>5, <1>7, <1>11, ExceptFacts
  <1>13. FilesInv'
    <2>1. ReturnedOK(disk'[f], returned'[f]) BY <1>9, <1>10, <1>12, Zenon
    <2>2. \A g \in 1..Len(disk) : g # f => ReturnedOK(disk'[g], returned'[g]) BY <1>10, <1>12, Zenon
    <2>3. QED BY <1>10, <1>12, <2>1, <2>2, Zenon DEF FilesInv
  <1>14. UNCHANGED <<dir, synced, handles, exported, confirmed>> BY DEF Issue
  <1>15. QED BY <1>10, <1>13, <1>14, GrowthKeeps DEF IInv, NamesInv, ConfirmedFilesStay, HandlesInv, BackupsInv

-----------------------------------------------------------------------------
(* The failure of a commit *)

AtStep(h, x) == [h EXCEPT !.step = x]
Poisoned(h) == [h EXCEPT !.poisoned = TRUE]

\* A handle that changes its step or is poisoned is still a handle.
LEMMA HandleChanges ==
    ASSUME NEW h, IsHandle(h), NEW x
    PROVE  IsHandle(AtStep(h, x)) /\ IsHandle(Poisoned(h))
  <1>1. PICK g : g = AtStep(h, x) BY Zenon
  <1>2. g = [step |-> x, path |-> h.path, inode |-> h.inode, wallet |-> h.wallet, poisoned |-> h.poisoned]
    BY <1>1, Zenon DEF IsHandle, AtStep
  <1>3. PICK p : p = Poisoned(h) BY Zenon
  <1>4. p = [step |-> h.step, path |-> h.path, inode |-> h.inode, wallet |-> h.wallet, poisoned |-> TRUE]
    BY <1>3, Zenon DEF IsHandle, Poisoned
  <1>5. IsHandle(g) BY <1>2 DEF IsHandle
  <1>6. IsHandle(p) BY <1>4, Zenon DEF IsHandle
  <1>7. QED BY <1>1, <1>3, <1>5, <1>6

\* A commit that reports failure keeps the invariant, whether it happened or not.
LEMMA IssueFailsInv ==
    ASSUME IInv, NEW h \in handles, NEW purpose \in IssuePurposes, IssueFails(h, purpose)
    PROVE  IInv'
  <1>1. PICK nonce \in FreshNonces(h, purpose) :
        \E d \in DestinationForLocator(h.wallet, EncodeLocator(h.wallet, purpose, nonce)) :
          disk' = disk \/ disk' = Written(h, nonce, d.locator)
    BY Zenon DEF IssueFails
  <1>2. PICK l : l = EncodeLocator(h.wallet, purpose, nonce) BY Zenon
  <1>3. PICK d \in DestinationForLocator(h.wallet, l) : disk' = disk \/ disk' = Written(h, nonce, d.locator)
    BY <1>1, <1>2, Zenon
  <1>4. PICK f, w, db, new : /\ f = h.inode /\ w = h.wallet /\ db = disk[h.inode]
                             /\ new = Issued(db, w, nonce, l)
    BY Zenon
  <1>5. /\ f \in 1..Len(disk) /\ FileOK(db) /\ ReturnedOK(db, returned[f])
        /\ Ready(db, w, purpose, nonce, l, d)
        /\ Written(h, nonce, l) = Replaced(disk, f, new)
    BY <1>2, <1>4, FreshFacts
  <1>6. PICK R : R = returned[f] BY Zenon
  <1>7. FileOK(new) /\ Grows(db, new) /\ ReturnedOK(new, R) BY <1>4, <1>5, <1>6, GrownDatabase
  <1>8. /\ IsSeq(disk') /\ Len(disk') = Len(disk)
        /\ \A g \in 1..Len(disk) : FileOK(disk'[g]) /\ ReturnedOK(disk'[g], returned[g])
        /\ DiskGrows
    <2>1. CASE disk' = disk BY <2>1, SameDiskGrows DEF IInv, FilesInv
    <2>2. CASE disk' = Replaced(disk, f, new) BY <1>4, <1>5, <1>6, <1>7, <2>2, GrownFile, Zenon
    <2>3. d.locator = l BY <1>5 DEF Ready
    <2>4. QED BY <1>3, <1>5, <2>1, <2>2, <2>3, Zenon
  <1>9. /\ UNCHANGED <<dir, synced, exported, returned, confirmed>>
        /\ handles' = (handles \ {h}) \cup {Poisoned(h)}
    BY Zenon DEF IssueFails, Poisoned
  <1>10. FilesInv' BY <1>8, <1>9 DEF IInv, FilesInv
  <1>11. HandlesInv'
    <2>1. \A g \in handles' : IsHandle(g) BY <1>9, HandleChanges DEF IInv, HandlesInv
    <2>2. QED BY <1>8, <2>1, GrowthKeeps DEF HandlesInv
  <1>12. QED BY <1>8, <1>9, <1>10, <1>11, GrowthKeeps DEF IInv, NamesInv, ConfirmedFilesStay, BackupsInv

-----------------------------------------------------------------------------
(* The other steps *)

\* A step that writes no file needs only its names and its handles checked.
LEMMA QuietStep ==
    ASSUME IInv, UNCHANGED <<disk, returned, exported>>, NamesInv', \A g \in handles' : IsHandle(g)
    PROVE  IInv'
  <1>1. FilesInv' BY Zenon DEF IInv, FilesInv
  <1>2. HandlesInv' BY DEF HandlesInv, IsHandle
  <1>3. BackupsInv' BY DEF IInv, BackupsInv, IsBackup
  <1>4. QED BY <1>1, <1>2, <1>3 DEF IInv

\* A publication takes only a free name.
LEMMA PublishInv ==
    ASSUME IInv, NEW h \in handles, Publish(h)
    PROVE  IInv'
  <1>1. UNCHANGED <<disk, synced, exported, returned, confirmed>> BY DEF Publish
  <1>2. IsHandle(h) /\ \A g \in handles : IsHandle(g) BY DEF IInv, HandlesInv
  <1>3. \A g \in handles' : IsHandle(g)
    <2>1. \A g \in handles' : g \in handles \/ g = AtStep(h, "linked") BY Zenon DEF Publish, AtStep
    <2>2. QED BY <1>2, <2>1, HandleChanges
  <1>4. NamesInv'
    <2>1. CASE dir' = dir BY <1>1, <2>1 DEF IInv, NamesInv, ConfirmedFilesStay
    <2>2. CASE dir[h.path] = 0 /\ dir' = [dir EXCEPT ![h.path] = h.inode]
      <3>1. dir' \in [Paths -> 0..Len(disk)]
        <4>1. Len(disk) \in Nat BY SeqFacts DEF IInv, FilesInv
        <4>2. QED BY <1>2, <2>2, <4>1 DEF IInv, NamesInv, IsHandle
      <3>2. \A c \in confirmed : dir'[c[1]] = dir[c[1]]
        BY <2>2 DEF IInv, NamesInv, ConfirmedFilesStay
      <3>3. QED BY <1>1, <3>1, <3>2, Zenon DEF IInv, NamesInv, ConfirmedFilesStay
    <2>3. QED BY <2>1, <2>2 DEF Publish
  <1>5. QED BY <1>1, <1>3, <1>4, QuietStep

\* A confirmation makes every present name durable.
LEMMA ConfirmInv ==
    ASSUME IInv, NEW h \in handles, Confirm(h) \/ ConfirmFails(h)
    PROVE  IInv'
  <1>1. UNCHANGED <<disk, dir, exported, returned>> BY DEF Confirm, ConfirmFails
  <1>2. IsHandle(h) /\ \A g \in handles : IsHandle(g) BY DEF IInv, HandlesInv
  <1>3. \A g \in handles' : IsHandle(g)
    <2>1. \A g \in handles' : g \in handles \/ g = AtStep(h, "open")
      BY Zenon DEF Confirm, ConfirmFails, AtStep
    <2>2. QED BY <1>2, <2>1, HandleChanges
  <1>4. NamesInv'
    <2>1. synced' = synced \/ synced' = dir BY Zenon DEF Confirm, ConfirmFails
    <2>2. CASE Confirm(h)
      <3>1. synced' = dir /\ dir[h.path] = h.inode /\ confirmed' = confirmed \cup {<<h.path, h.inode>>}
        BY <2>2, Zenon DEF Confirm
      <3>2. h.path \in Paths /\ h.inode # 0
        <4>1. Len(disk) \in Nat BY SeqFacts, Zenon DEF IInv, FilesInv
        <4>2. QED BY <1>2, <4>1 DEF IsHandle
      <3>3. QED BY <1>1, <3>1, <3>2 DEF IInv, NamesInv, ConfirmedFilesStay
    <2>3. CASE ConfirmFails(h)
      <3>1. confirmed' = confirmed BY <2>3 DEF ConfirmFails
      <3>2. QED BY <1>1, <2>1, <3>1 DEF IInv, NamesInv, ConfirmedFilesStay
    <2>4. QED BY <2>2, <2>3
  <1>5. QED BY <1>1, <1>3, <1>4, QuietStep

\* An opened handle holds the wallet of the file its path names.
LEMMA OpenInv ==
    ASSUME IInv, NEW path \in Paths, NEW identity, NEW passphrase, Open(path, identity, passphrase)
    PROVE  IInv'
  <1>1. UNCHANGED <<disk, dir, synced, exported, returned, confirmed>> /\ dir[path] # 0 BY Zenon DEF Open
  <1>a. PICK envelope \in LoadEnvelope(disk[dir[path]], identity) :
        \E w \in Unlock(envelope, identity, passphrase) :
          handles' = handles \cup {Handle("open", path, dir[path], w)}
    BY Zenon DEF Open
  <1>2. PICK w \in Unlock(envelope, identity, passphrase) :
          handles' = handles \cup {Handle("open", path, dir[path], w)}
    BY <1>a
  <1>3. PICK new : new = Handle("open", path, dir[path], w) BY Zenon
  <1>4. envelope = disk[dir[path]].envelope BY Zenon DEF LoadEnvelope, When
  <1>5. w = WalletOf(disk[dir[path]].envelope) BY <1>4, UnlockFacts
  <1>6. dir[path] \in 1..Len(disk)
    <2>1. Len(disk) \in Nat BY SeqFacts, Zenon DEF IInv, FilesInv
    <2>2. QED BY <1>1, <2>1 DEF IInv, NamesInv
  <1>7. IsHandle(new)
    <2>1. /\ new = [step |-> new.step, path |-> new.path, inode |-> new.inode,
                    wallet |-> new.wallet, poisoned |-> new.poisoned]
          /\ new.path = path /\ new.inode = dir[path] /\ new.wallet = w
      BY <1>3, Zenon DEF Handle
    <2>2. QED BY <1>5, <1>6, <2>1, Zenon DEF IsHandle
  <1>8. \A g \in handles' : IsHandle(g) BY <1>2, <1>3, <1>7, Zenon DEF IInv, HandlesInv
  <1>9. NamesInv' BY <1>1, Zenon DEF IInv, NamesInv, ConfirmedFilesStay
  <1>10. QED BY <1>1, <1>8, <1>9, QuietStep, Zenon

\* A backup is covered by the file it is exported from.
LEMMA ExportInv ==
    ASSUME IInv, NEW h \in handles, ExportBackup(h)
    PROVE  IInv'
  <1>1. UNCHANGED <<disk, dir, synced, handles, returned, confirmed>> BY DEF ExportBackup
  <1>2. PICK f, w, db : f = h.inode /\ w = h.wallet /\ db = disk[f] BY Zenon
  <1>3. f \in 1..Len(disk) /\ FileOK(db)
    BY <1>2, Zenon DEF IInv, HandlesInv, IsHandle, FilesInv
  <1>4. PICK state \in ReadAndValidateState(w, db) : exported' = exported \cup {EncodeBackup(w, state)}
    BY <1>2, Zenon DEF ExportBackup
  <1>5. state.checkpoint = db.checkpoint /\ state.entries = SortedEntries(db)
    <2>1. state = [envelope |-> db.envelope, revision |-> db.revision,
                   checkpoint |-> db.checkpoint, entries |-> SortedEntries(db)]
      BY ReadFacts, Zenon
    <2>2. QED BY <2>1
  <1>6. PICK b : b = EncodeBackup(w, state) BY Zenon
  <1>7. PICK es, L : es = state.entries /\ L = [i \in DOMAIN es |-> es[i].locator] BY Zenon
  <1>8. IsSeq(L)
    <2>1. db.revision \in Nat BY <1>3, Zenon DEF FileOK, IsDatabase
    <2>2. IsSeq(es) BY <1>5, <1>7, <2>1, SortedSeq
    <2>3. Len(es) \in Nat /\ DOMAIN es = 1..Len(es) BY <2>2, SeqFacts, Zenon
    <2>4. L = [i \in 1..Len(es) |-> L[i]] BY <1>7, <2>3, Zenon
    <2>5. QED BY <2>3, <2>4, Zenon DEF IsSeq
  <1>9. IsBackup(b)
    <2>1. b = [identity |-> w.identity, walletId |-> w.walletId, revision |-> state.revision,
               envelope |-> state.envelope, checkpoint |-> state.checkpoint, locators |-> L]
      BY <1>6, <1>7, Zenon DEF EncodeBackup
    <2>2. Covers(disk[f].checkpoint, b.checkpoint)
      <3>1. Covers(db.checkpoint, db.checkpoint) BY <1>3, SameFileGrows, Zenon DEF Grows
      <3>2. b.checkpoint = db.checkpoint BY <1>5, <2>1, Zenon
      <3>3. QED BY <1>2, <3>1, <3>2
    <2>3. b.locators = L BY <2>1, Zenon
    <2>4. b = [identity |-> b.identity, walletId |-> b.walletId, revision |-> b.revision,
               envelope |-> b.envelope, checkpoint |-> b.checkpoint, locators |-> b.locators]
      BY <2>1, Zenon
    <2>5. QED BY <1>3, <1>8, <2>2, <2>3, <2>4 DEF IsBackup
  <1>10. BackupsInv'
    <2>1. \A x \in exported' : IsBackup(x) BY <1>4, <1>6, <1>9 DEF IInv, BackupsInv
    <2>2. QED BY <1>1, <2>1 DEF BackupsInv, IsBackup
  <1>11. QED BY <1>1, <1>10, Zenon DEF IInv, FilesInv, NamesInv, ConfirmedFilesStay, HandlesInv, IsHandle

\* A dropped handle leaves everything else.
LEMMA CloseInv ==
    ASSUME IInv, NEW h \in handles, Close(h)
    PROVE  IInv'
  <1>1. UNCHANGED <<disk, dir, synced, exported, returned, confirmed>> BY DEF Close
  <1>2. \A g \in handles' : IsHandle(g) BY Zenon DEF Close, IInv, HandlesInv
  <1>3. NamesInv' BY <1>1 DEF IInv, NamesInv, ConfirmedFilesStay
  <1>4. QED BY <1>1, <1>2, <1>3, QuietStep

\* A power loss takes no name that was synced and is still the same.
LEMMA PowerLossInv ==
    ASSUME IInv, PowerLoss
    PROVE  IInv'
  <1>1. /\ UNCHANGED <<disk, exported, returned, confirmed>> /\ handles' = {} /\ synced' = dir'
        /\ dir' \in [Paths -> 0..Len(disk)] /\ \A p \in Paths : dir'[p] \in {dir[p], synced[p]}
    BY Zenon DEF PowerLoss
  <1>2. \A c \in confirmed : c[1] \in Paths /\ dir'[c[1]] = c[2]
    BY <1>1 DEF IInv, NamesInv, ConfirmedFilesStay
  <1>3. NamesInv' BY <1>1, <1>2 DEF IInv, NamesInv, ConfirmedFilesStay
  <1>4. QED BY <1>1, <1>3, QuietStep

-----------------------------------------------------------------------------
(* The invariant holds, and what was returned survives *)

\* The empty directory satisfies the invariant.
LEMMA InitInv ==
    ASSUME Init
    PROVE  IInv
  <1>1. IsSeq(<<>>) /\ Len(<<>>) = 0 BY DEF IsSeq
  <1>2. FilesInv BY <1>1 DEF Init, FilesInv
  <1>3. NamesInv BY <1>1 DEF Init, NamesInv, ConfirmedFilesStay
  <1>4. QED BY <1>2, <1>3 DEF Init, IInv, HandlesInv, BackupsInv

\* Every step keeps the invariant.
LEMMA NextInv ==
    ASSUME IInv, [Next]_vars
    PROVE  IInv'
  <1>1. ASSUME NEW p \in Paths, NEW c \in Credentials, Create(p, c.identity, c.passphrase)
        PROVE  IInv'
    BY <1>1, CreateInv
  <1>2. ASSUME NEW p \in Paths, NEW c \in Credentials, Open(p, c.identity, c.passphrase)
        PROVE  IInv'
    BY <1>2, OpenInv
  <1>3. ASSUME NEW p \in Paths, NEW c \in Credentials, NEW backup \in Artifacts,
               Restore(p, c.identity, c.passphrase, backup)
        PROVE  IInv'
    BY <1>3, RestoreInv
  <1>4. ASSUME NEW h \in handles,
               Publish(h) \/ Confirm(h) \/ ConfirmFails(h) \/ ExportBackup(h) \/ Close(h)
        PROVE  IInv'
    BY <1>4, PublishInv, ConfirmInv, ExportInv, CloseInv
  <1>5. ASSUME NEW h \in handles, NEW purpose \in IssuePurposes, Issue(h, purpose) \/ IssueFails(h, purpose)
        PROVE  IInv'
    BY <1>5, IssueInv, IssueFailsInv
  <1>6. CASE PowerLoss BY <1>6, PowerLossInv
  <1>7. CASE UNCHANGED vars
    <2>1. UNCHANGED <<disk, dir, synced, handles, exported, returned, confirmed>> BY <1>7 DEF vars
    <2>2. NamesInv' BY <2>1, Zenon DEF IInv, NamesInv, ConfirmedFilesStay
    <2>3. QED BY <2>1, <2>2, QuietStep DEF IInv, HandlesInv
  <1>8. QED BY <1>1, <1>2, <1>3, <1>4, <1>5, <1>6, <1>7 DEF Next

\* The invariant gives the property.
LEMMA InvSurvive ==
    ASSUME IInv
    PROVE  DestinationsSurvive
  <1>1. ConfirmedFilesStay BY DEF IInv, NamesInv
  <1>2. DOMAIN disk = 1..Len(disk) BY SeqFacts DEF IInv, FilesInv
  <1>3. ASSUME NEW db, NEW R, FileOK(db), ReturnedOK(db, R)
        PROVE  Survives(db, R)
    <2>1. ASSUME NEW i \in DOMAIN R
          PROVE  \E n \in DOMAIN db.catalog :
                    /\ db.catalog[n].locator = R[i].locator
                    /\ \A w \in Unlock(db.envelope, db.identity, db.envelope.opensWith) :
                          DestinationForLocator(w, db.catalog[n].locator) = {R[i]}
      <3>1. PICK n \in DOMAIN db.catalog :
                /\ db.catalog[n].locator = R[i].locator
                /\ DestinationForLocator(WalletOf(db.envelope), R[i].locator) = {R[i]}
        BY <1>3, Zenon DEF ReturnedOK, LeadsTo
      <3>2. \A w \in Unlock(db.envelope, db.identity, db.envelope.opensWith) : w = WalletOf(db.envelope)
        BY UnlockFacts
      <3>3. QED BY <3>1, <3>2
    <2>2. QED BY <1>3, <2>1, Zenon DEF Survives, ReturnedOK
  <1>4. \A f \in DOMAIN disk : Reopens(disk[f]) /\ Survives(disk[f], returned[f])
    BY <1>2, <1>3, GoodFileReopens DEF IInv, FilesInv
  <1>5. QED BY <1>1, <1>4 DEF DestinationsSurvive

\* For any directory, any credentials and nonces and any number of files: no
\* destination that issue_destination returned is lost, repeated or led astray
\* by racing creations, failed commits, restores, kills and power losses.
THEOREM DestinationsAlwaysSurvive == Spec => []DestinationsSurvive
  <1>1. Init => IInv BY InitInv
  <1>2. IInv /\ [Next]_vars => IInv' BY NextInv
  <1>3. IInv => DestinationsSurvive BY InvSurvive, Zenon
  <1>4. QED BY <1>1, <1>2, <1>3, PTL DEF Spec

-----------------------------------------------------------------------------
(* A checkpoint determines its catalog *)

\* The catalog of a file starts with these entries.
StartsWith(db, w, e, entries) ==
    /\ w = WalletOf(db.envelope) /\ e = db.envelope
    /\ Len(entries) <= db.revision
    /\ \A i \in 1..Len(entries) : entries[i] = SortedEntries(db)[i]

\* A checkpoint that the chain of a file covers is that of a prefix of it.
LEMMA SameChain ==
    ASSUME NEW db, FileOK(db), NEW w, NEW e, NEW entries, IsSeq(entries),
           \A i \in 1..Len(entries) : IsEntry(entries[i]),
           NEW c, c = RecomputeCheckpoint(w, e, entries), Covers(db.checkpoint, c)
    PROVE  StartsWith(db, w, e, entries)
  <1>1. PICK k, m, es, t, v, g : /\ k = Len(entries) /\ m = db.revision /\ es = SortedEntries(db)
                                 /\ t = db.checkpoint /\ v = WalletOf(db.envelope) /\ g = db.envelope
    BY Zenon
  <1>2. k \in Nat /\ m \in Nat BY <1>1, SeqFacts DEF FileOK, IsDatabase
  <1>3. IsSeq(es) /\ Len(es) = m BY <1>1, <1>2, SortedSeq
  <1>4. /\ Len(c) = k + 1 /\ c[1] = RootCheckpoint(w, e)[1]
        /\ \A i \in 1..k : c[i + 1] = EntryLink(w, entries[i].revision, entries[i].locator)
    <2>1. /\ Len(c) = Len(entries) + 1 /\ c[1] = RootCheckpoint(w, e)[1]
          /\ \A i \in 1..Len(entries) : c[i + 1] = EntryLink(w, entries[i].revision, entries[i].locator)
      BY CheckpointFacts
    <2>2. QED BY <1>1, <2>1, Zenon
  <1>5. /\ Len(t) = m + 1 /\ t[1] = RootCheckpoint(v, g)[1]
        /\ \A i \in 1..m : t[i + 1] = EntryLink(v, es[i].revision, es[i].locator)
    <2>1. t = RecomputeCheckpoint(v, g, es) BY <1>1, Zenon DEF FileOK, Valid, Chained
    <2>2. /\ Len(t) = Len(es) + 1 /\ t[1] = RootCheckpoint(v, g)[1]
          /\ \A i \in 1..Len(es) : t[i + 1] = EntryLink(v, es[i].revision, es[i].locator)
      BY <1>3, <2>1, CheckpointFacts
    <2>3. QED BY <1>3, <2>2, Zenon
  <1>6. k <= m /\ \A i \in 1..k + 1 : c[i] = t[i] BY <1>1, <1>2, <1>4, <1>5 DEF Covers
  <1>7. w = v /\ e = g
    <2>1. c[1] = t[1] BY <1>2, <1>6
    <2>2. RootLink(w, e) = RootLink(v, g) BY <1>4, <1>5, <2>1, Zenon DEF RootLink
    <2>3. QED BY <2>2, RootFacts
  <1>8. ASSUME NEW i \in 1..k PROVE entries[i] = es[i]
    <2>1. i \in 1..m /\ i + 1 \in 1..k + 1 BY <1>2, <1>6
    <2>2. EntryLink(w, entries[i].revision, entries[i].locator)
            = EntryLink(v, es[i].revision, es[i].locator)
      <3>1. c[i + 1] = t[i + 1] BY <1>6, <2>1, Zenon
      <3>2. c[i + 1] = EntryLink(w, entries[i].revision, entries[i].locator) BY <1>4, Zenon
      <3>3. t[i + 1] = EntryLink(v, es[i].revision, es[i].locator) BY <1>5, <2>1, Zenon
      <3>4. QED BY <3>1, <3>2, <3>3, Zenon
    <2>3. entries[i].revision = es[i].revision /\ entries[i].locator = es[i].locator
      BY <2>2, LinkFacts
    <2>4. IsEntry(entries[i]) BY <1>1, Zenon
    <2>5. IsEntry(es[i])
      <3>1. IsDatabase(db) /\ RevisionsAreContiguous(db) BY Zenon DEF FileOK, Valid
      <3>2. db.revision \in Nat /\ i \in 1..db.revision BY <1>1, <1>2, <2>1, Zenon
      <3>3. PICK n \in DOMAIN db.catalog : es[i] = db.catalog[n]
        BY <1>1, <3>1, <3>2, RowOfRevision, Zenon
      <3>4. QED BY <3>1, <3>3, Zenon DEF IsDatabase
    <2>6. QED BY <2>3, <2>4, <2>5, Zenon DEF IsEntry
  <1>9. QED BY <1>1, <1>6, <1>7, <1>8, Zenon DEF StartsWith
-----------------------------------------------------------------------------
(* The catalog a restore stages *)

\* Entries in the order of their revisions, each under a nonce of its own.
Numbered(entries) ==
    /\ \A i \in 1..Len(entries) : entries[i].revision = i
    /\ \A i, j \in 1..Len(entries) : entries[i].locator.nonce = entries[j].locator.nonce => i = j

\* What a restore stages: the entries, sorted, are the rows.
StagedAs(db, w, entries) ==
    /\ db.revision = Len(entries) /\ db.identity = w.identity
    /\ \A i \in 1..Len(entries) : SortedEntries(db)[i] = entries[i]

\* Sorting the staged rows gives the entries back.
LEMMA StagedSorted ==
    ASSUME NEW w, NEW e, NEW entries, IsSeq(entries), NEW checkpoint, Numbered(entries),
           NEW db \in InitializeDatabase(w, e, entries, checkpoint), FileOK(db)
    PROVE  StagedAs(db, w, entries)
  <1>1. Len(entries) \in Nat /\ DOMAIN entries = 1..Len(entries) BY SeqFacts
  <1>2. PICK C : C = Rows(entries) BY Zenon
  <1>3. db.revision = Len(entries) /\ db.identity = w.identity /\ db.catalog = C
    <2>1. db = [identity |-> w.identity, walletId |-> w.walletId, envelope |-> e,
                digest |-> KeystoreDigest(e), revision |-> Len(entries),
                checkpoint |-> checkpoint, catalog |-> C]
      BY <1>2, Zenon DEF InitializeDatabase, When
    <2>2. QED BY <2>1, Zenon
  <1>4. ASSUME NEW i \in 1..Len(entries) PROVE SortedEntries(db)[i] = entries[i]
    <2> DEFINE n == entries[i].locator.nonce
               E == {entries[j] : j \in DOMAIN entries}
               x == CHOOSE y \in E : y.locator.nonce = n
    <2>1. n \in DOMAIN C /\ C[n] = x BY <1>1, <1>2, Zenon DEF Rows
    <2>2. x \in E /\ x.locator.nonce = n
      <3>1. entries[i] \in E /\ entries[i].locator.nonce = n BY <1>1, Zenon
      <3>2. QED BY <3>1, Zenon
    <2> HIDE DEF x
    <2>3. PICK j \in 1..Len(entries) : x = entries[j] BY <1>1, <2>2, Zenon
    <2>4. j = i BY <2>2, <2>3, Zenon DEF Numbered
    <2>5. C[n] = entries[i] /\ entries[i].revision = i BY <2>1, <2>3, <2>4, Zenon DEF Numbered
    <2>6. RevisionsAreContiguous(db) /\ db.revision \in Nat BY Zenon DEF FileOK, Valid, IsDatabase
    <2>7. n \in DOMAIN db.catalog /\ db.catalog[n] = entries[i] BY <1>3, <2>1, <2>5, Zenon
    <2> HIDE DEF n
    <2>8. SortedEntries(db)[db.catalog[n].revision] = db.catalog[n] BY <2>6, <2>7, SortedRow, Zenon
    <2>9. QED BY <2>5, <2>7, <2>8
  <1>5. QED BY <1>3, <1>4 DEF StagedAs

-----------------------------------------------------------------------------
(* Restores *)

LEMMA InitialRevision ==
    ASSUME NEW w, NEW envelope, NEW entries, NEW c,
           NEW db \in InitializeDatabase(w, envelope, entries, c)
    PROVE  db.revision = Len(entries)
  BY DEF InitializeDatabase, When

\* A file that is created is empty.
LEMMA CreateExact ==
    ASSUME IInv, NEW path \in Paths, NEW identity, NEW passphrase, Create(path, identity, passphrase)
    PROVE  NewFilesAreExact
  <1>1. PICK envelope \in Seal(identity, passphrase, Len(disk) + 1, Len(disk) + 1) :
        \E w \in Unlock(envelope, identity, passphrase) :
            Stage(path, w, envelope, <<>>, RootCheckpoint(w, envelope))
    BY DEF Create
  <1>2. PICK w \in Unlock(envelope, identity, passphrase) :
            Stage(path, w, envelope, <<>>, RootCheckpoint(w, envelope))
    BY <1>1
  <1>3. PICK db \in InitializeDatabase(w, envelope, <<>>, RootCheckpoint(w, envelope)) : disk' = Append(disk, db)
    BY <1>2 DEF Stage
  <1>4. db.revision = 0
    <2>1. db.revision = Len(<<>>) BY <1>3, InitialRevision, Zenon
    <2>2. QED BY <2>1
  <1>5. \A f \in DOMAIN disk' \ DOMAIN disk : disk'[f] = db BY <1>3, OneNewFile, Zenon
  <1>6. QED BY <1>4, <1>5, Zenon DEF NewFilesAreExact

\* A file that is restored is a prefix of the one its backup comes from.
LEMMA RestoreExact ==
    ASSUME IInv, NEW path \in Paths, NEW identity, NEW passphrase, NEW backup \in Artifacts,
           Restore(path, identity, passphrase, backup)
    PROVE  NewFilesAreExact
  <1>1. PICK w, envelope, entries :
              /\ w = WalletOf(envelope) /\ IsSeq(entries)
              /\ \A i \in 1..Len(entries) : IsEntry(entries[i]) /\ entries[i].revision = i
              /\ \A i, j \in 1..Len(entries) : entries[i].locator.nonce = entries[j].locator.nonce => i = j
              /\ RecomputeCheckpoint(w, envelope, entries) = backup.checkpoint
              /\ Stage(path, w, envelope, entries, backup.checkpoint)
    BY RestoreFacts, Zenon
  <1>2. PICK c : c = backup.checkpoint BY Zenon
  <1>3. PICK db \in InitializeDatabase(w, envelope, entries, c) :
              ValidateDatabase(w, db, envelope) /\ disk' = Append(disk, db)
    BY <1>1, <1>2, Zenon DEF Stage
  <1>4. FileOK(db) /\ db.envelope = envelope
    <2>1. w = WalletOf(envelope) /\ IsSeq(entries) /\ \A i \in 1..Len(entries) : IsEntry(entries[i])
      BY <1>1, Zenon
    <2>2. QED BY <1>3, <2>1, StagedFile
  <1>5. /\ db.revision = Len(entries) /\ db.identity = w.identity
        /\ \A i \in 1..Len(entries) : SortedEntries(db)[i] = entries[i]
    <2>1. IsSeq(entries) /\ Numbered(entries) BY <1>1, Zenon DEF Numbered
    <2>2. StagedAs(db, w, entries) BY <1>3, <1>4, <2>1, StagedSorted, Zenon
    <2>3. QED BY <2>2 DEF StagedAs
  <1>6. PICK g \in 1..Len(disk) : Covers(disk[g].checkpoint, c)
    <2>1. PICK b \in exported : c = b.checkpoint BY <1>2, ArtifactFacts
    <2>2. QED BY <2>1, Zenon DEF IInv, BackupsInv, IsBackup
  <1>7. PICK old : old = disk[g] BY Zenon
  <1>8. FileOK(old) BY <1>7, Zenon DEF IInv, FilesInv
  <1>9. /\ w = WalletOf(old.envelope) /\ envelope = old.envelope
        /\ Len(entries) <= old.revision
        /\ \A i \in 1..Len(entries) : entries[i] = SortedEntries(old)[i]
    <2>1. IsSeq(entries) /\ \A i \in 1..Len(entries) : IsEntry(entries[i]) BY <1>1, Zenon
    <2>2. c = RecomputeCheckpoint(w, envelope, entries) BY <1>1, <1>2, Zenon
    <2>3. Covers(old.checkpoint, c) BY <1>6, <1>7, Zenon
    <2>4. StartsWith(old, w, envelope, entries) BY <1>8, <2>1, <2>2, <2>3, SameChain, Zenon
    <2>5. QED BY <2>4, Zenon DEF StartsWith
  <1>10. old.identity = db.identity
    <2>1. old.identity = WalletOf(old.envelope).identity BY <1>8, Zenon DEF FileOK, Valid, Bound
    <2>2. QED BY <1>5, <1>9, <2>1, Zenon
  <1>11. BeginsWith(SortedEntries(old), SortedEntries(db))
    <2>1. PICK s, t : s = SortedEntries(db) /\ t = SortedEntries(old) BY Zenon
    <2>2. IsSeq(s) /\ Len(s) = db.revision /\ IsSeq(t) /\ Len(t) = old.revision
      BY <1>4, <1>8, <2>1, SortedSeq, Zenon DEF FileOK, IsDatabase
    <2>3. Len(s) <= Len(t) /\ \A i \in 1..Len(s) : s[i] = t[i] BY <1>5, <1>9, <2>1, <2>2
    <2>4. QED BY <2>1, <2>2, <2>3, PrefixFacts
  <1>12. g \in DOMAIN disk /\ \A f \in DOMAIN disk' \ DOMAIN disk : disk'[f] = db
    BY <1>3, <1>6, OneNewFile, Zenon
  <1>13. old.envelope = db.envelope BY <1>4, <1>9, Zenon
  <1>14. QED BY <1>7, <1>10, <1>11, <1>12, <1>13, Zenon DEF NewFilesAreExact

\* For any number of files and backups, whatever parts of backups an operator
\* mixes: a restored catalog is a prefix of the catalog of the same wallet.
THEOREM OnlyExactBackupsRestore == Spec => RestoresAreExact
  <1>1. Init => IInv BY InitInv
  <1>2. IInv /\ [Next]_vars => IInv' BY NextInv
  <1>3. ASSUME IInv, [Next]_vars PROVE [NewFilesAreExact]_vars
    <2>1. ASSUME NEW p \in Paths, NEW c \in Credentials, Create(p, c.identity, c.passphrase)
          PROVE  NewFilesAreExact
      BY <1>3, <2>1, CreateExact
    <2>2. ASSUME NEW p \in Paths, NEW c \in Credentials, NEW backup \in Artifacts,
                 Restore(p, c.identity, c.passphrase, backup)
          PROVE  NewFilesAreExact
      BY <1>3, <2>2, RestoreExact, Zenon
    <2>3. CASE DOMAIN disk' = DOMAIN disk BY <2>3, Zenon DEF NewFilesAreExact
    <2>4. ASSUME NEW p \in Paths, NEW c \in Credentials, Open(p, c.identity, c.passphrase)
          PROVE  disk' = disk
      BY <2>4 DEF Open
    <2>5. ASSUME NEW h \in handles,
                 Publish(h) \/ Confirm(h) \/ ConfirmFails(h) \/ ExportBackup(h) \/ Close(h)
          PROVE  disk' = disk
      BY <2>5 DEF Publish, Confirm, ConfirmFails, ExportBackup, Close
    <2>6. ASSUME NEW h \in handles, NEW purpose \in IssuePurposes, Issue(h, purpose) \/ IssueFails(h, purpose)
          PROVE  DOMAIN disk' = DOMAIN disk
      BY <2>6, Zenon DEF Issue, IssueFails, Written
    <2>7. CASE PowerLoss BY <2>3, <2>7 DEF PowerLoss
    <2>8. QED BY <1>3, <2>1, <2>2, <2>3, <2>4, <2>5, <2>6, <2>7 DEF Next
  <1>4. QED BY <1>1, <1>2, <1>3, PTL DEF Spec, RestoresAreExact
=============================================================================
