-------------------------- MODULE SettlementSigning --------------------------
(***************************************************************************)
(* Validation, commitment and signing of settlements over one shared       *)
(* reservation book (store/settlement.rs, store/settlement/finalization.rs *)
(* and the calls of store.rs they make).                                   *)
(*                                                                         *)
(* A worker is one call in progress.  It holds no lock between its steps,  *)
(* so each step is an action: validate, commit, look the job up, wait for  *)
(* the signer, record.  Takers' workers start from a submitted PSET;       *)
(* recovery workers resume what recovery_actions lists.  Meanwhile         *)
(* reservations are made, cancelled, rejected and expired, writes end in   *)
(* ambiguous commits, and the process crashes and reopens the book.        *)
(*                                                                         *)
(* The chain checks of validate_reserved and the cryptographic checks on   *)
(* the signer's answer are a choice between success and refusal: a         *)
(* refused call leaves everything as it was.                               *)
(***************************************************************************)
EXTENDS ReservationStore

CONSTANTS
    Takers,         \* calls that submit a PSET
    Recoverers,     \* calls that resume a recovery action
    Signs,          \* the payload each artifact is a signature of
    Lifetime,       \* policy.quote_lifetime_millis
    MaxCrashes      \* bound on crashes and ambiguous commits

ASSUME SigningAssumption ==
    /\ Takers \cap Recoverers = {}
    /\ Signs \in [Artifacts -> Payloads]
    /\ Lifetime \in Nat \ {0}
    /\ MaxCrashes \in Nat

Workers == Takers \cup Recoverers

VARIABLES
    db,         \* the reservation book on disk
    usable,     \* a healthy handle is open
    crashes,    \* crashes and ambiguous commits so far
    task,       \* what each worker is doing, lost in a crash
    asked,      \* <<id, payload>> the signer was ever given
    shown       \* <<id, artifact>> ever returned to a caller

vars == <<db, usable, crashes, task, asked, shown>>

Idle == [step |-> "idle", id |-> Null, payload |-> Null, artifact |-> Null]

Job(step, id, payload) ==
    [step |-> step, id |-> id, payload |-> payload, artifact |-> Null]

Init ==
    /\ \E items \in SUBSET Items, now \in Time :
          /\ \A u \in Outpoints : \E item \in items : item[1] = u
          /\ \A x, y \in items : x[1] = y[1] => x = y
          /\ db = ImportInventory(ObserveTime(EmptyStore, now), items, now)
    /\ usable = TRUE
    /\ crashes = 0
    /\ task = [w \in Workers |-> Idle]
    /\ asked = {}
    /\ shown = {}

Become(w, t) == task' = [task EXCEPT ![w] = t]

\* A timed write that reports success leaves "after"; one that does not may
\* have stopped after either of its commits, and fails its caller.
Write(now, after) ==
    /\ usable
    /\ now >= db.hwm
    /\ db' = after
    /\ UNCHANGED <<usable, crashes>>

FailingWrite(now, after) ==
    /\ usable
    /\ crashes < MaxCrashes
    /\ now >= db.hwm
    /\ db' \in {db, ObserveTime(db, now), after}
    /\ usable' = FALSE
    /\ crashes' = crashes + 1
    /\ UNCHANGED <<task, asked, shown>>

-----------------------------------------------------------------------------
(* The calls of a settlement. *)

\* ProviderSettlementValidator::validate.  What was committed is recognised
\* from the record alone; a reserved quote is checked against the live chain.
Validate(w, id, payload) ==
    /\ usable
    /\ task[w].step = "idle"
    /\ \/ db.reservation[id].status = "Reserved"
       \/ /\ db.reservation[id].status \in {"Committed", "Signed"}
          /\ db.reservation[id].payload = payload
    /\ Become(w, Job("validated", id, payload))
    /\ UNCHANGED <<db, usable, crashes, asked, shown>>

AfterCommit(w, now) ==
    LET t == task[w] IN
    CommitBeforeSign(ObserveTime(db, now), t.id[1], t.id, t.payload, now)

\* ValidatedSigningIntent::commit, then the outcome that complete receives:
\* the stored job, the stored artifact, or an error.
Commit(w, now) ==
    LET t == task[w]
        r == AfterCommit(w, now).reservation[t.id]
    IN
    /\ t.step = "validated"
    /\ Write(now, AfterCommit(w, now))
    /\ \/ /\ r.status = "Committed" /\ r.payload = t.payload
          /\ Become(w, Job("committed", t.id, t.payload))
          /\ UNCHANGED shown
       \/ /\ r.status = "Signed" /\ r.payload = t.payload
          /\ Become(w, Idle)
          /\ shown' = shown \cup {<<t.id, r.artifact>>}
       \/ /\ r.status \notin {"Committed", "Signed"} \/ r.payload # t.payload
          /\ Become(w, Idle)
          /\ UNCHANGED shown
    /\ UNCHANGED asked

\* A faulty variant of Recover: unfinished jobs are not listed.
RecoverSignedOnly(w, id) ==
    /\ usable
    /\ task[w].step = "idle"
    /\ db.reservation[id].status = "Signed"
    /\ shown' = shown \cup {<<id, db.reservation[id].artifact>>}
    /\ UNCHANGED <<db, usable, crashes, task, asked>>

\* recovery_actions: every unfinished job and every stored artifact.
RecoveryActions == {id \in Ids : db.reservation[id].status \in {"Committed", "Signed"}}

\* recover one of the listed actions.
Recover(w, id) ==
    LET r == db.reservation[id] IN
    /\ usable
    /\ id \in RecoveryActions
    /\ task[w].step = "idle"
    /\ \/ /\ r.status = "Committed"
          /\ Become(w, Job("committed", id, r.payload))
          /\ UNCHANGED shown
       \/ /\ r.status = "Signed"
          /\ shown' = shown \cup {<<id, r.artifact>>}
          /\ UNCHANGED task
    /\ UNCHANGED <<db, usable, crashes, asked>>

\* The worker returns the stored artifact of its job.
ReplayWinner(w) ==
    /\ db.reservation[task[w].id].status = "Signed"
    /\ shown' = shown \cup {<<task[w].id, db.reservation[task[w].id].artifact>>}
    /\ Become(w, Idle)
    /\ UNCHANGED <<db, usable, crashes, asked>>

\* finalize: signing_state_for must find the exact job before the signer is
\* called.  Its other answers are errors.
StartSigning(w) ==
    LET t == task[w]
        r == db.reservation[t.id]
    IN
    /\ usable
    /\ t.step = "committed"
    /\ r.payload = t.payload /\ CommittedAllocations(db, t.id)
    /\ \/ /\ r.status = "Committed"
          /\ asked' = asked \cup {<<t.id, t.payload>>}
          /\ Become(w, [t EXCEPT !.step = "signing"])
          /\ UNCHANGED <<db, usable, crashes, shown>>
       \/ ReplayWinner(w)

\* The signer answers with one of the valid signatures of the payload ...
SignerSucceeds(w) ==
    /\ task[w].step = "signing"
    /\ \E a \in Artifacts :
          /\ Signs[a] = task[w].payload
          /\ Become(w, [task[w] EXCEPT !.step = "candidate", !.artifact = a])
    /\ UNCHANGED <<db, usable, crashes, asked, shown>>

\* ... or with an error or a response that does not verify, which is forgotten
\* when another worker finished the job meanwhile.
SignerFails(w) ==
    /\ usable
    /\ task[w].step = "signing"
    /\ \/ ReplayWinner(w)
       \/ /\ db.reservation[task[w].id].status # "Signed"
          /\ Become(w, Idle)
          /\ UNCHANGED <<db, usable, crashes, asked, shown>>

AfterRecord(w, now) ==
    LET t == task[w] IN
    RecordSigned(ObserveTime(db, now), t.id, t.payload, t.artifact, now)

\* A faulty variant of Record: the local candidate is returned although
\* another encoding is stored.
RecordAndShowCandidate(w, now) ==
    /\ task[w].step = "candidate"
    /\ Write(now, AfterRecord(w, now))
    /\ shown' = shown \cup {<<task[w].id, task[w].artifact>>}
    /\ Become(w, Idle)
    /\ UNCHANGED asked

\* record_finalized_pset: under the operation lock a stored winner is returned
\* before the clock is read.
Record(w, now) ==
    LET t == task[w] IN
    /\ t.step = "candidate"
    /\ \/ usable /\ ReplayWinner(w)
       \/ /\ db.reservation[t.id].status = "Committed"
          /\ Write(now, AfterRecord(w, now))
          /\ shown' = shown \cup {<<t.id, t.artifact>>}
          /\ Become(w, Idle)
          /\ UNCHANGED asked

-----------------------------------------------------------------------------
(* The rest of the provider. *)

\* A quote for all of the inputs, selected from a current snapshot.
Reserve(id, request, items, now) ==
    /\ Write(now, ReserveFirmQuote(ObserveTime(db, now), id, request,
                    [items |-> items, revision |-> db.revision, observed_at |-> now],
                    Lifetime, 1, now))
    /\ UNCHANGED <<task, asked, shown>>

Withdraw(id, now) ==
    /\ \/ Write(now, Cancel(ObserveTime(db, now), id[1], id, now))
       \/ Write(now, RejectUncommitted(ObserveTime(db, now), id, now))
       \/ Write(now, ExpireDueInWrite(ObserveTime(db, now), Due(db, now), now))
    /\ UNCHANGED <<task, asked, shown>>

\* A commit that fails its caller: every later call fails until the restart.
AmbiguousCommit(now) ==
    \E w \in Workers :
        \/ /\ task[w].step = "validated"
           /\ FailingWrite(now, AfterCommit(w, now))
        \/ /\ task[w].step = "candidate"
           /\ db.reservation[task[w].id].status = "Committed"
           /\ FailingWrite(now, AfterRecord(w, now))

Crash ==
    /\ usable
    /\ crashes < MaxCrashes
    /\ usable' = FALSE
    /\ crashes' = crashes + 1
    /\ UNCHANGED <<db, task, asked, shown>>

\* The process starts again; what its workers held in memory is gone.
Open ==
    /\ ~usable
    /\ ValidateStoreIntegrity(db)
    /\ usable' = TRUE
    /\ task' = [w \in Workers |-> Idle]
    /\ UNCHANGED <<db, crashes, asked, shown>>

Next ==
    \/ \E w \in Takers, id \in Ids, payload \in Payloads : Validate(w, id, payload)
    \/ \E w \in Recoverers, id \in Ids : Recover(w, id)
    \/ \E w \in Workers : StartSigning(w) \/ SignerSucceeds(w) \/ SignerFails(w)
    \/ \E now \in Time :
          \/ \E w \in Workers : Commit(w, now) \/ Record(w, now)
          \/ \E id \in Ids, request \in Requests, items \in (SUBSET Items) \ {{}} :
                Reserve(id, request, items, now)
          \/ \E id \in Ids : Withdraw(id, now)
          \/ AmbiguousCommit(now)
    \/ Crash
    \/ Open

\* A restart happens, recovery tries every unfinished job of the book in turn,
\* each call runs on, and a signer that is asked again and again answers.
Fairness ==
    /\ WF_vars(Open)
    /\ \A w \in Recoverers :
          /\ \A id \in Ids : SF_vars(Recover(w, id) /\ task'[w].step = "committed")
          /\ WF_vars(StartSigning(w))
          /\ SF_vars(SignerSucceeds(w))
          /\ WF_vars(\E now \in Time : Record(w, now))

Spec == Init /\ [][Next]_vars /\ Fairness

-----------------------------------------------------------------------------
(* Properties *)

\* The signer is only ever given a payload that is durably committed: whatever
\* was cancelled, expired or lost in a crash between validate and finalize,
\* a reservation the signer was asked about holds that payload for good.
SignerGetsCommittedJobs ==
    \A job \in asked :
        /\ db.reservation[job[1]].status \in {"Committed", "Signed"}
        /\ db.reservation[job[1]].payload = job[2]

\* No two payloads the signer was ever given spend a common input, not even
\* payloads of successive reservations of that input.
NoConflictingSignatures ==
    \A a, b \in asked :
        InputsOf(db.reservation[a[1]]) \cap InputsOf(db.reservation[b[1]]) # {} => a = b

\* Concurrent workers may obtain different valid encodings; every caller is
\* shown the one that is stored, and it signs the committed payload.
ShownArtifactIsDurable ==
    \A answer \in shown :
        LET r == db.reservation[answer[1]] IN
        /\ r.status = "Signed"
        /\ r.artifact = answer[2]
        /\ Signs[r.artifact] = r.payload

\* A committed job is signed eventually, through crashes and failing signers.
CommittedJobsAreSigned ==
    \A id \in Ids :
        (db.reservation[id].status = "Committed") ~> (db.reservation[id].status = "Signed")

=============================================================================
