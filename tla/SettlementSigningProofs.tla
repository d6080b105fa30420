---------------------- MODULE SettlementSigningProofs -----------------------
(***************************************************************************)
(* Proofs about SettlementSigning for any number of workers, quotes,       *)
(* payloads, signature encodings, crashes and ambiguous commits.           *)
(*                                                                         *)
(* The safety properties are about what left the process: the jobs the     *)
(* signer was given and the artifacts callers were shown.  The invariant   *)
(* adds what the workers remember between their steps (TaskOK) and that    *)
(* whatever the book stores as signed is a signature of its own payload    *)
(* (Genuine), because recovery and replays answer from the book alone.     *)
(***************************************************************************)
EXTENDS SettlementSigning, ReservationStoreProofs

USE DEF Time, NoTime

\* The jobs of A are committed in d for good.
Promised(d, A) ==
    \A job \in A : /\ job = <<job[1], job[2]>> /\ job[1] \in Ids
                   /\ d.reservation[job[1]].status \in {"Committed", "Signed"}
                   /\ d.reservation[job[1]].payload = job[2]

\* The answers of H are what d stores.
Durable(d, H) ==
    \A answer \in H : /\ answer[1] \in Ids
                      /\ d.reservation[answer[1]].status = "Signed"
                      /\ d.reservation[answer[1]].artifact = answer[2]

\* A stored artifact signs the payload it is stored for.
Genuine(d) ==
    \A id \in Ids : d.reservation[id].status = "Signed" =>
                        Signs[d.reservation[id].artifact] = d.reservation[id].payload

TaskOf(step, id, payload, artifact) ==
    [step |-> step, id |-> id, payload |-> payload, artifact |-> artifact]

\* A worker past its validation works on one job; one that waits for the signer
\* or has its answer has asked for exactly that job.
TaskOK(t, A) ==
    /\ t = TaskOf(t.step, t.id, t.payload, t.artifact)
    /\ t.step # "idle" => t.id \in Ids /\ t.payload \in Payloads
    /\ t.step \in {"signing", "candidate"} => <<t.id, t.payload>> \in A
    /\ t.step = "candidate" => t.artifact \in Artifacts /\ Signs[t.artifact] = t.payload

TasksOK ==
    /\ task = [w \in Workers |-> task[w]]
    /\ \A w \in Workers : TaskOK(task[w], asked)

Inv ==
    /\ Sound(db)
    /\ Promised(db, asked)
    /\ Durable(db, shown)
    /\ Genuine(db)
    /\ TasksOK

-----------------------------------------------------------------------------
(* Single steps of the store. *)

\* What was promised and shown stays so in whatever the store becomes.
LEMMA ForwardKeeps ==
  ASSUME NEW d, NEW e, Forward(d, e), NEW A, NEW H, Promised(d, A), Durable(d, H)
  PROVE  Promised(e, A) /\ Durable(e, H)
  BY Zenon DEF Forward, Irrevocable, Promised, Durable

\* A write that signs nothing keeps the stored artifacts genuine.
LEMMA QuietGenuine ==
  ASSUME NEW d, NEW e, Genuine(d), NoneSigned(d, e)
  PROVE  Genuine(e)
  BY DEF Genuine, NoneSigned

\* A clock reading alone changes no reservation.
LEMMA ObserveGenuine ==
  ASSUME NEW d, Sound(d), Genuine(d), NEW now
  PROVE  Genuine(ObserveTime(d, now))
  BY ImportEffect DEF Genuine

\* A write that leaves "after" and signs nothing.
LEMMA QuietWrite ==
  ASSUME NEW d, Sound(d), Genuine(d), NEW now \in Time, now >= d.hwm, NEW e,
         OneWrite(ObserveTime(d, now), e), NoneSigned(ObserveTime(d, now), e)
  PROVE  StoreStep(d, e) /\ Genuine(e)
  BY ObserveGenuine, QuietGenuine DEF StoreStep

\* Recording a candidate signs at most its own job, with the candidate.
LEMMA RecordSignedRow ==
  ASSUME NEW d, Sound(d), d.hwm \in Time, NEW id \in Ids, NEW payload \in Payloads,
         NEW artifact \in Artifacts, NEW e, e = RecordSigned(d, id, payload, artifact, d.hwm)
  PROVE  /\ Records(d, e)
         /\ \A i \in Ids \ {id} : e.reservation[i] = d.reservation[i]
         /\ \/ e = d
            \/ /\ e.reservation[id].status = "Signed"
               /\ e.reservation[id].artifact = artifact
               /\ e.reservation[id].payload = payload
         /\ d.reservation[id].status = "Committed" /\ d.reservation[id].payload = payload =>
               e.reservation[id].status = "Signed" /\ e.reservation[id].artifact = artifact
  <1> DEFINE r == d.reservation[id]
             q == Signed(r, artifact, d.hwm)
  <1>1. Records(d, e)
    BY Zenon DEF Records
  <1>2. TableRecord(d) /\ d.reservation \in [Ids -> Reservation]
    BY StoreElim DEF Sound, TablesTyped
  <1>3. q.status = "Signed" /\ q.artifact = artifact /\ q.payload = r.payload
    BY <1>2, SignedFields
  <1> HIDE DEF q
  <1>4. CASE ~(r.status = "Committed" /\ r.payload = payload /\ CommittedAllocations(d, id))
    <2>1. e = d
      BY <1>4, Zenon DEF RecordSigned
    <2>2. r.status = "Committed" => CommittedAllocations(d, id)
      BY DEF Sound, TablesValid, ReservationsValid, ReservationValid, InputsAgree,
             CommittedAllocations
    <2>3. QED BY <1>1, <1>4, <2>1, <2>2
  <1>5. CASE r.status = "Committed" /\ r.payload = payload /\ CommittedAllocations(d, id)
    <2>1. e.reservation = [d.reservation EXCEPT ![id] = q]
      BY <1>2, <1>5, ZenonT(30) DEF RecordSigned, TableRecord, q
    <2>2. e.reservation[id] = q /\ \A i \in Ids \ {id} : e.reservation[i] = d.reservation[i]
      BY <1>2, <2>1
    <2>3. QED BY <1>1, <1>3, <1>5, <2>2
  <1>6. QED BY <1>4, <1>5

-----------------------------------------------------------------------------
(* The writes of the workers and of the rest of the provider. *)

\* The write of a commitment is a step of the store that signs nothing.
LEMMA AfterCommitQuiet ==
  ASSUME Inv, NEW w \in Workers, task[w].step = "validated", NEW now \in Time, now >= db.hwm
  PROVE  StoreStep(db, AfterCommit(w, now)) /\ Genuine(AfterCommit(w, now))
  <1> DEFINE d == ObserveTime(db, now)
             e == AfterCommit(w, now)
  <1>1. task[w].id \in Ids
    BY Zenon DEF Inv, TasksOK, TaskOK
  <1>2. Sound(d) /\ d.hwm = now /\ d.hwm \in Time
    BY ObserveTimeSound DEF Inv
  <1>3. e = CommitBeforeSign(d, task[w].id[1], task[w].id, task[w].payload, d.hwm)
    BY <1>2 DEF AfterCommit
  <1> HIDE DEF d, e
  <1>4. e = d \/ Releases(d, e) \/ Commits(d, e)
    BY <1>1, <1>2, <1>3, CommitBeforeSignWrites
  <1>5. OneWrite(d, e) /\ NoneSigned(d, e)
    BY <1>2, <1>4, ReleasesQuiet, CommitsQuiet, Zenon DEF OneWrite
  <1>6. QED BY <1>5, QuietWrite DEF Inv, d, e

\* The write of a candidate is a step of the store that signs its own job.
LEMMA AfterRecordGenuine ==
  ASSUME Inv, NEW w \in Workers, task[w].step = "candidate", NEW now \in Time, now >= db.hwm
  PROVE  /\ StoreStep(db, AfterRecord(w, now))
         /\ Genuine(AfterRecord(w, now))
         /\ db.reservation[task[w].id].status = "Committed" =>
               /\ AfterRecord(w, now).reservation[task[w].id].status = "Signed"
               /\ AfterRecord(w, now).reservation[task[w].id].artifact = task[w].artifact
  <1> DEFINE d == ObserveTime(db, now)
             e == AfterRecord(w, now)
             t == task[w]
  <1>1. /\ t.id \in Ids /\ t.payload \in Payloads /\ t.artifact \in Artifacts
        /\ <<t.id, t.payload>> \in asked /\ Signs[t.artifact] = t.payload
    BY DEF Inv, TasksOK, TaskOK
  <1>2. Sound(d) /\ d.hwm = now /\ d.hwm \in Time /\ Genuine(d)
    BY ObserveTimeSound, ObserveGenuine DEF Inv
  <1>3. e = RecordSigned(d, t.id, t.payload, t.artifact, d.hwm)
    BY <1>2 DEF AfterRecord
  <1>4. d.reservation = db.reservation
    BY ImportEffect DEF Inv
  <1>5. db.reservation[t.id].payload = t.payload
    BY <1>1, Zenon DEF Inv, Promised
  <1> HIDE DEF d, e, t
  <1>6. /\ Records(d, e)
        /\ \A i \in Ids \ {t.id} : e.reservation[i] = d.reservation[i]
        /\ \/ e = d
           \/ /\ e.reservation[t.id].status = "Signed"
              /\ e.reservation[t.id].artifact = t.artifact
              /\ e.reservation[t.id].payload = t.payload
        /\ d.reservation[t.id].status = "Committed" /\ d.reservation[t.id].payload = t.payload =>
              e.reservation[t.id].status = "Signed" /\ e.reservation[t.id].artifact = t.artifact
    BY <1>1, <1>2, <1>3, RecordSignedRow
  <1>7. Genuine(e)
    BY <1>1, <1>2, <1>6 DEF Genuine
  <1>8. StoreStep(db, e)
    BY <1>6 DEF StoreStep, OneWrite, d
  <1>9. QED BY <1>4, <1>5, <1>6, <1>7, <1>8 DEF e, t

\* A failing write leaves one of three databases, all of them good.
LEMMA FailingWriteSteps ==
  ASSUME Inv, NEW now \in Time, NEW after, FailingWrite(now, after),
         now >= db.hwm => StoreStep(db, after) /\ Genuine(after)
  PROVE  StoreStep(db, db') /\ Genuine(db')
  <1>1. now >= db.hwm /\ db' \in {db, ObserveTime(db, now), after}
    BY DEF FailingWrite
  <1>2. Genuine(ObserveTime(db, now)) /\ Genuine(db)
    BY ObserveGenuine DEF Inv
  <1>3. StoreStep(db, db) /\ StoreStep(db, ObserveTime(db, now))
    BY <1>1, Zenon DEF StoreStep, OneWrite
  <1>4. QED BY <1>1, <1>2, <1>3

\* New quotes are steps of the store that sign nothing.
LEMMA ReserveQuiet ==
  ASSUME Inv, NEW now \in Time, NEW id \in Ids, NEW request \in Requests,
         NEW items \in (SUBSET Items) \ {{}}, Reserve(id, request, items, now)
  PROVE  StoreStep(db, db') /\ Genuine(db')
  <1> DEFINE d == ObserveTime(db, now)
             draft == [items |-> items, revision |-> db.revision, observed_at |-> now]
  <1>1. now >= db.hwm
    BY DEF Reserve, Write
  <1>2. Sound(d) /\ d.hwm = now /\ d.hwm \in Time
    BY <1>1, ObserveTimeSound DEF Inv
  <1>3. db' = ReserveFirmQuote(d, id, request, draft, Lifetime, 1, d.hwm)
    BY <1>2 DEF Reserve, Write
  <1>4. draft.items \in (SUBSET Items) \ {{}} /\ Lifetime \in Nat \ {0}
    BY SigningAssumption
  <1> HIDE DEF d, draft
  <1>5. db' = d \/ Releases(d, db') \/ Reserves(d, db')
    BY <1>2, <1>3, <1>4, ReserveFirmQuoteWrites, Zenon
  <1>6. OneWrite(d, db') /\ NoneSigned(d, db')
    BY <1>2, <1>5, ReleasesQuiet, ReservesSignsNothing DEF OneWrite
  <1>7. QED BY <1>1, <1>6, QuietWrite DEF Inv, d

\* Cancellations, rejections and expirations are steps of the store that sign
\* nothing.
LEMMA WithdrawQuiet ==
  ASSUME Inv, NEW now \in Time, NEW id \in Ids, Withdraw(id, now)
  PROVE  StoreStep(db, db') /\ Genuine(db')
  <1> DEFINE d == ObserveTime(db, now)
  <1>1. now >= db.hwm
    BY DEF Withdraw, Write
  <1>2. Sound(d) /\ d.hwm = now /\ d.hwm \in Time
    BY <1>1, ObserveTimeSound DEF Inv
  <1>3. \/ db' \in {Cancel(d, id[1], id, d.hwm), RejectUncommitted(d, id, d.hwm)}
        \/ db' = ExpireDueInWrite(d, Due(db, now), d.hwm)
    BY <1>2, Zenon DEF Withdraw, Write
  <1>4. Due(db, now) \in SUBSET Ids /\ Due(db, now) \subseteq Due(d, d.hwm)
    <2>1. d.expirations = db.expirations
      BY DEF Inv, Sound, Store, ObserveTime
    <2>2. QED BY <1>2, <2>1 DEF Due
  <1> HIDE DEF d
  <1>5. db' = d \/ Releases(d, db')
    <2>1. CASE db' \in {Cancel(d, id[1], id, d.hwm), RejectUncommitted(d, id, d.hwm)}
      <3>1. PICK e, owner : e = db' /\ owner = id[1]
        BY Zenon
      <3>2. e = Cancel(d, owner, id, d.hwm) \/ e = RejectUncommitted(d, id, d.hwm)
        BY <2>1, <3>1, Zenon
      <3>3. e = d \/ Releases(d, e)
        BY <3>2, ReleaseBeforeCommitWrites
      <3>4. QED BY <3>1, <3>3
    <2>2. CASE db' = ExpireDueInWrite(d, Due(db, now), d.hwm)
      BY <1>2, <1>4, <2>2, ExpireDueInWriteWrites
    <2>3. QED BY <1>3, <2>1, <2>2
  <1>6. OneWrite(d, db') /\ NoneSigned(d, db')
    BY <1>2, <1>5, ReleasesQuiet DEF OneWrite
  <1>7. QED BY <1>1, <1>6, QuietWrite DEF Inv, d

-----------------------------------------------------------------------------
(* The invariant. *)

\* Whatever the store becomes, what was asked and shown before stays good.
LEMMA StoreKeeps ==
  ASSUME Counting, Inv, NEW e, StoreStep(db, e)
  PROVE  Sound(e) /\ Promised(e, asked) /\ Durable(e, shown)
  BY StoreStepSound, ForwardKeeps DEF Inv

\* A step that asks and shows nothing and leaves the workers alone.
LEMMA SilentStep ==
  ASSUME Counting, Inv, StoreStep(db, db'), Genuine(db'), UNCHANGED <<task, asked, shown>>
  PROVE  Inv'
  <1>1. Sound(db') /\ Promised(db', asked') /\ Durable(db', shown')
    BY StoreKeeps
  <1>2. TasksOK'
    BY DEF Inv, TasksOK
  <1>3. QED BY <1>1, <1>2 DEF Inv

\* A worker that asks for nothing new goes on with a job it may have.
LEMMA WorkerStep ==
  ASSUME Inv, NEW w \in Workers, NEW t, Become(w, t), TaskOK(t, asked'), asked \subseteq asked'
  PROVE  TasksOK'
  <1>1. task' = [task EXCEPT ![w] = t] /\ task = [v \in Workers |-> task[v]]
    BY DEF Become, Inv, TasksOK
  <1>2. task' = [v \in Workers |-> IF v = w THEN t ELSE task[v]]
    BY <1>1, Zenon
  <1>3. task' = [v \in Workers |-> task'[v]]
    BY <1>2, Zenon
  <1>4. ASSUME NEW v \in Workers PROVE TaskOK(task'[v], asked')
    <2>1. TaskOK(task[v], asked')
      BY DEF Inv, TasksOK, TaskOK
    <2>2. QED BY <1>2, <2>1, Zenon
  <1>5. QED BY <1>3, <1>4 DEF TasksOK

\* A worker that is idle may have any job.
LEMMA IdleOK == \A A : TaskOK(Idle, A)
  BY DEF Idle, TaskOK, TaskOf

\* A worker that only read the book and returned what it stores.
LEMMA ReplayInv ==
  ASSUME Inv, NEW w \in Workers, task[w].step # "idle", ReplayWinner(w)
  PROVE  Inv'
  <1>1. task[w].id \in Ids
    BY Zenon DEF Inv, TasksOK, TaskOK
  <1>2. db' = db /\ asked' = asked /\ Become(w, Idle)
    BY Zenon DEF ReplayWinner
  <1>3. Durable(db', shown')
    BY <1>1, <1>2 DEF ReplayWinner, Inv, Durable
  <1>4. TasksOK'
    BY <1>2, IdleOK, WorkerStep
  <1>5. QED BY <1>2, <1>3, <1>4 DEF Inv

\* Validating a settlement asks for nothing.
LEMMA ValidateInv ==
  ASSUME Inv, NEW w \in Workers, NEW id \in Ids, NEW payload \in Payloads,
         Validate(w, id, payload)
  PROVE  Inv'
  <1>1. TaskOK(Job("validated", id, payload), asked')
    BY DEF TaskOK, Job, TaskOf
  <1>2. UNCHANGED <<db, asked, shown>> /\ Become(w, Job("validated", id, payload))
    BY DEF Validate
  <1>3. TasksOK'
    BY <1>1, <1>2, WorkerStep
  <1>4. QED BY <1>2, <1>3 DEF Inv

\* A commitment goes on with its own job or returns what is stored.
LEMMA CommitInv ==
  ASSUME Counting, Inv, NEW w \in Workers, NEW now \in Time, Commit(w, now)
  PROVE  Inv'
  <1> DEFINE t == task[w]
  <1>1. /\ t.step = "validated" /\ now >= db.hwm /\ db' = AfterCommit(w, now) /\ asked' = asked
    BY DEF Commit, Write
  <1>2. t.id \in Ids /\ t.payload \in Payloads
    BY <1>1, Zenon DEF Inv, TasksOK, TaskOK
  <1>3. StoreStep(db, db') /\ Genuine(db')
    BY <1>1, AfterCommitQuiet
  <1>4. Sound(db') /\ Promised(db', asked') /\ Durable(db', shown)
    BY <1>1, <1>3, StoreKeeps, Zenon
  <1>5. Durable(db', shown')
    <2>1. \/ shown' = shown
          \/ /\ db'.reservation[t.id].status = "Signed"
             /\ shown' = shown \cup {<<t.id, db'.reservation[t.id].artifact>>}
      BY <1>1, Zenon DEF Commit
    <2>2. QED BY <1>2, <1>4, <2>1 DEF Durable
  <1>6. TaskOK(Job("committed", t.id, t.payload), asked')
    BY <1>2, Zenon DEF TaskOK, Job, TaskOf
  <1>7. Become(w, Idle) \/ Become(w, Job("committed", t.id, t.payload))
    BY DEF Commit
  <1>8. TasksOK'
    BY <1>1, <1>6, <1>7, IdleOK, WorkerStep, Zenon
  <1>9. QED BY <1>3, <1>4, <1>5, <1>8, Zenon DEF Inv

\* Recovery takes a stored job or returns what is stored.
LEMMA RecoverInv ==
  ASSUME Inv, NEW w \in Workers, NEW id \in Ids, Recover(w, id)
  PROVE  Inv'
  <1> DEFINE r == db.reservation[id]
  <1>1. UNCHANGED <<db, asked>>
    BY DEF Recover
  <1>2. CASE r.status = "Committed" /\ Become(w, Job("committed", id, r.payload)) /\ shown' = shown
    <2>1. r.payload \in Payloads
      BY <1>2, ConstantsAssumption, Zenon
      DEF Inv, Sound, TablesValid, ReservationsValid, ReservationValid, RecordValid
    <2>2. TaskOK(Job("committed", id, r.payload), asked')
      BY <2>1 DEF TaskOK, Job, TaskOf
    <2>3. TasksOK'
      BY <1>1, <1>2, <2>2, WorkerStep
    <2>4. QED BY <1>1, <1>2, <2>3, Zenon DEF Inv
  <1>3. CASE r.status = "Signed" /\ shown' = shown \cup {<<id, r.artifact>>} /\ task' = task
    <2>1. Durable(db', shown')
      BY <1>1, <1>3 DEF Inv, Durable
    <2>2. TasksOK'
      BY <1>1, <1>3 DEF Inv, TasksOK
    <2>3. QED BY <1>1, <2>1, <2>2 DEF Inv
  <1>4. QED BY <1>2, <1>3 DEF Recover

\* What a worker's steps change of its task.
WithStep(t, step) == [t EXCEPT !.step = step]

WithArtifact(t, artifact) == [t EXCEPT !.artifact = artifact]

\* The step alone.
LEMMA StepChange ==
  ASSUME NEW b, NEW c, NEW d, NEW e, NEW step
  PROVE  WithStep(TaskOf(b, c, d, e), step) = TaskOf(step, c, d, e)
  BY DEF TaskOf, WithStep

\* The artifact alone.
LEMMA ArtifactChange ==
  ASSUME NEW b, NEW c, NEW d, NEW e, NEW artifact
  PROVE  WithArtifact(TaskOf(b, c, d, e), artifact) = TaskOf(b, c, d, artifact)
  BY DEF TaskOf, WithArtifact

\* The fields of a task.
LEMMA TaskFields ==
  ASSUME NEW step, NEW id, NEW payload, NEW artifact, NEW t,
         t = TaskOf(step, id, payload, artifact)
  PROVE  t.step = step /\ t.id = id /\ t.payload = payload /\ t.artifact = artifact
  BY DEF TaskOf

\* The signer is asked for a job that is committed.
LEMMA StartSigningInv ==
  ASSUME Inv, NEW w \in Workers, StartSigning(w)
  PROVE  Inv'
  <1> DEFINE t == task[w]
  <1>1. t.step = "committed" /\ t.id \in Ids /\ t.payload \in Payloads
    BY Zenon DEF StartSigning, Inv, TasksOK, TaskOK
  <1>2. t = TaskOf(t.step, t.id, t.payload, t.artifact)
    BY Zenon DEF Inv, TasksOK, TaskOK
  <1>3. CASE ReplayWinner(w)
    BY <1>1, <1>3, ReplayInv, Zenon
  <1>4. CASE ~ReplayWinner(w)
    <2>1. /\ db.reservation[t.id].status = "Committed" /\ db.reservation[t.id].payload = t.payload
          /\ asked' = asked \cup {<<t.id, t.payload>>} /\ Become(w, WithStep(t, "signing"))
          /\ UNCHANGED <<db, shown>>
      BY <1>4, Zenon DEF StartSigning, WithStep
    <2>2. Promised(db', asked')
      BY <1>1, <2>1 DEF Inv, Promised
    <2>3. PICK s : s = TaskOf("signing", t.id, t.payload, t.artifact) /\ Become(w, s)
      BY <1>2, <2>1, StepChange
    <2>4. s.step = "signing" /\ s.id = t.id /\ s.payload = t.payload /\ s.artifact = t.artifact
      BY <2>3, TaskFields
    <2>5. TaskOK(s, asked')
      BY <1>1, <2>1, <2>3, <2>4, Zenon DEF TaskOK
    <2>6. TasksOK'
      BY <2>1, <2>3, <2>5, WorkerStep, Zenon
    <2>7. QED BY <2>1, <2>2, <2>6 DEF Inv
  <1>5. QED BY <1>3, <1>4

\* The signer's answer is for the job it was asked about.
LEMMA SignerSucceedsInv ==
  ASSUME Inv, NEW w \in Workers, SignerSucceeds(w)
  PROVE  Inv'
  <1> DEFINE t == task[w]
  <1>1. t.step = "signing" /\ UNCHANGED <<db, asked, shown>>
    BY DEF SignerSucceeds
  <1>2. /\ t.id \in Ids /\ t.payload \in Payloads /\ <<t.id, t.payload>> \in asked
        /\ t = TaskOf(t.step, t.id, t.payload, t.artifact)
    BY <1>1, Zenon DEF Inv, TasksOK, TaskOK
  <1>3. PICK a \in Artifacts :
           /\ Signs[a] = t.payload
           /\ Become(w, WithArtifact(WithStep(t, "candidate"), a))
    BY Zenon DEF SignerSucceeds, WithArtifact, WithStep
  <1>4. WithStep(t, "candidate") = TaskOf("candidate", t.id, t.payload, t.artifact)
    BY <1>2, StepChange
  <1>5. PICK s : s = TaskOf("candidate", t.id, t.payload, a) /\ Become(w, s)
    BY <1>3, <1>4, ArtifactChange
  <1>6. s.step = "candidate" /\ s.id = t.id /\ s.payload = t.payload /\ s.artifact = a
    BY <1>5, TaskFields
  <1>7. TaskOK(s, asked')
    BY <1>1, <1>2, <1>3, <1>5, <1>6, Zenon DEF TaskOK
  <1>8. TasksOK'
    BY <1>1, <1>5, <1>7, WorkerStep
  <1>9. QED BY <1>1, <1>8 DEF Inv

\* A failing signer leaves everything, or returns what another worker stored.
LEMMA SignerFailsInv ==
  ASSUME Inv, NEW w \in Workers, SignerFails(w)
  PROVE  Inv'
  <1>1. CASE ReplayWinner(w)
    BY <1>1, ReplayInv DEF SignerFails
  <1>2. CASE Become(w, Idle) /\ UNCHANGED <<db, asked, shown>>
    <2>1. TasksOK'
      BY <1>2, IdleOK, WorkerStep
    <2>2. QED BY <1>2, <2>1 DEF Inv
  <1>3. QED BY <1>1, <1>2, Zenon DEF SignerFails

\* A worker shows the winner: the stored artifact, or its own once stored.
LEMMA RecordInv ==
  ASSUME Counting, Inv, NEW w \in Workers, NEW now \in Time, Record(w, now)
  PROVE  Inv'
  <1> DEFINE t == task[w]
  <1>1. t.step = "candidate"
    BY DEF Record
  <1>2. t.id \in Ids
    BY <1>1, Zenon DEF Inv, TasksOK, TaskOK
  <1>3. CASE ReplayWinner(w)
    BY <1>1, <1>3, ReplayInv, Zenon
  <1>4. CASE ~ReplayWinner(w)
    <2>1. /\ db.reservation[t.id].status = "Committed"
          /\ Write(now, AfterRecord(w, now))
          /\ shown' = shown \cup {<<t.id, t.artifact>>}
          /\ Become(w, Idle) /\ asked' = asked
      BY <1>4, Zenon DEF Record
    <2>2. now >= db.hwm /\ db' = AfterRecord(w, now)
      BY <2>1, Zenon DEF Write
    <2>3. /\ StoreStep(db, db') /\ Genuine(db')
          /\ db'.reservation[t.id].status = "Signed"
          /\ db'.reservation[t.id].artifact = t.artifact
      BY <1>1, <2>1, <2>2, AfterRecordGenuine, Zenon
    <2>4. Sound(db') /\ Promised(db', asked') /\ Durable(db', shown)
      BY <2>1, <2>3, StoreKeeps, Zenon
    <2>5. Durable(db', shown')
      BY <1>2, <2>1, <2>3, <2>4 DEF Durable
    <2>6. TasksOK'
      BY <2>1, IdleOK, WorkerStep
    <2>7. QED BY <2>3, <2>4, <2>5, <2>6 DEF Inv
  <1>5. QED BY <1>3, <1>4

\* The store starts with its inventory imported and nothing promised.
LEMMA InitInv ==
  ASSUME Counting, Init
  PROVE  Inv
  <1>1. PICK items \in SUBSET Items, now \in Time :
           /\ \A x, y \in items : x[1] = y[1] => x = y
           /\ db = ImportInventory(ObserveTime(EmptyStore, now), items, now)
    BY Zenon DEF Init
  <1> DEFINE d == ObserveTime(EmptyStore, now)
  <1>2. EmptyStore.hwm = NoTime /\ \A id \in Ids : EmptyStore.reservation[id].status = "Absent"
    BY DEF EmptyStore, AbsentReservation
  <1>3. Sound(d) /\ d.hwm = now /\ d.hwm \in Time
    BY <1>2, EmptySound, ObserveTimeSound, ConstantsAssumption
  <1>4. d.reservation = EmptyStore.reservation
    BY EmptySound, ImportEffect
  <1>5. Imports(d, db)
    BY <1>1, <1>3 DEF Imports
  <1> HIDE DEF d
  <1>6. Sound(db) /\ db.reservation = d.reservation
    BY <1>3, <1>5, OneWriteSound, ImportEffect DEF OneWrite
  <1>7. Genuine(db)
    BY <1>2, <1>4, <1>6 DEF Genuine
  <1>8. Promised(db, asked) /\ Durable(db, shown)
    BY DEF Init, Promised, Durable
  <1>9. TasksOK
    BY IdleOK DEF Init, TasksOK
  <1>10. QED BY <1>6, <1>7, <1>8, <1>9 DEF Inv

\* A commit that fails its caller leaves the book one step further or where it was.
LEMMA AmbiguousCommitInv ==
  ASSUME Counting, Inv, NEW now \in Time, AmbiguousCommit(now)
  PROVE  Inv'
  <1>1. PICK w \in Workers :
           \/ task[w].step = "validated" /\ FailingWrite(now, AfterCommit(w, now))
           \/ task[w].step = "candidate" /\ FailingWrite(now, AfterRecord(w, now))
    BY Zenon DEF AmbiguousCommit
  <1>2. StoreStep(db, db') /\ Genuine(db')
    BY <1>1, AfterCommitQuiet, AfterRecordGenuine, FailingWriteSteps
  <1>3. UNCHANGED <<task, asked, shown>>
    BY <1>1, Zenon DEF FailingWrite
  <1>4. QED BY <1>2, <1>3, SilentStep

\* Every step keeps the invariant.
LEMMA NextInv ==
  ASSUME Counting, Inv, [Next]_vars
  PROVE  Inv'
  <1>1. ASSUME NEW w \in Workers, NEW id \in Ids, NEW payload \in Payloads, Validate(w, id, payload)
        PROVE  Inv'
    BY <1>1, ValidateInv
  <1>2. ASSUME NEW w \in Workers, NEW id \in Ids, Recover(w, id) PROVE Inv'
    BY <1>2, RecoverInv
  <1>3. ASSUME NEW w \in Workers, StartSigning(w) \/ SignerSucceeds(w) \/ SignerFails(w)
        PROVE  Inv'
    BY <1>3, StartSigningInv, SignerSucceedsInv, SignerFailsInv
  <1>4. ASSUME NEW now \in Time, NEW w \in Workers, Commit(w, now) \/ Record(w, now) PROVE Inv'
    BY <1>4, CommitInv, RecordInv
  <1>5. ASSUME NEW now \in Time, NEW id \in Ids, NEW request \in Requests,
               NEW items \in (SUBSET Items) \ {{}}, Reserve(id, request, items, now)
        PROVE  Inv'
    <2>1. StoreStep(db, db') /\ Genuine(db')
      BY <1>5, ReserveQuiet
    <2>2. UNCHANGED <<task, asked, shown>>
      BY <1>5 DEF Reserve
    <2>3. QED BY <2>1, <2>2, SilentStep
  <1>6. ASSUME NEW now \in Time, NEW id \in Ids, Withdraw(id, now) PROVE Inv'
    <2>1. StoreStep(db, db') /\ Genuine(db')
      BY <1>6, WithdrawQuiet
    <2>2. UNCHANGED <<task, asked, shown>>
      BY <1>6 DEF Withdraw
    <2>3. QED BY <2>1, <2>2, SilentStep
  <1>7. ASSUME NEW now \in Time, AmbiguousCommit(now) PROVE Inv'
    BY <1>7, AmbiguousCommitInv
  <1>8. ASSUME Crash \/ UNCHANGED vars PROVE Inv'
    <2>1. UNCHANGED <<db, task, asked, shown>>
      BY <1>8 DEF Crash, vars
    <2>2. TasksOK'
      BY <2>1 DEF Inv, TasksOK
    <2>3. QED BY <2>1, <2>2 DEF Inv
  <1>9. ASSUME Open PROVE Inv'
    <2>1. UNCHANGED <<db, asked, shown>> /\ task' = [w \in Workers |-> Idle]
      BY <1>9 DEF Open
    <2>2. TasksOK'
      BY <2>1, IdleOK DEF TasksOK
    <2>3. QED BY <2>1, <2>2 DEF Inv
  <1>10. QED
    BY <1>1, <1>2, <1>3, <1>4, <1>5, <1>6, <1>7, <1>8, <1>9, Zenon DEF Next, Workers

-----------------------------------------------------------------------------
(* The theorems. *)

Sets == INSTANCE FiniteSetTheorems

\* A set of reservations has a number of members.
LEMMA CountingHolds == Counting
  <1>1. \A S : (IsFiniteSet(S) <=> Sets!IsFiniteSet(S)) /\ Cardinality(S) = Sets!Cardinality(S)
    BY Zenon DEF IsFiniteSet, Sets!IsFiniteSet, Cardinality, Sets!Cardinality
  <1>2. Sets!IsFiniteSet(Owners) /\ Sets!IsFiniteSet(Keys)
    BY <1>1, ConstantsAssumption, Zenon
  <1>3. Sets!IsFiniteSet(Ids)
    BY <1>2, Sets!FS_Product, Zenon DEF Ids
  <1>4. \A S \in SUBSET Ids : Sets!Cardinality(S) \in Nat
    BY <1>3, Sets!FS_Subset, Sets!FS_CardinalityType, Zenon
  <1>5. QED BY <1>1, <1>4, Zenon DEF Counting

\* The inductive invariant holds in every state.
LEMMA AlwaysInv == Spec => []Inv
  <1>1. Init => Inv
    BY CountingHolds, InitInv
  <1>2. Inv /\ [Next]_vars => Inv'
    BY CountingHolds, NextInv
  <1>3. QED BY <1>1, <1>2, PTL DEF Spec

\* The signer is only given payloads that are committed for good
\* (store/settlement/finalization.rs, after the commitment of store.rs).
THEOREM SignedJobsAreCommitted == Spec => []SignerGetsCommittedJobs
  <1>1. Inv => SignerGetsCommittedJobs
    BY DEF Inv, Promised, SignerGetsCommittedJobs
  <1>2. QED BY <1>1, AlwaysInv, PTL

\* Two different jobs the signer was given never spend a common input.
THEOREM NoInputIsSignedTwice == Spec => []NoConflictingSignatures
  <1>1. Inv => NoConflictingSignatures
    <2> SUFFICES ASSUME Inv, NEW a \in asked, NEW b \in asked, NEW u,
                        u \in InputsOf(db.reservation[a[1]]), u \in InputsOf(db.reservation[b[1]])
                 PROVE  a = b
      BY Zenon DEF NoConflictingSignatures
    <2>1. /\ a[1] \in Ids /\ db.reservation[a[1]].status \in {"Committed", "Signed"}
          /\ db.reservation[a[1]].payload = a[2]
          /\ b[1] \in Ids /\ db.reservation[b[1]].status \in {"Committed", "Signed"}
          /\ db.reservation[b[1]].payload = b[2]
      BY Zenon DEF Inv, Promised
    <2>2. a[1] = b[1]
      <3>1. Sound(db)
        BY Zenon DEF Inv
      <3>2. /\ db.reservation[a[1]].status \in {"Reserved", "Committed", "Signed"}
            /\ db.reservation[b[1]].status \in {"Reserved", "Committed", "Signed"}
        BY <2>1, Zenon
      <3>3. QED BY <2>1, <3>1, <3>2, HolderUnique
    <2>3. a = <<a[1], a[2]>> /\ b = <<b[1], b[2]>>
      BY Zenon DEF Inv, Promised
    <2>4. QED BY <2>1, <2>2, <2>3, Zenon
  <1>2. QED BY <1>1, AlwaysInv, PTL

\* Whichever of several valid encodings a worker obtained, callers are shown the
\* one that is stored, and it signs the committed payload.
THEOREM CallersSeeTheStoredArtifact == Spec => []ShownArtifactIsDurable
  <1>1. Inv => ShownArtifactIsDurable
    BY DEF Inv, Durable, Genuine, ShownArtifactIsDurable
  <1>2. QED BY <1>1, AlwaysInv, PTL

=============================================================================
