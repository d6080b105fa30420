------------------------------ MODULE ChainSync ------------------------------
(***************************************************************************)
(* SyncCoordinator (deadcat-node/src/sync.rs) over the store, a chain      *)
(* source that reorganises, concurrent registrations (registration.rs) and *)
(* the operator's rebuild (main.rs).                                       *)
(*                                                                         *)
(* Every call to the source is an await: the source may move and a         *)
(* registration may commit before the next one.  An action is one answer   *)
(* of the source and what the coordinator does with it up to its next      *)
(* call, store writes included.  Two pairs of calls are one action: the    *)
(* fetch of a block and the check inside it, which the check before the    *)
(* block is applied repeats, and the two calls of pin_still_canonical, of  *)
(* which the second decides.  The interpretation of a block reads one      *)
(* state of the store.                                                     *)
(*                                                                         *)
(* Asking for a height above the source's tip, and any call while the      *)
(* source is down, is a ChainSource error: the pass ends and the status    *)
(* becomes BackendUnavailable.  The daemon starts the next pass from the   *)
(* store, however the last one ended.                                      *)
(***************************************************************************)
EXTENDS ChainStore

CONSTANTS
    Moves,              \* <<old, new>> tips the source may change between
    MaxMoves,           \* bound on the changes of the source
    MaxBranchRestarts,  \* SyncConfig.max_branch_restarts
    MaxFailures         \* bound on source failures and killed processes

ASSUME SyncAssumption ==
    /\ Moves \subseteq Blocks \X Blocks
    /\ MaxMoves \in Nat
    /\ MaxBranchRestarts \in Nat
    /\ MaxFailures \in Nat

VARIABLES
    db,         \* the store
    best,       \* the tip of the source
    moves,      \* changes of the source so far
    failures,   \* source failures and killed processes so far
    task,       \* the pass in progress
    evidence,   \* the creation blocks found by registrations in progress
    fault       \* a block was refused although nothing changed since it was read

vars == <<db, best, moves, failures, task, evidence, fault>>

Calls == {"pin", "compare", "ancestor", "fetch", "hash", "pinned"}

\* pin: the pinned tip; depth: how far below the indexed tip the common ancestor
\* is, zero for none; block: what is fetched, checked or applied; targets: the
\* batch of a backfill, empty for a canonical block; legs: the interpretation of
\* the block; guard and next: the tip a check is about, and what follows it.
Idle == [pc |-> "idle", pin |-> Null, depth |-> 0, block |-> Null, targets |-> {},
         legs |-> Null, guard |-> Null, next |-> "idle", restarts |-> 0]

Init ==
    /\ db = EmptyStore
    /\ best \in Blocks
    /\ moves = 0
    /\ failures = 0
    /\ task = Idle
    /\ evidence = [c \in Contracts |-> Null]
    /\ fault = FALSE

-----------------------------------------------------------------------------
(* How a pass goes on. *)

\* The next turn of the outer loop.
Repin == task' = [Idle EXCEPT !.pc = "pin", !.restarts = task.restarts]

\* Faulty variant: one restart more than configured.
NoteRestartLate ==
    task' = IF task.restarts > MaxBranchRestarts THEN Idle
            ELSE [Idle EXCEPT !.pc = "pin", !.restarts = task.restarts + 1]

\* note_restart, and the next turn.
NoteRestart ==
    task' = IF task.restarts = MaxBranchRestarts THEN Idle
            ELSE [Idle EXCEPT !.pc = "pin", !.restarts = task.restarts + 1]

EndPass == task' = Idle

\* The pass calls the source again, with nothing left of what came before.
Call(pc) == [Idle EXCEPT !.pc = pc, !.pin = task.pin, !.restarts = task.restarts]

\* pin_still_canonical, and then "next".
CheckPin(t, next) == task' = [t EXCEPT !.pc = "pinned", !.guard = t.pin, !.next = next]

\* The height that the current call asks about, and what the source has there.
AskedHeight ==
    CASE task.pc = "compare" -> Height[db.tip]
      [] task.pc = "ancestor" -> Height[db.tip] - task.depth
      [] task.pc = "fetch" -> IF task.targets = {} THEN Height[db.tip] + 1
                              ELSE Height[task.block]
      [] task.pc = "hash" -> Height[task.block]
      [] task.pc = "pinned" -> Height[task.guard]
      [] OTHER -> 0

BlockHash == At(best, AskedHeight)

Answered(pc) ==
    /\ task.pc = pc
    /\ Height[best] >= AskedHeight
    /\ UNCHANGED <<best, moves, failures, evidence>>

\* The source is on a branch with b and with the tip that is checked.
StillPinned(b, guard) == {b, guard} \subseteq Chain[best]

-----------------------------------------------------------------------------
(* sync_to_tip *)

\* The depths of reconcile's search that the pinned branch reaches.
Depths(pin, from) ==
    {k \in from .. UndoRetention :
        k <= Height[db.tip] /\ Height[db.tip] - k <= Height[pin]}

\* The search for a common ancestor goes on, or is over without one.
Search(t, from) ==
    LET depths == Depths(t.pin, from) IN
    IF depths # {}
    THEN task' = [t EXCEPT !.pc = "ancestor",
                           !.depth = CHOOSE k \in depths : \A j \in depths : k <= j]
    ELSE CheckPin([t EXCEPT !.depth = 0], "reconcile")

\* What follows the backfill, with the store as d: the canonical loop or the
\* final check.
GoCanonical(d) ==
    /\ db' = IF Height[d.tip] < Height[task.pin] THEN SetSyncStatus(d, "Syncing") ELSE d
    /\ CASE Height[d.tip] > Height[task.pin] -> Repin
         [] Height[d.tip] < Height[task.pin] -> task' = Call("fetch")
         [] d.tip = task.pin -> CheckPin(Call("pinned"), "finish")
         [] OTHER -> NoteRestart

\* One turn of backfill_pending: the contracts that are furthest behind.  A
\* contract whose next block is above the tip waits for the canonical loop.
GoBackfill(d) ==
    LET pending == CatchingUp(d)
        syncing == SetSyncStatus(d, "Syncing")
        h == CHOOSE k \in {d.progress[c].next[1] : c \in pending} :
                \A c \in pending : k <= d.progress[c].next[1]
    IN
    CASE pending = {} -> GoCanonical(d)
      [] pending # {} /\ h > Height[d.tip] -> GoCanonical(syncing)
      [] OTHER ->
            /\ db' = syncing
            /\ task' = [Call("fetch") EXCEPT
                           !.block = At(d.tip, h),
                           !.targets = {c \in pending : d.progress[c].next[1] = h}]

Begin ==
    /\ Answered("idle")
    /\ db.status # "RescanRequired"
    /\ db' = IF db.status \in {"Starting", "BackendUnavailable"}
             THEN SetSyncStatus(db, "Syncing") ELSE db
    /\ Repin
    /\ UNCHANGED fault

Pin ==
    /\ Answered("pin")
    /\ LET t == [task EXCEPT !.pin = best] IN
       IF Height[best] >= Height[db.tip]
       THEN task' = [t EXCEPT !.pc = "compare"]
       ELSE Search(t, 1)
    /\ UNCHANGED <<db, fault>>

\* reconcile: is the indexed tip still on the source's branch ...
Compare ==
    /\ Answered("compare")
    /\ IF BlockHash = db.tip THEN GoBackfill(db) ELSE Search(task, 1) /\ UNCHANGED db
    /\ UNCHANGED fault

\* ... or which retained ancestor is?
Ancestor ==
    /\ Answered("ancestor")
    /\ IF BlockHash = At(db.tip, AskedHeight)
       THEN CheckPin(task, "reconcile")
       ELSE Search(task, task.depth + 1)
    /\ UNCHANGED <<db, fault>>

\* interpret_backfill_block or interpret_canonical_block.
Interpretation(b) ==
    IF task.targets = {} THEN InterpretCanonicalBlock(db, b)
    ELSE InterpretBackfillBlock(db, b, task.targets)

\* fetch_block or fetch_canonical_backfill_block, and the interpretation.  A
\* canonical block that does not extend the indexed tip ends the pass.
Fetch ==
    LET b == BlockHash
        guard == IF task.targets = {} THEN task.pin ELSE db.tip
    IN
    /\ Answered("fetch")
    /\ CASE task.targets = {} /\ Parent[b] # db.tip -> EndPass /\ UNCHANGED fault
         [] task.targets # {} /\ b # task.block -> NoteRestart /\ UNCHANGED fault
         [] OTHER ->
               IF ~StillPinned(b, guard) THEN NoteRestart /\ UNCHANGED fault
               ELSE LET legs == Interpretation(b) IN
                    /\ IF legs = Null THEN EndPass
                       ELSE task' = [task EXCEPT !.pc = "hash", !.block = b, !.legs = legs,
                                                 !.guard = guard, !.next = "apply"]
                    /\ fault' = (fault \/ legs = Null)
    /\ UNCHANGED db

\* block_still_pinned: the block first, then the tip.
CheckHash ==
    /\ Answered("hash")
    /\ IF BlockHash = task.block THEN task' = [task EXCEPT !.pc = "pinned"] ELSE NoteRestart
    /\ UNCHANGED <<db, fault>>

PinHolds(next) ==
    /\ Answered("pinned")
    /\ BlockHash = task.guard
    /\ task.next = next

\* The pin is not on the source's branch, or above its tip.
PinLost ==
    /\ task.pc = "pinned"
    /\ task.guard \notin Chain[best]
    /\ NoteRestart
    /\ UNCHANGED <<db, best, moves, failures, evidence, fault>>

\* The end of reconcile: roll back, or give the branch up.
Reconcile ==
    /\ PinHolds("reconcile")
    /\ db' = IF task.depth = 0 THEN MarkRebuildRequired(db) ELSE RollbackTo(db, task.depth)
    /\ IF db'.status = "RescanRequired" THEN EndPass ELSE Repin
    /\ UNCHANGED fault

\* apply_block or apply_backfill_block.  It may fail when a registration
\* committed since the block was interpreted; the next pass interprets again.
Apply ==
    LET after == IF task.targets = {} THEN ApplyBlock(db, task.block, task.legs)
                 ELSE ApplyBackfillBlock(db, task.block, task.targets, task.legs)
    IN
    /\ PinHolds("apply")
    /\ CASE after = Null -> EndPass /\ UNCHANGED db
         [] after # Null /\ task.targets # {} -> GoBackfill(after)
         [] after # Null /\ task.targets = {} -> GoCanonical(after)
    /\ fault' = (fault \/ (after = Null /\ Interpretation(task.block) = task.legs))

\* The end of a pass, unless a registration still waits for its backfill.
Finish ==
    /\ PinHolds("finish")
    /\ IF CatchingUp(db) = {}
       THEN EndPass /\ db' = SetSyncStatus(db, "Ready")
       ELSE Repin /\ UNCHANGED db
    /\ UNCHANGED fault

\* The source has nothing at the height it is asked about, or is down.
SourceError ==
    /\ task.pc \in Calls
    /\ \/ Height[best] < AskedHeight /\ UNCHANGED failures
       \/ failures < MaxFailures /\ failures' = failures + 1
    /\ db' = SetSyncStatus(db, "BackendUnavailable")
    /\ EndPass
    /\ UNCHANGED <<best, moves, evidence, fault>>

-----------------------------------------------------------------------------
(* The rest of the node. *)

MoveSource ==
    /\ moves < MaxMoves
    /\ \E b \in Blocks : <<best, b>> \in Moves /\ best' = b
    /\ moves' = moves + 1
    /\ UNCHANGED <<db, failures, task, evidence, fault>>

\* creation_evidence: where the source says the creation is confirmed.
FetchEvidence(c) ==
    /\ evidence[c] = Null
    /\ db.status # "RescanRequired"
    /\ \E b \in Chain[best] :
          /\ CreationIndex(b, c) # Null
          /\ evidence' = [evidence EXCEPT ![c] = b]
    /\ UNCHANGED <<db, best, moves, failures, task, fault>>

\* register_contracts for a package whose evidence is complete.
Register(P) ==
    /\ P # {}
    /\ \A c \in P : evidence[c] # Null
    /\ db' = RegisterContracts(db, P, evidence)
    /\ evidence' = [c \in Contracts |-> IF c \in P THEN Null ELSE evidence[c]]
    /\ UNCHANGED <<best, moves, failures, task, fault>>

\* The process is killed; what it had in memory is gone.
Crash ==
    /\ failures < MaxFailures
    /\ failures' = failures + 1
    /\ EndPass
    /\ evidence' = [c \in Contracts |-> Null]
    /\ UNCHANGED <<db, best, moves, fault>>

\* The operator stops the daemon and runs rebuild; its pass, and that of a
\* daemon started after an interrupted rebuild, begin from the reset store.
Rebuild ==
    /\ db.status = "RescanRequired"
    /\ task.pc = "idle"
    /\ db' = ResetForRebuild(db)
    /\ evidence' = [c \in Contracts |-> Null]
    /\ UNCHANGED <<best, moves, failures, task, fault>>

PassStep ==
    \/ Pin \/ Compare \/ Ancestor \/ Fetch \/ CheckHash
    \/ PinLost \/ Reconcile \/ Apply \/ Finish

Next ==
    \/ Begin
    \/ PassStep
    \/ SourceError
    \/ MoveSource
    \/ \E c \in Contracts : FetchEvidence(c)
    \/ \E P \in SUBSET Contracts : Register(P)
    \/ Crash
    \/ Rebuild

\* A call returns, with the error for a height above the source's tip if it is one.
CallReturns == PassStep \/ (SourceError /\ UNCHANGED failures)

\* The daemon starts pass after pass, and the calls of a pass return: the second
\* conjunct is WF_vars(CallReturns), which is enabled exactly during a pass.
Fairness ==
    /\ WF_vars(Begin)
    /\ []<>(task.pc = "idle") \/ []<><<CallReturns>>_vars

Spec == Init /\ [][Next]_vars /\ Fairness

-----------------------------------------------------------------------------
(* Properties *)

\* For a block and a contract: the transactions of the block's chain that concern
\* the contract, found from the bodies of the blocks alone ...
Touching ==
    [b \in Blocks, c \in Contracts |->
        UNION {{[position |-> <<Height[a], n>>, txid |-> Body[a][n]] :
                   n \in {m \in DOMAIN Body[a] : \/ c \in Creates[Body[a][m]]
                                                 \/ Spends[Body[a][m]][c] # Null}} :
               a \in Chain[b]}]

\* ... and the one a replay of that chain ends with, if the chain has any.
Replayed ==
    [b \in Blocks, c \in Contracts |->
        {last.txid : last \in {touch \in Touching[b, c] :
            \A other \in Touching[b, c] : AtOrBefore(other.position, touch.position)}}]

\* The store, the pass and the registrations keep their types.
TypeOK ==
    /\ db.tip \in Blocks /\ db.status \in Statuses
    /\ db.epoch \in Nat /\ db.sequence \in Nat
    /\ db.contract \in [Contracts -> Record \cup {Null}]
    /\ db.progress \in [Contracts -> Progress \cup {Null}]
    /\ db.retained \subseteq Contracts
    /\ best \in Blocks
    /\ task.pc \in {"idle"} \cup Calls
    /\ task.restarts \in 0 .. MaxBranchRestarts
    /\ evidence \in [Contracts -> Blocks \cup {Null}]

\* A contract that is Ready is where a replay of the indexed chain ends, and its
\* history is the transitions of that chain, through shallow reorganisations,
\* registrations that race a block, backfill, crashes and rebuilds.
ReadyIsReplayed ==
    \A c \in Contracts :
        Present(db, c) /\ db.contract[c].sync = "Ready" /\ db.status # "RescanRequired" =>
            /\ Replayed[db.tip, c] = {db.contract[c].at}
            /\ {[position |-> e.position, txid |-> e.txid] : e \in {x \in db.history : x.id = c}}
               = {touch \in Touching[db.tip, c] : c \notin Creates[touch.txid]}

\* No contract, not even one that is still catching up, is left with a state
\* made by a transaction that is not in the indexed chain.
NoOrphanedState ==
    \A c \in Contracts :
        Present(db, c) => \E touch \in Touching[db.tip, c] : touch.txid = db.contract[c].at

\* What was registered or is discoverable, and is created on the indexed chain,
\* is indexed: no race of a registration with a reorganisation or a rebuild
\* loses watch intent.
WatchedAreIndexed ==
    \A c \in db.retained \cup Hinted : Touching[db.tip, c] # {} => Present(db, c)

\* The transaction of each of the rows is the one at its position of the indexed chain.
OnIndexedChain(rows) ==
    \A row \in rows :
        /\ row.position[1] <= Height[db.tip]
        /\ Body[At(db.tip, row.position[1])][row.position[2]] = row.txid

\* Every stored transaction, and every history entry, is the one at its position
\* of the indexed chain, and the outputs a tracked contract lives in can be read.
EvidenceIsCanonical ==
    /\ OnIndexedChain(db.transactions)
    /\ OnIndexedChain(db.history)
    /\ \A c \in Contracts : Present(db, c) => HasOutput(db, db.contract[c].at)

\* The store never refuses a block that was interpreted against its present
\* contents: the pass cannot be stuck on a block of the canonical chain.
NoFault == ~fault

\* A page cursor or a subscription cursor never becomes valid for other data: a
\* change of contracts, history or evidence changes the indexed tip or the
\* event high-water mark, which never comes back.
CursorsAreNotReused ==
    [][/\ \/ db'.epoch > db.epoch
          \/ db'.epoch = db.epoch /\ db'.sequence >= db.sequence
       /\ <<db.contract, db.history, db.transactions>>' # <<db.contract, db.history, db.transactions>>
             => <<db.tip, db.epoch, db.sequence>>' # <<db.tip, db.epoch, db.sequence>>]_vars

\* Once the source stops moving, the index arrives at its tip with every contract
\* Ready, unless the operator has to rebuild: no pass goes round for ever and no
\* contract is left catching up.
Settles ==
    []<>(\/ db.status = "RescanRequired"
         \/ db.status = "Ready" /\ db.tip = best /\ CatchingUp(db) = {})

\* A contract that is replayed through the indexed tip does not stay CatchingUp.
CaughtUpBecomesReady ==
    \A c \in Contracts :
        []<>~(c \in CatchingUp(db) /\ db.contract[c].through = db.tip)

=============================================================================
