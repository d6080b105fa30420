------------------------------ MODULE ChainStore ------------------------------
(***************************************************************************)
(* The redb store of deadcat-node (deadcat-node/src/store.rs) and the      *)
(* interpretation of one block against it (interpreter.rs, sync.rs), as    *)
(* operators on one record "d".                                            *)
(*                                                                         *)
(* A block is a node of a finite tree below the activation anchor, with    *)
(* its transactions in order.  A contract's state and its live outputs are *)
(* the transaction that produced them: a later transaction moves contract  *)
(* c when it spends the outputs that its predecessor made for c.           *)
(*                                                                         *)
(* An operator that may fail returns Null in place of a store: a failing   *)
(* write transaction is dropped as a whole.  OUTPUTS rows are written and  *)
(* removed together with the row of their transaction and are not kept     *)
(* apart; recovery hints, scripts and assets follow their contract.  The   *)
(* event journal is its high-water mark.                                   *)
(***************************************************************************)
EXTENDS Integers, Sequences, FiniteSets

CONSTANTS
    Contracts,      \* contract ids
    Txs,            \* transaction ids
    Blocks,         \* block hashes
    Activation,     \* the activation anchor, root of the tree
    Parent,         \* prev_blockhash
    Height,         \* header height, relative to the activation anchor
    Body,           \* the transactions of a block, in order
    Creates,        \* the contracts a transaction creates
    Spends,         \* whose outputs for a contract it spends
    Hinted,         \* contracts with a discoverable standalone creation
    UndoRetention,  \* UNDO_RETENTION_BLOCKS
    Null

TreeAssumption ==
    /\ Activation \in Blocks
    /\ Parent \in [Blocks \ {Activation} -> Blocks]
    /\ Height \in [Blocks -> Nat]
    /\ Height[Activation] = 0
    /\ \A b \in Blocks \ {Activation} : Height[b] = Height[Parent[b]] + 1
    /\ Body \in [Blocks -> Seq(Txs)]
    /\ Body[Activation] = <<>>

ASSUME ChainAssumption ==
    /\ TreeAssumption
    /\ IsFiniteSet(Contracts)
    /\ Creates \in [Txs -> SUBSET Contracts]
    /\ Spends \in [Txs -> [Contracts -> Txs \cup {Null}]]
    /\ Hinted \subseteq Contracts
    /\ UndoRetention \in Nat \ {0}
    /\ Null \notin Contracts \cup Txs \cup Blocks

Heights == {Height[b] : b \in Blocks}

\* The blocks from the activation anchor to b, and the one of them at height h.
Chain[b \in Blocks] == IF b = Activation THEN {b} ELSE Chain[Parent[b]] \cup {b}

At(b, h) == CHOOSE a \in Chain[b] : Height[a] = h

\* ChainPosition: a height and an index, zero standing before every transaction.
Position == Heights \X Nat

AtOrBefore(p, q) == p[1] < q[1] \/ (p[1] = q[1] /\ p[2] <= q[2])

\* Where b holds the creation of c; Null when it does not.
CreationIndex(b, c) ==
    IF \E n \in DOMAIN Body[b] : c \in Creates[Body[b][n]]
    THEN CHOOSE n \in DOMAIN Body[b] : c \in Creates[Body[b][n]]
    ELSE Null

Statuses == {"Starting", "Syncing", "Ready", "BackendUnavailable", "RescanRequired"}

\* ContractRecord: "at" stands for its state and its live outpoints.
Record == [at: Txs, created: Position, sync: {"CatchingUp", "Ready"}, through: Blocks]

Progress == [next: Nat \X Nat, pinned: Blocks]

\* UndoBlock.  Its changes are restored from the last to the first, so the
\* first one recorded for a contract is what the contract becomes: "contract"
\* and "progress" keep that one only, for the contracts of their domain.
\* Null stands for "before: None".
NoUndo(previous) ==
    [previous |-> previous, contract |-> <<>>, progress |-> <<>>,
     history |-> {}, positions |-> {}]

\* initialize_schema and initialize_chain on a fresh database.
EmptyStore ==
    [tip |-> Activation, status |-> "Starting", epoch |-> 0, sequence |-> 0,
     contract |-> [c \in Contracts |-> Null],
     retained |-> {},
     progress |-> [c \in Contracts |-> Null],
     history |-> {},
     transactions |-> {},
     undo |-> [h \in Heights |-> Null]]

-----------------------------------------------------------------------------
(* Rows. *)

Present(d, c) == d.contract[c] # Null

CatchingUp(d) == {c \in Contracts : Present(d, c) /\ d.contract[c].sync = "CatchingUp"}

\* append_event, n times.
AppendEvents(d, n) == [d EXCEPT !.sequence = @ + n]

\* set_sync_status for any status but RescanRequired; refused in that one.
SetSyncStatus(d, status) ==
    IF d.status \in {status, "RescanRequired"}
    THEN d ELSE AppendEvents([d EXCEPT !.status = status], 1)

\* The entries of f on S that g does not have yet, added to g.
FirstWins(g, f, S) == [c \in DOMAIN g \cup S |-> IF c \in DOMAIN g THEN g[c] ELSE f[c]]

\* Push the present rows of contracts S, or new history entries, onto the undo
\* record of height h, if one is retained.
PushContracts(d, h, S) ==
    IF d.undo[h] = Null THEN d
    ELSE [d EXCEPT !.undo[h].contract = FirstWins(@, d.contract, S)]

PushProgress(d, h, S) ==
    IF d.undo[h] = Null THEN d
    ELSE [d EXCEPT !.undo[h].progress = FirstWins(@, d.progress, S)]

PushHistory(d, h, entries) ==
    IF d.undo[h] = Null THEN d
    ELSE [d EXCEPT !.undo[h].history = @ \cup entries]

\* The stored row of a position.
RowsAt(d, p) == {row \in d.transactions : row.position = p}

\* Add a transaction's row, or add to the contracts of the row that is there.
MergeTransaction(d, p, t, affected) ==
    LET there == RowsAt(d, p)
        row == [position |-> p, txid |-> t,
                affected |-> affected \cup UNION {r.affected : r \in there}]
        written == [d EXCEPT !.transactions = (@ \ there) \cup {row}]
    IN
    IF there # {} \/ d.undo[p[1]] = Null THEN written
    ELSE [written EXCEPT !.undo[p[1]].positions = @ \cup {p}]

HasOutput(d, t) == \E row \in d.transactions : row.txid = t

-----------------------------------------------------------------------------
(* Interpretation of a block, in transaction order over an overlay of what  *)
(* its earlier transactions did.                                            *)

\* Faulty variant: no overlay, each transaction meets the stored state only.
OverlayOfStore(d, b, found, active) ==
    [n \in 0 .. Len(Body[b]) |->
        [c \in Contracts |->
            LET stored == IF Present(d, c) THEN d.contract[c].at ELSE Null IN
            IF /\ n > 0
               /\ \/ stored = Null /\ c \in Creates[Body[b][n]] \cap found
                  \/ stored # Null /\ c \in active[n] /\ Spends[Body[b][n]][c] = stored
            THEN Body[b][n] ELSE stored]]

\* Where contract c is after the first n transactions of b, when the
\* contracts in "found" are recognised at their creation and those in
\* active[m] are followed through the m-th transaction.
Overlay(d, b, found, active) ==
    LET after[n \in 0 .. Len(Body[b])] ==
            IF n = 0 THEN [c \in Contracts |-> IF Present(d, c) THEN d.contract[c].at ELSE Null]
            ELSE LET t == Body[b][n]
                     before == after[n - 1] IN
                 [c \in Contracts |->
                     IF \/ before[c] = Null /\ c \in Creates[t] \cap found
                        \/ before[c] # Null /\ c \in active[n] /\ Spends[t][c] = before[c]
                     THEN t ELSE before[c]]
    IN after

\* The delta of each transaction of b: what it creates and what it moves.
Legs(b, after) ==
    [n \in DOMAIN Body[b] |->
        [created |-> {c \in Contracts : after[n - 1][c] = Null /\ after[n][c] # Null},
         updated |-> {c \in Contracts : after[n - 1][c] # Null /\ after[n][c] # after[n - 1][c]}]]

Relevant(leg) == leg.created \cup leg.updated # {}

\* materialize_market_outputs: the outputs that are spent are stored, or were
\* made by an earlier relevant transaction of the block.
OutputsKnown(d, b, after, legs) ==
    \A n \in DOMAIN Body[b] : \A c \in legs[n].updated :
        \/ HasOutput(d, after[n - 1][c])
        \/ \E m \in 1 .. n - 1 : Body[b][m] = after[n - 1][c] /\ Relevant(legs[m])

\* ensure_creation_identity for what is created here and is already known.
CreationsAgree(d, b, found) ==
    \A c \in found : Present(d, c) /\ CreationIndex(b, c) # Null =>
                         d.contract[c].created = <<Height[b], CreationIndex(b, c)>>

\* Faulty variant: only hinted creations are recognised.
InterpretHinted(d, b) ==
    LET after == Overlay(d, b, Hinted, [n \in DOMAIN Body[b] |-> Contracts])
        legs == Legs(b, after)
    IN IF CreationsAgree(d, b, Hinted) /\ OutputsKnown(d, b, after, legs) THEN legs ELSE Null

\* interpret_canonical_block: every tracked output is followed, whatever the
\* state of its contract; retained and hinted creations are recognised.
InterpretCanonicalBlock(d, b) ==
    LET found == d.retained \cup Hinted
        after == Overlay(d, b, found, [n \in DOMAIN Body[b] |-> Contracts])
        legs == Legs(b, after)
    IN IF CreationsAgree(d, b, found) /\ OutputsKnown(d, b, after, legs) THEN legs ELSE Null

\* interpret_backfill_block: only the targets, from their scan positions on.
InterpretBackfillBlock(d, b, targets) ==
    LET active == [n \in DOMAIN Body[b] |->
                      {c \in targets : AtOrBefore(d.progress[c].next, <<Height[b], n>>)}]
        after == Overlay(d, b, {}, active)
        legs == Legs(b, after)
    IN IF OutputsKnown(d, b, after, legs) THEN legs ELSE Null

-----------------------------------------------------------------------------
(* Application of a block. *)

\* validate_tracked_inputs: a transaction's delta accounts for exactly the
\* tracked outputs that it spends.
InputsAccounted(d, t, leg) ==
    leg.updated = {c \in Contracts : Present(d, c) /\ Spends[t][c] = d.contract[c].at}

\* The history entries of the n-th transaction of b.
Entries(b, n, leg) ==
    {[id |-> c, position |-> <<Height[b], n>>, txid |-> Body[b][n]] : c \in leg.updated}

\* The contracts that it creates and moves, and their history.
MoveContracts(d, b, n, leg) ==
    [d EXCEPT
        !.contract = [c \in Contracts |->
            CASE c \in leg.created ->
                    [at |-> Body[b][n], created |-> <<Height[b], n>>,
                     sync |-> "Ready", through |-> b]
              [] c \in leg.updated -> [@[c] EXCEPT !.at = Body[b][n]]
              [] OTHER -> @[c]],
        !.history = @ \cup Entries(b, n, leg)]

\* The state, history and evidence of one transaction.
ApplyLeg(d, b, n, leg) ==
    LET h == Height[b]
        touched == leg.created \cup leg.updated
        moved == MoveContracts(PushContracts(d, h, touched), b, n, leg)
    IN
    MergeTransaction(PushHistory(moved, h, Entries(b, n, leg)), <<h, n>>, Body[b][n], touched)

\* DuplicateHistory, and ContractAlreadyExists.
LegFits(d, b, n, leg) ==
    /\ InputsAccounted(d, Body[b][n], leg)
    /\ \A c \in leg.created : ~Present(d, c)
    /\ \A e \in d.history : ~(e.id \in leg.updated /\ e.position = <<Height[b], n>>)

\* The relevant transactions of a block, one after the other.
ApplyLegs(d, b, legs, events) ==
    LET step[n \in 0 .. Len(Body[b])] ==
            IF n = 0 THEN d
            ELSE LET before == step[n - 1] IN
                 IF before = Null \/ ~Relevant(legs[n]) THEN before
                 ELSE IF LegFits(before, b, n, legs[n])
                      THEN AppendEvents(ApplyLeg(before, b, n, legs[n]), events)
                      ELSE Null
    IN step[Len(Body[b])]

\* The contracts S are synchronized through b.
MarkThrough(d, b, S, sync) ==
    [d EXCEPT !.contract = [c \in Contracts |->
        IF c \in S THEN [@[c] EXCEPT !.sync = sync, !.through = b] ELSE @[c]]]

\* Faulty variant: a contract whose backfill is behind is advanced too.
AdvanceEveryone(d, b) ==
    LET S == CatchingUp(d) IN
    AppendEvents([MarkThrough(PushContracts(d, Height[b], S), b, S, "Ready") EXCEPT
        !.progress = [c \in Contracts |->
            IF c \in S THEN [next |-> <<Height[b] + 1, 0>>, pinned |-> b] ELSE @[c]]], 2)

\* advance_catching_through_canonical_block
AdvanceCatching(d, b) ==
    LET h == Height[b]
        rows == {c \in Contracts : d.progress[c] # Null /\ d.progress[c].next[1] = h}
        S == rows \cap CatchingUp(d)
        pushed == PushProgress(PushContracts(d, h, S), h, S)
        ready == MarkThrough(pushed, b, S, "Ready")
        moved == [ready EXCEPT !.progress = [c \in Contracts |->
                     IF c \in S THEN [next |-> <<h + 1, 0>>, pinned |-> b] ELSE @[c]]]
    IN
    IF \A c \in rows : Present(d, c) THEN AppendEvents(moved, 2 * Cardinality(S)) ELSE Null

\* prune_undo
PruneUndo(d) ==
    [d EXCEPT !.undo = [h \in Heights |->
        IF h < Height[d.tip] - (UndoRetention - 1) THEN Null ELSE @[h]]]

\* apply_block.  A retry of a stored block is never asked for: the
\* coordinator goes on from the stored tip.
ApplyBlock(d, b, legs) ==
    LET opened == [d EXCEPT !.undo[Height[b]] = NoUndo(d.tip)]
        applied == ApplyLegs(opened, b, legs, 1)
        advanced == IF applied = Null THEN Null ELSE AdvanceCatching(applied, b)
    IN
    IF d.status = "RescanRequired" \/ b = Activation \/ Parent[b] # d.tip \/ advanced = Null
    THEN Null
    ELSE PruneUndo([advanced EXCEPT !.tip = b])

\* apply_backfill_block for the contracts in targets.
ApplyBackfillBlock(d, b, targets, legs) ==
    LET h == Height[b]
        pushed == PushProgress(d, h, targets)
        applied == ApplyLegs(pushed, b, legs, 0)
        sync == IF b = d.tip THEN "Ready" ELSE "CatchingUp"
        marked == MarkThrough(PushContracts(applied, h, targets), b, targets, sync)
        Moved(item) == [next |-> <<h + 1, 0>>,
                        pinned |-> IF item.pinned = b /\ b # d.tip THEN d.tip ELSE item.pinned]
    IN
    IF \/ d.status = "RescanRequired"
       \/ b \notin Chain[d.tip]
       \/ \E c \in targets :
             \/ c \notin CatchingUp(d) \/ d.progress[c] = Null
             \/ d.progress[c].next[1] # h \/ Height[d.progress[c].pinned] < h
       \/ applied = Null
    THEN Null
    ELSE AppendEvents([marked EXCEPT !.progress = [c \in Contracts |->
                          IF c \in targets THEN Moved(@[c]) ELSE @[c]]],
                      Cardinality(targets) * (IF b = d.tip THEN 2 ELSE 1))

-----------------------------------------------------------------------------
(* Rollback and rebuild. *)

\* mark_rebuild_required: a fresh epoch, whose first event is the change.
MarkRebuildRequired(d) ==
    IF d.status = "RescanRequired" THEN d
    ELSE [d EXCEPT !.status = "RescanRequired", !.epoch = @ + 1, !.sequence = 1]

\* Faulty variants: the progress, or the evidence, is not rolled back.
UndoKeepsProgress(d) ==
    LET u == d.undo[Height[d.tip]] IN
    [d EXCEPT
        !.tip = u.previous,
        !.contract = [c \in Contracts |-> IF c \in DOMAIN u.contract THEN u.contract[c] ELSE @[c]],
        !.history = @ \ u.history,
        !.transactions = {row \in @ : row.position \notin u.positions},
        !.undo[Height[d.tip]] = Null]

UndoKeepsEvidence(d) ==
    LET u == d.undo[Height[d.tip]] IN
    [d EXCEPT
        !.tip = u.previous,
        !.contract = [c \in Contracts |-> IF c \in DOMAIN u.contract THEN u.contract[c] ELSE @[c]],
        !.progress = [c \in Contracts |-> IF c \in DOMAIN u.progress THEN u.progress[c] ELSE @[c]],
        !.history = @ \ u.history,
        !.undo[Height[d.tip]] = Null]

\* One turn of the loop of rollback_to.
UndoTip(d) ==
    LET h == Height[d.tip]
        u == d.undo[h]
    IN
    [d EXCEPT
        !.tip = u.previous,
        !.contract = [c \in Contracts |-> IF c \in DOMAIN u.contract THEN u.contract[c] ELSE @[c]],
        !.progress = [c \in Contracts |-> IF c \in DOMAIN u.progress THEN u.progress[c] ELSE @[c]],
        !.history = {e \in @ : \A gone \in u.history :
                                    e.id # gone.id \/ e.position # gone.position},
        !.transactions = {row \in @ : row.position \notin u.positions},
        !.undo[h] = Null]

\* rollback_to an ancestor of the tip, "depth" blocks down.
RollbackTo(d, depth) ==
    LET h == Height[d.tip]
        undone[n \in 0 .. depth] == IF n = 0 THEN d ELSE UndoTip(undone[n - 1])
    IN
    IF depth > UndoRetention \/ \E k \in h - depth + 1 .. h : d.undo[k] = Null
    THEN MarkRebuildRequired(d)
    ELSE AppendEvents([undone[depth] EXCEPT !.status = "Syncing"], 1)

\* Faulty variant: the journal starts over.
ResetJournal(d) == [EmptyStore EXCEPT !.status = "Syncing", !.retained = d.retained]

\* reset_for_rebuild: derived tables are cleared, watch intent and the journal
\* are kept.
ResetForRebuild(d) ==
    [EmptyStore EXCEPT !.status = "Syncing", !.epoch = d.epoch,
                       !.sequence = d.sequence + 1, !.retained = d.retained]

-----------------------------------------------------------------------------
(* Late registration. *)

\* The preflight of register_contracts for one contract with its evidence.
RegistrationFits(d, c, b) ==
    LET p == <<Height[b], CreationIndex(b, c)>>
        there == RowsAt(d, p)
    IN
    /\ Height[b] > Height[Activation]
    /\ b \in Chain[d.tip]
    /\ Present(d, c) => /\ d.contract[c].created = p
                       /\ \E row \in there : c \in row.affected

\* Faulty variant: the backfill starts after the block of the creation.
RegisterPastBlock(d, c, b) ==
    LET p == <<Height[b], CreationIndex(b, c)>>
        t == Body[b][p[2]]
        pushed == PushProgress(PushContracts(d, p[1], {c}), p[1], {c})
    IN
    MergeTransaction(AppendEvents([pushed EXCEPT
            !.contract[c] = [at |-> t, created |-> p, sync |-> "CatchingUp", through |-> b],
            !.progress[c] = [next |-> <<p[1] + 1, 0>>, pinned |-> d.tip]], 1), p, t, {c})

RegisterOne(d, c, b) ==
    LET p == <<Height[b], CreationIndex(b, c)>>
        t == Body[b][p[2]]
        pushed == PushProgress(PushContracts(d, p[1], {c}), p[1], {c})
        inserted == [pushed EXCEPT
            !.contract[c] = [at |-> t, created |-> p, sync |-> "CatchingUp", through |-> b],
            !.progress[c] = [next |-> <<p[1], p[2] + 1>>, pinned |-> d.tip]]
    IN
    MergeTransaction(AppendEvents(inserted, 1), p, t, {c})

\* register_contracts for a package: every contract of P, with evidence[c] the
\* block that holds its creation, or none of them.
RegisterContracts(d, P, evidence) ==
    LET new == {c \in P : ~Present(d, c)}
        all[S \in SUBSET new] ==
            IF S = {} THEN [d EXCEPT !.retained = @ \cup P]
            ELSE LET c == CHOOSE c \in S : TRUE
                 IN RegisterOne(all[S \ {c}], c, evidence[c])
    IN
    IF d.status = "RescanRequired" \/ \E c \in P : ~RegistrationFits(d, c, evidence[c])
    THEN d ELSE all[new]

=============================================================================
