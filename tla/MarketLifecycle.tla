--------------------------- MODULE MarketLifecycle ---------------------------
(***************************************************************************)
(* One market on a chain: the builder's transactions are confirmed when    *)
(* consensus and the covenant accept them, the node interprets every spend *)
(* of a live output, token holders burn tokens outside the market, and a   *)
(* client replays whatever a node reports.  One transaction per block: the *)
(* id of a transaction is its height.                                      *)
(***************************************************************************)
EXTENDS MarketContract, MarketRegistration, SequencesExt

CONSTANTS
    MaxBlocks,      \* bound on the length of the chain
    MaxQty          \* bound on the quantity one operation names

VARIABLES
    chain,      \* confirmed transactions, by height
    utxos,      \* unspent outpoints and their outputs
    live,       \* the node's live outputs of the market
    history,    \* the node's transition log: [pos, kind, payload, state, live]
    fault       \* the node could not interpret a confirmed spend

lifecycleVars == <<market, supply, chain, utxos, live, history, fault>>

-----------------------------------------------------------------------------
(* Consensus, as far as the market depends on it *)

WalletCoin(k) == <<0, k>>
WalletOutput == Explicit("WALLET", "OTHER", 1)

Sum(values) == FoldSet(LAMBDA pair, total : total + pair[2], 0, values)
IssuedIn(tx, side) ==
    Sum({<<i, tx.ins[i].issuance.amount>> :
            i \in {j \in DOMAIN tx.ins : tx.ins[j].issuance.asset = side}})
BurnedIn(tx, side) ==
    Sum({<<o, tx.outs[o].amount>> :
            o \in {p \in DOMAIN tx.outs : tx.outs[p].asset = side /\ tx.outs[p].script = Burn}})

\* A token is first issued by its defining outpoint and reissued only by an
\* input that spends its reissuance token, blinded as the nonce says.
IssuancesAuthorized(tx) ==
    \A i \in DOMAIN tx.ins :
        LET issuance == tx.ins[i].issuance IN
        issuance.asset \in Outcomes =>
            \/ issuance.nonce \in InferSide(issuance.asset, Spent(utxos, tx, i))
            \/ /\ issuance.nonce = "new"
               /\ tx.ins[i].prev = IF issuance.asset = "YES" THEN YesDefining ELSE NoDefining

ConsensusAccepts(tx) ==
    /\ \A i \in DOMAIN tx.ins : tx.ins[i].prev \in DOMAIN utxos
    /\ \A i, j \in DOMAIN tx.ins : tx.ins[i].prev = tx.ins[j].prev => i = j
    /\ (\E i \in DOMAIN tx.ins : ~tx.ins[i].final) => tx.lock.n <= Len(chain)
    /\ \A side \in Outcomes : BurnedIn(tx, side) <= supply[side] + IssuedIn(tx, side)
    /\ IssuancesAuthorized(tx)
    /\ CovenantAccepts(utxos, tx)

-----------------------------------------------------------------------------
(* The node *)

LiveOutpointSet == {item.outpoint : item \in live.yes_rt \cup live.no_rt \cup live.collateral}
SpendsMarket(tx) == \E i \in DOMAIN tx.ins : tx.ins[i].prev \in LiveOutpointSet

LogEntry(pos, record, state, outputs) ==
    [pos |-> pos, kind |-> record.kind, payload |-> record.payload,
     state |-> state, live |-> LiveOutpoints(outputs)]

\* ensure_complete_spend: the interpretation accounts for every live output.
CompleteSpend(tx, i) ==
    {tx.ins[i.input_base + k - 1].prev : k \in DOMAIN InputSlots(CoordinatorSlot(i.before))}
      = LiveOutpointSet

InterpretContract(tx) == {i \in Interpret(market, live, tx) : CompleteSpend(tx, i)}

NodeApplies(tx) ==
    IF ~SpendsMarket(tx) THEN UNCHANGED <<market, live, history, fault>>
    ELSE LET interpreted == InterpretContract(tx)
         IN IF interpreted = {} THEN fault' = TRUE /\ UNCHANGED <<market, live, history>>
            ELSE /\ market' = The(interpreted).after
                 /\ live' = LiveFromContinuations(The(interpreted).continuations)
                 /\ history' = Append(history,
                        LogEntry(tx.id, EncodeTransition(The(interpreted).path,
                                                         The(interpreted).applied),
                                 The(interpreted).after,
                                 LiveFromContinuations(The(interpreted).continuations)))
                 /\ UNCHANGED fault

ChainAppends(tx) ==
    /\ chain' = Append(chain, tx)
    /\ utxos' = LET spent == {tx.ins[i].prev : i \in DOMAIN tx.ins}
                    made == {<<tx.id, o>> : o \in {p \in DOMAIN tx.outs : tx.outs[p].script # Burn}}
                IN [p \in (DOMAIN utxos \ spent) \cup made |->
                        IF p \in made THEN tx.outs[p[2]] ELSE utxos[p]]
    /\ supply' = [side \in Outcomes |-> supply[side] + IssuedIn(tx, side) - BurnedIn(tx, side)]

-----------------------------------------------------------------------------
(* Actions *)

NextId == Len(chain) + 1
Contract == <<1, 1>>

LifecycleInit ==
    /\ ContractInit
    /\ chain = <<>>
    /\ utxos = [p \in {WalletCoin(k) : k \in 1 .. 3 + MaxBlocks} |-> WalletOutput]
    /\ live = NoLive
    /\ history = <<>>
    /\ fault = FALSE

\* The market is created and the node discovers it.
CreateMarket ==
    /\ chain = <<>>
    /\ \E plan \in CreationPlan(Params, Hint(ExpiryHeight, "Asset"), YesDefining, NoDefining) :
          LET tx == CreationPset(plan, NextId, <<WalletOutput>>) IN
          /\ CreationFinalizes(plan, tx)
          /\ ChainAppends(tx)
          /\ \E record \in Discover(tx) : market' = record.state /\ live' = record.live
          /\ UNCHANGED <<history, fault>>

\* The operations a caller asks for: only the fields an operation reads vary.
Requests ==
    {a \in [op : Operations, outcome : Outcomes, qty : 0 .. MaxQty] :
        /\ a.op \in {"Issue", "Cancel", "Expire"} => a.outcome = "YES"
        /\ a.op \in {"Resolve", "Expire"} <=> a.qty = 0}

AttestationFor(a) ==
    IF a.op = "Resolve" THEN {[outcome |-> a.outcome, sig |-> a.outcome]} ELSE {}

\* Compositions of a plan: alone, or after one wallet input and output.
Alone == <<<<>>, <<>>>>
AfterWallet == <<<<Input(WalletCoin(2 + NextId))>>, <<WalletOutput>>>>
Layouts == {Alone, AfterWallet}

Built(a, layout) ==
    UNION {FinalizePlan(plan, utxos, ComposePlan(plan, NextId, layout[1], layout[2]),
                        Len(layout[1]) + 1, Len(layout[2]) + 1)
           : plan \in TransitionPlan(market, a, live, AttestationFor(a))}

Operate(a) ==
    /\ Len(chain) \in 1 .. MaxBlocks - 1
    /\ \E tx \in Built(a, AfterWallet) :
          /\ ConsensusAccepts(tx)
          /\ ChainAppends(tx)
          /\ NodeApplies(tx)

HolderBurns(side) ==
    /\ Len(chain) \in 1 .. MaxBlocks - 1
    /\ supply[side] > 0
    /\ LET tx == [id |-> NextId, ins |-> <<Input(WalletCoin(2 + NextId))>>,
                  outs |-> <<Explicit(Burn, side, 1)>>, lock |-> NoLock]
       IN ChainAppends(tx) /\ NodeApplies(tx)

IssueOp == \E a \in Requests : a.op = "Issue" /\ Operate(a)
CancelOp == \E a \in Requests : a.op = "Cancel" /\ Operate(a)
ResolveOp == \E a \in Requests : a.op = "Resolve" /\ Operate(a)
ExpireOp == \E a \in Requests : a.op = "Expire" /\ Operate(a)
RedeemOp == \E a \in Requests : a.op = "Redeem" /\ Operate(a)
BurnOp == \E side \in Outcomes : HolderBurns(side)

LifecycleNext == CreateMarket \/ IssueOp \/ CancelOp \/ ResolveOp \/ ExpireOp \/ RedeemOp \/ BurnOp
LifecycleSpec == LifecycleInit /\ [][LifecycleNext]_lifecycleVars

-----------------------------------------------------------------------------
(* Transactions that spend the market: right ones, wrong ones, near misses *)

Scripts == Slots \cup {Burn, "WALLET"}
Assets == {"YES", "NO", "YES_RT", "NO_RT", "COLLATERAL", "OTHER"}

OutputVariants(out) ==
    {[out EXCEPT !.script = script] : script \in Scripts}
      \cup {[out EXCEPT !.asset = asset] : asset \in Assets}
      \cup {[out EXCEPT !.side = side] : side \in {"A", "B", "none"}}
      \cup {[out EXCEPT !.amount = n] : n \in {out.amount + 1, IF out.amount = 0 THEN 0 ELSE out.amount - 1}}

InputVariants(in) ==
    {[in EXCEPT !.prev = prev] : prev \in DOMAIN utxos}
      \cup {[in EXCEPT !.final = ~@]}
      \cup {[in EXCEPT !.issuance = issuance] :
              issuance \in [asset : Outcomes, amount : {1, 2}, nonce : {"A", "B", "new"}, keys : {0, 1}]
                             \cup {NoIssuance}}
      \cup {[in EXCEPT !.wit.slot = slot] : slot \in Slots}
      \cup {[in EXCEPT !.wit.op = op] : op \in Operations}
      \cup {[in EXCEPT !.wit.base = base] : base \in 1 .. 4}
      \cup {[in EXCEPT !.wit.outcome = outcome, !.wit.sig = sig] : outcome \in Outcomes, sig \in Outcomes}

\* One output or input changed, dropped or exchanged with another, or another lock.
Variants(tx) ==
    UNION {{[tx EXCEPT !.outs[o] = out] : out \in OutputVariants(tx.outs[o])} : o \in DOMAIN tx.outs}
      \cup UNION {{[tx EXCEPT !.ins[i] = in] : in \in InputVariants(tx.ins[i])} : i \in DOMAIN tx.ins}
      \cup {[tx EXCEPT !.outs = RemoveAt(@, o)] : o \in DOMAIN tx.outs}
      \cup {[tx EXCEPT !.ins = RemoveAt(@, i)] : i \in DOMAIN tx.ins}
      \cup {[tx EXCEPT !.ins[i] = tx.ins[j], !.ins[j] = tx.ins[i]] : i, j \in DOMAIN tx.ins}
      \cup {[tx EXCEPT !.lock = lock] : lock \in [unit : {"height", "time"}, n : 0 .. ExpiryHeight + 1]}

BuiltTransactions == UNION {Built(a, AfterWallet) : a \in Requests}

\* The window of a path with arbitrary amounts, on either side of the flip.
Window(path, coordinator, side, qty, collateral, token) ==
    LET c == IF path \in {"ActiveResolution"} THEN ResolvedSlot(token)
             ELSE IF path = "ActiveExpiry" THEN "ExpiredCollateral"
             ELSE IF path \in RedemptionPaths THEN coordinator ELSE "UnresolvedCollateral"
        held == <<Explicit(c, "COLLATERAL", collateral)>>
    IN RtOutputs(path, side)
         \o (CASE path \in IssuancePaths \cup {"ActiveResolution", "ActiveExpiry"} -> held
               [] path = "PartialCancellation" ->
                     held \o <<Explicit(Burn, "YES", qty), Explicit(Burn, "NO", qty)>>
               [] path = "FullCancellation" ->
                     <<Explicit(Burn, "YES", qty), Explicit(Burn, "NO", qty)>>
               [] path \in RedemptionPaths ->
                     (IF collateral > 0 THEN held ELSE <<>>) \o <<Explicit(Burn, token, qty)>>
               [] OTHER -> <<>>)

AnyWindow ==
    LET coordinator == CoordinatorSlot(market)
        slots == InputSlots(coordinator)
        in(path, op, k, side, qty, token) ==
            [prev |-> The(LiveAt(live, slots[k])).outpoint, final |-> path \notin ExpiryPaths,
             issuance |-> IF path \in IssuancePaths /\ k <= 2
                          THEN Reissuance(IF k = 1 THEN "YES" ELSE "NO", qty, side) ELSE NoIssuance,
             wit |-> IF k > 1 THEN [NoWitness EXCEPT !.slot = slots[k]]
                     ELSE [slot |-> coordinator, op |-> op, base |-> 1, outcome |-> token, sig |-> token]]
    IN {[id |-> NextId,
         ins |-> [k \in DOMAIN slots |-> in(w[1], w[2], k, w[3], w[4], w[6])],
         outs |-> Window(w[1], coordinator, w[3], w[4], w[5], w[6]),
         lock |-> [unit |-> "height", n |-> ExpiryHeight]]
         : w \in UNION {PathFor(coordinator, op, full) \X {op} \X {"A", "B"} \X (0 .. MaxQty)
                          \X (0 .. U64Max) \X Outcomes : op \in Operations, full \in BOOLEAN}}

\* The interpreter leaves a follower's own witness to the covenant.
FollowersNamed(tx) ==
    \A i \in DOMAIN tx.ins :
        LET script == utxos[tx.ins[i].prev].script
        IN script \in {"DormantNoRt", "UnresolvedNoRt", "UnresolvedCollateral"} =>
              tx.ins[i].wit.slot = script

-----------------------------------------------------------------------------
(* Properties *)

\* The node's live outputs are exactly the unspent outputs at the market's
\* slots, holding the collateral the materialised state stands for, and no
\* confirmed spend was beyond the interpreter (interpret/binary_market.rs,
\* verify_outputs, and the continuations it pushes).
NodeTracksChain ==
    /\ ~fault
    /\ LiveOutpointSet = {p \in DOMAIN utxos : utxos[p].script \in Slots}
    /\ \A item \in live.collateral : utxos[item.outpoint].amount = CollateralAmount(market)

Agree(tx) ==
    LET interpreted == Interpret(market, live, tx) IN
    (SpendsMarket(tx) /\ IssuancesAuthorized(tx)) =>
        /\ CovenantAccepts(utxos, tx) =>
              /\ interpreted # {}
              /\ \A side \in Outcomes :
                    /\ IssuedIn(tx, side) = Minted(The(interpreted).action, side)
                    /\ BurnedIn(tx, side) >= Burned(The(interpreted).action, side)
        /\ (interpreted # {} /\ FollowersNamed(tx)) => CovenantAccepts(utxos, tx)

\* The interpreter and the covenant agree on every spend: what the program
\* accepts is interpreted, with the tokens really minted and at least the
\* tokens really burned (issuances being authorised); and nothing is
\* interpreted that the program rejects, given that followers name their slot
\* (common.simf and transitions.simf against interpret/binary_market.rs).
ExactInterpretation ==
    LiveOutpointSet # {} =>
        /\ \A tx \in BuiltTransactions : \A variant \in Variants(tx) : Agree(variant)
        /\ \A tx \in AnyWindow : Agree(tx)

\* Every operation the economics allow can be built on the live outputs, in
\* either layout, and the covenant accepts it and the interpreter reads the
\* planned transition back (market_builder.rs, new_with_compiled and finalize).
PlansAreAccepted ==
    LiveOutpointSet # {} =>
        \A a \in Requests : \A applied \in Apply(market, a) : \A layout \in Layouts :
            /\ Built(a, layout) # {}
            /\ \A tx \in Built(a, layout) :
                  /\ CovenantAccepts(utxos, tx)
                  /\ \E i \in Interpret(market, live, tx) : i.applied = applied

-----------------------------------------------------------------------------
(* Creations *)

\* A planned creation, alone or with a wallet input, and its near misses: an
\* input or output changed, dropped, repeated or exchanged with another one.
PlannedCreations ==
    {[CreationPset(plan, 1, <<WalletOutput>>) EXCEPT !.ins = @ \o more] :
        plan \in CreationPlan(Params, Hint(ExpiryHeight, "Asset"), YesDefining, NoDefining),
        more \in {<<>>, <<Input(WalletCoin(3))>>}}

CreationOutputs ==
    {RtOutput("DormantYesRt", "YES", "A"), RtOutput("DormantNoRt", "NO", "A"), WalletOutput}
      \cup {Explicit(script, "POLICY", n) : script \in DOMAIN DecodeHint, n \in {0, 1}}
      \cup {RtOutput("DormantYesRt", "YES", "B"), RtOutput("UnresolvedYesRt", "YES", "A")}

CreationInputs ==
    {[Input(WalletCoin(k)) EXCEPT !.issuance = issuance] :
        k \in 1 .. 3, issuance \in {NoIssuance, NewIssuance("YES"), NewIssuance("NO")}}

NearCreations(tx) ==
    {[tx EXCEPT !.outs[o] = out] : o \in DOMAIN tx.outs, out \in CreationOutputs}
      \cup {[tx EXCEPT !.outs = Append(@, out)] : out \in CreationOutputs}
      \cup {[tx EXCEPT !.ins[i] = in] : i \in DOMAIN tx.ins, in \in CreationInputs}
      \cup {[tx EXCEPT !.ins = Append(@, in)] : in \in CreationInputs}
      \cup {[tx EXCEPT !.outs[o] = tx.outs[p], !.outs[p] = tx.outs[o]] : o, p \in DOMAIN tx.outs}
      \cup {[tx EXCEPT !.ins[i] = tx.ins[j], !.ins[j] = tx.ins[i]] : i, j \in DOMAIN tx.ins}

\* A node and a client agree on which transaction creates which market, and
\* where it starts: a planned creation is discovered; what is discovered is
\* what a package with the same parameters registers; and a registration is
\* verified exactly for the contract a client's replay starts from, with the
\* same live outputs (registration.rs, verify_binary_market_creation_shared;
\* validation.rs, replay_market).
CreationsAgree ==
    chain = <<>> =>
        \A planned \in PlannedCreations :
            /\ Discover(planned) # {}
            /\ \A near \in NearCreations(planned) : \A tx \in {near} \cup NearCreations(near) :
                  /\ \A record \in Discover(tx) :
                        VerifyCreation(tx, {record.params}, {record.contract}) = {record}
                  /\ \A o \in DOMAIN tx.outs :
                        {record.live : record \in VerifyCreation(tx, {Params}, {<<tx.id, o>>})}
                          = {start.live : start \in {s \in CreationStart(tx) :
                                                    The(s.live.yes_rt).outpoint = <<tx.id, o>>}}

-----------------------------------------------------------------------------
(* Replays *)

View(n) ==
    IF n = 0 THEN LET start == The(CreationStart(chain[1]))
                  IN [state |-> start.state, live |-> LiveOutpoints(start.live)]
    ELSE [state |-> history[n].state, live |-> history[n].live]

\* The log record a node reports for a height; a made-up one where it has none.
RecordAt(pos) ==
    LET at == {n \in DOMAIN history : history[n].pos = pos}
    IN IF at = {} THEN EncodeTransition("InitialIssuance", The(Issue(Trading(0), Action("Issue", "YES", 1))))
       ELSE [kind |-> history[The(at)].kind, payload |-> history[The(at)].payload]

Response(view, outputs, positions, records, creation, anchor) ==
    [state |-> view, live |-> outputs, anchor |-> anchor,
     creation |-> [pos |-> creation, tx |-> chain[creation]],
     entries |-> [k \in DOMAIN positions |->
                    [pos |-> positions[k], kind |-> RecordAt(records[k]).kind,
                     payload |-> RecordAt(records[k]).payload]],
     evidence |-> [k \in DOMAIN positions |-> [pos |-> positions[k], tx |-> chain[positions[k]]]]]

Positions(n) == [k \in 1 .. n |-> history[k].pos]
Honest == Response(market, View(Len(history)).live, Positions(Len(history)), Positions(Len(history)),
                   1, Len(chain))

AcceptedIsHistory(r) ==
    ReplayAccepts(r, Contract, chain, Len(chain)) =>
        LET n == Len(r.entries) IN
        /\ [k \in 1 .. n |-> r.entries[k].pos] = Positions(n)
        /\ \A k \in 1 .. n : r.entries[k].payload = history[k].payload
        /\ [state |-> r.state, live |-> r.live] = View(n)

\* A client accepts only a prefix of the market's true history together with
\* the state and the live outputs after that prefix, whatever a node reports,
\* and it accepts the whole history (validation.rs, replay_contract_history).
\* The reports: any heights in any order with a view of that length, any view
\* with a prefix of the heights, and single lies about a record, the creation
\* or the anchor.
ReplayAcceptsOnlyHistory ==
    chain # <<>> =>
        LET all == Positions(Len(history))
            live_now == View(Len(history)).live
        IN
        /\ ReplayAccepts(Honest, Contract, chain, Len(chain))
        /\ \A n \in 0 .. Len(history) : \A p \in [1 .. n -> DOMAIN chain] :
              AcceptedIsHistory(Response(View(n).state, View(n).live, p, p, 1, Len(chain)))
        /\ \A v, w, n \in 0 .. Len(history) :
              AcceptedIsHistory(Response(View(v).state, View(w).live, Positions(n), Positions(n),
                                         1, Len(chain)))
        /\ \A k \in DOMAIN history, r \in DOMAIN chain :
              AcceptedIsHistory(Response(market, live_now, all, [all EXCEPT ![k] = r], 1, Len(chain)))
        /\ \A c \in DOMAIN chain, a \in 0 .. Len(chain) :
              AcceptedIsHistory(Response(market, live_now, all, all, c, a))
=============================================================================
