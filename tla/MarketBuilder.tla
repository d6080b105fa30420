---------------------------- MODULE MarketBuilder ----------------------------
(***************************************************************************)
(* The client's market builder (deadcat-client/src/market_builder.rs): the *)
(* creation plan, the plan of one lifecycle operation, the composer        *)
(* contribution and the finalisation of a composed transaction.  A PSET is *)
(* a transaction record whose witnesses are still NoWitness, and u holds   *)
(* the witness UTXOs of its inputs.                                        *)
(***************************************************************************)
EXTENDS MarketInterpreter

NoWitness == [slot |-> "none", op |-> "none", base |-> 0, outcome |-> "NO", sig |-> "none"]
Input(prev) == [prev |-> prev, final |-> TRUE, issuance |-> NoIssuance, wit |-> NoWitness]
NoLock == [unit |-> "height", n |-> 0]

-----------------------------------------------------------------------------
(* Recovery hints: what an OP_RETURN says of the market it was created with *)

\* The outpoints whose issuances define the market's four assets.
YesDefining == <<0, 1>>
NoDefining == <<0, 2>>
Params ==
    [base_payout |-> BasePayout, expiry_height |-> ExpiryHeight, collateral |-> "COLLATERAL",
     yes |-> YesDefining, no |-> NoDefining]

Hint(height, collateral) ==
    [base_payout |-> BasePayout, expiry_height |-> height, collateral |-> collateral]

\* The recovery scripts and the hint each decodes to, none for a payload that
\* has the market's tag and is malformed.
DecodeHint ==
    [script \in {"HINT", "HINT_LATER", "HINT_POLICY", "HINT_USDT", "HINT_MALFORMED"} |->
        CASE script = "HINT" -> {Hint(ExpiryHeight, "Asset")}
          [] script = "HINT_LATER" -> {Hint(ExpiryHeight + 1, "Asset")}
          [] script = "HINT_POLICY" -> {Hint(ExpiryHeight, "PolicyAsset")}
          [] script = "HINT_USDT" -> {Hint(ExpiryHeight, "LiquidMainnetUsdt")}
          [] OTHER -> {}]

\* The network is a regtest chain: the mainnet asset cannot be resolved on it.
ResolveCollateral(collateral) ==
    CASE collateral = "PolicyAsset" -> {"POLICY"}
      [] collateral = "Asset" -> {"COLLATERAL"}
      [] OTHER -> {}

HintMatches(hint, params) ==
    /\ hint.base_payout = params.base_payout
    /\ hint.expiry_height = params.expiry_height
    /\ params.collateral \in ResolveCollateral(hint.collateral)

RecoveryOutput(hint) ==
    {Explicit(script, "POLICY", 0) : script \in {s \in DOMAIN DecodeHint : DecodeHint[s] = {hint}}}

-----------------------------------------------------------------------------
(* BinaryMarketCreationPlan *)

CreationPlan(params, hint, yes, no) ==
    IF HintMatches(hint, params) /\ params.yes = yes /\ params.no = no
    THEN {[yes |-> yes, no |-> no,
           outputs |-> <<RtOutput("DormantYesRt", "YES", "A"), RtOutput("DormantNoRt", "NO", "A"), out>>]
           : out \in RecoveryOutput(hint)}
    ELSE {}

NewIssuance(leg) == [asset |-> leg, amount |-> 0, nonce |-> "new", keys |-> 1]

\* build_pset, and the caller's appended outputs.
CreationPset(plan, id, appended) ==
    [id |-> id,
     ins |-> <<[Input(plan.yes) EXCEPT !.issuance = NewIssuance("YES")],
               [Input(plan.no) EXCEPT !.issuance = NewIssuance("NO")]>>,
     outs |-> plan.outputs \o appended,
     lock |-> NoLock]

\* finalize_rt_proofs
CreationFinalizes(plan, tx) ==
    /\ Len(tx.ins) >= 2
    /\ tx.ins[1].prev = plan.yes /\ tx.ins[1].issuance = NewIssuance("YES")
    /\ tx.ins[2].prev = plan.no /\ tx.ins[2].issuance = NewIssuance("NO")
    /\ \A i \in 3 .. Len(tx.ins) : tx.ins[i].issuance = NoIssuance
    /\ \A k \in DOMAIN plan.outputs : HasOutput(tx, k) /\ tx.outs[k] = plan.outputs[k]

-----------------------------------------------------------------------------
(* BinaryMarketTransitionPlan::new_with_compiled *)

ValidateRtPair(live, yesSlot, noSlot) ==
    /\ The(live.yes_rt).txout.script = yesSlot
    /\ The(live.no_rt).txout.script = noSlot
    /\ InferLiveRtSides(live) # {}

ValidateLiveShape(before, path, live) ==
    LET yes == The(live.yes_rt).outpoint
        no == The(live.no_rt).outpoint
    IN /\ ValidateState(before)
       /\ CASE path \in {"InitialIssuance", "DormantResolution", "DormantExpiry"} ->
                 /\ live.yes_rt # {} /\ live.no_rt # {} /\ live.collateral = {}
                 /\ yes[1] = no[1]
                 /\ ValidateRtPair(live, "DormantYesRt", "DormantNoRt")
            [] path \in RedemptionPaths ->
                 live.yes_rt = {} /\ live.no_rt = {} /\ live.collateral # {}
            [] OTHER ->
                 /\ live.yes_rt # {} /\ live.no_rt # {} /\ live.collateral # {}
                 /\ no = <<yes[1], yes[2] + 1>>
                 /\ The(live.collateral).outpoint = <<yes[1], yes[2] + 2>>
                 /\ ValidateRtPair(live, "UnresolvedYesRt", "UnresolvedNoRt")

\* validate_attestation: an attestation [outcome, sig] exactly on a resolution.
ValidateAttestation(action, attestation) ==
    IF action.op = "Resolve"
    THEN \E att \in attestation : att.outcome = action.outcome /\ att.sig = action.outcome
    ELSE attestation = {}

\* A mutant: the reissuance tokens stay on their side.
UnflippedRtOutputs(path, side) ==
    LET pair(yes, no) == <<RtOutput(yes, "YES", side), RtOutput(no, "NO", side)>>
    IN CASE path \in RedemptionPaths -> <<>>
         [] path \in TerminalRtPaths -> pair(Burn, Burn)
         [] path = "FullCancellation" -> pair("DormantYesRt", "DormantNoRt")
         [] OTHER -> pair("UnresolvedYesRt", "UnresolvedNoRt")

RtOutputs(path, side) ==
    LET pair(yes, no) == <<RtOutput(yes, "YES", Flip(side)), RtOutput(no, "NO", Flip(side))>>
    IN CASE path \in RedemptionPaths -> <<>>
         [] path \in TerminalRtPaths -> pair(Burn, Burn)
         [] path = "FullCancellation" -> pair("DormantYesRt", "DormantNoRt")
         [] OTHER -> pair("UnresolvedYesRt", "UnresolvedNoRt")

\* append_non_rt_outputs
NonRtOutputs(path, applied) ==
    LET new == applied.new
        qty == applied.action.qty
        collateral == <<Explicit(CollateralSlot(new), "COLLATERAL", CollateralAmount(new))>>
        burns == <<Explicit(Burn, "YES", qty), Explicit(Burn, "NO", qty)>>
    IN CASE path \in IssuancePaths \cup {"ActiveResolution", "ActiveExpiry"} -> collateral
         [] path = "PartialCancellation" -> collateral \o burns
         [] path = "FullCancellation" -> burns
         [] path \in {"DormantResolution", "DormantExpiry"} -> <<>>
         [] path \in RedemptionPaths ->
               (IF new.amount > 0 THEN collateral ELSE <<>>)
                 \o <<Explicit(Burn, applied.action.outcome, qty)>>

PlanOn(path, applied, live, attestation) ==
    IF /\ ValidateLiveShape(applied.old, path, live)
       /\ ValidateAttestation(applied.action, attestation)
    THEN {[path |-> path, applied |-> applied, live |-> live, resolution |-> attestation,
           side |-> side, outputs |-> RtOutputs(path, side) \o NonRtOutputs(path, applied)]
           : side \in IF path \in RedemptionPaths THEN {"none"} ELSE InferLiveRtSides(live)}
    ELSE {}

TransitionPlan(before, action, live, attestation) ==
    UNION {UNION {PlanOn(path, applied, live, attestation)
                  : path \in PathFor(CoordinatorSlot(before), action.op, applied.whole)}
           : applied \in Apply(before, action)}

PlanSlots(plan) == InputSlots(CoordinatorSlot(plan.applied.old))

-----------------------------------------------------------------------------
(* The contribution to a composed transaction *)

\* configure_reissuance_inputs, for the k-th market input.
ConfiguredIssuance(plan, k) ==
    IF plan.path \in IssuancePaths /\ k <= 2
    THEN Reissuance(IF k = 1 THEN "YES" ELSE "NO", plan.applied.action.qty, plan.side)
    ELSE NoIssuance

\* composition_contribution and prepare_expiry: the inputs in role order.
PlanInputs(plan) ==
    [k \in DOMAIN PlanSlots(plan) |->
        [Input(The(LiveAt(plan.live, PlanSlots(plan)[k])).outpoint) EXCEPT
            !.final = plan.path \notin ExpiryPaths,
            !.issuance = ConfiguredIssuance(plan, k)]]

PlanLock(plan) ==
    IF plan.path \in ExpiryPaths THEN [unit |-> "height", n |-> ExpiryHeight] ELSE NoLock

\* The plan composed after the caller's own inputs and outputs.
ComposePlan(plan, id, wallet, own) ==
    [id |-> id, ins |-> wallet \o PlanInputs(plan), outs |-> own \o plan.outputs,
     lock |-> PlanLock(plan)]

-----------------------------------------------------------------------------
(* finalize_staged *)

VerifyInputs(plan, u, tx, i) ==
    \A k \in DOMAIN PlanSlots(plan) :
        LET slot == PlanSlots(plan)[k]
            at == i + k - 1
            leg == IF slot \in {"DormantYesRt", "UnresolvedYesRt"} THEN "YES" ELSE "NO"
        IN /\ HasInput(tx, at)
           /\ tx.ins[at].prev = The(LiveAt(plan.live, slot)).outpoint
           /\ Spent(u, tx, at).script = slot
           /\ IF slot \in {"DormantYesRt", "UnresolvedYesRt", "DormantNoRt", "UnresolvedNoRt"}
              THEN /\ Spent(u, tx, at) = The(LiveAt(plan.live, slot)).txout
                   /\ InferSide(leg, Spent(u, tx, at)) # {}
              ELSE Spent(u, tx, at)
                     = Explicit(slot, "COLLATERAL", CollateralAmount(plan.applied.old))
           /\ tx.ins[at].issuance = ConfiguredIssuance(plan, k)

\* The lock's unit is left to the covenant's own execution.
VerifyExpiry(plan, tx, i) ==
    plan.path \in ExpiryPaths =>
        /\ tx.lock.n >= ExpiryHeight
        /\ \A k \in DOMAIN PlanSlots(plan) : ~tx.ins[i + k - 1].final

\* BinaryMarketWitness: the coordinator carries the action, a follower its slot.
PlanWitness(plan, k, o) ==
    IF k > 1 THEN [NoWitness EXCEPT !.slot = PlanSlots(plan)[k]]
    ELSE [slot |-> PlanSlots(plan)[1], op |-> plan.applied.action.op, base |-> o,
          outcome |-> IF plan.resolution = {} THEN "NO" ELSE The(plan.resolution).outcome,
          sig |-> IF plan.resolution = {} THEN "none" ELSE The(plan.resolution).sig]

Witnessed(plan, tx, i, o) ==
    [tx EXCEPT !.ins = [j \in DOMAIN @ |->
        IF j - i + 1 \in DOMAIN PlanSlots(plan)
        THEN [@[j] EXCEPT !.wit = PlanWitness(plan, j - i + 1, o)]
        ELSE @[j]]]

FinalizePlan(plan, u, tx, i, o) ==
    IF /\ \A j \in DOMAIN tx.ins : tx.ins[j].prev \in DOMAIN u
       /\ VerifyInputs(plan, u, tx, i)
       /\ VerifyExpiry(plan, tx, i)
       /\ \A k \in DOMAIN plan.outputs :
             HasOutput(tx, o + k - 1) /\ tx.outs[o + k - 1] = plan.outputs[k]
    THEN LET final == Witnessed(plan, tx, i, o)
         IN When(\A k \in DOMAIN PlanSlots(plan) : Main(u, final, i + k - 1), final)
    ELSE {}
=============================================================================
