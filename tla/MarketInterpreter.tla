-------------------------- MODULE MarketInterpreter --------------------------
(***************************************************************************)
(* The interpreter the node and the client derive market history with      *)
(* (deadcat-contracts/src/interpret).  It reads a confirmed transaction,   *)
(* never executes the covenant, and reconstructs the operation from the    *)
(* witness and the outputs.  A tracked output is [outpoint, txout] and the *)
(* live outputs are [yes_rt, no_rt, collateral], each a set with at most   *)
(* one tracked output.                                                     *)
(***************************************************************************)
EXTENDS MarketCovenant, FiniteSets

Tracked(tx, o) == [outpoint |-> <<tx.id, o>>, txout |-> tx.outs[o]]
NoLive == [yes_rt |-> {}, no_rt |-> {}, collateral |-> {}]

LiveAt(live, slot) ==
    CASE slot \in {"DormantYesRt", "UnresolvedYesRt"} -> live.yes_rt
      [] slot \in {"DormantNoRt", "UnresolvedNoRt"} -> live.no_rt
      [] OTHER -> live.collateral

-----------------------------------------------------------------------------
(* The tracked state *)

CheckLiveSlot(live, slot) ==
    LiveAt(live, slot) # {} /\ The(LiveAt(live, slot)).txout.script = slot
CheckConfidentialRt(tracked) == ~IsExplicit(The(tracked).txout)
CheckExplicitLive(tracked, amount) ==
    /\ IsExplicit(The(tracked).txout)
    /\ The(tracked).txout.asset = "COLLATERAL"
    /\ The(tracked).txout.amount = amount

ValidateLiveOutputs(state, live) ==
    /\ ValidateState(state)
    /\ IF state.phase = "Trading"
       THEN LET slots == InputSlots(CoordinatorSlot(state)) IN
            /\ \A k \in DOMAIN slots : CheckLiveSlot(live, slots[k])
            /\ CheckConfidentialRt(live.yes_rt) /\ CheckConfidentialRt(live.no_rt)
            /\ IF state.amount = 0
               THEN live.collateral = {}
               ELSE CheckExplicitLive(live.collateral, CollateralForPairs(state.amount))
       ELSE /\ live.yes_rt = {} /\ live.no_rt = {}
            /\ CheckLiveSlot(live, CollateralSlot(state))
            /\ CheckExplicitLive(live.collateral, state.amount)

\* infer_live_rt_sides: both legs on one recognised side.
InferLiveRtSides(live) ==
    InferSide("YES", The(live.yes_rt).txout) \cap InferSide("NO", The(live.no_rt).txout)

\* decode_market_witness: a slot word and one of the five actions, nothing else.
DecodeMarketWitness(in) == When(in.wit.slot \in Slots /\ in.wit.op \in Operations, in.wit)

\* locate_input: the one input that spends the outpoint.
LocateInput(tx, outpoint) ==
    LET at == {i \in DOMAIN tx.ins : tx.ins[i].prev = outpoint}
    IN IF Cardinality(at) = 1 THEN at ELSE {}

-----------------------------------------------------------------------------
(* The operation *)

\* token_burn_amount
TokenBurnAmount(tx, o, token) ==
    When(/\ HasOutput(tx, o)
         /\ IsExplicit(tx.outs[o])
         /\ tx.outs[o].asset = token /\ tx.outs[o].amount # 0 /\ tx.outs[o].script = Burn,
         tx.outs[o].amount)

\* cancellation_is_full: the answer, none on an error.
CancellationIsFull(tx, o) ==
    IF ~HasOutput(tx, o + 2) \/ ~IsExplicit(tx.outs[o + 2]) THEN {}
    ELSE IF tx.outs[o + 2].asset = "COLLATERAL" THEN {FALSE}
    ELSE When(TokenBurnAmount(tx, o + 2, "YES") # {}, TRUE)

\* redemption_details: the side burned and how many tokens.
RedemptionDetails(before, tx, o) ==
    IF ~HasOutput(tx, o) \/ ~IsExplicit(tx.outs[o]) THEN {}
    ELSE LET burn == IF tx.outs[o].asset = "COLLATERAL" THEN o + 1 ELSE o
             sides == CASE before.phase = "ResolvedYes" -> {"YES"}
                        [] before.phase = "ResolvedNo" -> {"NO"}
                        [] before.phase = "Expired" -> Outcomes
                        [] OTHER -> {}
         IN UNION {{[outcome |-> side, tokens |-> n] : n \in TokenBurnAmount(tx, burn, side)}
                    : side \in sides}

\* issuance_amount of one leg
IssuanceAmount(tx, i, leg, side) ==
    LET issuance == tx.ins[i].issuance IN
    When(issuance.asset = leg /\ issuance.keys = 0 /\ issuance.nonce = side, issuance.amount)

\* A mutant: only the first input may activate the lock.
FirstInputExpiryLock(tx) ==
    /\ tx.lock.unit = "height"
    /\ ~(tx.lock.n < ExpiryHeight)
    /\ ~tx.ins[1].final

\* check_expiry_lock: any input may activate the transaction's lock.
CheckExpiryLock(tx) ==
    /\ tx.lock.unit = "height"
    /\ ~(tx.lock.n < ExpiryHeight)
    /\ \E i \in DOMAIN tx.ins : ~tx.ins[i].final

\* verify_input_group
VerifyInputGroup(path, coordinator, before, live, tx, i) ==
    LET slots == InputSlots(coordinator)
        yes == The(live.yes_rt).outpoint
        no == The(live.no_rt).outpoint
    IN /\ \A k \in DOMAIN slots :
             /\ LiveAt(live, slots[k]) # {}
             /\ HasInput(tx, i + k - 1)
             /\ tx.ins[i + k - 1].prev = The(LiveAt(live, slots[k])).outpoint
       /\ CASE coordinator = "DormantYesRt" ->
                 /\ before = Trading(0)
                 /\ yes[1] = no[1]
                 /\ path # "InitialIssuance" =>
                       \A k \in 0 .. 1 : tx.ins[i + k].issuance = NoIssuance
            [] coordinator = "UnresolvedYesRt" ->
                 /\ before.phase = "Trading" /\ before.amount > 0
                 /\ no = <<yes[1], yes[2] + 1>>
                 /\ The(live.collateral).outpoint = <<yes[1], yes[2] + 2>>
                 /\ \A k \in (IF path = "SubsequentIssuance" THEN {2} ELSE 0 .. 2) :
                       tx.ins[i + k].issuance = NoIssuance
            [] OTHER -> tx.ins[i].issuance = NoIssuance

\* The action a path stands for, with its quantity read from the transaction.
ActionOf(path, before, side, tx, i, o, outcome, tokens) ==
    CASE path \in IssuancePaths ->
            {Action("Issue", "YES", n) :
                n \in (IssuanceAmount(tx, i, "YES", side)
                         \cap IssuanceAmount(tx, i + 1, "NO", side)) \ {0}}
      [] path \in CancellationPaths ->
            LET burn == IF path = "PartialCancellation" THEN o + 3 ELSE o + 2
            IN {Action("Cancel", "YES", n) :
                   n \in TokenBurnAmount(tx, burn, "YES") \cap TokenBurnAmount(tx, burn + 1, "NO")}
      [] path \in {"ActiveResolution", "DormantResolution"} -> {Action("Resolve", outcome, 0)}
      [] path \in ExpiryPaths -> When(CheckExpiryLock(tx), Action("Expire", "YES", 0))
      [] path = "ResolvedRedemption" ->
            {Action("Redeem", IF before.phase = "ResolvedYes" THEN "YES" ELSE "NO", tokens)}
      [] path = "ExpiryRedemption" -> {Action("Redeem", outcome, tokens)}

-----------------------------------------------------------------------------
(* The outputs *)

RtOutputAt(tx, o, script, leg, side) ==
    HasOutput(tx, o) /\ tx.outs[o] = RtOutput(script, leg, side)
CollateralAt(tx, o, slot, amount) ==
    HasOutput(tx, o) /\ tx.outs[o] = Explicit(slot, "COLLATERAL", amount)
CheckTokenBurn(tx, o, token, amount) == TokenBurnAmount(tx, o, token) = {amount}
Continuation(tx, o, slot) == [slot |-> slot, output |-> Tracked(tx, o)]

RtPairAt(tx, o, yes, no, side) ==
    /\ RtOutputAt(tx, o, yes, "YES", Flip(side))
    /\ RtOutputAt(tx, o + 1, no, "NO", Flip(side))
NewCollateralAt(tx, o, new) == CollateralAt(tx, o, CollateralSlot(new), CollateralAmount(new))

\* The paths after which the market still trades.
TradingContinuations(path, applied, side, tx, o) ==
    LET new == applied.new
        pair(yes, no) == <<Continuation(tx, o, yes), Continuation(tx, o + 1, no)>>
    IN CASE path = "FullCancellation" ->
               When(new = Trading(0) /\ RtPairAt(tx, o, "DormantYesRt", "DormantNoRt", side),
                    pair("DormantYesRt", "DormantNoRt"))
         [] OTHER ->
               When(/\ RtPairAt(tx, o, "UnresolvedYesRt", "UnresolvedNoRt", side)
                    /\ path = "PartialCancellation" => new.amount # 0
                    /\ NewCollateralAt(tx, o + 2, new),
                    Append(pair("UnresolvedYesRt", "UnresolvedNoRt"),
                           Continuation(tx, o + 2, CollateralSlot(new))))

\* The paths into and within the terminal states.
TerminalContinuations(path, applied, side, tx, o) ==
    LET new == applied.new
        burned(at) == CheckTokenBurn(tx, at, applied.action.outcome, applied.action.qty)
        held(at) == <<Continuation(tx, at, CollateralSlot(new))>>
    IN CASE path \in {"ActiveResolution", "ActiveExpiry"} ->
               When(RtPairAt(tx, o, Burn, Burn, side) /\ NewCollateralAt(tx, o + 2, new), held(o + 2))
         [] path = "DormantResolution" ->
               When(RtPairAt(tx, o, Burn, Burn, side) /\ applied.old = Trading(0), <<>>)
         [] path = "DormantExpiry" -> When(RtPairAt(tx, o, Burn, Burn, side), <<>>)
         [] path \in RedemptionPaths ->
               IF new.amount > 0 THEN When(NewCollateralAt(tx, o, new) /\ burned(o + 1), held(o))
               ELSE When(burned(o), <<>>)

\* verify_outputs: the continuations, in the order the code pushes them.
VerifyOutputs(path, applied, side, tx, o) ==
    IF path \in IssuancePaths \cup CancellationPaths
    THEN TradingContinuations(path, applied, side, tx, o)
    ELSE TerminalContinuations(path, applied, side, tx, o)

-----------------------------------------------------------------------------
(* interpret_binary_market_spend_with_compiled *)

\* A mutant: the interpretation keeps the state it started from.
StaleInterpretation(before, live, side, tx, i, o, path, coordinator, outcome, tokens) ==
    IF ~VerifyInputGroup(path, coordinator, before, live, tx, i) THEN {}
    ELSE UNION {UNION {{[path |-> path, action |-> action, before |-> before,
                         after |-> before, applied |-> applied,
                         input_base |-> i, output_base |-> o, continuations |-> out]
                         : out \in VerifyOutputs(path, applied, side, tx, o)}
                       : applied \in Apply(before, action)}
                : action \in ActionOf(path, before, side, tx, i, o, outcome, tokens)}

InterpretDecoded(before, live, side, tx, i, o, path, coordinator, outcome, tokens) ==
    IF ~VerifyInputGroup(path, coordinator, before, live, tx, i) THEN {}
    ELSE UNION {UNION {{[path |-> path, action |-> action, before |-> before,
                         after |-> applied.new, applied |-> applied,
                         input_base |-> i, output_base |-> o, continuations |-> out]
                         : out \in VerifyOutputs(path, applied, side, tx, o)}
                       : applied \in Apply(before, action)}
                : action \in ActionOf(path, before, side, tx, i, o, outcome, tokens)}

Interpret(before, live, tx) ==
    IF ~ValidateLiveOutputs(before, live) THEN {}
    ELSE LET coordinator == CoordinatorSlot(before)
             head == The(LiveAt(live, coordinator))
             at == LocateInput(tx, head.outpoint)
             w == tx.ins[The(at)].wit
             sides == IF before.phase = "Trading" THEN InferLiveRtSides(live) ELSE {"none"}
             full == IF w.op = "Cancel" THEN CancellationIsFull(tx, w.base) ELSE {FALSE}
             details ==
                CASE w.op = "Resolve" -> When(w.sig = w.outcome, [outcome |-> w.outcome, tokens |-> 0])
                  [] w.op = "Redeem" -> RedemptionDetails(before, tx, w.base)
                  [] OTHER -> {[outcome |-> "NO", tokens |-> 0]}
         IN IF at = {} \/ DecodeMarketWitness(tx.ins[The(at)]) = {} \/ w.slot # coordinator THEN {}
            ELSE UNION {InterpretDecoded(before, live, side, tx, The(at), w.base,
                                         path, coordinator, d.outcome, d.tokens)
                        : side \in sides, d \in details,
                          path \in UNION {PathFor(coordinator, w.op, f) : f \in full}}

\* A mutant: the collateral of a terminal state is not tracked.
TradingLiveFromContinuations(continuations) ==
    LET at(slots) == {continuations[k].output :
                        k \in {j \in DOMAIN continuations : continuations[j].slot \in slots}}
    IN [yes_rt |-> at({"DormantYesRt", "UnresolvedYesRt"}),
        no_rt |-> at({"DormantNoRt", "UnresolvedNoRt"}),
        collateral |-> at({"UnresolvedCollateral"})]

\* live_from_market_continuations
LiveFromContinuations(continuations) ==
    LET at(slots) == {continuations[k].output :
                        k \in {j \in DOMAIN continuations : continuations[j].slot \in slots}}
    IN [yes_rt |-> at({"DormantYesRt", "UnresolvedYesRt"}),
        no_rt |-> at({"DormantNoRt", "UnresolvedNoRt"}),
        collateral |-> at({"UnresolvedCollateral", "ResolvedYesCollateral",
                           "ResolvedNoCollateral", "ExpiredCollateral"})]
=============================================================================
