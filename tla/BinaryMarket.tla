---------------------------- MODULE BinaryMarket ----------------------------
(***************************************************************************)
(* The economics and the layout of the binary market                       *)
(* (deadcat-contracts/src/binary_market.rs), shared by the covenant, the   *)
(* builder, the interpreter and the client's replay.  A fallible function  *)
(* of the code is an operator that returns the set of its results: empty   *)
(* for an error, one element otherwise.                                    *)
(***************************************************************************)
EXTENDS Naturals, Sequences

CONSTANTS
    BasePayout,     \* collateral one token of a side is worth after expiry
    U64Max          \* the largest amount a u64 holds

ASSUME MarketAssumption ==
    /\ BasePayout \in Nat \ {0}
    /\ U64Max \in Nat
    /\ 2 * BasePayout <= U64Max

-----------------------------------------------------------------------------
(* States, actions and checked arithmetic *)

Outcomes == {"YES", "NO"}
Operations == {"Issue", "Cancel", "Resolve", "Expire", "Redeem"}

\* `amount` counts pairs while trading and unredeemed collateral afterwards.
Trading(pairs) == [phase |-> "Trading", amount |-> pairs]
Resolved(outcome, collateral) ==
    [phase |-> IF outcome = "YES" THEN "ResolvedYes" ELSE "ResolvedNo", amount |-> collateral]
Expired(collateral) == [phase |-> "Expired", amount |-> collateral]
States == [phase : {"Trading", "ResolvedYes", "ResolvedNo", "Expired"}, amount : 0 .. U64Max]

\* `outcome` is read by Resolve and Redeem only, `qty` by Issue, Cancel and Redeem.
Action(op, outcome, qty) == [op |-> op, outcome |-> outcome, qty |-> qty]
Actions == [op : Operations, outcome : Outcomes, qty : 0 .. U64Max]

When(ok, result) == IF ok THEN {result} ELSE {}
The(S) == CHOOSE x \in S : TRUE
\* A mutant: the sums of the economics are not checked.
UncheckedFits(n) == TRUE
Fits(n) == n <= U64Max

\* A mutant: a pair locks the payout of one side only.
OneSidedCollateral == BasePayout
CollateralPerPair == 2 * BasePayout
CollateralForPairs(pairs) == pairs * CollateralPerPair

ValidateState(state) ==
    CASE state.phase = "Trading" -> Fits(CollateralForPairs(state.amount))
      [] state.phase = "Expired" -> state.amount % BasePayout = 0
      [] OTHER -> state.amount % CollateralPerPair = 0

\* AppliedBinaryMarketTransition: `whole` is Cancelled.full and Redeemed.complete.
Applied(old, new, action, collateral, whole) ==
    [old |-> old, new |-> new, action |-> action, collateral |-> collateral, whole |-> whole]

-----------------------------------------------------------------------------
(* BinaryMarketEconomics *)

Issue(state, a) ==
    LET next == state.amount + a.qty IN
    When(/\ a.qty > 0
         /\ state.phase = "Trading"
         /\ Fits(next) /\ Fits(CollateralForPairs(next)) /\ Fits(CollateralForPairs(a.qty)),
         Applied(state, Trading(next), a, CollateralForPairs(a.qty), FALSE))

Cancel(state, a) ==
    When(/\ a.qty > 0
         /\ state.phase = "Trading"
         /\ a.qty <= state.amount
         /\ Fits(CollateralForPairs(state.amount - a.qty)) /\ Fits(CollateralForPairs(a.qty)),
         Applied(state, Trading(state.amount - a.qty), a, CollateralForPairs(a.qty),
                 state.amount = a.qty))

Resolve(state, a) ==
    LET retained == CollateralForPairs(state.amount) IN
    When(state.phase = "Trading" /\ Fits(retained),
         Applied(state, Resolved(a.outcome, retained), a, retained, FALSE))

Expire(state, a) ==
    LET retained == CollateralForPairs(state.amount) IN
    When(state.phase = "Trading" /\ Fits(retained),
         Applied(state, Expired(retained), a, retained, FALSE))

Redeem(state, a) ==
    LET released == a.qty * (IF state.phase = "Expired" THEN BasePayout ELSE CollateralPerPair)
    IN When(/\ a.qty > 0
            /\ \/ state.phase = "Expired"
               \/ state.phase = Resolved(a.outcome, 0).phase
            /\ Fits(released)
            /\ released <= state.amount,
            Applied(state, [state EXCEPT !.amount = @ - released], a, released,
                    state.amount = released))

Apply(state, a) ==
    IF ~ValidateState(state) THEN {}
    ELSE CASE a.op = "Issue" -> Issue(state, a)
           [] a.op = "Cancel" -> Cancel(state, a)
           [] a.op = "Resolve" -> Resolve(state, a)
           [] a.op = "Expire" -> Expire(state, a)
           [] a.op = "Redeem" -> Redeem(state, a)

-----------------------------------------------------------------------------
(* Slots, coordinators and paths *)

Slots == {"DormantYesRt", "DormantNoRt", "UnresolvedYesRt", "UnresolvedNoRt",
          "UnresolvedCollateral", "ResolvedYesCollateral", "ResolvedNoCollateral",
          "ExpiredCollateral"}

\* The slot whose input coordinates a spend of a market in this state.
CoordinatorSlot(state) ==
    CASE state = Trading(0) -> "DormantYesRt"
      [] state.phase = "Trading" /\ state.amount > 0 -> "UnresolvedYesRt"
      [] state.phase = "ResolvedYes" -> "ResolvedYesCollateral"
      [] state.phase = "ResolvedNo" -> "ResolvedNoCollateral"
      [] state.phase = "Expired" -> "ExpiredCollateral"

\* The contiguous market inputs of a spend, coordinator first.
InputSlots(coordinator) ==
    CASE coordinator = "DormantYesRt" -> <<"DormantYesRt", "DormantNoRt">>
      [] coordinator = "UnresolvedYesRt" ->
            <<"UnresolvedYesRt", "UnresolvedNoRt", "UnresolvedCollateral">>
      [] OTHER -> <<coordinator>>

\* BinaryMarketLayout::for_operation; `full` is read for a cancellation only.
PathFor(coordinator, op, full) ==
    CASE op = "Issue" /\ coordinator = "DormantYesRt" -> {"InitialIssuance"}
      [] op = "Issue" /\ coordinator = "UnresolvedYesRt" -> {"SubsequentIssuance"}
      [] op = "Cancel" /\ coordinator = "UnresolvedYesRt" ->
            {IF full THEN "FullCancellation" ELSE "PartialCancellation"}
      [] op = "Resolve" /\ coordinator = "UnresolvedYesRt" -> {"ActiveResolution"}
      [] op = "Resolve" /\ coordinator = "DormantYesRt" -> {"DormantResolution"}
      [] op = "Expire" /\ coordinator = "UnresolvedYesRt" -> {"ActiveExpiry"}
      [] op = "Expire" /\ coordinator = "DormantYesRt" -> {"DormantExpiry"}
      [] op = "Redeem" /\ coordinator \in {"ResolvedYesCollateral", "ResolvedNoCollateral"} ->
            {"ResolvedRedemption"}
      [] op = "Redeem" /\ coordinator = "ExpiredCollateral" -> {"ExpiryRedemption"}
      [] OTHER -> {}

ExpiryPaths == {"ActiveExpiry", "DormantExpiry"}
IssuancePaths == {"InitialIssuance", "SubsequentIssuance"}
RedemptionPaths == {"ResolvedRedemption", "ExpiryRedemption"}
CancellationPaths == {"PartialCancellation", "FullCancellation"}
TerminalRtPaths == {"ActiveResolution", "DormantResolution"} \cup ExpiryPaths

\* The slot that holds the collateral of a state, none when nothing is locked.
CollateralSlot(state) ==
    CASE state.phase = "Trading" -> "UnresolvedCollateral"
      [] state.phase = "ResolvedYes" -> "ResolvedYesCollateral"
      [] state.phase = "ResolvedNo" -> "ResolvedNoCollateral"
      [] state.phase = "Expired" -> "ExpiredCollateral"

CollateralAmount(state) ==
    IF state.phase = "Trading" THEN CollateralForPairs(state.amount) ELSE state.amount

-----------------------------------------------------------------------------
(* Reissuance tokens: one confidential unit per leg, on side A or side B *)

Flip(side) == IF side = "A" THEN "B" ELSE "A"
RtAsset(leg) == IF leg = "YES" THEN "YES_RT" ELSE "NO_RT"

\* A transaction output; side "none" marks an explicit asset and amount.
Output(script, asset, side, amount) ==
    [script |-> script, asset |-> asset, side |-> side, amount |-> amount]
RtOutput(script, leg, side) == Output(script, RtAsset(leg), side, 1)
Explicit(script, asset, amount) == Output(script, asset, "none", amount)
IsExplicit(out) == out.side = "none"

\* The side a raw output is committed to; none for any other commitment.
InferSide(leg, out) ==
    {side \in {"A", "B"} : [asset |-> RtAsset(leg), side |-> side, amount |-> 1]
                            = [asset |-> out.asset, side |-> out.side, amount |-> out.amount]}
=============================================================================
