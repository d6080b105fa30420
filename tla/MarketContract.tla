--------------------------- MODULE MarketContract ---------------------------
(***************************************************************************)
(* What a binary market promises, whoever builds its transactions: the     *)
(* materialised state moves only by the economics, tokens are created only *)
(* in pairs, and a token leaves circulation when it is burned.             *)
(***************************************************************************)
EXTENDS BinaryMarket

VARIABLES
    market,     \* the state of the market, a BinaryMarketState
    supply      \* tokens of each side in circulation

contractVars == <<market, supply>>

\* Tokens of a side that an operation creates and burns.
Minted(a, side) == IF a.op = "Issue" THEN a.qty ELSE 0
Burned(a, side) ==
    IF a.op = "Cancel" \/ (a.op = "Redeem" /\ a.outcome = side) THEN a.qty ELSE 0

ContractInit ==
    /\ market = Trading(0)
    /\ supply = [side \in Outcomes |-> 0]

\* A spend accepted by the covenant; nobody burns tokens that do not exist.
Transition(a) ==
    \E applied \in Apply(market, a) :
        /\ \A side \in Outcomes : Burned(a, side) <= supply[side]
        /\ market' = applied.new
        /\ supply' = [side \in Outcomes |-> supply[side] + Minted(a, side) - Burned(a, side)]

\* A holder destroys tokens outside the market.
BurnTokens(side) ==
    /\ supply[side] > 0
    /\ supply' = [supply EXCEPT ![side] = @ - 1]
    /\ UNCHANGED market

ContractNext ==
    \/ \E a \in Actions : Transition(a)
    \/ \E side \in Outcomes : BurnTokens(side)

\* The economics as a specification: whatever the covenant lets through, read
\* from a chain, is one of these transitions (binary_market.rs, apply).
ContractSpec == ContractInit /\ [][ContractNext]_contractVars

-----------------------------------------------------------------------------

\* Amounts of the market and of the tokens stay in the 64 bits the code's
\* checked arithmetic gives them (binary_market.rs).
ContractTypeOK ==
    /\ market \in States
    /\ supply \in [Outcomes -> 0 .. U64Max]

\* Every token in circulation can be paid out of the collateral the market
\* still holds: a pair for pair while trading, each winning token its two
\* base payouts once resolved, each token of either side one base payout
\* once expired (binary_market.rs, apply).
Solvent ==
    /\ market.phase = "Trading" => \A side \in Outcomes : supply[side] <= market.amount
    /\ market.phase = "ResolvedYes" => CollateralForPairs(supply["YES"]) <= market.amount
    /\ market.phase = "ResolvedNo" => CollateralForPairs(supply["NO"]) <= market.amount
    /\ market.phase = "Expired" =>
          (supply["YES"] + supply["NO"]) * BasePayout <= market.amount
=============================================================================
