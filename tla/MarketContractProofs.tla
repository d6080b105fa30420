------------------------ MODULE MarketContractProofs ------------------------
(***************************************************************************)
(* A binary market is solvent, for every payout and every width of amount. *)
(* Solvent is inductive together with the type invariant: the bound on the *)
(* supply while trading is what the collateral bounds after resolution and *)
(* expiry are derived from.                                                *)
(***************************************************************************)
EXTENDS MarketContract, TLAPS

\* Multiplying by a payout keeps the order of two quantities.
LEMMA ScaleMonotone ==
    ASSUME NEW x \in Nat, NEW y \in Nat, NEW c \in Nat, x <= y
    PROVE  x * c <= y * c
  <1>1. PICK d \in Nat : y = x + d
    <2>1. y - x \in Nat /\ y = x + (y - x) OBVIOUS
    <2>2. QED BY <2>1
  <1>2. y * c = x * c + d * c BY <1>1
  <1>3. x * c \in Nat /\ d * c \in Nat BY <1>1
  <1>4. QED BY <1>2, <1>3

\* A payout distributes over the tokens that stay and the tokens that go.
LEMMA ScaleMinus ==
    ASSUME NEW x \in Nat, NEW y \in Nat, NEW c \in Nat, y <= x
    PROVE  (x - y) * c = x * c - y * c
  <1>1. PICK d \in Nat : x = y + d
    <2>1. x - y \in Nat /\ x = y + (x - y) OBVIOUS
    <2>2. QED BY <2>1
  <1>2. x * c = y * c + d * c /\ x - y = d BY <1>1
  <1>3. y * c \in Nat /\ d * c \in Nat BY <1>1
  <1>4. QED BY <1>2, <1>3

\* CollateralForPairs is a natural number twice as large as the base payouts.
LEMMA CollateralFacts ==
    ASSUME NEW n \in Nat
    PROVE  /\ CollateralForPairs(n) \in Nat
           /\ CollateralForPairs(n) = (n + n) * BasePayout
  <1>1. BasePayout \in Nat BY MarketAssumption
  <1>2. CollateralForPairs(n) = n * (2 * BasePayout) BY DEF CollateralForPairs, CollateralPerPair
  <1>3. n * (2 * BasePayout) = (n + n) * BasePayout BY <1>1
  <1>4. (n + n) * BasePayout \in Nat BY <1>1
  <1>5. QED BY <1>2, <1>3, <1>4

-----------------------------------------------------------------------------
(* One lemma per operation: what the new state is and what was required *)

\* An accepted Issue is of a trading market and adds its pairs within a u64.
LEMMA IssueFacts ==
    ASSUME NEW s \in States, NEW a \in Actions, NEW r \in Issue(s, a)
    PROVE  /\ s.phase = "Trading"
           /\ s.amount + a.qty <= U64Max
           /\ r.new = Trading(s.amount + a.qty)
  BY DEF Issue, When, Fits, Applied

\* An accepted Cancel takes pairs that a trading market has.
LEMMA CancelFacts ==
    ASSUME NEW s \in States, NEW a \in Actions, NEW r \in Cancel(s, a)
    PROVE  /\ s.phase = "Trading"
           /\ a.qty <= s.amount
           /\ r.new = Trading(s.amount - a.qty)
  BY DEF Cancel, When, Applied

\* An accepted Resolve turns all pairs of a trading market into collateral.
LEMMA ResolveFacts ==
    ASSUME NEW s \in States, NEW a \in Actions, NEW r \in Resolve(s, a)
    PROVE  /\ s.phase = "Trading"
           /\ CollateralForPairs(s.amount) <= U64Max
           /\ r.new = Resolved(a.outcome, CollateralForPairs(s.amount))
  BY DEF Resolve, When, Fits, Applied

\* An accepted Expire does the same without naming a winner.
LEMMA ExpireFacts ==
    ASSUME NEW s \in States, NEW a \in Actions, NEW r \in Expire(s, a)
    PROVE  /\ s.phase = "Trading"
           /\ CollateralForPairs(s.amount) <= U64Max
           /\ r.new = Expired(CollateralForPairs(s.amount))
  BY DEF Expire, When, Fits, Applied

Released(s, qty) == qty * (IF s.phase = "Expired" THEN BasePayout ELSE CollateralPerPair)

\* An accepted Redeem releases the collateral of the tokens it burns, and no more than there is.
LEMMA RedeemFacts ==
    ASSUME NEW s \in States, NEW a \in Actions, NEW r \in Redeem(s, a)
    PROVE  /\ s.phase = "Expired" \/ s.phase = Resolved(a.outcome, 0).phase
           /\ Released(s, a.qty) <= s.amount
           /\ r.new = [s EXCEPT !.amount = s.amount - Released(s, a.qty)]
  BY DEF Redeem, When, Applied, Released

\* Apply is one of the five operations.
LEMMA ApplyCases ==
    ASSUME NEW s \in States, NEW a \in Actions, NEW r \in Apply(s, a)
    PROVE  \/ a.op = "Issue" /\ r \in Issue(s, a)
           \/ a.op = "Cancel" /\ r \in Cancel(s, a)
           \/ a.op = "Resolve" /\ r \in Resolve(s, a)
           \/ a.op = "Expire" /\ r \in Expire(s, a)
           \/ a.op = "Redeem" /\ r \in Redeem(s, a)
  <1>1. a.op \in Operations BY DEF Actions
  <1>2. QED BY <1>1 DEF Apply, Operations

-----------------------------------------------------------------------------
(* The invariant *)

IInv == ContractTypeOK /\ Solvent

\* The supply while an operation is applied, side by side.
LEMMA SupplyAfter ==
    ASSUME ContractTypeOK, NEW a \in Actions, NEW side \in Outcomes,
           Burned(a, side) <= supply[side],
           supply' = [s \in Outcomes |-> supply[s] + Minted(a, s) - Burned(a, s)]
    PROVE  /\ supply[side] \in Nat /\ a.qty \in Nat
           /\ supply'[side] = supply[side] + Minted(a, side) - Burned(a, side)
           /\ supply'[side] \in Nat
  <1>1. supply[side] \in Nat /\ a.qty \in Nat BY MarketAssumption DEF ContractTypeOK, Actions
  <1>2. Minted(a, side) \in Nat /\ Burned(a, side) \in Nat BY <1>1 DEF Minted, Burned
  <1>3. QED BY <1>1, <1>2

\* An issue keeps the supply within the pairs.
LEMMA IssueStep ==
    ASSUME IInv, NEW a \in Actions, a.op = "Issue", NEW r \in Issue(market, a),
           \A side \in Outcomes : Burned(a, side) <= supply[side],
           market' = r.new,
           supply' = [s \in Outcomes |-> supply[s] + Minted(a, s) - Burned(a, s)]
    PROVE  IInv'
  <1>1. market \in States /\ market.amount \in Nat /\ a.qty \in Nat
    BY MarketAssumption DEF IInv, ContractTypeOK, States, Actions
  <1>2. market.phase = "Trading" /\ market.amount + a.qty <= U64Max
        /\ market' = Trading(market.amount + a.qty)
    BY <1>1, IssueFacts
  <1>3. market'.phase = "Trading" /\ market'.amount = market.amount + a.qty
    BY <1>2 DEF Trading
  <1>4. ASSUME NEW side \in Outcomes PROVE supply'[side] \in Nat /\ supply'[side] <= market'.amount
    <2>1. supply[side] <= market.amount BY <1>2 DEF IInv, Solvent
    <2>2. Minted(a, side) = a.qty /\ Burned(a, side) = 0 BY DEF Minted, Burned
    <2>3. QED BY <1>1, <1>3, <2>1, <2>2, SupplyAfter DEF IInv
  <1>5. market' \in States BY <1>1, <1>2, MarketAssumption DEF Trading, States
  <1>6. supply' \in [Outcomes -> 0 .. U64Max]
    <2>1. \A side \in Outcomes : supply'[side] \in 0 .. U64Max
      BY <1>1, <1>2, <1>3, <1>4, MarketAssumption
    <2>2. QED BY <2>1
  <1>7. Solvent' BY <1>3, <1>4 DEF Solvent
  <1>8. QED BY <1>5, <1>6, <1>7 DEF IInv, ContractTypeOK

\* Without minting, the supply of each side stays in its type.
LEMMA NoMintType ==
    ASSUME ContractTypeOK, NEW a \in Actions, a.op # "Issue",
           \A side \in Outcomes : Burned(a, side) <= supply[side],
           supply' = [s \in Outcomes |-> supply[s] + Minted(a, s) - Burned(a, s)]
    PROVE  supply' \in [Outcomes -> 0 .. U64Max]
  <1>1. ASSUME NEW side \in Outcomes PROVE supply'[side] \in 0 .. U64Max
    <2>1. supply[side] \in 0 .. U64Max BY DEF ContractTypeOK
    <2>2. Minted(a, side) = 0 BY DEF Minted
    <2>3. Burned(a, side) \in Nat BY SupplyAfter DEF Burned
    <2>4. QED BY <2>1, <2>2, <2>3, SupplyAfter, MarketAssumption
  <1>2. QED BY <1>1

\* A cancellation burns as many tokens of each side as it takes pairs.
LEMMA CancelStep ==
    ASSUME IInv, NEW a \in Actions, a.op = "Cancel", NEW r \in Cancel(market, a),
           \A side \in Outcomes : Burned(a, side) <= supply[side],
           market' = r.new,
           supply' = [s \in Outcomes |-> supply[s] + Minted(a, s) - Burned(a, s)]
    PROVE  IInv'
  <1>1. market \in States /\ market.amount \in Nat /\ a.qty \in Nat /\ market.amount <= U64Max
    BY MarketAssumption DEF IInv, ContractTypeOK, States, Actions
  <1>2. market.phase = "Trading" /\ a.qty <= market.amount
        /\ market' = Trading(market.amount - a.qty)
    BY <1>1, CancelFacts
  <1>3. market'.phase = "Trading" /\ market'.amount = market.amount - a.qty
    BY <1>2 DEF Trading
  <1>4. ASSUME NEW side \in Outcomes PROVE supply'[side] <= market'.amount
    <2>1. supply[side] <= market.amount BY <1>2 DEF IInv, Solvent
    <2>2. Minted(a, side) = 0 /\ Burned(a, side) = a.qty BY DEF Minted, Burned
    <2>3. QED BY <1>1, <1>3, <2>1, <2>2, SupplyAfter DEF IInv
  <1>5. market' \in States BY <1>1, <1>2, MarketAssumption DEF Trading, States
  <1>6. supply' \in [Outcomes -> 0 .. U64Max] BY NoMintType DEF IInv
  <1>7. Solvent' BY <1>3, <1>4 DEF Solvent
  <1>8. QED BY <1>5, <1>6, <1>7 DEF IInv, ContractTypeOK

\* Resolution and expiry keep the collateral of every pair, hence of every token.
LEMMA ResolveStep ==
    ASSUME IInv, NEW a \in Actions, a.op = "Resolve", NEW r \in Resolve(market, a),
           \A side \in Outcomes : Burned(a, side) <= supply[side],
           market' = r.new,
           supply' = [s \in Outcomes |-> supply[s] + Minted(a, s) - Burned(a, s)]
    PROVE  IInv'
  <1>1. market \in States /\ market.amount \in Nat /\ a.outcome \in Outcomes
    BY MarketAssumption DEF IInv, ContractTypeOK, States, Actions
  <1> DEFINE kept == CollateralForPairs(market.amount)
  <1>2. market.phase = "Trading" /\ kept <= U64Max /\ market' = Resolved(a.outcome, kept)
    BY <1>1, ResolveFacts
  <1>3. kept \in Nat BY <1>1, CollateralFacts
  <1>4. market'.amount = kept /\ market'.phase \in {"ResolvedYes", "ResolvedNo"}
    BY <1>2 DEF Resolved
  <1>5. ASSUME NEW side \in Outcomes PROVE CollateralForPairs(supply'[side]) <= kept
    <2>1. supply[side] <= market.amount BY <1>2 DEF IInv, Solvent
    <2>2. Minted(a, side) = 0 /\ Burned(a, side) = 0 BY DEF Minted, Burned
    <2>3. supply'[side] = supply[side] /\ supply[side] \in Nat BY <2>2, SupplyAfter DEF IInv
    <2>4. CollateralPerPair \in Nat BY MarketAssumption DEF CollateralPerPair
    <2>5. QED BY <1>1, <2>1, <2>3, <2>4, ScaleMonotone DEF CollateralForPairs
  <1>6. market' \in States BY <1>2, <1>3, MarketAssumption DEF Resolved, States
  <1>7. supply' \in [Outcomes -> 0 .. U64Max] BY NoMintType DEF IInv
  <1>8. Solvent' BY <1>4, <1>5 DEF Solvent, Outcomes
  <1>9. QED BY <1>6, <1>7, <1>8 DEF IInv, ContractTypeOK

\* Expiry, like resolution, keeps the collateral of every token.
LEMMA ExpireStep ==
    ASSUME IInv, NEW a \in Actions, a.op = "Expire", NEW r \in Expire(market, a),
           \A side \in Outcomes : Burned(a, side) <= supply[side],
           market' = r.new,
           supply' = [s \in Outcomes |-> supply[s] + Minted(a, s) - Burned(a, s)]
    PROVE  IInv'
  <1>1. market \in States /\ market.amount \in Nat
    BY MarketAssumption DEF IInv, ContractTypeOK, States
  <1> DEFINE kept == CollateralForPairs(market.amount)
  <1>2. market.phase = "Trading" /\ kept <= U64Max /\ market' = Expired(kept)
    BY <1>1, ExpireFacts
  <1>3. kept \in Nat /\ kept = (market.amount + market.amount) * BasePayout
    BY <1>1, CollateralFacts
  <1>4. market'.amount = kept /\ market'.phase = "Expired" BY <1>2 DEF Expired
  <1>5. ASSUME NEW side \in Outcomes
        PROVE  supply'[side] \in Nat /\ supply'[side] <= market.amount
    <2>1. supply[side] <= market.amount BY <1>2 DEF IInv, Solvent
    <2>2. Minted(a, side) = 0 /\ Burned(a, side) = 0 BY DEF Minted, Burned
    <2>3. QED BY <2>1, <2>2, SupplyAfter DEF IInv
  <1>6. (supply'["YES"] + supply'["NO"]) * BasePayout <= kept
    <2>1. supply'["YES"] + supply'["NO"] <= market.amount + market.amount
          /\ supply'["YES"] + supply'["NO"] \in Nat
      BY <1>1, <1>5 DEF Outcomes
    <2>2. BasePayout \in Nat BY MarketAssumption
    <2>3. QED BY <1>1, <1>3, <2>1, <2>2, ScaleMonotone
  <1>7. market' \in States BY <1>2, <1>3, MarketAssumption DEF Expired, States
  <1>8. supply' \in [Outcomes -> 0 .. U64Max] BY NoMintType DEF IInv
  <1>9. Solvent' BY <1>4, <1>6 DEF Solvent
  <1>10. QED BY <1>7, <1>8, <1>9 DEF IInv, ContractTypeOK

\* A redemption burns the tokens it pays for.
LEMMA RedeemStep ==
    ASSUME IInv, NEW a \in Actions, a.op = "Redeem", NEW r \in Redeem(market, a),
           \A side \in Outcomes : Burned(a, side) <= supply[side],
           market' = r.new,
           supply' = [s \in Outcomes |-> supply[s] + Minted(a, s) - Burned(a, s)]
    PROVE  IInv'
  <1>1. market \in States /\ market.amount \in Nat /\ market.amount <= U64Max
        /\ a.outcome \in Outcomes /\ a.qty \in Nat
    BY MarketAssumption DEF IInv, ContractTypeOK, States, Actions
  <1>2. BasePayout \in Nat /\ CollateralPerPair \in Nat
    BY MarketAssumption DEF CollateralPerPair
  <1> DEFINE paid == Released(market, a.qty)
  <1>3. paid \in Nat BY <1>1, <1>2 DEF Released
  <1>4. /\ market.phase = "Expired" \/ market.phase = Resolved(a.outcome, 0).phase
        /\ paid <= market.amount
        /\ market' = [market EXCEPT !.amount = market.amount - paid]
    BY <1>1, RedeemFacts
  <1>5. market'.phase = market.phase /\ market'.amount = market.amount - paid
    BY <1>1, <1>4 DEF States
  <1>6. market' \in States BY <1>1, <1>3, <1>4, MarketAssumption DEF States
  <1>7. supply' \in [Outcomes -> 0 .. U64Max] BY NoMintType DEF IInv
  <1>8. supply'[a.outcome] = supply[a.outcome] - a.qty /\ a.qty <= supply[a.outcome]
        /\ supply[a.outcome] \in Nat
    <2>1. Minted(a, a.outcome) = 0 /\ Burned(a, a.outcome) = a.qty BY DEF Minted, Burned
    <2>2. QED BY <1>1, <2>1, SupplyAfter DEF IInv
  <1>9. ASSUME NEW side \in Outcomes, side # a.outcome
        PROVE  supply'[side] = supply[side] /\ supply[side] \in Nat
    <2>1. Minted(a, side) = 0 /\ Burned(a, side) = 0 BY <1>9 DEF Minted, Burned
    <2>2. QED BY <2>1, SupplyAfter DEF IInv
  <1>10. CASE market.phase = Resolved(a.outcome, 0).phase
    <2>1. market.phase \in {"ResolvedYes", "ResolvedNo"}
          /\ (market.phase = "ResolvedYes" <=> a.outcome = "YES")
      BY <1>1, <1>10 DEF Resolved, Outcomes
    <2>2. CollateralForPairs(supply[a.outcome]) <= market.amount
      BY <1>1, <2>1 DEF IInv, Solvent, Outcomes
    <2>3. paid = CollateralForPairs(a.qty)
      BY <2>1 DEF Released, CollateralForPairs
    <2>4. CollateralForPairs(supply'[a.outcome])
            = CollateralForPairs(supply[a.outcome]) - CollateralForPairs(a.qty)
      BY <1>1, <1>2, <1>8, ScaleMinus DEF CollateralForPairs
    <2>5. CollateralForPairs(supply'[a.outcome]) <= market'.amount
      BY <1>1, <1>3, <1>5, <1>8, <2>2, <2>3, <2>4, CollateralFacts
    <2>6. Solvent' BY <1>1, <1>5, <2>1, <2>5 DEF Solvent, Outcomes
    <2>7. QED BY <1>6, <1>7, <2>6 DEF IInv, ContractTypeOK
  <1>11. CASE market.phase = "Expired"
    <2>1. paid = a.qty * BasePayout BY <1>11 DEF Released
    <2> DEFINE before == supply["YES"] + supply["NO"]
               after == supply'["YES"] + supply'["NO"]
    <2>2. before * BasePayout <= market.amount BY <1>11 DEF IInv, Solvent
    <2>3. after = before - a.qty /\ before \in Nat /\ a.qty <= before
      BY <1>1, <1>8, <1>9 DEF Outcomes
    <2>4. after * BasePayout = before * BasePayout - a.qty * BasePayout
      BY <1>1, <1>2, <2>3, ScaleMinus
    <2>5. before * BasePayout \in Nat BY <1>2, <2>3
    <2>6. after * BasePayout <= market'.amount
      BY <1>1, <1>3, <1>5, <2>1, <2>2, <2>4, <2>5
    <2>7. Solvent' BY <1>5, <1>11, <2>6 DEF Solvent
    <2>8. QED BY <1>6, <1>7, <2>7 DEF IInv, ContractTypeOK
  <1>12. QED BY <1>4, <1>10, <1>11

\* A holder who burns a token owes the market nothing.
LEMMA BurnStep ==
    ASSUME IInv, NEW side \in Outcomes, BurnTokens(side)
    PROVE  IInv'
  <1>1. supply \in [Outcomes -> 0 .. U64Max] /\ supply[side] > 0
        /\ supply' = [supply EXCEPT ![side] = supply[side] - 1] /\ market' = market
    BY DEF IInv, ContractTypeOK, BurnTokens
  <1>2. \A s \in Outcomes : /\ supply[s] \in Nat /\ supply'[s] \in Nat
                            /\ supply'[s] <= supply[s] /\ supply[s] <= U64Max
    BY <1>1, MarketAssumption
  <1>3. supply' \in [Outcomes -> 0 .. U64Max]
    <2>1. \A s \in Outcomes : supply'[s] \in 0 .. U64Max BY <1>2, MarketAssumption
    <2>2. QED BY <1>1, <2>1
  <1>4. market \in States /\ market.amount \in Nat
    BY MarketAssumption DEF IInv, ContractTypeOK, States
  <1>5. BasePayout \in Nat /\ CollateralPerPair \in Nat
    BY MarketAssumption DEF CollateralPerPair
  <1>6. \A s \in Outcomes : /\ CollateralForPairs(supply'[s]) <= CollateralForPairs(supply[s])
                            /\ CollateralForPairs(supply'[s]) \in Nat
                            /\ CollateralForPairs(supply[s]) \in Nat
    BY <1>2, <1>5, ScaleMonotone, CollateralFacts DEF CollateralForPairs
  <1> DEFINE before == supply["YES"] + supply["NO"]
             after == supply'["YES"] + supply'["NO"]
  <1>7. before \in Nat /\ after \in Nat /\ after <= before BY <1>2 DEF Outcomes
  <1>8. after * BasePayout <= before * BasePayout BY <1>5, <1>7, ScaleMonotone
  <1>9. after * BasePayout \in Nat /\ before * BasePayout \in Nat BY <1>5, <1>7
  <1>10. market.phase = "Trading" => \A s \in Outcomes : supply'[s] <= market.amount
    BY <1>2, <1>4 DEF IInv, Solvent
  <1>11. /\ market.phase = "ResolvedYes" => CollateralForPairs(supply'["YES"]) <= market.amount
         /\ market.phase = "ResolvedNo" => CollateralForPairs(supply'["NO"]) <= market.amount
    BY <1>4, <1>6 DEF IInv, Solvent, Outcomes
  <1>12. market.phase = "Expired" => after * BasePayout <= market.amount
    BY <1>4, <1>8, <1>9 DEF IInv, Solvent
  <1>13. Solvent' BY <1>1, <1>10, <1>11, <1>12 DEF Solvent
  <1>14. QED BY <1>1, <1>3, <1>4, <1>13 DEF IInv, ContractTypeOK

\* A market that has issued nothing is solvent.
LEMMA InvInit == ContractInit => IInv
  <1> SUFFICES ASSUME ContractInit PROVE IInv OBVIOUS
  <1>1. market = Trading(0) /\ supply = [side \in Outcomes |-> 0] BY DEF ContractInit
  <1>2. ContractTypeOK BY <1>1, MarketAssumption DEF ContractTypeOK, Trading, States
  <1>3. Solvent BY <1>1 DEF Solvent, Trading
  <1>4. QED BY <1>2, <1>3 DEF IInv

\* Every step keeps the invariant: one case for each operation and one for burning.
LEMMA InvNext == IInv /\ [ContractNext]_contractVars => IInv'
  <1> SUFFICES ASSUME IInv, [ContractNext]_contractVars PROVE IInv' OBVIOUS
  <1>1. ASSUME NEW a \in Actions, Transition(a) PROVE IInv'
    <2>1. PICK r \in Apply(market, a) :
             /\ \A side \in Outcomes : Burned(a, side) <= supply[side]
             /\ market' = r.new
             /\ supply' = [s \in Outcomes |-> supply[s] + Minted(a, s) - Burned(a, s)]
      BY <1>1 DEF Transition
    <2>2. market \in States BY DEF IInv, ContractTypeOK
    <2>3. \/ a.op = "Issue" /\ r \in Issue(market, a)
          \/ a.op = "Cancel" /\ r \in Cancel(market, a)
          \/ a.op = "Resolve" /\ r \in Resolve(market, a)
          \/ a.op = "Expire" /\ r \in Expire(market, a)
          \/ a.op = "Redeem" /\ r \in Redeem(market, a)
      BY <2>2, ApplyCases
    <2>4. QED BY <2>1, <2>3, IssueStep, CancelStep, ResolveStep, ExpireStep, RedeemStep
  <1>2. ASSUME NEW side \in Outcomes, BurnTokens(side) PROVE IInv' BY <1>2, BurnStep
  <1>3. CASE UNCHANGED contractVars
    BY <1>3 DEF contractVars, IInv, ContractTypeOK, Solvent
  <1>4. QED BY <1>1, <1>2, <1>3 DEF ContractNext

-----------------------------------------------------------------------------

\* Every token in circulation is covered by the collateral the market holds,
\* in every phase, whatever the payout and the width of an amount
\* (binary_market.rs, BinaryMarketEconomics::apply).
THEOREM MarketIsSolvent == ContractSpec => []Solvent
  <1>1. IInv => Solvent BY DEF IInv
  <1>2. QED BY <1>1, InvInit, InvNext, PTL DEF ContractSpec

\* The materialised state and the supplies never leave their u64 range.
THEOREM MarketTypeCorrect == ContractSpec => []ContractTypeOK
  <1>1. IInv => ContractTypeOK BY DEF IInv
  <1>2. QED BY <1>1, InvInit, InvNext, PTL DEF ContractSpec
=============================================================================
