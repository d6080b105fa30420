--------------------------- MODULE MarketCovenant ---------------------------
(***************************************************************************)
(* The covenant: the SimplicityHL program every market output runs when it *)
(* is spent (deadcat-contracts/simplicityhl).  A transaction is a record   *)
(*                                                                         *)
(*   [id, ins, outs, lock]     lock = [unit, n]                            *)
(*   input  [prev, final, issuance, wit]      prev = <<txid, vout>>        *)
(*   issuance [asset, amount, nonce, keys]    asset "none": no issuance    *)
(*   wit      [slot, op, base, outcome, sig]  the SLOT and ACTION values   *)
(*                                                                         *)
(* and u maps an unspent outpoint to its output.  Indices count from 1.  A *)
(* jet that fails on a missing input or output is a false conjunct.        *)
(***************************************************************************)
EXTENDS BinaryMarket, Integers

CONSTANT ExpiryHeight

ASSUME ExpiryAssumption == ExpiryHeight \in Nat \ {0}

HasInput(tx, i) == i \in DOMAIN tx.ins
HasOutput(tx, o) == o \in DOMAIN tx.outs
Spent(u, tx, i) == u[tx.ins[i].prev]
Burn == "OP_RETURN"

NoIssuance == [asset |-> "none", amount |-> 0, nonce |-> "none", keys |-> 0]
Reissuance(leg, pairs, side) == [asset |-> leg, amount |-> pairs, nonce |-> side, keys |-> 0]

-----------------------------------------------------------------------------
(* Inspection helpers *)

InputScript(u, tx, i, slot) == HasInput(tx, i) /\ Spent(u, tx, i).script = slot
EnsureNoIssuance(tx, i) == tx.ins[i].issuance = NoIssuance

\* ensure_reissuance: the amount reissued at an input whose token is on `side`.
EnsureReissuance(tx, i, leg, side) ==
    LET n == tx.ins[i].issuance.amount
    IN When(n > 0 /\ tx.ins[i].issuance = Reissuance(leg, n, side), n)

OutputExplicit(tx, o) == HasOutput(tx, o) /\ IsExplicit(tx.outs[o])
CollateralOutput(tx, o, slot, amount) ==
    HasOutput(tx, o) /\ tx.outs[o] = Explicit(slot, "COLLATERAL", amount)
InputCollateral(u, tx, i) ==
    When(Spent(u, tx, i).asset = "COLLATERAL" /\ IsExplicit(Spent(u, tx, i)),
         Spent(u, tx, i).amount)

\* explicit_burn_amount
BurnAmount(tx, o, token) ==
    When(/\ OutputExplicit(tx, o)
         /\ tx.outs[o].asset = token
         /\ tx.outs[o].amount > 0
         /\ tx.outs[o].script = Burn,
         tx.outs[o].amount)

\* verify_rt_flip for both legs, with the scripts their outputs must have: the
\* side the inputs are on.
RtFlip(u, tx, i, o, yesScript, noScript) ==
    {side \in {"A", "B"} :
        /\ HasOutput(tx, o) /\ HasOutput(tx, o + 1)
        /\ side \in InferSide("YES", Spent(u, tx, i))
        /\ side \in InferSide("NO", Spent(u, tx, i + 1))
        /\ tx.outs[o] = RtOutput(yesScript, "YES", Flip(side))
        /\ tx.outs[o + 1] = RtOutput(noScript, "NO", Flip(side))}

\* jet::check_lock_height
CheckLockHeight(tx, height) ==
    /\ tx.lock.unit = "height"
    /\ tx.lock.n >= height
    /\ \E i \in DOMAIN tx.ins : ~tx.ins[i].final

-----------------------------------------------------------------------------
(* Sibling groups *)

DormantGroup(u, tx, yes) ==
    /\ InputScript(u, tx, yes, "DormantYesRt")
    /\ InputScript(u, tx, yes + 1, "DormantNoRt")
    /\ tx.ins[yes].prev[1] = tx.ins[yes + 1].prev[1]

UnresolvedGroup(u, tx, yes) ==
    /\ InputScript(u, tx, yes, "UnresolvedYesRt")
    /\ InputScript(u, tx, yes + 1, "UnresolvedNoRt")
    /\ InputScript(u, tx, yes + 2, "UnresolvedCollateral")
    /\ \A k \in 1 .. 2 :
          tx.ins[yes + k].prev = <<tx.ins[yes].prev[1], tx.ins[yes].prev[2] + k>>

-----------------------------------------------------------------------------
(* Transitions *)

InitialIssuance(u, tx, i, o) ==
    \E side \in RtFlip(u, tx, i, o, "UnresolvedYesRt", "UnresolvedNoRt") :
        \E pairs \in EnsureReissuance(tx, i, "YES", side)
                       \cap EnsureReissuance(tx, i + 1, "NO", side) :
            /\ Fits(CollateralForPairs(pairs))
            /\ CollateralOutput(tx, o + 2, "UnresolvedCollateral", CollateralForPairs(pairs))

SubsequentIssuance(u, tx, i, o) ==
    \E side \in RtFlip(u, tx, i, o, "UnresolvedYesRt", "UnresolvedNoRt") :
        \E pairs \in EnsureReissuance(tx, i, "YES", side)
                       \cap EnsureReissuance(tx, i + 1, "NO", side),
           old \in InputCollateral(u, tx, i + 2) :
            LET new == old + CollateralForPairs(pairs) IN
            /\ EnsureNoIssuance(tx, i + 2)
            /\ Fits(CollateralForPairs(pairs)) /\ Fits(new)
            /\ CollateralOutput(tx, o + 2, "UnresolvedCollateral", new)

\* The third output tells a partial cancellation from a full one.
Cancellation(u, tx, i, o) ==
    LET partial == tx.outs[o + 2].asset = "COLLATERAL"
        burn == IF partial THEN o + 3 ELSE o + 2
    IN /\ \A k \in 0 .. 2 : EnsureNoIssuance(tx, i + k)
       /\ OutputExplicit(tx, o + 2)
       /\ \E pairs \in BurnAmount(tx, burn, "YES") \cap BurnAmount(tx, burn + 1, "NO"),
             old \in InputCollateral(u, tx, i + 2) :
             /\ Fits(CollateralForPairs(pairs))
             /\ IF partial
                THEN /\ CollateralForPairs(pairs) < old
                     /\ CollateralOutput(tx, o + 2, "UnresolvedCollateral",
                                         old - CollateralForPairs(pairs))
                     /\ RtFlip(u, tx, i, o, "UnresolvedYesRt", "UnresolvedNoRt") # {}
                ELSE /\ CollateralForPairs(pairs) = old
                     /\ RtFlip(u, tx, i, o, "DormantYesRt", "DormantNoRt") # {}

\* The tokens' collateral moves whole to the terminal slot.
ActiveEnd(u, tx, i, o, slot) ==
    /\ \A k \in 0 .. 2 : EnsureNoIssuance(tx, i + k)
    /\ RtFlip(u, tx, i, o, Burn, Burn) # {}
    /\ \E old \in InputCollateral(u, tx, i + 2) : CollateralOutput(tx, o + 2, slot, old)

DormantEnd(u, tx, i, o) ==
    /\ EnsureNoIssuance(tx, i) /\ EnsureNoIssuance(tx, i + 1)
    /\ RtFlip(u, tx, i, o, Burn, Burn) # {}

VerifyOracle(w) == w.sig = w.outcome
ResolvedSlot(outcome) == IF outcome = "YES" THEN "ResolvedYesCollateral" ELSE "ResolvedNoCollateral"

\* resolved_redemption and expiry_redemption: `tokens` may be burned, each worth `payout`.
Redemption(u, tx, i, o, slot, tokens, payout) ==
    LET partial == tx.outs[o].asset = "COLLATERAL"
        burn == IF partial THEN o + 1 ELSE o
    IN /\ EnsureNoIssuance(tx, i)
       /\ OutputExplicit(tx, o)
       /\ \E burned \in UNION {BurnAmount(tx, burn, token) : token \in tokens},
             old \in InputCollateral(u, tx, i) :
             /\ Fits(burned * payout)
             /\ IF partial
                THEN /\ burned * payout < old
                     /\ CollateralOutput(tx, o, slot, old - burned * payout)
                ELSE burned * payout = old

-----------------------------------------------------------------------------
(* main: what the program of input i accepts *)

Main(u, tx, i) ==
    LET w == tx.ins[i].wit IN
    /\ Spent(u, tx, i).script = w.slot
    /\ CASE w.slot = "DormantNoRt" -> DormantGroup(u, tx, i - 1)
         [] w.slot = "UnresolvedNoRt" -> UnresolvedGroup(u, tx, i - 1)
         [] w.slot = "UnresolvedCollateral" -> UnresolvedGroup(u, tx, i - 2)
         [] w.slot = "DormantYesRt" ->
               /\ DormantGroup(u, tx, i)
               /\ CASE w.op = "Issue" -> InitialIssuance(u, tx, i, w.base)
                    [] w.op = "Resolve" -> VerifyOracle(w) /\ DormantEnd(u, tx, i, w.base)
                    [] w.op = "Expire" ->
                          CheckLockHeight(tx, ExpiryHeight) /\ DormantEnd(u, tx, i, w.base)
                    [] OTHER -> FALSE
         [] w.slot = "UnresolvedYesRt" ->
               /\ UnresolvedGroup(u, tx, i)
               /\ CASE w.op = "Issue" -> SubsequentIssuance(u, tx, i, w.base)
                    [] w.op = "Cancel" -> Cancellation(u, tx, i, w.base)
                    [] w.op = "Resolve" ->
                          VerifyOracle(w) /\ ActiveEnd(u, tx, i, w.base, ResolvedSlot(w.outcome))
                    [] w.op = "Expire" ->
                          /\ CheckLockHeight(tx, ExpiryHeight)
                          /\ ActiveEnd(u, tx, i, w.base, "ExpiredCollateral")
                    [] OTHER -> FALSE
         [] w.slot \in {"ResolvedYesCollateral", "ResolvedNoCollateral"} ->
               LET winner == IF w.slot = "ResolvedYesCollateral" THEN "YES" ELSE "NO"
               IN w.op = "Redeem"
                  /\ Redemption(u, tx, i, w.base, w.slot, {winner}, CollateralPerPair)
         [] w.slot = "ExpiredCollateral" ->
               w.op = "Redeem" /\ Redemption(u, tx, i, w.base, w.slot, Outcomes, BasePayout)
         [] OTHER -> FALSE

\* Every input that spends a market output satisfies its program.
CovenantAccepts(u, tx) ==
    \A i \in DOMAIN tx.ins : Spent(u, tx, i).script \in Slots => Main(u, tx, i)

=============================================================================
