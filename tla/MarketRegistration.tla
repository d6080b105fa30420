-------------------------- MODULE MarketRegistration --------------------------
(***************************************************************************)
(* How a node learns of a market: the scan of recovery hints               *)
(* (deadcat-node/src/discovery.rs) and the verification of a creation      *)
(* transaction (registration.rs), with supplied parameters for a package   *)
(* and without them for automatic discovery.                               *)
(***************************************************************************)
EXTENDS MarketReplay

\* validate_recovery_txout
ValidRecoveryOutput(out) ==
    IsExplicit(out) /\ out.asset = "POLICY" /\ out.amount = 0 /\ out.script \in DOMAIN DecodeHint

\* market_hints: every output whose payload decodes, with its index.
MarketHints(tx) ==
    UNION {{[at |-> o, hint |-> hint] : hint \in DecodeHint[tx.outs[o].script]}
           : o \in {p \in DOMAIN tx.outs : ValidRecoveryOutput(tx.outs[p])}}

\* scan_transaction_hints: the candidates; a rejected hint is only reported.
ScanHints(tx) ==
    {item \in MarketHints(tx) : item.hint.collateral # "LiquidMainnetUsdt"}

\* The market outputs of these parameters: other parameters have other scripts.
MarketOutput(tx, params, slot, leg) ==
    IF params = Params THEN UniqueMarketOutput(tx, slot, leg) ELSE {}

\* The fixed shape of a standalone creation and the parameters it stands for.
StandaloneParams(tx) ==
    LET hints == MarketHints(tx)
        hint == The(hints).hint
    IN IF /\ Cardinality(hints) = 1
          /\ Len(tx.ins) >= 2 /\ Len(tx.outs) >= 2
          /\ IsNewIssuance(tx.ins[1]) /\ IsNewIssuance(tx.ins[2])
          /\ \A i \in 3 .. Len(tx.ins) : tx.ins[i].issuance = NoIssuance
       THEN {[base_payout |-> hint.base_payout, expiry_height |-> hint.expiry_height,
              collateral |-> asset, yes |-> tx.ins[1].prev, no |-> tx.ins[2].prev]
              : asset \in ResolveCollateral(hint.collateral)}
       ELSE {}

\* Parameters a caller supplies must be defined by one input each.
SuppliedParams(tx, params) ==
    When(/\ Cardinality(DefiningInputs(tx, params.yes)) = 1
         /\ Cardinality(DefiningInputs(tx, params.no)) = 1
         /\ DefiningInputs(tx, params.yes) # DefiningInputs(tx, params.no),
         params)

\* A mutant: the nominated contract is not compared with the market found.
VerifyAnyContract(tx, supplied, expected) ==
    LET standalone == supplied = {} IN
    {[contract |-> IF expected = {} THEN <<tx.id, yes>> ELSE The(expected),
      params |-> params, state |-> Trading(0),
      live |-> [yes_rt |-> {Tracked(tx, yes)}, no_rt |-> {Tracked(tx, no)}, collateral |-> {}],
      hint |-> {item.at : item \in {h \in MarketHints(tx) : HintMatches(h.hint, params)}}]
      : params \in IF standalone THEN StandaloneParams(tx) ELSE SuppliedParams(tx, The(supplied)),
        yes \in MarketOutput(tx, Params, "DormantYesRt", "YES"),
        no \in MarketOutput(tx, Params, "DormantNoRt", "NO")}

\* verify_binary_market_creation_shared: the record of the verified market.
\* `supplied` and `expected` are empty for automatic discovery.
VerifyCreation(tx, supplied, expected) ==
    LET standalone == supplied = {}
        matching(params) == {item.at : item \in {h \in MarketHints(tx) : HintMatches(h.hint, params)}}
        record(params, yes, no) ==
            [contract |-> <<tx.id, yes>>, params |-> params, state |-> Trading(0),
             live |-> [yes_rt |-> {Tracked(tx, yes)}, no_rt |-> {Tracked(tx, no)}, collateral |-> {}],
             hint |-> IF Cardinality(matching(params)) = 1 THEN matching(params) ELSE {}]
    IN UNION {{record(params, yes, no) :
                 yes \in {o \in MarketOutput(tx, params, "DormantYesRt", "YES") :
                             /\ standalone => o = 1
                             /\ expected \subseteq {<<tx.id, o>>}},
                 no \in {o \in MarketOutput(tx, params, "DormantNoRt", "NO") : standalone => o = 2}}
              : params \in {p \in IF standalone THEN StandaloneParams(tx)
                                  ELSE SuppliedParams(tx, The(supplied)) :
                                standalone => Cardinality(matching(p)) = 1}}

\* Automatic discovery: the scan has a candidate and the transaction verifies.
Discover(tx) == IF ScanHints(tx) = {} THEN {} ELSE VerifyCreation(tx, {}, {})

=============================================================================
