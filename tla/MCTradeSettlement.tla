-------------------------- MODULE MCTradeSettlement --------------------------
(***************************************************************************)
(* A provider that quotes collateral (usd, also the policy asset) against  *)
(* yes in both directions.  Amounts are at most MCU64Max; the whole        *)
(* inventory of yes overflows it.                                          *)
(***************************************************************************)
EXTENDS TradeSettlement

MCU64Max == 13

\* The provider's wallet and somebody else's with the same keystore layout.
MCProvider == [genesis |-> "chain", policyAsset |-> "usd"]
WalletOf(seed) ==
    The(UNION {Unlock(envelope, MCProvider, "secret") : envelope \in Seal(MCProvider, "secret", seed, 1)})
MCWallet == WalletOf("provider")

\* A deposit that the wallet of `seed` finds by the locator it issued.
Coin(seed, outpoint, asset, amount) ==
    LET wallet == WalletOf(seed)
        locator == EncodeLocator(wallet, "deposit", outpoint)
        script == The(DestinationForLocator(wallet, locator)).script
    IN  The(RecoverOwnedOutput(wallet, locator, outpoint,
                               TxOut(asset, amount, script, Some(BlindingKey(wallet, script)))))

Yes == {Coin("provider", 1, "yes", 1), Coin("provider", 2, "yes", 2), Coin("provider", 3, "yes", 2),
        Coin("provider", 4, "yes", 4), Coin("provider", 5, "yes", 5)}
Usd == {Coin("provider", 6, "usd", 4), Coin("provider", 7, "usd", 3)}
MCInventories == {Usd, Usd \cup Yes} \cup SUBSET Yes
MCWalletCoins == {Coin("taker", 8, "usd", 12), Coin("taker", 9, "yes", 9)}
MCVenueCoins == {Coin("venue", 10, "yes", 3), Coin("venue", 11, "usd", 2)}

Context == [genesis |-> "chain", market |-> 20, policyAsset |-> "usd"]
Assets == The(BinaryMarketAssets("usd", "yes", "no"))
Amounts(low, high) == The(AmountRange(low, high))
BuyLimits == The(PairLimits(Amounts(2, 12), Amounts(1, 9), 3, 2, 3))
SellLimits == The(PairLimits(Amounts(1, 9), Amounts(1, 7), 2, 3, 2))
MCCatalog ==
    The(PairCatalog(MCProvider,
        <<The(MarketQuoteConfig(Context, Assets,
              <<PairRule("usd", "yes", BuyLimits), PairRule("yes", "usd", SellLimits)>>))>>))
MCPolicy == The(FeePolicy("usd", 200, 1, 48, "regular"))

Taker == The(Recipient(P2tr(<<"taker">>), <<"taker-blind">>))
Ask(type, inAsset, outAsset, exact, bound, feeLimit, maxNetworkFee, share) ==
    [request |-> The(ExecutionRequest(Context, Kind(type, inAsset, outAsset, exact, bound), Taker,
                                      FeeMap(inAsset, feeLimit), maxNetworkFee)),
     share |-> share]
MCIntents ==
    {Ask("exact_in", "usd", "yes", 7, 3, 1, 3, 0), Ask("exact_in", "usd", "yes", 9, 7, 0, 3, 3),
     Ask("exact_out", "usd", "yes", 3, 6, 0, 2, 0), Ask("exact_out", "usd", "yes", 7, 9, 1, 3, 1),
     Ask("exact_out", "usd", "yes", 5, 9, 1, 3, 0),
     Ask("exact_in", "yes", "usd", 5, 2, 1, 3, 0), Ask("exact_in", "yes", "usd", 6, 4, 0, 3, 2)}

Rate(n, d) == The(RationalRate(n, d))
MCPrices ==
    Price(The(StaticRationalPricing(<<StaticRateRule(20, "usd", "yes", Rate(2, 4))>>)), Context, "usd", "yes")
MCPriceOptions ==
    {MCPrices, None, Some(PricingDecision(Rate(2, 3), 1)), Some(PricingDecision(Rate(1, 1), 0)),
     Some(PricingDecision(Rate(3, 1), 0)), Some(PricingDecision([num |-> 2, den |-> 2], 0))}

Destination(purpose, n) == The(DestinationForLocator(MCWallet, EncodeLocator(MCWallet, purpose, n)))
MCDestinations ==
    {[receive |-> Destination("receive", 30), change |-> Destination("change", 31)],
     [receive |-> Destination("receive", 30), change |-> Destination("receive", 30)]}
MCNetworkFees == {1, 3}
=============================================================================
