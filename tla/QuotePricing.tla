---------------------------- MODULE QuotePricing ----------------------------
(***************************************************************************)
(* The RFQ provider's quote model: requests, the catalog of configured     *)
(* markets and directed pairs, the pricing policy and the exact integer    *)
(* arithmetic that turns a rational rate into an execution.  A request's   *)
(* kind has the same shape as in VenueRoute: `exact` and `bound`.          *)
(***************************************************************************)
EXTENDS Pset, SequencesExt

CONSTANTS MaxReservationInputs     \* MAX_RESERVATION_INPUTS

-----------------------------------------------------------------------------
(* Requests and configuration *)

QuoteKindValidate(k) == k.inAsset # k.outAsset /\ k.exact # 0 /\ k.bound # 0

QuoteRecipientValidate(r) ==
    r.script # FeeScript /\ ~ IsProvablyUnspendable(r.script) /\ ~ IsOversized(r.script)

FirmQuoteRequest(context, kind, recipient, maxFee) ==
    When(QuoteRecipientValidate(recipient) /\ QuoteKindValidate(kind),
         [context |-> context, kind |-> kind, recipient |-> recipient, maxFee |-> maxFee])

BinaryMarketAssets(collateral, yes, no) ==
    When(collateral # yes /\ collateral # no /\ yes # no,
         [collateral |-> collateral, yes |-> yes, no |-> no])

MarketHas(assets, a) == a \in {assets.collateral, assets.yes, assets.no}

\* Collateral against one outcome, in either direction.
IsLaunchPair(assets, inAsset, outAsset) ==
    \/ inAsset = assets.collateral /\ outAsset \in {assets.yes, assets.no}
    \/ outAsset = assets.collateral /\ inAsset \in {assets.yes, assets.no}

AmountRange(minimum, maximum) ==
    When(minimum # 0 /\ minimum <= maximum, [minimum |-> minimum, maximum |-> maximum])
InRange(range, n) == range.minimum <= n /\ n <= range.maximum

PairLimits(input, output, maxInputs, minimumChange, nodeBudget) ==
    When(maxInputs \in 1..MaxReservationInputs /\ nodeBudget # 0,
         [input |-> input, output |-> output, maxInputs |-> maxInputs,
          minimumChange |-> minimumChange, nodeBudget |-> nodeBudget])

PairRule(inAsset, outAsset, limits) == [inAsset |-> inAsset, outAsset |-> outAsset, limits |-> limits]

MarketQuoteConfig(context, assets, pairs) ==
    When(/\ context.market # NullOutpoint
         /\ pairs # <<>>
         /\ \A p \in DOMAIN pairs : IsLaunchPair(assets, pairs[p].inAsset, pairs[p].outAsset)
         /\ \A p, q \in DOMAIN pairs :
               <<pairs[p].inAsset, pairs[p].outAsset>> = <<pairs[q].inAsset, pairs[q].outAsset>> => p = q,
         [context |-> context, assets |-> assets, pairs |-> ToSet(pairs)])

PairCatalog(identity, markets) ==
    When(/\ markets # <<>>
         /\ \A m \in DOMAIN markets : /\ markets[m].context.genesis = identity.genesis
                                      /\ markets[m].context.policyAsset = identity.policyAsset
         /\ \A m, n \in DOMAIN markets : markets[m].context.market = markets[n].context.market => m = n,
         ToSet(markets))

Resolve(catalog, context, inAsset, outAsset) ==
    {[market |-> m, pair |-> p] : m \in {n \in catalog : n.context = context},
                                  p \in {r \in UNION {n.pairs : n \in {o \in catalog : o.context = context}} :
                                             r.inAsset = inAsset /\ r.outAsset = outAsset}}

-----------------------------------------------------------------------------
(* Pricing *)

\* Euclid's algorithm, the loop of gcd.
Gcd[left \in Nat, right \in Nat] == IF right = 0 THEN left ELSE Gcd[right, left % right]

RationalRate(numerator, denominator) ==
    When(numerator # 0 /\ denominator # 0,
         LET g == Gcd[numerator, denominator] IN
         [num |-> numerator \div g, den |-> denominator \div g])

PricingDecision(rate, fee) == [rate |-> rate, fee |-> fee]

PricingValidate(pricing) ==
    /\ pricing.rate.num # 0 /\ pricing.rate.den # 0
    /\ Gcd[pricing.rate.num, pricing.rate.den] = 1

\* StaticRationalPricing: one explicit rate per market and direction, no fee.
StaticRateRule(market, inAsset, outAsset, rate) ==
    [market |-> market, inAsset |-> inAsset, outAsset |-> outAsset, rate |-> rate]
RateKey(rule) == <<rule.market, rule.inAsset, rule.outAsset>>
StaticRationalPricing(rules) ==
    When(rules # <<>> /\ \A r, s \in DOMAIN rules : RateKey(rules[r]) = RateKey(rules[s]) => r = s,
         ToSet(rules))
Price(rules, context, inAsset, outAsset) ==
    {PricingDecision(r.rate, 0) : r \in {s \in rules : RateKey(s) = <<context.market, inAsset, outAsset>>}}

\* Balances of the market's assets, refused when one overflows.
InventorySummary(eligible, assets) ==
    LET totals == [a \in {c.asset : c \in {d \in eligible : MarketHas(assets, d.asset)}} |->
                      SumOver({c \in eligible : c.asset = a}, LAMBDA c : c.amount)]
    IN  When(\A a \in DOMAIN totals : Fits(totals[a]), totals)

\* The product is a u128: it cannot overflow, the quotient may.
MultiplyDivideFloor(value, multiplier, divisor) ==
    LET quotient == (value * multiplier) \div divisor IN
    When(Fits(quotient) /\ quotient # 0, quotient)

MultiplyDivideCeil(value, multiplier, divisor) ==
    LET product == value * multiplier
        quotient == (product \div divisor) + (IF product % divisor = 0 THEN 0 ELSE 1)
    IN  When(Fits(quotient) /\ quotient # 0, quotient)

QuoteExecution(kind, input, output, fee) ==
    [inAsset |-> kind.inAsset, inAmount |-> input, outAsset |-> kind.outAsset, outAmount |-> output,
     fee |-> fee]

\* What the taker receives for an exact gross input, the fee taken first.
ExactInAmounts(kind, rate, fee) ==
    IF kind.exact <= fee THEN {}
    ELSE {<<kind.exact, output>> :
              output \in {o \in MultiplyDivideFloor(kind.exact - fee, rate.num, rate.den) : o >= kind.bound}}

\* What the taker pays for an exact output, the fee added last.
ExactOutAmounts(kind, rate, fee) ==
    {<<priced + fee, kind.exact>> :
         priced \in {p \in MultiplyDivideCeil(kind.exact, rate.den, rate.num) :
                         Fits(p + fee) /\ p + fee <= kind.bound}}

CalculateExecution(request, pricing, limits) ==
    LET k == request.kind
        amounts == IF k.type = "exact_in" THEN ExactInAmounts(k, pricing.rate, pricing.fee)
                   ELSE ExactOutAmounts(k, pricing.rate, pricing.fee)
    IN  IF /\ QuoteKindValidate(k) /\ QuoteRecipientValidate(request.recipient)
           /\ PricingValidate(pricing)
           /\ pricing.fee <= request.maxFee
        THEN {QuoteExecution(k, a[1], a[2], pricing.fee) :
                  a \in {b \in amounts : InRange(limits.input, b[1]) /\ InRange(limits.output, b[2])}}
        ELSE {}
=============================================================================
