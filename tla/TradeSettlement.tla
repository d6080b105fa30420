-------------------------- MODULE TradeSettlement --------------------------
(***************************************************************************)
(* One trade from request to final transaction: the client's route layer   *)
(* and composer, the provider's quote engine, blinding turn, validation    *)
(* and finalization, and the taker who blinds last and signs.  A message   *)
(* between the parties may change one field, the quote may expire, and a   *)
(* coin may be spent elsewhere, at any point.  A second leg may come from  *)
(* a venue that fills one for one from a coin of its own.                  *)
(***************************************************************************)
EXTENDS VenueRoute, SettlementPset

CONSTANTS Provider,        \* the provider's [genesis, policyAsset]
          Catalog,         \* its configured markets, a PairCatalog
          Policy,          \* its fee policy
          Wallet,          \* its unlocked wallet, [seed, identity, walletId]
          Inventories,     \* the inventory scans a quote may find
          WalletCoins,     \* the taker's coins
          VenueCoins,      \* the other venue's coins
          Intents,         \* execution requests with the other venue's share
          Prices,          \* what the pricing policy may answer
          Destinations,    \* [receive, change] the provider's wallet may issue
          NetworkFees      \* amounts the taker may offer

VARIABLES intent,      \* the request being executed
          eligible,    \* the provider's inventory scan, later the reserved coins
          stage,       \* how far the trade is, or where it ended
          price,       \* the pricing decision the quote engine got
          answer,      \* the quote, or the error it was refused with
          composed,    \* option: the composed route, with the payer's legs
          payload,     \* option: the PSET as last sent
          layout,      \* option: the settlement layout sent with it
          touched,     \* "none", or where the trade left the honest path
          late,        \* accept_before has passed
          gone,        \* outpoints spent elsewhere
          job,         \* option: the committed signing job
          final        \* option: the finalized PSET

vars == <<intent, eligible, stage, price, answer, composed, payload, layout, touched, late, gone, job, final>>

-----------------------------------------------------------------------------
(* The taker's side *)

\* Keys of the others: a key that is nobody's, the venue's and the taker's.
Stray == <<"stray">>
Venue == <<"venue">>
TakerChange == <<"taker-change">>

request == intent.request
kind == request.kind
quote == The(answer.quote)

Payer == CHOOSE c \in WalletCoins : c.asset = kind.inAsset
FeeCoins == {c \in WalletCoins : c.asset = Provider.policyAsset}
Funds == {Payer} \cup FeeCoins

\* The route's first leg goes to the provider, a second one to the venue.
LegRequests ==
    ExactLeg(request, kind.type, 1, kind.exact - intent.share, Payer.outpoint)
VenueRequests == ExactLeg(request, kind.type, 2, intent.share, Payer.outpoint)

\* With two legs the bound is checked on the route, not on each quote.
QuoteBound == IF intent.share # 0 /\ kind.type = "exact_in" THEN 1 ELSE kind.bound

QuoteRequests ==
    UNION {FirmQuoteRequest(l.context, [l.kind EXCEPT !.bound = QuoteBound], l.recipient,
                            FeeLimit(request, kind.inAsset)) : l \in LegRequests}

FeeMap(asset, fee) == [a \in (IF fee = 0 THEN {} ELSE {asset}) |-> fee]

\* A leg as an RFQ adapter proposes it from a quote.
QuotedBlinder(b, payer) == IF b.role = "taker" THEN External(payer) ELSE Local(b.input)
RfqContribution(q, payer) ==
    Contribution([i \in DOMAIN q.contribution.inputs |->
                     LET x == q.contribution.inputs[i] IN InputSpec(x.id, x.outpoint, x.utxo, "final")],
                 [o \in DOMAIN q.contribution.outputs |->
                     LET y == q.contribution.outputs[o] IN
                     Confidential(y.id, y.asset, y.amount, y.destination.script, y.destination.key,
                                  QuotedBlinder(y.blinder, payer))],
                 Unconstrained)
RfqProposal(q, leg) ==
    UNION {ProposedLeg(e, FeeMap(q.execution.inAsset, q.execution.fee), RfqContribution(q, leg.payer), 1, 2) :
               e \in ExactExecution(q.execution.inAsset, q.execution.inAmount,
                                    q.execution.outAsset, q.execution.outAmount)}

\* Proposals that differ from the honest one in one respect.
ProposalVariants(p, leg) ==
    LET stray == Confidential(9, kind.inAsset, 1, P2tr(Stray), Stray, External(leg.payer)) IN
    {[p EXCEPT !.execution.inAmount = @ + 1],
     [p EXCEPT !.execution.outAmount = @ - 1],
     [p EXCEPT !.contribution.outputs = Append(@, stray)],
     [p EXCEPT !.contribution.outputs[2].script = P2tr(Stray)],
     [p EXCEPT !.contribution.outputs[2].amount = @ - 1],
     [p EXCEPT !.contribution.outputs[2].blinder = External(leg.payer)],
     [p EXCEPT !.contribution.outputs[1].kind = "explicit"],
     [p EXCEPT !.contribution.inputs[1].outpoint = leg.payer],
     [p EXCEPT !.contribution.locktime = Exact([unit |-> "time", value |-> 1])],
     [p EXCEPT !.receive = 1]}

VenueProposal(leg) ==
    LET coin == CHOOSE c \in VenueCoins : c.asset = leg.kind.outAsset
        n == leg.kind.exact
        change == coin.amount - n
    IN  ProposedLeg(Execution(leg.kind.inAsset, n, leg.kind.outAsset, n), FeeMap("none", 0),
            Contribution(<<InputSpec(1, coin.outpoint, coin.utxo, "final")>>,
                         <<Confidential(1, leg.kind.inAsset, n, P2tr(Venue), Venue, External(leg.payer)),
                           Confidential(2, leg.kind.outAsset, n, leg.recipient.script, leg.recipient.key, Local(1))>>
                         \o (IF change = 0 THEN <<>>
                             ELSE <<Confidential(3, coin.asset, change, P2tr(Venue), Venue, Local(1))>>),
                         Unconstrained), 1, 2)

\* The wallet spends its coins on the legs' input and the network fee.
WalletContribution(input, fee) ==
    LET coins == ByOutpoint(Funds)
        assets == SetToSortSeq({c.asset : c \in Funds}, LAMBDA a, b : a = Provider.policyAsset)
        have(a) == SumOver({c \in Funds : c.asset = a}, LAMBDA c : c.amount)
        spend(a) == (IF a = kind.inAsset THEN input ELSE 0) + (IF a = Provider.policyAsset THEN fee ELSE 0)
        change(k) == Confidential(k, assets[k], have(assets[k]) - spend(assets[k]),
                                  P2tr(TakerChange), TakerChange, Local(1))
    IN  When(\A k \in DOMAIN assets : spend(assets[k]) <= have(assets[k]),
             Contribution([i \in DOMAIN coins |-> InputSpec(i, coins[i].outpoint, coins[i].utxo, "final")],
                          SelectSeq([k \in DOMAIN assets |-> change(k)], LAMBDA o : o.amount # 0),
                          Unconstrained))

\* Authorize the proposals, validate the route and compose it.
Routes(proposal, fee) ==
    LET first == UNION {Authorize(l, proposal) : l \in LegRequests}
        second == UNION {UNION {Authorize(l, p) : p \in VenueProposal(l)} : l \in VenueRequests}
        legs == IF intent.share = 0 THEN {<<l>> : l \in first} ELSE {<<l, m>> : l \in first, m \in second}
        routes == UNION {ValidateRoute(request, ls, f) : ls \in legs, f \in NetworkFee(Provider.policyAsset, fee)}
    IN  UNION {UNION {ComposeRoute(r, w) : w \in WalletContribution(r.summary.execution.inAmount, fee)} : r \in routes}

\* Internal keys and SIGHASH_ALL, written before the PSET leaves the taker.
Owners == WalletCoins \cup VenueCoins \cup UNION Inventories
KeyOf(outpoint) == {c.key : c \in {d \in Owners : d.outpoint = outpoint}}
Configured(pset) ==
    [pset EXCEPT !.inputs = [i \in DOMAIN @ |->
        [@[i] EXCEPT !.key = KeyOf(pset.inputs[i].outpoint), !.sighash = Some("all")]]]

LayoutOf(composition) ==
    LET at(s, index(_)) == [k \in DOMAIN s |-> <<s[k].id, The(index(s[k].id))>>] IN
    SettlementLayout(The(OutpointIndex(composition, Payer.outpoint)),
                     at(quote.contribution.inputs, LAMBDA id : InputIndex(composition, 2, id)),
                     at(quote.contribution.outputs, LAMBDA id : OutputIndex(composition, 2, id)))

\* The venue blinds, the taker blinds last, and both sign their inputs.
Signed(pset) ==
    LET inputsOf(coins) == {i \in DOMAIN pset.inputs : \E c \in coins : c.outpoint = pset.inputs[i].outpoint}
        venue == IF inputsOf(VenueCoins) = {} THEN {pset} ELSE BlindNonLast(pset, inputsOf(VenueCoins))
        sign(p) ==
            LET tx == ExtractTx(p)
                prevouts == [i \in DOMAIN p.inputs |-> The(p.inputs[i].utxo)]
                sig(i) == Some(Sign(The(KeyOf(p.inputs[i].outpoint)), tx, prevouts, i, request.context.genesis))
            IN  [p EXCEPT !.inputs = [i \in DOMAIN @ |->
                    IF i \in inputsOf(WalletCoins \cup VenueCoins)
                    THEN [@[i] EXCEPT !.sig = sig(i), !.witness = sig(i)] ELSE @[i]]]
    IN  IF \A i \in DOMAIN pset.inputs : pset.inputs[i].utxo # None
        THEN {HandOff(sign(p)) : p \in UNION {BlindLast(v, inputsOf(WalletCoins)) : v \in venue}}
        ELSE {}

-----------------------------------------------------------------------------
(* One changed field *)

StraySignature ==
    [key |-> Stray, hashType |-> "all",
     msg |-> Sighash([ins |-> <<>>, outs |-> <<>>, locktime |-> ZeroLock], <<>>, 0, "none")]

InputVariants(x) ==
    {[x EXCEPT !.outpoint = NullOutpoint], [x EXCEPT !.outpoint = Payer.outpoint],
     [x EXCEPT !.utxo = {[t EXCEPT !.amount = @ + 1] : t \in @}],
     [x EXCEPT !.proof = None], [x EXCEPT !.sequence = "enabled"],
     [x EXCEPT !.key = Some(Stray)], [x EXCEPT !.sighash = None],
     [x EXCEPT !.sig = Some(StraySignature), !.witness = Some(StraySignature)],
     [x EXCEPT !.sig = None],
     [x EXCEPT !.extras = {"wallet"}]} \ {x}

OutputVariants(y) ==
    {[y EXCEPT !.asset = IF @ = "yes" THEN "usd" ELSE "yes"], [y EXCEPT !.amount = @ + 1],
     [y EXCEPT !.script = P2tr(Stray)], [y EXCEPT !.script = FeeScript],
     [y EXCEPT !.key = Some(Stray)], [y EXCEPT !.blinder = None], [y EXCEPT !.blinder = {2}],
     [y EXCEPT !.comm = None], [y EXCEPT !.comm = {[c EXCEPT !.amount = @ + 1] : c \in @}],
     [y EXCEPT !.extras = {"wallet"}]} \ {y}

\* One unit moves between two outputs of an asset, so that it still balances.
Shifts(pset) ==
    LET open == {o \in DOMAIN pset.outputs : pset.outputs[o].comm = None}
        may(o, p) == o # p /\ pset.outputs[o].asset = pset.outputs[p].asset /\ pset.outputs[o].amount > 1
    IN  UNION {{[pset EXCEPT !.outputs[o].amount = @ - 1, !.outputs[p].amount = @ + 1] :
                   p \in {q \in open : may(o, q)}} : o \in open}

PsetVariants(pset) ==
    Shifts(pset)
    \cup {[pset EXCEPT !.locktime.value = 1], [pset EXCEPT !.scalars = @ + 1],
          [pset EXCEPT !.extras = {"unknown"}], [pset EXCEPT !.outputs = Front(@)]}
    \cup UNION {{[pset EXCEPT !.inputs[i] = x] : x \in InputVariants(pset.inputs[i])} : i \in DOMAIN pset.inputs}
    \cup UNION {{[pset EXCEPT !.outputs[o] = y] : y \in OutputVariants(pset.outputs[o])} : o \in DOMAIN pset.outputs}

\* Layouts that name other positions, as far as the constructor takes them.
LayoutVariants(l) ==
    UNION ({SettlementLayout(payer, l.ins, l.outs) : payer \in 0..3}
           \cup {SettlementLayout(l.payer, l.ins, [l.outs EXCEPT ![1][2] = o]) : o \in 1..6}
           \cup {SettlementLayout(l.payer, Front(l.ins), l.outs),
                 SettlementLayout(l.payer, l.ins, Front(l.outs)),
                 SettlementLayout(l.payer, l.ins, [l.outs EXCEPT ![1][2] = l.outs[2][2], ![2][2] = l.outs[1][2]])})
    \ {l}

-----------------------------------------------------------------------------
(* The trade *)

Init ==
    /\ intent \in Intents /\ eligible \in Inventories
    /\ stage = "asked" /\ price = None /\ answer = Refused("none")
    /\ composed = None /\ payload = None /\ layout = None
    /\ touched = "none" /\ late = FALSE /\ gone = {}
    /\ job = None /\ final = None

\* QuoteEngine::firm_quote.
Quote(pricing, d) ==
    /\ stage = "asked"
    /\ price' = pricing
    /\ \E r \in QuoteRequests :
          answer' = FirmQuoteOf(Provider, Catalog, Policy, eligible, r, pricing, d.receive, d.change)
    /\ stage' = IF answer'.quote = None THEN "refused" ELSE "quoted"
    /\ UNCHANGED <<intent, eligible, composed, payload, layout, touched, late, gone, job, final>>

\* The coins the book reserved for the quote.
Reserved == {c \in eligible : \E t \in ToSet(quote.targets) : t.outpoint = c.outpoint}

\* From here on the provider looks only at the coins it reserved.
Composed(routes) ==
    /\ composed' = routes /\ eligible' = Reserved
    /\ IF routes = {} THEN stage' = "abandoned" /\ UNCHANGED <<payload, layout>>
       ELSE LET t == The(routes).transaction IN
            /\ stage' = "composed"
            /\ payload' = Some(HandOff(Configured(t.pset)))
            /\ layout' = LayoutOf(t.layout)

\* The client authorizes the leg, validates and composes the route.
Compose(fee) ==
    /\ stage = "quoted"
    /\ \E l \in LegRequests : \E p \in RfqProposal(quote, l) : Composed(Routes(p, fee))
    /\ UNCHANGED <<intent, price, answer, touched, late, gone, job, final>>

ComposeVariant(fee) ==
    /\ stage = "quoted"
    /\ \E l \in LegRequests : \E p \in RfqProposal(quote, l) : \E v \in ProposalVariants(p, l) :
          /\ Composed(Routes(v, fee))
          /\ touched' = "proposal"
    /\ UNCHANGED <<intent, price, answer, late, gone, job, final>>

\* NonLastBlindingCoordinator::blind.
Blind ==
    /\ stage = "composed"
    /\ LET blinded == ProviderBlind(quote, "reserved", late, The(layout), The(payload),
                                    {c \in eligible : c.outpoint \notin gone})
       IN  IF blinded = {} THEN stage' = "unblinded" /\ UNCHANGED payload
           ELSE stage' = "blinded" /\ payload' = {HandOff(b) : b \in blinded}
    /\ UNCHANGED <<intent, eligible, price, answer, composed, layout, touched, late, gone, job, final>>

\* The taker compares the PSET with the frozen manifest, unless careless.
Complete(careful) ==
    /\ stage = "blinded"
    /\ ~ careful => touched # "none"
    /\ LET signed == IF careful => ManifestValidate(The(composed).transaction.manifest, The(payload))
                     THEN Signed(The(payload)) ELSE {}
       IN  IF signed = {} THEN stage' = "abandoned" /\ UNCHANGED payload
           ELSE stage' = "signed" /\ payload' = signed
    /\ UNCHANGED <<intent, eligible, price, answer, composed, layout, touched, late, gone, job, final>>

Chain ==
    [genesis |-> Provider.genesis,
     unspent |-> [o \in {c.outpoint : c \in Owners} \ gone |-> (CHOOSE c \in Owners : c.outpoint = o).utxo]]

\* SettlementValidator::validate, then commit_to_sign before the deadline.
Validate ==
    /\ stage = "signed"
    /\ LET fee == IF late THEN {}
                  ELSE SettlementValidate(quote, job, The(layout), The(payload), Chain, Wallet)
       IN  IF fee = {} THEN stage' = "rejected" /\ UNCHANGED job
           ELSE stage' = "committed" /\ job' = Some(SigningJob(quote, The(payload), The(fee)))
    /\ UNCHANGED <<intent, eligible, price, answer, composed, payload, layout, touched, late, gone, final>>

\* The wallet's answer, and answers that differ from it in one respect.
Responses(j) ==
    LET good == WalletSign(Wallet, j) IN
    good \cup UNION {{[g EXCEPT !.sigs[1].sig.key = Stray], [g EXCEPT !.sigs = Reverse(@)],
                      [g EXCEPT !.sigs = Front(@)], [g EXCEPT !.commitment.fee.amount = @ + 1]} : g \in good}

\* PreparedSigningPset::new and finalize.
Finalize(response) ==
    /\ stage = "committed"
    /\ final' = FinalizeSigned(The(job), response, Provider.genesis)
    /\ stage' = IF final' = {} THEN "committed" ELSE "final"
    /\ UNCHANGED <<intent, eligible, price, answer, composed, payload, layout, touched, late, gone, job>>

\* What the network and the clock may do, once per trade.
Alter ==
    /\ stage \in {"composed", "blinded", "signed"} /\ touched = "none"
    /\ touched' = stage
    /\ \/ payload' \in {Some(p) : p \in PsetVariants(The(payload))} /\ UNCHANGED layout
       \/ layout' \in {Some(l) : l \in LayoutVariants(The(layout))} /\ UNCHANGED payload
    /\ UNCHANGED <<intent, eligible, stage, price, answer, composed, late, gone, job, final>>
Lapse ==
    /\ stage \in {"composed", "signed"} /\ touched = "none"
    /\ touched' = "late" /\ late' = TRUE
    /\ UNCHANGED <<intent, eligible, stage, price, answer, composed, payload, layout, gone, job, final>>
SpendElsewhere ==
    /\ stage \in {"composed", "signed", "committed"} /\ touched = "none"
    /\ touched' = "spent"
    /\ \E i \in DOMAIN The(payload).inputs : gone' = {The(payload).inputs[i].outpoint}
    /\ UNCHANGED <<intent, eligible, stage, price, answer, composed, payload, layout, late, job, final>>

Next ==
    \/ \E pricing \in Prices, d \in Destinations : Quote(pricing, d)
    \/ \E fee \in NetworkFees : Compose(fee) \/ ComposeVariant(fee)
    \/ Blind
    \/ \E careful \in BOOLEAN : Complete(careful)
    \/ Validate
    \/ \E response \in UNION {Responses(j) : j \in job} : Finalize(response)
    \/ Alter \/ Lapse \/ SpendElsewhere

Spec == Init /\ [][Next]_vars

-----------------------------------------------------------------------------
(* Properties *)

\* calculate_execution rounds against the taker and by less than one unit:
\* an exact-in quote pays out the most the rate allows for the net input, an
\* exact-out quote charges the least, selling back at the inverse rate never
\* returns more than was paid, and every bound of the request holds.
PricesAreFair ==
    answer.quote # None =>
        LET e == quote.execution
            rate == quote.pricing.rate
            k == quote.request.kind
            net == e.inAmount - e.fee
        IN  /\ e.inAmount > e.fee /\ e.fee <= quote.request.maxFee
            /\ net * rate.num >= e.outAmount * rate.den
            /\ IF k.type = "exact_in"
               THEN e.inAmount = k.exact /\ e.outAmount >= k.bound /\ (e.outAmount + 1) * rate.den > net * rate.num
               ELSE e.outAmount = k.exact /\ e.inAmount <= k.bound /\ (net - 1) * rate.num < e.outAmount * rate.den
            /\ \A back \in MultiplyDivideFloor(e.outAmount, rate.den, rate.num) : back <= net

\* The sets of coins that would fill `required` within the pair's limits.
FillingSets(asset, required, limits) ==
    {S \in SUBSET {c \in eligible : c.asset = asset} :
        /\ Cardinality(S) <= limits.maxInputs
        /\ LET total == SumOver(S, LAMBDA c : c.amount) IN
           total = required \/ (total > required /\ total - required >= limits.minimumChange)}

\* select_inventory agrees with a search through all sets of coins: what it
\* selects fills the quote within the limits, with one coin if one is enough
\* and exactly that coin's change; when it reports fragmented or insufficient
\* inventory no set of coins would do, so its heuristics and pruning hide none.
SelectionIsComplete ==
    stage \in {"quoted", "refused"} =>
    \A r \in QuoteRequests : \A p \in price :
        LET found == Resolve(Catalog, r.context, r.kind.inAsset, r.kind.outAsset)
            limits == The(found).pair.limits
            e == The(CalculateExecution(r, p, limits))
            filling == FillingSets(e.outAsset, e.outAmount, limits)
            selected == {c \in eligible : \E i \in DOMAIN quote.contribution.inputs :
                                              quote.contribution.inputs[i].outpoint = c.outpoint}
        IN  /\ answer.error \in {"fragmented", "insufficient"} => filling = {}
            /\ answer.quote # None =>
                  /\ selected \in filling
                  /\ (\E S \in filling : Cardinality(S) = 1) => Cardinality(selected) = 1

\* Whatever proposal the adapter made, a composed route honours the request:
\* the recipient is paid at least the promised output, the outputs the wallet
\* is asked to blind for others take exactly the declared input and stay
\* within the bound, and the fee is within its limit.  Read off the PSET.
RouteHonoursRequest ==
    \A c \in composed :
        LET pset == c.transaction.pset
            mine == {i \in DOMAIN pset.inputs : \E w \in Funds : w.outpoint = pset.inputs[i].outpoint}
            total(asset, S) == SumOver({o \in S : pset.outputs[o].asset = asset}, LAMBDA o : pset.outputs[o].amount)
            received == total(kind.outAsset, {o \in DOMAIN pset.outputs :
                                 /\ pset.outputs[o].script = request.recipient.script
                                 /\ pset.outputs[o].key = Some(request.recipient.key)})
            others == {o \in DOMAIN pset.outputs : /\ pset.outputs[o].blinder \subseteq mine
                                                   /\ pset.outputs[o].script # P2tr(TakerChange)
                                                   /\ pset.outputs[o].script # FeeScript}
            paid == total(kind.inAsset, others)
        IN  /\ MeetsRequest(kind, paid, received)
            /\ \A o \in others : pset.outputs[o].asset = kind.inAsset
            /\ Cardinality(mine) = Cardinality(Funds)
            /\ Last(pset.outputs).amount <= request.maxNetworkFee

\* The outputs a key of the provider's wallet opens.
ProviderGets(pset, asset) ==
    SumOver(DOMAIN pset.outputs, LAMBDA o :
        IF \E d \in UNION {{ds.receive, ds.change} : ds \in Destinations} :
               pset.outputs[o].script = d.script /\ \E v \in OpenedBy(pset.outputs[o], d.blinding) : v[1] = asset
        THEN (CHOOSE d \in pset.outputs[o].comm : TRUE).amount ELSE 0)

\* Whatever reached the validator, the PSET the provider commits to sign
\* spends only the quoted coins of its inventory, is consensus-balanced, and
\* pays commitments its wallet can open: the quoted payment, and all that the
\* spent coins hold beyond the quoted output.
AcceptedSettlementPaysProvider ==
    \A j \in job :
        LET pset == j.payload
            spent == {c \in UNION Inventories : \E i \in DOMAIN pset.inputs : pset.inputs[i].outpoint = c.outpoint}
            held(asset) == SumOver({c \in spent : c.asset = asset}, LAMBDA c : c.amount)
            e == quote.execution
        IN  /\ {c.outpoint : c \in spent} = {t.outpoint : t \in ToSet(quote.targets)}
            /\ VerifyAmounts(ExtractTx(pset), [i \in DOMAIN pset.inputs |->
                                                  (CHOOSE c \in Owners : c.outpoint = pset.inputs[i].outpoint).utxo])
            /\ ProviderGets(pset, e.inAsset) >= e.inAmount
            /\ ProviderGets(pset, e.outAsset) >= held(e.outAsset) - e.outAmount

\* Accepting is a promise that can be kept: the wallet answers every
\* committed job, its response always finalizes, with the fee facts projected before the
\* signature existed, and resubmitting the payload after its coins are spent
\* returns the same facts.  What a wrong response finalizes is nothing.
AcceptedSettlementsFinalize ==
    \A j \in job :
        /\ \E r \in WalletSign(Wallet, j) :
              \E f \in FinalizeSigned(j, r, Provider.genesis) :
                  /\ \A i \in DOMAIN f.inputs : f.inputs[i].witness # None
                  /\ FeePolicyValidate(Policy, j.fee)
        /\ SettlementValidate(quote, job, The(layout), j.payload, Chain, Wallet) = {j.fee}
        /\ \A r \in Responses(j) \ WalletSign(Wallet, j) :
              FinalizeSigned(j, r, Provider.genesis) \subseteq
                  UNION {FinalizeSigned(j, good, Provider.genesis) : good \in WalletSign(Wallet, j)}

\* The fee the provider requires once every input of the PSET is signed.
RequiredFor(pset) ==
    LET parts == Len(pset.inputs) + Len(pset.outputs)
        weight == 4 * parts + Len(pset.inputs)
    IN  [weight |-> weight, size |-> weight + Len(pset.inputs),
         fee |-> Max({Policy.minimum, (Policy.rate * ((weight + 3) \div 4) + 999) \div 1000})]

\* Client and provider agree: a leg proposed from a quote is authorized, and a
\* trade nobody disturbs is never refused by the blinding turn, by the taker's
\* manifest check or by the validator, unless the taker's own fee is too low
\* or the transaction too large for the policy.
HonestTradesSettle ==
    /\ stage = "quoted" => \A l \in LegRequests : \E p \in RfqProposal(quote, l) : Authorize(l, p) # {}
    /\ touched = "none" /\ composed # None =>
        LET pset == The(composed).transaction.pset
            required == RequiredFor(pset)
        IN  /\ stage \notin {"unblinded", "abandoned"}
            /\ stage = "rejected" => \/ Last(pset.outputs).amount < required.fee
                                     \/ required.weight > Policy.maxWeight
                                     \/ required.size > MaxPayload
=============================================================================
