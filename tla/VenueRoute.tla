----------------------------- MODULE VenueRoute -----------------------------
(***************************************************************************)
(* deadcat-client's venue-neutral route layer: the user's request and its  *)
(* hard limits, the allocation of exact legs to venue adapters, the        *)
(* authorization of an adapter's proposal, the aggregate check of a route  *)
(* and its composition with the wallet's own contribution.                 *)
(*                                                                         *)
(* A kind is "exact_in" (`exact` is the input, `bound` the least output)   *)
(* or "exact_out" (`exact` is the output, `bound` the greatest input).  A  *)
(* fee map is a function from the assets it names to amounts.              *)
(***************************************************************************)
EXTENDS TransactionComposition

Recipient(script, key) ==
    When(script # FeeScript /\ ~ IsProvablyUnspendable(script), [script |-> script, key |-> key])

Execution(inAsset, inAmount, outAsset, outAmount) ==
    [inAsset |-> inAsset, inAmount |-> inAmount, outAsset |-> outAsset, outAmount |-> outAmount]

ValidatePairAndAmounts(e) == e.inAsset # e.outAsset /\ e.inAmount # 0 /\ e.outAmount # 0

ExactExecution(inAsset, inAmount, outAsset, outAmount) ==
    LET e == Execution(inAsset, inAmount, outAsset, outAmount) IN When(ValidatePairAndAmounts(e), e)

Kind(type, inAsset, outAsset, exact, bound) ==
    [type |-> type, inAsset |-> inAsset, outAsset |-> outAsset, exact |-> exact, bound |-> bound]

Pair(k) == <<k.inAsset, k.outAsset>>

\* The execution a kind describes at its limits.
LimitOf(k) ==
    IF k.type = "exact_in" THEN Execution(k.inAsset, k.exact, k.outAsset, k.bound)
    ELSE Execution(k.inAsset, k.bound, k.outAsset, k.exact)

ValidateRequestLimits(inAsset, maximumInput, feeLimits, maxNetworkFee) ==
    /\ maxNetworkFee # 0
    /\ \A a \in DOMAIN feeLimits :
          feeLimits[a] # 0 /\ a = inAsset /\ feeLimits[a] <= maximumInput

\* ExecutionRequest::exact_in and exact_out.
ExecutionRequest(context, kind, recipient, feeLimits, maxNetworkFee) ==
    When(/\ ValidatePairAndAmounts(LimitOf(kind))
         /\ ValidateRequestLimits(kind.inAsset, LimitOf(kind).inAmount, feeLimits, maxNetworkFee),
         [context |-> context, kind |-> kind, recipient |-> recipient,
          feeLimits |-> feeLimits, maxNetworkFee |-> maxNetworkFee])

\* exact_in_leg and exact_out_leg: a leg has the request's kind and no bound.
ExactLeg(request, type, id, amount, payer) ==
    When(/\ request.kind.type = type
         /\ amount # 0,
         [id |-> id, context |-> request.context, kind |-> [request.kind EXCEPT !.exact = amount, !.bound = 0],
          recipient |-> request.recipient, payer |-> payer])

-----------------------------------------------------------------------------
(* Authorizing an adapter's proposal *)

ProposedLeg(execution, fees, contribution, payment, receive) ==
    When(\A a \in DOMAIN fees : fees[a] # 0,
         [execution |-> execution, fees |-> fees, contribution |-> contribution,
          payment |-> payment, receive |-> receive])

ValidateLegExecution(kind, e) ==
    /\ Pair(kind) = Pair(e)
    /\ kind.exact = IF kind.type = "exact_in" THEN e.inAmount ELSE e.outAmount

ValidateInitialFees(e, fees) ==
    \A a \in DOMAIN fees : fees[a] # 0 /\ a = e.inAsset /\ fees[a] <= e.inAmount

UniqueOutput(c, id) ==
    LET matches == {o \in DOMAIN c.outputs : c.outputs[o].id = id} IN
    When(Cardinality(matches) = 1, c.outputs[The(matches)])

UniqueInput(c, id) == Cardinality({i \in DOMAIN c.inputs : c.inputs[i].id = id}) = 1

ValidateClaimedConfidentialOutput(o, asset, amount, recipient, blinder) ==
    /\ o.kind # "covenant" /\ o.asset = asset /\ o.amount = amount
    /\ o.kind = "confidential"
    /\ \A r \in recipient : o.script = r.script /\ o.key = Some(r.key)
    /\ o.blinder = blinder

IsExternal(blinder) == \E b \in blinder : b.scope = "external"

\* A mutant: any output may be left to the payer to blind.
PayerBlindsAnything(c, payment, payer) ==
    \A o \in DOMAIN c.outputs : IsExternal(c.outputs[o].blinder) => c.outputs[o].blinder = External(payer)

OnlyPaymentIsExternal(c, payment, payer) ==
    \A o \in DOMAIN c.outputs :
        IsExternal(c.outputs[o].blinder) => c.outputs[o].id = payment /\ c.outputs[o].blinder = External(payer)

Authorize(leg, proposal) ==
    LET c == proposal.contribution
        e == proposal.execution
        payment == UniqueOutput(c, proposal.payment)
        receive == UniqueOutput(c, proposal.receive)
    IN  When(/\ ValidateLegExecution(leg.kind, e)
             /\ ValidateInitialFees(e, proposal.fees)
             /\ c.inputs # <<>> /\ c.outputs # <<>>
             /\ proposal.payment # proposal.receive
             /\ \E p \in payment :
                   ValidateClaimedConfidentialOutput(p, e.inAsset, e.inAmount, None, External(leg.payer))
             /\ \E r \in receive :
                   /\ ValidateClaimedConfidentialOutput(r, e.outAsset, e.outAmount,
                                                        Some(leg.recipient), r.blinder)
                   /\ ~ IsExternal(r.blinder)
                   /\ UniqueInput(c, The(r.blinder).ref)
             /\ OnlyPaymentIsExternal(c, proposal.payment, leg.payer)
             /\ \A i \in DOMAIN c.inputs : c.inputs[i].outpoint # leg.payer,
             [request |-> leg, execution |-> e, fees |-> proposal.fees, contribution |-> c,
              payment |-> proposal.payment, receive |-> proposal.receive])

-----------------------------------------------------------------------------
(* The route *)

TotalInput(legs) == SumOver(DOMAIN legs, LAMBDA l : legs[l].execution.inAmount)
TotalOutput(legs) == SumOver(DOMAIN legs, LAMBDA l : legs[l].execution.outAmount)
TotalFees(legs) ==
    [a \in UNION {DOMAIN legs[l].fees : l \in DOMAIN legs} |->
        SumOver({l \in DOMAIN legs : a \in DOMAIN legs[l].fees}, LAMBDA l : legs[l].fees[a])]

FeeLimit(request, a) == IF a \in DOMAIN request.feeLimits THEN request.feeLimits[a] ELSE 0

\* The exact side of the request is met, and its bound respected.
MeetsRequest(kind, input, output) ==
    IF kind.type = "exact_in" THEN input = kind.exact /\ output >= kind.bound
    ELSE output = kind.exact /\ input <= kind.bound

ValidateRoute(request, legs, fee) ==
    LET input == TotalInput(legs)
        output == TotalOutput(legs)
        fees == TotalFees(legs)
    IN  When(/\ legs # <<>>
             /\ fee.asset = request.context.policyAsset
             /\ fee.amount <= request.maxNetworkFee
             /\ \A l \in DOMAIN legs :
                   /\ \A k \in DOMAIN legs : legs[k].request.id = legs[l].request.id => k = l
                   /\ legs[l].request.context = request.context
                   /\ legs[l].request.recipient = request.recipient
                   /\ legs[l].request.kind.type = request.kind.type
                   /\ Pair(legs[l].request.kind) = Pair(request.kind)
                   /\ Pair(legs[l].execution) = Pair(request.kind)
             /\ Fits(input) /\ Fits(output)
             /\ \A a \in DOMAIN fees : Fits(fees[a]) /\ fees[a] <= FeeLimit(request, a)
             /\ MeetsRequest(request.kind, input, output),
             [request |-> request, legs |-> legs,
              summary |-> [execution |-> Execution(request.kind.inAsset, input, request.kind.outAsset, output),
                           fees |-> fees, networkFee |-> fee]])

\* compose: the wallet's contribution has handle 1 and leg l handle l + 1.
ComposeRoute(route, wallet) ==
    LET legs == route.legs
        spends(c) == {c.inputs[i].outpoint : i \in DOMAIN c.inputs}
        contributions == <<wallet>> \o [l \in DOMAIN legs |-> legs[l].contribution]
        pushed == FoldLeft(LAMBDA acc, c : UNION {Push(cs, c) : cs \in acc}, {<<>>}, contributions)
        payersAreTheWallets ==
            \A l \in DOMAIN legs :
                /\ legs[l].request.payer \in spends(wallet)
                /\ \A k \in DOMAIN legs : legs[l].request.payer \notin spends(legs[k].contribution)
    IN  IF payersAreTheWallets
        THEN {[transaction |-> t, route |-> route] :
                  t \in UNION {Finish(cs, route.summary.networkFee) : cs \in pushed}}
        ELSE {}
=============================================================================
