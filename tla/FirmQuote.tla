------------------------------ MODULE FirmQuote ------------------------------
(***************************************************************************)
(* From an admitted request to a firm quote: the symbolic contribution a   *)
(* quote promises, the draft the store validates before it reserves the    *)
(* selected coins, and the targets its signing job will have.              *)
(***************************************************************************)
EXTENDS CoinSelection, RfqWallet

SharesIdentity(d, e) == d.script = e.script \/ d.blinding = e.blinding \/ d.locator = e.locator

-----------------------------------------------------------------------------
(* The symbolic contribution *)

TakerPaymentInput == [role |-> "taker", input |-> 0]
ProviderInput(id) == [role |-> "provider", input |-> id]

QuotedInput(id, coin) ==
    [id |-> id, outpoint |-> coin.outpoint, utxo |-> coin.utxo, binding |-> Binding(coin)]

QuotedOutput(id, role, asset, amount, script, key, blinder) ==
    [id |-> id, role |-> role, asset |-> asset, amount |-> amount,
     destination |-> [script |-> script, key |-> key], blinder |-> blinder]

QuoteContribution(selected, e, recipient, receive, change, amount) ==
    [inputs |-> [i \in DOMAIN selected |-> QuotedInput(i, selected[i])],
     outputs |->
        <<QuotedOutput(1, "payment", e.inAsset, e.inAmount, receive.script, receive.blinding, TakerPaymentInput),
          QuotedOutput(2, "receive", e.outAsset, e.outAmount, recipient.script, recipient.key, ProviderInput(1))>>
        \o (IF amount = 0 THEN <<>>
            ELSE <<QuotedOutput(3, "change", e.outAsset, amount, The(change).script,
                                The(change).blinding, ProviderInput(1))>>)]

\* FirmQuoteDraft::validate, run again by the store that reserves.
DraftValidate(draft) ==
    LET c == draft.contribution
        e == draft.execution
        change == draft.selectedAmount - e.outAmount
        is(o, role, asset, amount, blinder) ==
            /\ c.outputs[o].id = o /\ c.outputs[o].role = role
            /\ c.outputs[o].asset = asset /\ c.outputs[o].amount = amount
            /\ c.outputs[o].blinder = blinder
    IN  /\ QuoteKindValidate(draft.request.kind) /\ QuoteRecipientValidate(draft.request.recipient)
        /\ PricingValidate(draft.pricing)
        /\ draft.selectedAmount # 0 /\ draft.selectedAsset = e.outAsset
        /\ draft.selectedAmount >= e.outAmount
        /\ Len(c.inputs) \in 1..MaxReservationInputs
        /\ \A i \in DOMAIN c.inputs : c.inputs[i].id = i
        /\ Len(c.outputs) = IF change = 0 THEN 2 ELSE 3
        /\ is(1, "payment", e.inAsset, e.inAmount, TakerPaymentInput)
        /\ is(2, "receive", e.outAsset, e.outAmount, ProviderInput(1))
        /\ c.outputs[2].destination = draft.request.recipient
        /\ change # 0 => is(3, "change", draft.selectedAsset, change, ProviderInput(1))

-----------------------------------------------------------------------------
(* The quote engine after admission: every refusal has a name *)

Refused(error) == [quote |-> None, error |-> error]

\* finalize_quote and the targets the reservation signs for.
FinalizeQuote(provider, draft, feePolicy, selected, receive, change) ==
    [provider |-> provider, request |-> draft.request, execution |-> draft.execution,
     pricing |-> draft.pricing, contribution |-> draft.contribution, feePolicy |-> feePolicy,
     targets |-> [i \in DOMAIN selected |-> [outpoint |-> selected[i].outpoint, key |-> selected[i].key,
                                             locator |-> selected[i].locator,
                                             binding |-> Binding(selected[i])]],
     receiveRecovery |-> [key |-> receive.key, locator |-> receive.locator],
     changeRecovery |-> {[key |-> d.key, locator |-> d.locator] : d \in change}]

FirmQuoteOf(provider, catalog, feePolicy, eligible, request, pricing, receive, changeTo) ==
    LET found == Resolve(catalog, request.context, request.kind.inAsset, request.kind.outAsset)
        summary == InventorySummary(eligible, The(found).market.assets)
        limits == The(found).pair.limits
        execution == CalculateExecution(request, The(pricing), limits)
        e == The(execution)
        selection == SelectInventory(eligible, e.outAsset, e.outAmount, limits)
        selected == The(selection.coins)
        amount == TotalOf(selected) - e.outAmount
        change == IF amount = 0 THEN None ELSE Some(changeTo)
        draft == [request |-> request, execution |-> e, pricing |-> The(pricing),
                  contribution |-> QuoteContribution(selected, e, request.recipient, receive, change, amount),
                  selectedAsset |-> e.outAsset, selectedAmount |-> TotalOf(selected)]
    IN  IF found = {} THEN Refused("pair")
        ELSE IF summary = {} THEN Refused("overflow")
        ELSE IF pricing = {} THEN Refused("price")
        ELSE IF execution = {} THEN Refused("execution")
        ELSE IF selection.coins = None THEN Refused(selection.error)
        ELSE IF \E d \in change : SharesIdentity(d, receive) THEN Refused("destination")
        ELSE IF ~ DraftValidate(draft) THEN Refused("draft")
        ELSE [quote |-> Some(FinalizeQuote(provider, draft, feePolicy, selected, receive, change)),
              error |-> "none"]
=============================================================================
