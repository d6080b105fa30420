--------------------------- MODULE SettlementPset ---------------------------
(***************************************************************************)
(* What the provider does with a settlement PSET: its non-last blinding    *)
(* turn, the validation that precedes commitment to sign, and the          *)
(* finalization of a committed job with the signer's response.  Each is an *)
(* operator that returns the empty set where the code returns an error.    *)
(***************************************************************************)
EXTENDS FirmQuote

CONSTANTS MaxSettlementInputs, MaxSettlementOutputs,   \* SettlementValidationLimits
          MaxPayload                                   \* MAX_SETTLEMENT_BYTES, in sizes of Pset

-----------------------------------------------------------------------------
(* Fee facts and policy *)

FeePolicy(asset, rate, minimum, maxWeight, metric) ==
    When(rate # 0 /\ maxWeight # 0,
         [asset |-> asset, rate |-> rate, minimum |-> minimum, maxWeight |-> maxWeight, metric |-> metric])

TransactionFee(asset, amount, weight, vsize, discount) ==
    When(/\ weight # 0 /\ vsize # 0 /\ discount # 0
         /\ vsize = (weight \div 4) + (IF weight % 4 = 0 THEN 0 ELSE 1)
         /\ discount <= vsize,
         [asset |-> asset, amount |-> amount, weight |-> weight, vsize |-> vsize, discount |-> discount])

RequiredFee(policy, fee) ==
    LET size == IF policy.metric = "regular" THEN fee.vsize ELSE fee.discount
        rateFee == (policy.rate * size + 999) \div 1000
    IN  When(fee.asset = policy.asset /\ fee.weight <= policy.maxWeight /\ Fits(rateFee),
             Max({policy.minimum, rateFee}))

FeePolicyValidate(policy, fee) == \E required \in RequiredFee(policy, fee) : fee.amount >= required

-----------------------------------------------------------------------------
(* Layouts *)

\* Sequences of <<quote-local id, transaction index>>.
SettlementLayout(payer, ins, outs) ==
    LET distinct(s, f) == \A i, j \in DOMAIN s : s[i][f] = s[j][f] => i = j IN
    When(/\ ins # <<>> /\ outs # <<>>
         /\ distinct(ins, 1) /\ distinct(outs, 1)
         /\ distinct(ins, 2) /\ \A i \in DOMAIN ins : ins[i][2] # payer
         /\ distinct(outs, 2),
         [payer |-> payer, ins |-> ins, outs |-> outs])

Ids(placements) == {placements[p][1] : p \in DOMAIN placements}
Indexes(placements) == {placements[p][2] : p \in DOMAIN placements}
IdsOf(quoted) == {quoted[q].id : q \in DOMAIN quoted}

ValidateLayout(quote, layout, pset) ==
    LET c == quote.contribution IN
    /\ layout.payer \in DOMAIN pset.inputs
    /\ Ids(layout.ins) = IdsOf(c.inputs) /\ Indexes(layout.ins) \subseteq DOMAIN pset.inputs
    /\ Ids(layout.outs) = IdsOf(c.outputs) /\ Indexes(layout.outs) \subseteq DOMAIN pset.outputs
    /\ \A p \in DOMAIN layout.ins :
          pset.inputs[layout.ins[p][2]].outpoint = c.inputs[layout.ins[p][1]].outpoint

-----------------------------------------------------------------------------
(* Checks shared by blinding and validation *)

\* canonical_pset: one encoding, within the size limit.
CanonicalPset(pset) == PayloadSize(pset) <= MaxPayload

ValidateGlobal(pset) ==
    /\ Len(pset.inputs) \in 1..MaxSettlementInputs
    /\ Len(pset.outputs) \in 1..MaxSettlementOutputs
    /\ pset.extras = {} /\ pset.scalars = 0
    /\ pset.locktime.value = 0
    /\ \A i \in DOMAIN pset.inputs :
          /\ pset.inputs[i].outpoint # NullOutpoint
          /\ \A j \in DOMAIN pset.inputs : pset.inputs[i].outpoint = pset.inputs[j].outpoint => i = j

\* A mutant: the rangeproof is expected inside the PSET's prevout.
ValidateWholePrevout(input, authoritative) ==
    input.utxo = Some(authoritative) /\ input.extras = {} /\ input.sequence = "final"

ValidateCommonInput(input, authoritative) ==
    /\ \E t \in input.utxo : Body(t) = Body(authoritative)
    /\ input.proof = authoritative.proof
    /\ input.extras = {}
    /\ input.sequence = "final"

\* A mutant: signing fields already present are left alone.
ValidateProviderPrevout(input, outpoint, authoritative, quoted, target) ==
    /\ authoritative = quoted.utxo /\ outpoint = target.outpoint
    /\ authoritative.script = P2tr(target.key) /\ input.key = Some(target.key)

\* `quoted` is the quote's input, `target` the durable signing target.
ValidateProviderInput(input, outpoint, authoritative, quoted, target) ==
    /\ authoritative = quoted.utxo /\ outpoint = target.outpoint
    /\ authoritative.script = P2tr(target.key)
    /\ input.key = Some(target.key)
    /\ input.sighash = Some("all")
    /\ input.sig = None /\ input.witness = None

ValidateQuotedOutput(output, quoted, layout) ==
    LET blinder == IF quoted.blinder.role = "taker" THEN {layout.payer}
                   ELSE {layout.ins[p][2] : p \in {q \in DOMAIN layout.ins :
                                                      layout.ins[q][1] = quoted.blinder.input}}
    IN  /\ blinder # {}
        /\ output.script = quoted.destination.script
        /\ output.key = Some(quoted.destination.key)
        /\ output.asset = quoted.asset /\ output.amount = quoted.amount
        /\ output.blinder = blinder

TargetOf(quote, outpoint) == {t \in ToSet(quote.targets) : t.outpoint = outpoint}

-----------------------------------------------------------------------------
(* The provider's blinding turn *)

\* Outputs the provider must blind, if the PSET shows the quote and nothing
\* else asks for the provider's openings.
ProviderOutputs(quote, layout) ==
    {layout.outs[p][2] : p \in {q \in DOMAIN layout.outs :
        quote.contribution.outputs[layout.outs[q][1]].blinder.role = "provider"}}

ValidateUnblindedOutputs(quote, layout, pset) ==
    /\ \A p \in DOMAIN layout.outs :
          ValidateQuotedOutput(pset.outputs[layout.outs[p][2]],
                               quote.contribution.outputs[layout.outs[p][1]], layout)
    /\ \A o \in DOMAIN pset.outputs :
          /\ pset.outputs[o].comm = None
          /\ pset.outputs[o].blinder \cap Indexes(layout.ins) # {} => o \in ProviderOutputs(quote, layout)
    /\ ProviderOutputs(quote, layout) # {}

ValidateBlindingMutationScope(original, blinded, mine) ==
    /\ blinded.scalars = 1
    /\ \A o \in mine : blinded.outputs[o].comm # None
    /\ original = [blinded EXCEPT !.scalars = original.scalars,
                                  !.outputs = [o \in DOMAIN @ |->
                                      IF o \in mine THEN [@[o] EXCEPT !.comm = None] ELSE @[o]]]

ProviderBlind(quote, state, expired, layout, pset, inventory) ==
    LET blindable(p) ==
            LET id == layout.ins[p][1]
                index == layout.ins[p][2]
                quoted == quote.contribution.inputs[id]
                owned == {c \in inventory : c.outpoint = quoted.outpoint}
            IN  \E t \in TargetOf(quote, quoted.outpoint), c \in owned :
                   /\ quoted.binding = t.binding
                   /\ Binding(c) = quoted.binding /\ c.utxo = quoted.utxo
                   /\ ValidateCommonInput(pset.inputs[index], c.utxo)
                   /\ ValidateProviderInput(pset.inputs[index], c.outpoint, c.utxo, quoted, t)
    IN  IF /\ CanonicalPset(pset)
           /\ ValidateGlobal(pset)
           /\ state = "reserved"
           /\ ~ expired
           /\ ValidateLayout(quote, layout, pset)
           /\ \A p \in DOMAIN layout.ins : blindable(p)
           /\ ValidateUnblindedOutputs(quote, layout, pset)
        THEN {b \in BlindNonLast(pset, Indexes(layout.ins)) :
                 /\ CanonicalPset(b)
                 /\ ValidateBlindingMutationScope(pset, b, ProviderOutputs(quote, layout))}
        ELSE {}

-----------------------------------------------------------------------------
(* Validation before commitment *)

\* Every other input is finalized with an explicit SIGHASH_ALL signature.
ValidateTakerInput(input, tx, prevouts, index, genesis) ==
    \E k \in input.key, s \in input.sig :
        /\ prevouts[index].script = P2tr(k)
        /\ input.sighash = Some("all")
        /\ s.hashType = "all" /\ input.witness = Some(s)
        /\ VerifySignature(s, k, tx, prevouts, index, genesis)

ValidateFeeOutput(o, policyAsset) ==
    /\ o.amount # 0 /\ o.asset = policyAsset
    /\ o.comm = None /\ o.key = None /\ o.blinder = None /\ o.extras = {}

\* The disclosed asset and amount are those of the commitment.
ValidateConfidentialOutput(o, inputCount) ==
    /\ ~ IsProvablyUnspendable(o.script)
    /\ o.key # None /\ o.extras = {}
    /\ \E b \in o.blinder : b \in 1..inputCount
    /\ \E c \in o.comm : c.asset = o.asset /\ c.amount = o.amount

\* The wallet finds the output by locator and rewinds it with its own key.
ValidateProviderRecovery(wallet, recovery, out, quoted) ==
    \E d \in DecodeLocator(wallet, recovery.locator) :
        /\ SpendKey(wallet, d) = recovery.key
        /\ out.script = P2tr(recovery.key)
        /\ OpenedBy(out, BlindingKey(wallet, out.script)) = {<<quoted.asset, quoted.amount>>}

RecoveryFor(quote, role) == IF role = "payment" THEN {quote.receiveRecovery} ELSE quote.changeRecovery

\* A mutant: the outputs the provider blinded itself are the ones checked.
ProviderBlindedAsQuoted(quote, layout, pset, tx, wallet) ==
    \A p \in DOMAIN layout.outs :
        LET quoted == quote.contribution.outputs[layout.outs[p][1]] IN
        quoted.blinder.role = "provider" => ValidateQuotedOutput(pset.outputs[layout.outs[p][2]], quoted, layout)

\* Every quoted output is in place, and the provider's own are recoverable.
OutputsAsQuoted(quote, layout, pset, tx, wallet) ==
    \A p \in DOMAIN layout.outs :
        LET quoted == quote.contribution.outputs[layout.outs[p][1]]
            index == layout.outs[p][2]
        IN  /\ ValidateQuotedOutput(pset.outputs[index], quoted, layout)
            /\ quoted.role # "receive" =>
                  \E r \in RecoveryFor(quote, quoted.role) :
                      ValidateProviderRecovery(wallet, r, tx.outs[index], quoted)

ValidateOutputs(quote, layout, pset, tx, wallet) ==
    LET fees == {o \in DOMAIN pset.outputs : pset.outputs[o].script = FeeScript} IN
    When(/\ \A o \in DOMAIN pset.outputs \ fees : ValidateConfidentialOutput(pset.outputs[o], Len(pset.inputs))
         /\ Cardinality(fees) = 1
         /\ \A o \in fees : ValidateFeeOutput(pset.outputs[o], quote.provider.policyAsset)
         /\ OutputsAsQuoted(quote, layout, pset, tx, wallet),
         pset.outputs[The(fees)].amount)

\* The finalized PSET, with a stand-in for the signatures still missing.
ProjectFinalizedPset(pset, indexes, placeholder) ==
    LET projected == [pset EXCEPT !.inputs = [i \in DOMAIN @ |->
                         IF i \in indexes THEN [@[i] EXCEPT !.sig = placeholder, !.witness = placeholder]
                         ELSE @[i]]]
    IN  When(CanonicalPset(projected), projected)

FeeFacts(asset, amount, pset) ==
    TransactionFee(asset, amount, Weight(pset), Vsize(pset), DiscountVsize(pset))

ValidateReserved(quote, layout, pset, chain, wallet) ==
    LET prevouts == [i \in DOMAIN pset.inputs |-> chain.unspent[pset.inputs[i].outpoint]]
        tx == ExtractTx(pset)
        mine == Indexes(layout.ins)
        quotedAt(i) == {quote.contribution.inputs[layout.ins[p][1]] :
                           p \in {q \in DOMAIN layout.ins : layout.ins[q][2] = i}}
        genesis == quote.provider.genesis
        inputValid(i) ==
            /\ ValidateCommonInput(pset.inputs[i], prevouts[i])
            /\ IF i \in mine
               THEN \E q \in quotedAt(i) : \E t \in TargetOf(quote, q.outpoint) :
                       /\ q.binding = t.binding
                       /\ ValidateProviderInput(pset.inputs[i], pset.inputs[i].outpoint, prevouts[i], q, t)
               ELSE ValidateTakerInput(pset.inputs[i], tx, prevouts, i, genesis)
        fee == ValidateOutputs(quote, layout, pset, tx, wallet)
        projected == ProjectFinalizedPset(pset, mine, pset.inputs[layout.payer].sig)
    IN  IF /\ ValidateGlobal(pset)
           /\ ValidateLayout(quote, layout, pset)
           /\ chain.genesis = genesis
           /\ \A i \in DOMAIN pset.inputs : pset.inputs[i].outpoint \in DOMAIN chain.unspent
        THEN IF /\ \A i \in DOMAIN pset.inputs : inputValid(i)
                /\ fee # {}
                /\ VerifyAmounts(tx, prevouts)
                /\ pset.inputs[layout.payer].sig # None
             THEN {f \in UNION {FeeFacts(quote.provider.policyAsset, The(fee), p) : p \in projected} :
                       FeePolicyValidate(quote.feePolicy, f)}
             ELSE {}
        ELSE {}

\* validate: a committed reservation accepts only its own payload again.
SettlementValidate(quote, job, layout, pset, chain, wallet) ==
    IF ~ CanonicalPset(pset) THEN {}
    ELSE IF job # None THEN {j.fee : j \in {k \in job : k.payload = pset}}
    ELSE ValidateReserved(quote, layout, pset, chain, wallet)

-----------------------------------------------------------------------------
(* Finalizing a committed job *)

SigningJob(quote, pset, fee) == [payload |-> pset, targets |-> quote.targets, fee |-> fee]

IndexOf(pset, outpoint) == {i \in DOMAIN pset.inputs : pset.inputs[i].outpoint = outpoint}

\* PreparedSigningPset::new.
PreparedSigning(job) ==
    LET pset == job.payload IN
    When(/\ CanonicalPset(pset)
         /\ \A i, j \in DOMAIN pset.inputs : pset.inputs[i].outpoint = pset.inputs[j].outpoint => i = j
         /\ \A i \in DOMAIN pset.inputs : pset.inputs[i].utxo # None
         /\ \A s, t \in DOMAIN job.targets : job.targets[s].outpoint = job.targets[t].outpoint => s = t
         /\ \A t \in DOMAIN job.targets :
               \E i \in IndexOf(pset, job.targets[t].outpoint) :
                   /\ pset.inputs[i].key = Some(job.targets[t].key)
                   /\ "wallet" \notin pset.inputs[i].extras
                   /\ pset.inputs[i].sighash = Some("all")
                   /\ pset.inputs[i].sig = None /\ pset.inputs[i].witness = None
                   /\ The(pset.inputs[i].utxo).script = P2tr(job.targets[t].key),
         [tx |-> ExtractTx(pset),
          prevouts |-> [i \in DOMAIN pset.inputs |-> The(pset.inputs[i].utxo)],
          indexes |-> [t \in DOMAIN job.targets |-> The(IndexOf(pset, job.targets[t].outpoint))]])

\* SigningResponse: signatures in target order, bound to the job.
SigningResponse(job, sigs) ==
    When(/\ Len(sigs) = Len(job.targets)
         /\ \A t \in DOMAIN sigs : sigs[t].outpoint = job.targets[t].outpoint /\ sigs[t].sig.hashType = "all",
         [commitment |-> job, sigs |-> sigs])

\* RfqWallet::sign: each target's key is found by its locator, and signs only
\* an unsigned tree-less P2TR input that names it.
WalletSign(wallet, job) ==
    LET pset == job.payload
        tx == ExtractTx(pset)
        prevouts == [i \in DOMAIN pset.inputs |-> The(pset.inputs[i].utxo)]
        at(t) == IndexOf(pset, job.targets[t].outpoint)
        keys(t) == {SpendKey(wallet, d) : d \in DecodeLocator(wallet, job.targets[t].locator)}
        signable(t) ==
            \E i \in at(t) :
                /\ keys(t) = {job.targets[t].key}
                /\ pset.inputs[i].key = Some(job.targets[t].key)
                /\ "wallet" \notin pset.inputs[i].extras
                /\ pset.inputs[i].sighash = Some("all")
                /\ pset.inputs[i].sig = None /\ pset.inputs[i].witness = None
                /\ prevouts[i].script = P2tr(job.targets[t].key)
    IN  IF /\ CanonicalPset(pset)
           /\ \A i, j \in DOMAIN pset.inputs : pset.inputs[i].outpoint = pset.inputs[j].outpoint => i = j
           /\ \A i \in DOMAIN pset.inputs : pset.inputs[i].utxo # None
           /\ \A s, t \in DOMAIN job.targets : job.targets[s].outpoint = job.targets[t].outpoint => s = t
           /\ \A t \in DOMAIN job.targets : signable(t)
        THEN SigningResponse(job, [t \in DOMAIN job.targets |->
                 [outpoint |-> job.targets[t].outpoint,
                  sig |-> Sign(The(keys(t)), tx, prevouts, The(at(t)), wallet.identity.genesis)]])
        ELSE {}

VerifyEveryFinalSignature(pset, tx, prevouts, genesis) ==
    \A i \in DOMAIN pset.inputs :
        \E k \in pset.inputs[i].key, s \in pset.inputs[i].sig :
            /\ pset.inputs[i].sighash = Some("all") /\ s.hashType = "all"
            /\ pset.inputs[i].witness = Some(s)
            /\ prevouts[i].script = P2tr(k)
            /\ VerifySignature(s, k, tx, prevouts, i, genesis)

\* Explicit fee outputs of one asset (Transaction::fee_in).
FeeIn(tx, asset) ==
    SumOver({o \in DOMAIN tx.outs : tx.outs[o].script = FeeScript /\ tx.outs[o].clear # None},
            LAMBDA o : IF The(tx.outs[o].clear)[1] = asset THEN The(tx.outs[o].clear)[2] ELSE 0)

FinalizeSigned(job, response, genesis) ==
    LET prepared == PreparedSigning(job)
        p == The(prepared)
        at(i) == {t \in DOMAIN job.targets : p.indexes[t] = i}
        signed == [job.payload EXCEPT !.inputs = [i \in DOMAIN @ |->
                      IF at(i) = {} THEN @[i]
                      ELSE [@[i] EXCEPT !.sig = Some(response.sigs[The(at(i))].sig),
                                        !.witness = Some(response.sigs[The(at(i))].sig)]]]
        valid == /\ response.commitment = job
                 /\ Len(response.sigs) = Len(job.targets)
                 /\ \A t \in DOMAIN job.targets :
                       /\ response.sigs[t].outpoint = job.targets[t].outpoint
                       /\ response.sigs[t].sig.hashType = "all"
                       /\ VerifySignature(response.sigs[t].sig, job.targets[t].key, p.tx, p.prevouts,
                                          p.indexes[t], genesis)
    IN  IF prepared # {} /\ valid
        THEN When(/\ CanonicalPset(signed)
                  /\ [signed EXCEPT !.inputs = [i \in DOMAIN @ |->
                         IF at(i) = {} THEN @[i] ELSE [@[i] EXCEPT !.sig = None, !.witness = None]]] = job.payload
                  /\ VerifyEveryFinalSignature(signed, ExtractTx(signed), p.prevouts, genesis)
                  /\ VerifyAmounts(ExtractTx(signed), p.prevouts)
                  /\ FeeFacts(job.fee.asset, FeeIn(ExtractTx(signed), job.fee.asset), signed) = {job.fee},
                  signed)
        ELSE {}
=============================================================================
