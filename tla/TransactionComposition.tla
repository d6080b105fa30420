----------------------- MODULE TransactionComposition -----------------------
(***************************************************************************)
(* deadcat-client's transaction composer: contributions of inputs and      *)
(* outputs, with symbolic blinder references and locktime constraints, are *)
(* appended and turned into one unblinded PSET, its layout and the frozen  *)
(* manifest that later PSETs are compared with.  Positions count from 1.   *)
(***************************************************************************)
EXTENDS Pset, SequencesExt

CONSTANTS MaxContributions, MaxInputs, MaxOutputs    \* CompositionLimits

InputSpec(id, outpoint, utxo, sequence) ==
    [id |-> id, outpoint |-> outpoint, utxo |-> utxo, sequence |-> sequence]

Local(id) == Some([scope |-> "local", ref |-> id])
External(outpoint) == Some([scope |-> "external", ref |-> outpoint])

OutputSpec(kind, id, asset, amount, script, key, blinder) ==
    [kind |-> kind, id |-> id, asset |-> asset, amount |-> amount, script |-> script,
     key |-> key, blinder |-> blinder]
Confidential(id, asset, amount, script, key, blinder) ==
    OutputSpec("confidential", id, asset, amount, script, Some(key), blinder)
Explicit(id, asset, amount, script) ==
    OutputSpec("explicit", id, asset, amount, script, None, None)
Covenant(id, asset, amount, script) ==
    OutputSpec("covenant", id, asset, amount, script, None, None)

Unconstrained == [rule |-> "unconstrained", lock |-> ZeroLock]
AtLeast(lock) == [rule |-> "at_least", lock |-> lock]
Exact(lock) == [rule |-> "exact", lock |-> lock]

Contribution(inputs, outputs, locktime) ==
    [inputs |-> inputs, outputs |-> outputs, locktime |-> locktime]

NetworkFee(asset, amount) == When(amount # 0, [asset |-> asset, amount |-> amount])

-----------------------------------------------------------------------------
(* The composer *)

\* push: append a contribution; its position is the handle.
Push(contributions, c) ==
    When(Len(contributions) < MaxContributions, Append(contributions, c))

ResolveLocktime(constraints) ==
    LET minimums == {c.lock : c \in {d \in constraints : d.rule = "at_least" /\ d.lock # ZeroLock}}
        exacts == {c.lock : c \in {d \in constraints : d.rule = "exact"}}
        latest == {m \in minimums : \A n \in minimums : n.value <= m.value}
    IN  When(/\ \A m, n \in minimums : m.unit = n.unit
             /\ Cardinality(exacts) <= 1
             /\ \A e \in exacts, m \in minimums : e.unit = m.unit /\ e.value >= m.value,
             IF exacts # {} THEN The(exacts) ELSE IF latest # {} THEN The(latest) ELSE ZeroLock)

ValidateOrdinaryOutput(o) ==
    /\ o.amount # 0
    /\ o.script # FeeScript
    /\ ~ IsProvablyUnspendable(o.script)
    /\ ~ IsOversized(o.script)

ValidateCovenantTemplate(o) == o.script # FeeScript /\ ~ IsOversized(o.script)

\* The specs of all contributions in order, each with its handle.
Placed(contributions, field(_)) ==
    FlattenSeq([h \in DOMAIN contributions |->
        [k \in DOMAIN field(contributions[h]) |->
            [handle |-> h, spec |-> field(contributions[h])[k]]]])
PlacedInputs(contributions) == Placed(contributions, LAMBDA c : c.inputs)
PlacedOutputs(contributions) == Placed(contributions, LAMBDA c : c.outputs)

\* ContributionPlacement: where a contribution's specs start, and how many.
Placement(placed, h) ==
    [base |-> Cardinality({i \in DOMAIN placed : placed[i].handle < h}),
     count |-> Cardinality({i \in DOMAIN placed : placed[i].handle = h})]

\* CompositionLayout: symbolic names to positions, as relations.
Layout(contributions) ==
    LET ins == PlacedInputs(contributions)
        outs == PlacedOutputs(contributions)
    IN  [inputs |-> {<<ins[i].handle, ins[i].spec.id, i>> : i \in DOMAIN ins},
         outputs |-> {<<outs[o].handle, outs[o].spec.id, o>> : o \in DOMAIN outs},
         outpoints |-> {<<ins[i].spec.outpoint, i>> : i \in DOMAIN ins},
         placements |-> [h \in DOMAIN contributions |->
                            [inputs |-> Placement(ins, h), outputs |-> Placement(outs, h)]],
         fee |-> Len(outs) + 1]

InputIndex(layout, handle, id) == {t[3] : t \in {u \in layout.inputs : u[1] = handle /\ u[2] = id}}
OutputIndex(layout, handle, id) == {t[3] : t \in {u \in layout.outputs : u[1] = handle /\ u[2] = id}}
OutpointIndex(layout, outpoint) == {t[2] : t \in {u \in layout.outpoints : u[1] = outpoint}}

BlinderIndex(layout, handle, blinder) ==
    LET b == The(blinder) IN
    IF b.scope = "local" THEN InputIndex(layout, handle, b.ref) ELSE OutpointIndex(layout, b.ref)

UniqueNames(placed) ==
    \A i, j \in DOMAIN placed :
        i # j => <<placed[i].handle, placed[i].spec.id>> # <<placed[j].handle, placed[j].spec.id>>

ComposableInputs(ins) ==
    /\ UniqueNames(ins)
    /\ \A i \in DOMAIN ins :
          LET spec == ins[i].spec IN
          /\ spec.outpoint # NullOutpoint
          /\ IsWitnessProgram(spec.utxo.script) /\ ~ IsOversized(spec.utxo.script)
          /\ \A j \in DOMAIN ins : ins[j].spec.outpoint = spec.outpoint => i = j

ComposableOutputs(outs, layout) ==
    /\ UniqueNames(outs)
    /\ \A o \in DOMAIN outs :
          LET spec == outs[o].spec IN
          CASE spec.kind = "confidential" -> /\ ValidateOrdinaryOutput(spec)
                                             /\ BlinderIndex(layout, outs[o].handle, spec.blinder) # {}
            [] spec.kind = "explicit" -> ValidateOrdinaryOutput(spec)
            [] spec.kind = "covenant" -> ValidateCovenantTemplate(spec)

ComposedOutputs(outs, layout, fee) ==
    Append([o \in DOMAIN outs |->
               LET spec == outs[o].spec IN
               NewOutput(spec.asset, spec.amount, spec.script, spec.key,
                         IF spec.blinder = None THEN None
                         ELSE BlinderIndex(layout, outs[o].handle, spec.blinder))],
           NewOutput(fee.asset, fee.amount, FeeScript, None, None))

-----------------------------------------------------------------------------
(* The frozen manifest *)

Manifest(ins, outputs, kinds, locktime) ==
    [inputs |-> [i \in DOMAIN ins |-> [outpoint |-> ins[i].spec.outpoint, utxo |-> ins[i].spec.utxo,
                                       sequence |-> ins[i].spec.sequence]],
     outputs |-> outputs, kinds |-> kinds, locktime |-> locktime]

ManifestInputExtras == {"required_locktime", "script_sig", "issuance", "pegin", "unknown"}

IsExactExplicitOutput(o, expected) ==
    /\ o.asset = expected.asset /\ o.amount = expected.amount /\ o.script = expected.script
    /\ o.comm = None /\ o.key = None /\ o.blinder = None

MatchesCovenantTemplate(o, expected) == TxOutput(o) = TxOutput(expected)

MatchesDeclaration(o, expected) ==
    /\ o.asset = expected.asset /\ o.amount = expected.amount /\ o.script = expected.script
    /\ o.key = expected.key /\ o.blinder = expected.blinder

ManifestValidate(manifest, pset) ==
    /\ pset.extras = {}
    /\ pset.locktime = manifest.locktime
    /\ Len(pset.inputs) = Len(manifest.inputs) /\ Len(pset.outputs) = Len(manifest.outputs)
    /\ \A i \in DOMAIN pset.inputs :
          LET actual == pset.inputs[i]
              expected == manifest.inputs[i]
          IN  /\ actual.outpoint = expected.outpoint
              /\ \E t \in actual.utxo : Body(t) = Body(expected.utxo)
              /\ actual.proof = expected.utxo.proof
              /\ actual.sequence = expected.sequence
              /\ actual.extras \cap ManifestInputExtras = {}
    /\ \A o \in DOMAIN pset.outputs :
          LET actual == pset.outputs[o]
              expected == manifest.outputs[o]
          IN  /\ "unknown" \notin actual.extras
              /\ CASE manifest.kinds[o] = "confidential" -> MatchesDeclaration(actual, expected)
                   [] manifest.kinds[o] \in {"explicit", "fee"} -> IsExactExplicitOutput(actual, expected)
                   [] manifest.kinds[o] = "covenant" -> MatchesCovenantTemplate(actual, expected)

\* finish: check every contribution and build the PSET, layout and manifest.
Finish(contributions, fee) ==
    LET ins == PlacedInputs(contributions)
        outs == PlacedOutputs(contributions)
        layout == Layout(contributions)
        locktime == ResolveLocktime({contributions[h].locktime : h \in DOMAIN contributions})
        outputs == ComposedOutputs(outs, layout, fee)
        kinds == Append([o \in DOMAIN outs |-> outs[o].spec.kind], "fee")
        composed == LET pset == NewPset([i \in DOMAIN ins |->
                                            NewInput(ins[i].spec.outpoint, ins[i].spec.utxo, ins[i].spec.sequence)],
                                        outputs, The(locktime))
                    IN  [pset |-> pset, layout |-> layout,
                         manifest |-> Manifest(ins, outputs, kinds, The(locktime))]
    IN  IF /\ contributions # <<>>
           /\ Len(ins) \in 1..MaxInputs
           /\ Len(outs) + 1 <= MaxOutputs
           /\ locktime # {}
           /\ The(locktime) = ZeroLock \/ \E i \in DOMAIN ins : ins[i].spec.sequence # "final"
           /\ ComposableInputs(ins)
           /\ ComposableOutputs(outs, layout)
        THEN When(ManifestValidate(composed.manifest, composed.pset), composed)
        ELSE {}
=============================================================================
