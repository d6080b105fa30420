-------------------------- MODULE ChainSyncProofs ---------------------------
(***************************************************************************)
(* Proofs about ChainSync for any tree of blocks, any transactions, any    *)
(* movements of the source and any interleaving of passes, registrations,  *)
(* crashes and rebuilds.                                                   *)
(*                                                                         *)
(* Every action writes the store as ChainStoreProofs describes, registers  *)
(* contracts late, which is the first part, or does not write at all.  The *)
(* invariant adds what a pass and a registration remember: the depth of a  *)
(* rollback stays within the indexed chain, a block that is to be applied  *)
(* is one of the tree, and evidence names a block that holds the creation. *)
(***************************************************************************)
EXTENDS ChainSync, ChainStoreProofs

-----------------------------------------------------------------------------
(* Late registration. *)

\* A contract is registered at its creation, below or at the tip.
LEMMA RegisterOneGood ==
  ASSUME Counting, NEW T \in Blocks, NEW d, Good(d, T), d.tip \in Blocks, NEW c \in Contracts,
         NEW b \in Chain[T], CreationIndex(b, c) \in DOMAIN Body[b],
         NEW e, e = RegisterOne(d, c, b)
  PROVE  /\ Good(e, T) /\ e.tip = d.tip /\ e.epoch = d.epoch
         /\ e.sequence = d.sequence + 1
  <1>1. PICK n \in DOMAIN Body[b] : n = CreationIndex(b, c)
    OBVIOUS
  <1>2. PICK p : p = <<Height[b], n>>
    BY Zenon
  <1>3. p[1] = Height[b] /\ p[2] = n
    BY <1>2
  <1>4. PICK h : h = Height[b]
    OBVIOUS
  <1>5. b \in Blocks /\ h \in Heights /\ h \in Nat /\ n \in Nat /\ Body[b][n] \in Txs
        /\ p \in Position
    BY <1>2, <1>4, BlockFacts
  <1>6. PICK q : q = PushContracts(d, h, {c})
    OBVIOUS
  <1>7. PICK s : s = PushProgress(q, h, {c})
    OBVIOUS
  <1>8. PICK record, item : /\ record = [at |-> Body[b][n], created |-> p,
                                         sync |-> "CatchingUp", through |-> b]
                            /\ item = [next |-> <<h, n + 1>>, pinned |-> d.tip]
    BY Zenon
  <1>9. PICK x1, x2 : x1 = [s.contract EXCEPT ![c] = record]
                      /\ x2 = [s.progress EXCEPT ![c] = item]
    BY Zenon
  <1>10. PICK v, w : v = [s EXCEPT !.contract = x1] /\ w = [v EXCEPT !.progress = x2]
    BY Zenon
  <1>11. PICK a : a = AppendEvents(w, 1)
    OBVIOUS
  <1>12. e = MergeTransaction(a, p, Body[b][n], {c})
    <2>1. PICK i : i = [s EXCEPT !.contract[c] = record, !.progress[c] = item]
      OBVIOUS
    <2>2. i = w
      BY <1>9, <1>10, <2>1, Zenon
    <2>3. e = MergeTransaction(AppendEvents(i, 1), p, Body[b][n], {c})
      BY <1>1, <1>2, <1>3, <1>4, <1>6, <1>7, <1>8, <2>1, Zenon DEF RegisterOne
    <2>4. QED BY <1>11, <2>2, <2>3
  <1>13. Good(q, T) /\ SameBut(d, q, {"undo"})
    BY <1>5, <1>6, PushContractsGood
  <1>14. Good(s, T) /\ SameBut(q, s, {"undo"})
    BY <1>5, <1>7, <1>13, PushProgressGood
  <1>15. record \in Record /\ item \in Progress
    BY <1>5, <1>8 DEF Record, Progress
  <1>16. /\ x1 \in [Contracts -> Record \cup {Null}]
         /\ x2 \in [Contracts -> Progress \cup {Null}]
    <2>1. /\ s.contract \in [Contracts -> Record \cup {Null}]
          /\ s.progress \in [Contracts -> Progress \cup {Null}]
      BY <1>14, GoodTypes, Zenon
    <2>2. QED BY <1>9, <1>15, <2>1
  <1>17. Good(v, T) /\ SameBut(s, v, {"contract"})
    BY <1>10, <1>14, <1>16, ContractWrite, Zenon
  <1>18. Good(w, T) /\ SameBut(v, w, {"progress"})
    BY <1>10, <1>16, <1>17, ProgressWrite, Zenon
  <1>19. Good(a, T) /\ SameBut(w, a, {"sequence"}) /\ a.sequence = w.sequence + 1
    BY <1>11, <1>18, AppendEventsGood
  <1>20. Good(e, T) /\ SameBut(a, e, {"transactions", "undo"})
    BY <1>2, <1>12, <1>19, CanonicalAt, MergeTransactionGood, Zenon
  <1>21. SameBut(d, e, {"contract", "progress", "sequence", "transactions", "undo"})
         /\ e.sequence = a.sequence /\ w.sequence = d.sequence
    BY <1>13, <1>14, <1>17, <1>18, <1>19, <1>20 DEF SameBut, Columns
  <1>22. e.tip = d.tip /\ e.epoch = d.epoch
    BY <1>21 DEF SameBut, Columns
  <1>23. QED BY <1>19, <1>20, <1>21, <1>22

Retain(d, P) == [d EXCEPT !.retained = @ \cup P]

\* The contract of a package that is registered last.
LastOf(S) == CHOOSE c \in S : TRUE

\* The stores that the registrations of the sets of at most n contracts lead to.
AreRegistrations(g, d, P, ev, new, n) ==
    g = [S \in {X \in SUBSET new : Cardinality(X) <= n} |->
            IF S = {} THEN Retain(d, P)
            ELSE RegisterOne(g[S \ {LastOf(S)}], LastOf(S), ev[LastOf(S)])]

\* A set of contracts without one of them.
LEMMA WithoutLast ==
  ASSUME Counting, NEW S \in SUBSET Contracts, S # {}
  PROVE  /\ LastOf(S) \in S /\ S \ {LastOf(S)} \in SUBSET S
         /\ Cardinality(S) \in Nat
         /\ Cardinality(S \ {LastOf(S)}) = Cardinality(S) - 1
  <1>1. PICK c \in S : c = LastOf(S)
    BY DEF LastOf
  <1>2. Cardinality(S) \in Nat /\ Cardinality(S \ {c}) = Cardinality(S) - 1
    BY Zenon DEF Counting
  <1>3. QED BY <1>1, <1>2

LEMMA EmptyCardinality ==
  ASSUME Counting, NEW S \in SUBSET Contracts
  PROVE  Cardinality(S) <= 0 => S = {}
  <1>1. Cardinality(S) \in Nat /\ (S # {} => Cardinality(S) > 0)
    BY Zenon DEF Counting
  <1>2. QED BY <1>1

LEMMA RegistrationsExist ==
  ASSUME Counting, NEW d, NEW P, NEW ev, NEW new \in SUBSET Contracts
  PROVE  \A n \in Nat : \E g : AreRegistrations(g, d, P, ev, new, n)
  <1> DEFINE Is(g, n) == AreRegistrations(g, d, P, ev, new, n)
             Bad == {n \in Nat : ~\E g : Is(g, n)}
             R(x, S) == RegisterOne(x, LastOf(S), ev[LastOf(S)])
  <1> SUFFICES ASSUME Bad # {} PROVE FALSE
    BY Zenon
  <1>1. PICK n \in Bad : \A m \in Bad : n <= m
    <2> HIDE DEF Is
    <2> QED BY Least, Zenon
  <1>2. CASE n = 0
    <2> DEFINE f == [S \in {X \in SUBSET new : Cardinality(X) <= 0} |-> Retain(d, P)]
    <2>1. \A S \in {X \in SUBSET new : Cardinality(X) <= 0} : S = {}
      BY EmptyCardinality
    <2>2. Is(f, 0)
      BY <2>1 DEF AreRegistrations
    <2>3. QED BY <1>2, <2>2
  <1>3. CASE n # 0
    <2>1. n - 1 \in Nat /\ n - 1 \notin Bad
      <3> HIDE DEF Is
      <3> QED BY <1>1, <1>3
    <2>2. PICK g : Is(g, n - 1)
      BY <2>1
    <2> DEFINE D == {X \in SUBSET new : Cardinality(X) <= n}
               f == [S \in D |-> IF Cardinality(S) <= n - 1 THEN g[S]
                                 ELSE R(g[S \ {LastOf(S)}], S)]
    <2>3. \A S \in SUBSET new : Cardinality(S) <= n - 1 =>
              g[S] = IF S = {} THEN Retain(d, P) ELSE R(g[S \ {LastOf(S)}], S)
      BY <2>2, Zenon DEF AreRegistrations
    <2>4. ASSUME NEW S \in D
          PROVE  f[S] = IF S = {} THEN Retain(d, P) ELSE R(f[S \ {LastOf(S)}], S)
      <3> HIDE DEF R
      <3>1. CASE S = {}
        <4>1. Cardinality(S) = 0
          BY <3>1, Zenon DEF Counting
        <4>2. Cardinality(S) <= n - 1
          BY <2>1, <4>1
        <4>3. QED BY <2>3, <3>1, <4>2, Zenon
      <3>2. CASE S # {}
        <4>1. PICK X : X = S \ {LastOf(S)}
          BY Zenon
        <4>2. /\ X \in SUBSET new /\ Cardinality(S) \in Nat
              /\ Cardinality(X) = Cardinality(S) - 1
          BY <3>2, <4>1, WithoutLast
        <4>3. Cardinality(X) <= n - 1 /\ Cardinality(X) <= n
          BY <4>2
        <4>4. f[X] = g[X]
          BY <4>2, <4>3
        <4>5. f[S] = R(g[X], S)
          BY <2>3, <3>2, <4>1
        <4>6. QED BY <3>2, <4>1, <4>4, <4>5, Zenon
      <3>3. QED BY <3>1, <3>2, Zenon
    <2>5. Is(f, n)
      <3> HIDE DEF f
      <3>1. f = [S \in D |-> f[S]]
        BY DEF f
      <3>2. QED BY <2>4, <3>1, Zenon DEF AreRegistrations
    <2>6. QED BY <2>5
  <1>4. QED BY <1>2, <1>3

NewOf(d, P) == {c \in P : ~Present(d, c)}

AllRegistrations(g, d, P, ev, new) ==
    g = [S \in SUBSET new |->
            IF S = {} THEN Retain(d, P)
            ELSE RegisterOne(g[S \ {LastOf(S)}], LastOf(S), ev[LastOf(S)])]

LEMMA RegisterContractsTurns ==
  ASSUME Counting, NEW d, NEW P \in SUBSET Contracts, NEW ev,
         d.status # "RescanRequired", \A c \in P : RegistrationFits(d, c, ev[c]),
         NEW new, new = NewOf(d, P)
  PROVE  \E g : AllRegistrations(g, d, P, ev, new) /\ RegisterContracts(d, P, ev) = g[new]
  <1>1. new \in SUBSET Contracts
    BY DEF NewOf
  <1>2. PICK n \in Nat : n = Cardinality(new)
    BY <1>1, Zenon DEF Counting
  <1>3. {X \in SUBSET new : Cardinality(X) <= n} = SUBSET new
    <2>1. ASSUME NEW X \in SUBSET new PROVE Cardinality(X) <= n
      BY <1>1, <1>2, Zenon DEF Counting
    <2>2. QED BY <2>1
  <1>4. PICK g : AreRegistrations(g, d, P, ev, new, n)
    BY <1>1, RegistrationsExist, Zenon
  <1>5. AllRegistrations(g, d, P, ev, new)
    BY <1>3, <1>4, Zenon DEF AreRegistrations, AllRegistrations
  <1>6. PICK f : f = CHOOSE x : AllRegistrations(x, d, P, ev, new)
    OBVIOUS
  <1>7. AllRegistrations(f, d, P, ev, new)
    BY <1>5, <1>6, Zenon
  <1>8. RegisterContracts(d, P, ev) = f[new]
    BY <1>6, Zenon DEF RegisterContracts, AllRegistrations, LastOf, Retain, NewOf
  <1>9. QED BY <1>7, <1>8

LEMMA RetainGood ==
  ASSUME NEW T \in Blocks, NEW d, Good(d, T), NEW P \in SUBSET Contracts,
         NEW e, e = Retain(d, P)
  PROVE  Good(e, T) /\ SameBut(d, e, {"retained"})
  <1>1. IsStore(d) /\ d.retained \subseteq Contracts
    BY GoodTypes
  <1>2. SameBut(d, e, {"retained"}) /\ e.retained = d.retained \cup P
    BY <1>1 DEF Retain, IsStore, SameBut, Columns
  <1>3. TablesTyped(e)
    BY <1>1, <1>2 DEF Good, TablesTyped, SameBut, Columns
  <1>4. SameBut(d, e, {"tip", "status", "epoch", "sequence", "contract", "retained", "progress"})
    BY <1>2 DEF SameBut
  <1>5. QED BY <1>2, <1>3, <1>4, ColumnWrite

\* A package is registered as a whole, in whatever order, or not at all.
LEMMA RegisterContractsWrite ==
  ASSUME Counting, NEW d, Good(d, d.tip), NEW P \in SUBSET Contracts, NEW ev,
         \A c \in P : CreationIndex(ev[c], c) \in DOMAIN Body[ev[c]],
         NEW e, e = RegisterContracts(d, P, ev)
  PROVE  Write(d, e) /\ e.tip = d.tip
  <1>1. CASE d.status = "RescanRequired" \/ \E c \in P : ~RegistrationFits(d, c, ev[c])
    <2>1. e = d
      BY <1>1, Zenon DEF RegisterContracts
    <2>2. QED BY <2>1, NoWrite
  <1>2. CASE ~(d.status = "RescanRequired" \/ \E c \in P : ~RegistrationFits(d, c, ev[c]))
    <2>1. PICK new : new = NewOf(d, P)
      OBVIOUS
    <2>2. PICK g : AllRegistrations(g, d, P, ev, new) /\ e = g[new]
      <3>1. \E g : AllRegistrations(g, d, P, ev, new) /\ RegisterContracts(d, P, ev) = g[new]
        <4>1. d.status # "RescanRequired" /\ \A c \in P : RegistrationFits(d, c, ev[c])
          BY <1>2
        <4>2. QED BY <2>1, <4>1, RegisterContractsTurns
      <3>2. QED BY <3>1, Zenon
    <2>3. PICK T \in Blocks : T = d.tip
      BY GoodTypes
    <2>4. new \in SUBSET Contracts
      BY <2>1, Zenon DEF NewOf
    <2>5. \A c \in new : ev[c] \in Chain[T] /\ CreationIndex(ev[c], c) \in DOMAIN Body[ev[c]]
      BY <1>2, <2>1, <2>3 DEF RegistrationFits, NewOf
    <2>6. d.sequence \in Nat
      BY GoodTypes
    <2> DEFINE Fine(S, x) ==
                   /\ Good(x, T) /\ x.tip = d.tip /\ x.epoch = d.epoch
                   /\ x.sequence >= d.sequence
                   /\ S # {} => x.sequence > d.sequence
                   /\ S = {} => /\ x.contract = d.contract /\ x.history = d.history
                                /\ x.transactions = d.transactions
               K == {k \in Nat : \A S \in SUBSET new : Cardinality(S) <= k => Fine(S, g[S])}
    <2>7. ASSUME NEW S \in SUBSET new, S = {} PROVE Fine(S, g[S])
      <3>1. g[S] = Retain(d, P)
        BY <2>2, <2>7 DEF AllRegistrations
      <3>2. PICK x : x = g[S]
        OBVIOUS
      <3>3. /\ Good(x, T) /\ x.tip = d.tip /\ x.epoch = d.epoch
            /\ x.sequence = d.sequence /\ x.contract = d.contract /\ x.history = d.history
            /\ x.transactions = d.transactions
        <4>1. Good(x, T) /\ SameBut(d, x, {"retained"})
          BY <2>3, <3>1, <3>2, RetainGood, Zenon
        <4>2. QED BY <4>1 DEF SameBut, Columns
      <3>4. QED BY <2>6, <2>7, <3>2, <3>3
    <2>8. 0 \in K
      BY <2>4, <2>7, EmptyCardinality
    <2>9. ASSUME NEW k \in Nat, k - 1 \in K, NEW S \in SUBSET new, Cardinality(S) <= k, S # {}
          PROVE  Fine(S, g[S])
      <3>1. PICK c \in S : c = LastOf(S)
        BY <2>4, <2>9, WithoutLast
      <3>2. PICK X : X = S \ {c}
        BY Zenon
      <3>3. X \in SUBSET new /\ Cardinality(X) <= k - 1
        BY <2>4, <2>9, <3>1, <3>2, WithoutLast
      <3>4. PICK y : y = g[X]
        BY Zenon
      <3>5. Fine(X, y)
        BY <2>9, <3>3, <3>4
      <3>6. PICK x : x = g[S]
        OBVIOUS
      <3>7. x = RegisterOne(y, c, ev[c])
        BY <2>2, <2>9, <3>1, <3>2, <3>4, <3>6, Zenon DEF AllRegistrations
      <3>8. /\ Good(x, T) /\ x.tip = y.tip /\ x.epoch = y.epoch
            /\ x.sequence = y.sequence + 1
        <4>1. y.tip \in Blocks
          BY <3>5, GoodTypes, Zenon
        <4>2. c \in Contracts /\ ev[c] \in Chain[T]
              /\ CreationIndex(ev[c], c) \in DOMAIN Body[ev[c]]
          BY <2>4, <2>5, Zenon
        <4>3. QED BY <3>5, <3>7, <4>1, <4>2, RegisterOneGood
      <3>9. x.sequence > d.sequence
        <4>1. y.sequence \in Nat /\ y.sequence >= d.sequence
          BY <3>5, GoodTypes, Zenon
        <4>2. QED BY <2>6, <3>8, <4>1
      <3>10. x.sequence >= d.sequence /\ x.tip = d.tip /\ x.epoch = d.epoch
        <4>1. x.sequence \in Nat
          BY <3>8, GoodTypes, Zenon
        <4>2. QED BY <2>6, <3>5, <3>8, <3>9, <4>1
      <3>11. QED BY <2>9, <3>6, <3>8, <3>9, <3>10, Zenon
    <2>10. PICK n \in Nat : n = Cardinality(new)
      BY <2>4, Zenon DEF Counting
    <2>11. \A k \in 1 .. n : k - 1 \in K => k \in K
      <3> SUFFICES ASSUME NEW k \in 1 .. n, k - 1 \in K,
                          NEW S \in SUBSET new, Cardinality(S) <= k
                   PROVE  Fine(S, g[S])
        BY DEF K
      <3>1. k \in Nat
        OBVIOUS
      <3> HIDE DEF K, Fine
      <3>2. CASE S = {}
        BY <2>7, <3>2, Zenon
      <3>3. CASE S # {}
        BY <2>9, <3>1, <3>3, Zenon
      <3>4. QED BY <3>2, <3>3, Zenon
    <2>12. n \in K
      <3> HIDE DEF K
      <3>1. \A k \in 0 .. n : k \in K
        BY <2>8, <2>11, UpTo, Zenon
      <3>2. n \in 0 .. n
        OBVIOUS
      <3>3. QED BY <3>1, <3>2
    <2>13. Fine(new, e)
      BY <2>2, <2>10, <2>12
    <2>14. Good(e, e.tip) /\ e.tip = d.tip
      BY <2>3, <2>13
    <2>15. CursorStep(d, e)
      <3>1. e.sequence \in Nat
        BY <2>13, GoodTypes, Zenon
      <3>2. CASE new = {}
        BY <2>13, <3>2, Zenon DEF CursorStep
      <3>3. CASE new # {}
        <4>1. e.sequence # d.sequence
          BY <2>6, <2>13, <3>1, <3>3
        <4>2. QED BY <2>13, <4>1 DEF CursorStep
      <3>4. QED BY <3>2, <3>3
    <2>16. QED BY <2>14, <2>15 DEF Write
  <1>3. QED BY <1>1, <1>2, Zenon

-----------------------------------------------------------------------------
(* The pass in progress. *)

TaskFields == {"pc", "pin", "depth", "block", "targets", "legs", "guard", "next", "restarts"}

IsTask(t) == DOMAIN t = TaskFields

\* The depth of a rollback stays within the indexed chain, and a canonical block
\* that is to be applied is one of the tree.
TaskOK(t, tip) ==
    /\ IsTask(t)
    /\ t.pc \in {"idle"} \cup Calls
    /\ t.restarts \in 0 .. MaxBranchRestarts
    /\ t.depth \in 0 .. Height[tip]
    /\ t.pc = "idle" => t.depth = 0
    /\ t.next = "apply" /\ t.targets = {} => t.block \in Blocks

LEMMA IdleOK ==
  ASSUME NEW tip \in Blocks
  PROVE  TaskOK(Idle, tip)
  <1>1. /\ IsTask(Idle) /\ Idle.pc = "idle" /\ Idle.depth = 0 /\ Idle.next = "idle"
        /\ Idle.restarts = 0
    BY DEF Idle, IsTask, TaskFields
  <1>2. 0 \in 0 .. Height[tip] /\ 0 \in 0 .. MaxBranchRestarts
    BY TreeFacts, SyncAssumption
  <1>3. QED BY <1>1, <1>2 DEF TaskOK

\* A task that waits for a call and has nothing to apply.
Waiting(t, pc, restarts) ==
    IsTask(t) /\ t.pc = pc /\ t.depth = 0 /\ t.next = "idle" /\ t.restarts = restarts

LEMMA WaitingOK ==
  ASSUME NEW tip \in Blocks, NEW pc \in Calls, NEW restarts \in 0 .. MaxBranchRestarts,
         NEW t, Waiting(t, pc, restarts)
  PROVE  TaskOK(t, tip)
  <1>1. 0 \in 0 .. Height[tip]
    BY TreeFacts
  <1>2. QED BY <1>1 DEF TaskOK, Waiting

\* A task that begins anew with another call.
LEMMA FreshOK ==
  ASSUME NEW tip \in Blocks, NEW pc \in Calls, NEW pin, NEW restarts \in 0 .. MaxBranchRestarts,
         NEW t, t = [Idle EXCEPT !.pc = pc, !.pin = pin, !.restarts = restarts]
  PROVE  Waiting(t, pc, restarts) /\ TaskOK(t, tip)
  <1>1. Waiting(t, pc, restarts)
    BY Zenon DEF Idle, IsTask, TaskFields, Waiting
  <1>2. QED BY <1>1, WaitingOK, Zenon

LEMMA PinOK ==
  ASSUME NEW tip \in Blocks, NEW restarts \in 0 .. MaxBranchRestarts,
         NEW t, t = [Idle EXCEPT !.pc = "pin", !.restarts = restarts]
  PROVE  TaskOK(t, tip)
  <1>1. Waiting(t, "pin", restarts)
    BY Zenon DEF Idle, IsTask, TaskFields, Waiting
  <1>2. "pin" \in Calls
    BY DEF Calls
  <1>3. QED BY <1>1, <1>2, WaitingOK, Zenon

\* The steps of a pass that only change what it does next.
LEMMA CheckPinOK ==
  ASSUME NEW tip, NEW t, TaskOK(t, tip), NEW next, next # "apply",
         NEW u, u = [t EXCEPT !.pc = "pinned", !.guard = t.pin, !.next = next]
  PROVE  TaskOK(u, tip)
  <1>1. IsTask(t)
    BY DEF TaskOK
  <1>2. /\ IsTask(u) /\ u.pc = "pinned" /\ u.depth = t.depth /\ u.next = next
        /\ u.restarts = t.restarts
    BY <1>1, Zenon DEF IsTask, TaskFields
  <1>3. QED BY <1>2 DEF TaskOK, Calls

LEMMA CallChangeOK ==
  ASSUME NEW tip, NEW t, TaskOK(t, tip), NEW pc \in Calls,
         NEW u, u = [t EXCEPT !.pc = pc]
  PROVE  TaskOK(u, tip)
  <1>1. IsTask(t) /\ "idle" \notin Calls
    BY DEF TaskOK, Calls
  <1>2. /\ IsTask(u) /\ u.pc = pc /\ u.depth = t.depth /\ u.next = t.next
        /\ u.targets = t.targets /\ u.block = t.block /\ u.restarts = t.restarts
    BY <1>1, Zenon DEF IsTask, TaskFields
  <1>3. QED BY <1>1, <1>2 DEF TaskOK

LEMMA PinChangeOK ==
  ASSUME NEW tip, NEW t, TaskOK(t, tip), NEW pin, NEW u, u = [t EXCEPT !.pin = pin]
  PROVE  TaskOK(u, tip) /\ u.pc = t.pc
  <1>1. IsTask(t)
    BY DEF TaskOK
  <1>2. /\ IsTask(u) /\ u.pc = t.pc /\ u.depth = t.depth /\ u.next = t.next
        /\ u.targets = t.targets /\ u.block = t.block /\ u.restarts = t.restarts
    BY <1>1, Zenon DEF IsTask, TaskFields
  <1>3. QED BY <1>2 DEF TaskOK

LEMMA DepthOK ==
  ASSUME NEW tip, NEW t, TaskOK(t, tip), NEW depth \in 0 .. Height[tip], NEW pc \in Calls,
         NEW u, \/ u = [t EXCEPT !.pc = pc, !.depth = depth]
                \/ u = [t EXCEPT !.depth = depth] /\ t.pc \in Calls
  PROVE  TaskOK(u, tip)
  <1>1. IsTask(t) /\ "idle" \notin Calls
    BY DEF TaskOK, Calls
  <1>2. /\ IsTask(u) /\ u.pc \in Calls /\ u.depth = depth /\ u.next = t.next
        /\ u.targets = t.targets /\ u.block = t.block /\ u.restarts = t.restarts
    <2>1. CASE u = [t EXCEPT !.pc = pc, !.depth = depth]
      BY <1>1, <2>1, Zenon DEF IsTask, TaskFields
    <2>2. CASE u = [t EXCEPT !.depth = depth] /\ t.pc \in Calls
      BY <1>1, <2>2, Zenon DEF IsTask, TaskFields
    <2>3. QED BY <2>1, <2>2
  <1>3. QED BY <1>1, <1>2 DEF TaskOK

-----------------------------------------------------------------------------
(* The invariant of the coordinator. *)

\* A registration in progress knows the block of its creation.
EvidenceOK(ev) ==
    /\ ev \in [Contracts -> Blocks \cup {Null}]
    /\ \A c \in Contracts : ev[c] # Null => CreationIndex(ev[c], c) \in DOMAIN Body[ev[c]]

Inv ==
    /\ Good(db, db.tip)
    /\ best \in Blocks
    /\ TaskOK(task, db.tip)
    /\ EvidenceOK(evidence)

LEMMA GoodTip ==
  ASSUME NEW d, Good(d, d.tip)
  PROVE  /\ d.tip \in Blocks /\ Height[d.tip] \in Nat
         /\ d.epoch \in Nat /\ d.sequence \in Nat
  BY GoodTypes, TreeFacts

\* A write that leaves the tables and the tip as they are.
StatusOnly(d, e) ==
    /\ Good(e, e.tip)
    /\ e.tip = d.tip /\ e.epoch = d.epoch /\ e.sequence >= d.sequence
    /\ e.contract = d.contract /\ e.history = d.history /\ e.transactions = d.transactions

LEMMA StatusOnlySelf ==
  ASSUME NEW d, Good(d, d.tip)
  PROVE  StatusOnly(d, d)
  BY GoodTip DEF StatusOnly

LEMMA StatusOnlySet ==
  ASSUME NEW d, Good(d, d.tip), NEW status \in Statuses,
         NEW e, e = SetSyncStatus(d, status)
  PROVE  StatusOnly(d, e)
  <1>1. Good(e, e.tip) /\ SameBut(d, e, {"status", "sequence"}) /\ e.sequence >= d.sequence
    BY SetSyncStatusWrite
  <1>2. QED BY <1>1 DEF StatusOnly, SameBut, Columns

LEMMA StatusOnlyTrans ==
  ASSUME NEW d, NEW e, NEW f, Good(d, d.tip), StatusOnly(d, e), StatusOnly(e, f)
  PROVE  StatusOnly(d, f)
  <1>1. Good(e, e.tip) /\ Good(f, f.tip)
    BY DEF StatusOnly
  <1>2. d.sequence \in Nat /\ e.sequence \in Nat /\ f.sequence \in Nat
    BY <1>1, GoodTip
  <1>3. QED BY <1>2 DEF StatusOnly

LEMMA FollowWrite ==
  ASSUME NEW a, NEW d, NEW e, Good(a, a.tip), Write(a, d), StatusOnly(d, e)
  PROVE  Write(a, e)
  <1>1. Good(d, d.tip) /\ Good(e, e.tip)
    BY DEF Write, StatusOnly
  <1>2. /\ a.sequence \in Nat /\ d.sequence \in Nat /\ e.sequence \in Nat
        /\ a.epoch \in Nat /\ d.epoch \in Nat /\ e.epoch \in Nat
    BY <1>1, GoodTip
  <1>3. CursorStep(a, d)
    BY Zenon DEF Write
  <1>4. CursorStep(a, e)
    BY <1>2, <1>3 DEF CursorStep, StatusOnly
  <1>5. QED BY <1>1, <1>4 DEF Write

-----------------------------------------------------------------------------
(* How a pass goes on. *)

LEMMA TurnOK ==
  ASSUME NEW tip \in Blocks, task.restarts \in 0 .. MaxBranchRestarts,
         Repin \/ NoteRestart \/ EndPass
  PROVE  TaskOK(task', tip)
  <1>1. CASE Repin
    BY <1>1, PinOK, Zenon DEF Repin
  <1>2. CASE NoteRestart
    <2>1. CASE task.restarts = MaxBranchRestarts
      BY <1>2, <2>1, IdleOK DEF NoteRestart
    <2>2. CASE task.restarts # MaxBranchRestarts
      <3>1. task.restarts + 1 \in 0 .. MaxBranchRestarts
        BY <2>2, SyncAssumption
      <3>2. task' = [Idle EXCEPT !.pc = "pin", !.restarts = task.restarts + 1]
        BY <1>2, <2>2 DEF NoteRestart
      <3>3. QED BY <3>1, <3>2, PinOK, Zenon
    <2>3. QED BY <2>1, <2>2
  <1>3. CASE EndPass
    BY <1>3, IdleOK DEF EndPass
  <1>4. QED BY <1>1, <1>2, <1>3

LEMMA CallOK ==
  ASSUME NEW tip \in Blocks, task.restarts \in 0 .. MaxBranchRestarts, NEW pc \in Calls
  PROVE  Waiting(Call(pc), pc, task.restarts) /\ TaskOK(Call(pc), tip)
  <1>1. PICK pin, restarts : pin = task.pin /\ restarts = task.restarts
    OBVIOUS
  <1>2. PICK t : t = [Idle EXCEPT !.pc = pc, !.pin = pin, !.restarts = restarts]
    BY Zenon
  <1>3. restarts \in 0 .. MaxBranchRestarts
    BY <1>1
  <1>4. Waiting(t, pc, restarts) /\ TaskOK(t, tip)
    BY <1>2, <1>3, FreshOK, Zenon
  <1>5. t = Call(pc)
    BY <1>1, <1>2, Zenon DEF Call
  <1>6. QED BY <1>1, <1>4, <1>5

LEMMA SearchOK ==
  ASSUME Counting, Good(db, db.tip), NEW t, TaskOK(t, db.tip), t.pc \in Calls, NEW from \in Nat,
         Search(t, from)
  PROVE  TaskOK(task', db.tip)
  <1>1. db.tip \in Blocks /\ Height[db.tip] \in Nat
    BY GoodTip
  <1>2. PICK depths : depths = Depths(t.pin, from)
    BY Zenon
  <1>3. depths \subseteq Nat /\ depths \subseteq 0 .. Height[db.tip]
    BY <1>1, <1>2, ChainAssumption DEF Depths
  <1>4. CASE depths # {}
    <2>1. PICK k : k = CHOOSE i \in depths : \A j \in depths : i <= j
      OBVIOUS
    <2>2. k \in depths
      <3>1. \E i \in depths : \A j \in depths : i <= j
        BY <1>3, <1>4, Least, Zenon
      <3>2. QED BY <2>1, <3>1, Zenon
    <2>3. task' = [t EXCEPT !.pc = "ancestor", !.depth = k]
      BY <1>2, <1>4, <2>1 DEF Search
    <2>4. "ancestor" \in Calls
      BY DEF Calls
    <2>5. QED BY <1>3, <2>2, <2>3, <2>4, DepthOK, Zenon
  <1>5. CASE depths = {}
    <2>1. PICK u : u = [t EXCEPT !.depth = 0]
      BY Zenon
    <2>2. CheckPin(u, "reconcile")
      BY <1>2, <1>5, <2>1 DEF Search
    <2>3. TaskOK(u, db.tip)
      <3>1. 0 \in 0 .. Height[db.tip]
        BY <1>1
      <3>2. QED BY <2>1, <3>1, DepthOK, Zenon
    <2>4. task' = [u EXCEPT !.pc = "pinned", !.guard = u.pin, !.next = "reconcile"]
      BY <2>2 DEF CheckPin
    <2>5. QED BY <2>3, <2>4, CheckPinOK, Zenon
  <1>6. QED BY <1>4, <1>5

LEMMA GoCanonicalOK ==
  ASSUME NEW d, Good(d, d.tip), task.restarts \in 0 .. MaxBranchRestarts, GoCanonical(d)
  PROVE  StatusOnly(d, db') /\ TaskOK(task', db'.tip)
  <1>1. d.tip \in Blocks
    BY GoodTip
  <1>2. StatusOnly(d, db')
    <2>1. "Syncing" \in Statuses
      BY DEF Statuses
    <2>2. db' = SetSyncStatus(d, "Syncing") \/ db' = d
      BY DEF GoCanonical
    <2>3. QED BY <2>1, <2>2, StatusOnlySelf, StatusOnlySet
  <1>3. db'.tip = d.tip
    BY <1>2 DEF StatusOnly
  <1>4. \/ Repin \/ NoteRestart
        \/ task' = Call("fetch")
        \/ CheckPin(Call("pinned"), "finish")
    BY DEF GoCanonical
  <1>5. "fetch" \in Calls /\ "pinned" \in Calls
    BY DEF Calls
  <1>6. CASE Repin \/ NoteRestart
    BY <1>1, <1>2, <1>3, <1>6, TurnOK
  <1>7. CASE task' = Call("fetch")
    BY <1>1, <1>2, <1>3, <1>5, <1>7, CallOK
  <1>8. CASE CheckPin(Call("pinned"), "finish")
    <2>1. PICK t : t = Call("pinned")
      OBVIOUS
    <2>2. TaskOK(t, d.tip)
      BY <1>1, <1>5, <2>1, CallOK
    <2>3. task' = [t EXCEPT !.pc = "pinned", !.guard = t.pin, !.next = "finish"]
      BY <1>8, <2>1 DEF CheckPin
    <2>4. TaskOK(task', d.tip)
      BY <2>2, <2>3, CheckPinOK, Zenon
    <2>5. QED BY <1>2, <1>3, <2>4
  <1>9. QED BY <1>4, <1>6, <1>7, <1>8

LEMMA BackfillTaskOK ==
  ASSUME NEW tip \in Blocks, task.restarts \in 0 .. MaxBranchRestarts, NEW block, NEW targets,
         NEW u, u = [Call("fetch") EXCEPT !.block = block, !.targets = targets]
  PROVE  TaskOK(u, tip)
  <1>1. PICK t : t = Call("fetch")
    OBVIOUS
  <1>2. "fetch" \in Calls /\ Waiting(t, "fetch", task.restarts)
    BY <1>1, CallOK DEF Calls
  <1>3. Waiting(u, "fetch", task.restarts)
    BY <1>1, <1>2, Zenon DEF IsTask, TaskFields, Waiting
  <1>4. QED BY <1>2, <1>3, WaitingOK, Zenon

\* The height of the contracts that are furthest behind, and those contracts.
Furthest(d) == CHOOSE k \in {d.progress[c].next[1] : c \in CatchingUp(d)} :
                  \A c \in CatchingUp(d) : k <= d.progress[c].next[1]
Batch(d) == {c \in CatchingUp(d) : d.progress[c].next[1] = Furthest(d)}

LEMMA GoBackfillOK ==
  ASSUME NEW d, Good(d, d.tip), task.restarts \in 0 .. MaxBranchRestarts, GoBackfill(d)
  PROVE  StatusOnly(d, db') /\ TaskOK(task', db'.tip)
  <1>1. d.tip \in Blocks
    BY GoodTip
  <1>2. PICK syncing : syncing = SetSyncStatus(d, "Syncing")
    OBVIOUS
  <1>3. StatusOnly(d, syncing)
    BY <1>2, StatusOnlySet DEF Statuses
  <1>4. Good(syncing, syncing.tip) /\ syncing.tip = d.tip
    BY <1>3 DEF StatusOnly
  <1>5. \/ GoCanonical(d)
        \/ GoCanonical(SetSyncStatus(d, "Syncing"))
        \/ /\ db' = SetSyncStatus(d, "Syncing")
           /\ task' = [Call("fetch") EXCEPT !.block = At(d.tip, Furthest(d)),
                                            !.targets = Batch(d)]
    BY Zenon DEF GoBackfill, Furthest, Batch
  <1>6. CASE GoCanonical(d)
    BY <1>6, GoCanonicalOK
  <1>7. CASE GoCanonical(syncing)
    <2>1. StatusOnly(syncing, db') /\ TaskOK(task', db'.tip)
      BY <1>4, <1>7, GoCanonicalOK
    <2>2. QED BY <1>3, <2>1, StatusOnlyTrans
  <1>8. CASE /\ db' = syncing
             /\ task' = [Call("fetch") EXCEPT !.block = At(d.tip, Furthest(d)),
                                              !.targets = Batch(d)]
    <2>1. TaskOK(task', d.tip)
      BY <1>1, <1>8, BackfillTaskOK, Zenon
    <2>2. QED BY <1>3, <1>4, <1>8, <2>1
  <1>9. QED BY <1>2, <1>5, <1>6, <1>7, <1>8

\* A block that was fetched is checked and then applied.
LEMMA FetchedOK ==
  ASSUME NEW tip, NEW t, TaskOK(t, tip), NEW b, t.targets = {} => b \in Blocks,
         NEW legs, NEW guard,
         NEW u, u = [t EXCEPT !.pc = "hash", !.block = b, !.legs = legs, !.guard = guard,
                              !.next = "apply"]
  PROVE  TaskOK(u, tip)
  <1>1. IsTask(t)
    BY DEF TaskOK
  <1>2. /\ IsTask(u) /\ u.pc = "hash" /\ u.depth = t.depth /\ u.next = "apply"
        /\ u.block = b /\ u.targets = t.targets /\ u.restarts = t.restarts
    BY <1>1, Zenon DEF IsTask, TaskFields
  <1>3. QED BY <1>2 DEF TaskOK, Calls

-----------------------------------------------------------------------------
(* Every action keeps the invariant, and writes as CursorStep says. *)

StepOK ==
    /\ Write(db, db')
    /\ TaskOK(task', db'.tip)
    /\ best' \in Blocks
    /\ EvidenceOK(evidence')

LEMMA InvFacts ==
  ASSUME Inv
  PROVE  /\ Good(db, db.tip) /\ Write(db, db) /\ db.tip \in Blocks /\ Height[db.tip] \in Nat
         /\ best \in Blocks /\ Height[best] \in Nat
         /\ TaskOK(task, db.tip) /\ task.restarts \in 0 .. MaxBranchRestarts
         /\ EvidenceOK(evidence)
  <1>1. Good(db, db.tip) /\ best \in Blocks /\ TaskOK(task, db.tip) /\ EvidenceOK(evidence)
    BY DEF Inv
  <1>2. db.tip \in Blocks /\ Height[db.tip] \in Nat /\ Write(db, db)
    BY <1>1, GoodTip, NoWrite, Zenon
  <1>3. Height[best] \in Nat
    BY <1>1, TreeFacts
  <1>4. task.restarts \in 0 .. MaxBranchRestarts
    BY <1>1 DEF TaskOK
  <1>5. QED BY <1>1, <1>2, <1>3, <1>4

\* The steps of a pass that leave the store as it is.
LEMMA QuietOK ==
  ASSUME Inv, UNCHANGED <<db, best, evidence>>, TaskOK(task', db.tip)
  PROVE  StepOK
  BY InvFacts, Zenon DEF StepOK

LEMMA BeginOK ==
  ASSUME Inv, Begin
  PROVE  StepOK
  <1>1. UNCHANGED <<best, evidence>> /\ Repin
    BY DEF Begin, Answered
  <1>2. db' = SetSyncStatus(db, "Syncing") \/ db' = db
    BY Zenon DEF Begin
  <1>3. StatusOnly(db, db')
    BY <1>2, InvFacts, StatusOnlySelf, StatusOnlySet, Zenon DEF Statuses
  <1>4. Write(db, db')
    BY <1>3, InvFacts, FollowWrite, Zenon
  <1>5. TaskOK(task', db'.tip)
    <2>1. db'.tip = db.tip
      BY <1>3 DEF StatusOnly
    <2>2. QED BY <1>1, <2>1, InvFacts, TurnOK
  <1>6. QED BY <1>1, <1>4, <1>5, InvFacts DEF StepOK

LEMMA PinStepOK ==
  ASSUME Counting, Inv, Pin
  PROVE  StepOK
  <1>1. UNCHANGED <<db, best, evidence>> /\ task.pc = "pin"
    BY DEF Pin, Answered
  <1>2. PICK t : t = [task EXCEPT !.pin = best]
    BY Zenon
  <1>3. TaskOK(t, db.tip) /\ t.pc = task.pc
    BY <1>2, InvFacts, PinChangeOK, Zenon
  <1>4. t.pc = "pin"
    BY <1>1, <1>3
  <1>5. task' = [t EXCEPT !.pc = "compare"] \/ Search(t, 1)
    BY <1>2, Zenon DEF Pin
  <1>6. TaskOK(task', db.tip)
    <2>1. "compare" \in Calls /\ t.pc \in Calls
      BY <1>4 DEF Calls
    <2>2. CASE task' = [t EXCEPT !.pc = "compare"]
      BY <1>3, <2>1, <2>2, CallChangeOK, Zenon
    <2>3. CASE Search(t, 1)
      BY <1>3, <2>1, <2>3, InvFacts, SearchOK
    <2>4. QED BY <1>5, <2>2, <2>3
  <1>7. QED BY <1>1, <1>6, QuietOK

LEMMA CompareOK ==
  ASSUME Counting, Inv, Compare
  PROVE  StepOK
  <1>1. UNCHANGED <<best, evidence>> /\ task.pc \in Calls
    BY Zenon DEF Compare, Answered, Calls
  <1>2. CASE GoBackfill(db)
    <2>1. StatusOnly(db, db') /\ TaskOK(task', db'.tip)
      BY <1>2, InvFacts, GoBackfillOK, Zenon
    <2>2. Write(db, db')
      BY <2>1, InvFacts, FollowWrite
    <2>3. QED BY <1>1, <2>1, <2>2, InvFacts, Zenon DEF StepOK
  <1>3. CASE Search(task, 1) /\ UNCHANGED db
    <2>1. TaskOK(task', db.tip)
      BY <1>1, <1>3, InvFacts, SearchOK
    <2>2. QED BY <1>1, <1>3, <2>1, QuietOK, Zenon
  <1>4. QED BY <1>2, <1>3 DEF Compare

LEMMA AncestorOK ==
  ASSUME Counting, Inv, Ancestor
  PROVE  StepOK
  <1>1. UNCHANGED <<db, best, evidence>> /\ task.pc \in Calls
    BY DEF Ancestor, Answered, Calls
  <1>2. CASE CheckPin(task, "reconcile")
    <2>1. TaskOK(task', db.tip)
      BY <1>2, InvFacts, CheckPinOK, Zenon DEF CheckPin
    <2>2. QED BY <1>1, <2>1, QuietOK
  <1>3. CASE Search(task, task.depth + 1)
    <2>1. task.depth + 1 \in Nat
      BY InvFacts DEF TaskOK
    <2>2. TaskOK(task', db.tip)
      BY <1>1, <1>3, <2>1, InvFacts, SearchOK
    <2>3. QED BY <1>1, <2>2, QuietOK
  <1>4. QED BY <1>2, <1>3 DEF Ancestor

LEMMA FetchOK ==
  ASSUME Counting, Inv, Fetch
  PROVE  StepOK
  <1>1. /\ UNCHANGED <<db, best, evidence>> /\ task.pc = "fetch"
        /\ Height[best] >= AskedHeight
    BY DEF Fetch, Answered
  <1>2. PICK b, guard, legs :
            /\ b = BlockHash
            /\ guard = IF task.targets = {} THEN task.pin ELSE db.tip
            /\ legs = Interpretation(b)
    OBVIOUS
  <1>3. \/ EndPass \/ NoteRestart
        \/ task' = [task EXCEPT !.pc = "hash", !.block = b, !.legs = legs, !.guard = guard,
                                !.next = "apply"]
    BY <1>2, Zenon DEF Fetch
  <1>4. CASE EndPass \/ NoteRestart
    <2>1. TaskOK(task', db.tip)
      BY <1>4, InvFacts, TurnOK, Zenon
    <2>2. QED BY <1>1, <2>1, QuietOK, Zenon
  <1>5. CASE task' = [task EXCEPT !.pc = "hash", !.block = b, !.legs = legs, !.guard = guard,
                                  !.next = "apply"]
    <2>1. task.targets = {} => b \in Blocks
      <3>1. SUFFICES ASSUME task.targets = {} PROVE b \in Blocks
        OBVIOUS
      <3>2. AskedHeight = Height[db.tip] + 1
        BY <1>1, <3>1, Zenon DEF AskedHeight
      <3>3. AskedHeight \in 0 .. Height[best]
        BY <1>1, <3>2, InvFacts
      <3>4. QED BY <1>2, <3>3, InvFacts, AtFacts DEF BlockHash
    <2>2. TaskOK(task', db.tip)
      BY <1>5, <2>1, InvFacts, FetchedOK, Zenon
    <2>3. QED BY <1>1, <2>2, QuietOK
  <1>6. QED BY <1>3, <1>4, <1>5

LEMMA CheckHashOK ==
  ASSUME Inv, CheckHash
  PROVE  StepOK
  <1>1. UNCHANGED <<db, best, evidence>>
    BY DEF CheckHash, Answered
  <1>2. task' = [task EXCEPT !.pc = "pinned"] \/ NoteRestart
    BY DEF CheckHash
  <1>3. "pinned" \in Calls
    BY DEF Calls
  <1>4. TaskOK(task', db.tip)
    BY <1>2, <1>3, InvFacts, TurnOK, CallChangeOK
  <1>5. QED BY <1>1, <1>4, QuietOK

LEMMA PinLostOK ==
  ASSUME Inv, PinLost
  PROVE  StepOK
  <1>1. UNCHANGED <<db, best, evidence>> /\ NoteRestart
    BY Zenon DEF PinLost
  <1>2. TaskOK(task', db.tip)
    BY <1>1, InvFacts, TurnOK, Zenon
  <1>3. QED BY <1>1, <1>2, QuietOK

\* A step that writes the store and goes on with a fresh turn or ends the pass.
LEMMA WriteAndTurn ==
  ASSUME Inv, Write(db, db'), Repin \/ NoteRestart \/ EndPass, best' = best,
         EvidenceOK(evidence')
  PROVE  StepOK
  <1>1. db'.tip \in Blocks
    BY GoodTip, Zenon DEF Write
  <1>2. TaskOK(task', db'.tip)
    BY <1>1, InvFacts, TurnOK, Zenon
  <1>3. QED BY <1>2, InvFacts, Zenon DEF StepOK

LEMMA ReconcileOK ==
  ASSUME Counting, Inv, Reconcile
  PROVE  StepOK
  <1>1. UNCHANGED <<best, evidence>>
    BY DEF Reconcile, PinHolds, Answered
  <1>2. db' = MarkRebuildRequired(db) \/ db' = RollbackTo(db, task.depth)
    BY Zenon DEF Reconcile
  <1>3. task.depth \in Nat /\ task.depth <= Height[db.tip]
    BY InvFacts DEF TaskOK
  <1>4. Write(db, db')
    BY <1>2, <1>3, InvFacts, MarkRebuildRequiredWrite, RollbackToWrite
  <1>5. EndPass \/ Repin
    BY Zenon DEF Reconcile
  <1>6. QED BY <1>1, <1>4, <1>5, InvFacts, WriteAndTurn

LEMMA ApplyWrite ==
  ASSUME Counting, Inv, task.next = "apply", task.targets = {}, NEW after,
         after = ApplyBlock(db, task.block, task.legs), after # Null
  PROVE  Write(db, after)
  <1>1. task.block \in Blocks
    BY InvFacts, Zenon DEF TaskOK
  <1>2. /\ Good(after, after.tip) /\ after.tip = task.block
        /\ Height[task.block] = Height[db.tip] + 1
        /\ after.epoch = db.epoch /\ after.sequence >= db.sequence
    BY <1>1, InvFacts, ApplyBlockGood
  <1>3. after.tip # db.tip
    BY <1>2, InvFacts
  <1>4. QED BY <1>2, <1>3, Zenon DEF Write, CursorStep

LEMMA BackfillWrite ==
  ASSUME Counting, Inv, task.targets # {}, NEW after,
         after = ApplyBackfillBlock(db, task.block, task.targets, task.legs), after # Null
  PROVE  Write(db, after)
  <1>1. /\ Good(after, after.tip) /\ after.tip = db.tip
        /\ after.epoch = db.epoch /\ after.sequence > db.sequence
    BY InvFacts, ApplyBackfillBlockGood
  <1>2. db.sequence \in Nat /\ after.sequence \in Nat
    BY <1>1, InvFacts, GoodTip, Zenon
  <1>3. after.sequence >= db.sequence /\ after.sequence # db.sequence
    BY <1>1, <1>2
  <1>4. QED BY <1>1, <1>3, Zenon DEF Write, CursorStep

LEMMA ApplyOK ==
  ASSUME Counting, Inv, Apply
  PROVE  StepOK
  <1>1. UNCHANGED <<best, evidence>> /\ task.next = "apply"
    BY Zenon DEF Apply, PinHolds, Answered
  <1>2. PICK after : after = IF task.targets = {} THEN ApplyBlock(db, task.block, task.legs)
                             ELSE ApplyBackfillBlock(db, task.block, task.targets, task.legs)
    OBVIOUS
  <1>3. \/ after = Null /\ EndPass /\ UNCHANGED db
        \/ after # Null /\ task.targets # {} /\ GoBackfill(after)
        \/ after # Null /\ task.targets = {} /\ GoCanonical(after)
    BY <1>2, Zenon DEF Apply
  <1>4. CASE after = Null /\ EndPass /\ UNCHANGED db
    BY <1>1, <1>4, InvFacts, WriteAndTurn, Zenon
  <1>5. CASE after # Null /\ task.targets # {} /\ GoBackfill(after)
    <2>1. Write(db, after)
      BY <1>2, <1>5, BackfillWrite, Zenon
    <2>2. StatusOnly(after, db') /\ TaskOK(task', db'.tip)
      BY <1>5, <2>1, InvFacts, GoBackfillOK, Zenon DEF Write
    <2>3. Write(db, db')
      BY <2>1, <2>2, InvFacts, FollowWrite, Zenon
    <2>4. QED BY <1>1, <2>2, <2>3, InvFacts, Zenon DEF StepOK
  <1>6. CASE after # Null /\ task.targets = {} /\ GoCanonical(after)
    <2>1. Write(db, after)
      BY <1>1, <1>2, <1>6, ApplyWrite, Zenon
    <2>2. StatusOnly(after, db') /\ TaskOK(task', db'.tip)
      BY <1>6, <2>1, InvFacts, GoCanonicalOK DEF Write
    <2>3. Write(db, db')
      BY <2>1, <2>2, InvFacts, FollowWrite
    <2>4. QED BY <1>1, <2>2, <2>3, InvFacts DEF StepOK
  <1>7. QED BY <1>3, <1>4, <1>5, <1>6

LEMMA FinishOK ==
  ASSUME Inv, Finish
  PROVE  StepOK
  <1>1. UNCHANGED <<best, evidence>>
    BY DEF Finish, PinHolds, Answered
  <1>2. db' = SetSyncStatus(db, "Ready") \/ db' = db
    BY Zenon DEF Finish
  <1>3. StatusOnly(db, db')
    BY <1>2, InvFacts, StatusOnlySelf, StatusOnlySet DEF Statuses
  <1>4. Write(db, db')
    BY <1>3, InvFacts, FollowWrite
  <1>5. EndPass \/ Repin
    BY Zenon DEF Finish
  <1>6. QED BY <1>1, <1>4, <1>5, InvFacts, WriteAndTurn

LEMMA SourceErrorOK ==
  ASSUME Inv, SourceError
  PROVE  StepOK
  <1>1. /\ UNCHANGED <<best, evidence>> /\ EndPass
        /\ db' = SetSyncStatus(db, "BackendUnavailable")
    BY Zenon DEF SourceError
  <1>2. StatusOnly(db, db')
    BY <1>1, InvFacts, StatusOnlySet, Zenon DEF Statuses
  <1>3. Write(db, db')
    BY <1>2, InvFacts, FollowWrite
  <1>4. QED BY <1>1, <1>3, InvFacts, WriteAndTurn

LEMMA MoveSourceOK ==
  ASSUME Inv, MoveSource
  PROVE  StepOK
  BY InvFacts DEF MoveSource, StepOK

LEMMA FetchEvidenceOK ==
  ASSUME Counting, Inv, NEW c \in Contracts, FetchEvidence(c)
  PROVE  StepOK
  <1>1. PICK b \in Chain[best] : /\ CreationIndex(b, c) # Null
                                 /\ evidence' = [evidence EXCEPT ![c] = b]
    BY Zenon DEF FetchEvidence
  <1>2. b \in Blocks
    BY InvFacts, ChainFacts, Zenon
  <1>3. CreationIndex(b, c) \in DOMAIN Body[b]
    BY <1>1, Zenon DEF CreationIndex
  <1>4. EvidenceOK(evidence')
    BY <1>1, <1>2, <1>3, InvFacts, Zenon DEF EvidenceOK
  <1>5. UNCHANGED <<db, best, task>>
    BY DEF FetchEvidence
  <1>6. QED BY <1>4, <1>5, InvFacts, Zenon DEF StepOK

LEMMA NoEvidenceOK ==
  EvidenceOK([c \in Contracts |-> Null])
  BY Zenon DEF EvidenceOK

LEMMA RegisterOK ==
  ASSUME Counting, Inv, NEW P \in SUBSET Contracts, Register(P)
  PROVE  StepOK
  <1>1. UNCHANGED <<best, task>> /\ db' = RegisterContracts(db, P, evidence)
    BY Zenon DEF Register
  <1>2. \A c \in P : CreationIndex(evidence[c], c) \in DOMAIN Body[evidence[c]]
    BY InvFacts, Zenon DEF Register, EvidenceOK
  <1>3. Write(db, db') /\ db'.tip = db.tip
    BY <1>1, <1>2, InvFacts, RegisterContractsWrite, Zenon
  <1>4. EvidenceOK(evidence')
    BY InvFacts, Zenon DEF Register, EvidenceOK
  <1>5. TaskOK(task', db'.tip)
    BY <1>1, <1>3, InvFacts, Zenon
  <1>6. QED BY <1>1, <1>3, <1>4, <1>5, InvFacts DEF StepOK

LEMMA CrashOK ==
  ASSUME Inv, Crash
  PROVE  StepOK
  <1>1. UNCHANGED <<db, best>> /\ EndPass /\ evidence' = [c \in Contracts |-> Null]
    BY Zenon DEF Crash
  <1>2. QED BY <1>1, InvFacts, NoEvidenceOK, WriteAndTurn

LEMMA RebuildOK ==
  ASSUME Inv, Rebuild
  PROVE  StepOK
  <1>1. /\ UNCHANGED <<best, task>> /\ task.pc = "idle" /\ db' = ResetForRebuild(db)
        /\ evidence' = [c \in Contracts |-> Null]
    BY Zenon DEF Rebuild
  <1>2. Write(db, db')
    BY <1>1, InvFacts, ResetForRebuildWrite
  <1>3. Height[db'.tip] \in Nat
    BY <1>2, GoodTip, Zenon DEF Write
  <1>4. TaskOK(task', db'.tip)
    BY <1>1, <1>3, InvFacts DEF TaskOK
  <1>5. QED BY <1>1, <1>2, <1>4, InvFacts, NoEvidenceOK DEF StepOK

LEMMA InitOK ==
  ASSUME Init
  PROVE  Inv
  <1>1. PICK none, undo : /\ none = [c \in Contracts |-> Null]
                          /\ undo = [h \in Heights |-> Null]
    BY Zenon
  <1>2. db = [tip |-> Activation, status |-> "Starting", epoch |-> 0, sequence |-> 0,
              contract |-> none, retained |-> {}, progress |-> none, history |-> {},
              transactions |-> {}, undo |-> undo]
    BY <1>1, Zenon DEF Init, EmptyStore
  <1>3. Good(db, db.tip)
    <2>1. /\ IsStore(db) /\ db.tip = Activation /\ db.status = "Starting"
          /\ db.epoch = 0 /\ db.sequence = 0 /\ db.contract = none /\ db.retained = {}
          /\ db.progress = none /\ db.history = {} /\ db.transactions = {} /\ db.undo = undo
      BY <1>2, Zenon DEF IsStore, Columns
    <2>2. TablesTyped(db)
      BY <1>1, <2>1, ChainAssumption DEF TablesTyped, Statuses, TreeAssumption
    <2>3. JournalOK(db.undo, db.tip)
      BY <1>1, <2>1, Zenon DEF JournalOK
    <2>4. QED BY <2>1, <2>2, <2>3, Zenon DEF Good, AllCanonical, RowsCovered, HistoryCovered
  <1>4. TaskOK(task, db.tip)
    BY <1>3, GoodTip, IdleOK DEF Init
  <1>5. QED BY <1>3, <1>4, NoEvidenceOK DEF Inv, Init

LEMMA NextOK ==
  ASSUME Counting, Inv, Next
  PROVE  StepOK
  <1>1. CASE PassStep
    BY <1>1, PinStepOK, CompareOK, AncestorOK, FetchOK, CheckHashOK, PinLostOK, ReconcileOK,
       ApplyOK, FinishOK DEF PassStep
  <1>2. CASE Begin \/ SourceError \/ MoveSource \/ Crash \/ Rebuild
    BY <1>2, BeginOK, SourceErrorOK, MoveSourceOK, CrashOK, RebuildOK
  <1>3. CASE \E c \in Contracts : FetchEvidence(c)
    BY <1>3, FetchEvidenceOK
  <1>4. CASE \E P \in SUBSET Contracts : Register(P)
    BY <1>4, RegisterOK
  <1>5. QED BY <1>1, <1>2, <1>3, <1>4 DEF Next

LEMMA StepKeepsInv ==
  ASSUME Counting, Inv, [Next]_vars
  PROVE  Inv'
  <1>1. CASE Next
    <2>1. StepOK
      BY <1>1, NextOK, Zenon
    <2>2. QED BY <2>1 DEF StepOK, Write, Inv
  <1>2. CASE UNCHANGED vars
    BY <1>2, Zenon DEF vars, Inv
  <1>3. QED BY <1>1, <1>2

-----------------------------------------------------------------------------
(* The theorems. *)

Sets == INSTANCE FiniteSetTheorems
Order == INSTANCE WellFoundedInduction

\* The facts about numbers that the lemmas start from.
LEMMA CountingHolds ==
  Counting
  <1>1. ASSUME NEW T \in SUBSET Nat, T # {}
        PROVE  \E x \in T : \A y \in T : x <= y
    <2>1. Order!IsWellFoundedOn(Order!OpToRel(<, Nat), Nat)
      BY Order!NatLessThanWellFounded, Zenon
    <2>2. PICK x \in T : \A y \in T : ~(<<y, x>> \in Order!OpToRel(<, Nat))
      BY <1>1, <2>1, Order!WFMin, Zenon
    <2>3. ASSUME NEW y \in T PROVE x <= y
      <3>1. <<y, x>> \in Order!OpToRel(<, Nat) <=> y < x
        BY Zenon DEF Order!OpToRel
      <3>2. ~(y < x)
        BY <2>2, <3>1, Zenon
      <3>3. QED BY <3>2
    <2>4. QED BY <2>3, Zenon
  <1>2. ASSUME NEW S
        PROVE  (IsFiniteSet(S) <=> Sets!IsFiniteSet(S)) /\ Cardinality(S) = Sets!Cardinality(S)
    BY Zenon DEF IsFiniteSet, Sets!IsFiniteSet, Cardinality, Sets!Cardinality
  <1>3. ASSUME NEW S \in SUBSET Contracts
        PROVE  /\ Cardinality(S) \in Nat
               /\ S # {} => Cardinality(S) > 0
               /\ \A c \in S : Cardinality(S \ {c}) = Cardinality(S) - 1
               /\ \A X \in SUBSET S : Cardinality(X) <= Cardinality(S)
    <2>1. Sets!IsFiniteSet(S)
      BY <1>2, ChainAssumption, Sets!FS_Subset, Zenon
    <2>2. Cardinality(S) \in Nat
      BY <1>2, <2>1, Sets!FS_CardinalityType, Zenon
    <2>3. S # {} => Cardinality(S) # 0
      BY <1>2, <2>1, Sets!FS_EmptySet, Zenon
    <2>4. \A c \in S : Cardinality(S \ {c}) = Cardinality(S) - 1
      BY <1>2, <2>1, Sets!FS_RemoveElement, Zenon
    <2>5. \A X \in SUBSET S : Cardinality(X) <= Cardinality(S)
      BY <1>2, <2>1, Sets!FS_Subset
    <2>6. QED BY <2>2, <2>3, <2>4, <2>5
  <1>4. Cardinality({}) = 0
    BY <1>2, Sets!FS_EmptySet, Zenon
  <1>5. QED BY <1>1, <1>3, <1>4, Zenon DEF Counting

\* The store, the pass and the registrations satisfy the invariant in every
\* reachable state: the undo records that are retained cover every row and every
\* history entry of their height.
THEOREM StoreAlwaysGood == Spec => []Inv
  <1>1. Init => Inv
    BY InitOK, Zenon
  <1>2. Inv /\ [Next]_vars => Inv'
    BY CountingHolds, StepKeepsInv, Zenon
  <1>3. QED BY <1>1, <1>2, PTL DEF Spec

\* Type correctness of the node's chain index.
THEOREM TypeCorrect == Spec => []TypeOK
  <1>1. Inv => TypeOK
    <2>1. SUFFICES ASSUME Inv PROVE TypeOK
      BY Zenon
    <2>2. TablesTyped(db)
      BY <2>1, Zenon DEF Inv, Good
    <2>3. task.pc \in {"idle"} \cup Calls /\ task.restarts \in 0 .. MaxBranchRestarts
      BY <2>1, Zenon DEF Inv, TaskOK
    <2>4. best \in Blocks /\ evidence \in [Contracts -> Blocks \cup {Null}]
      BY <2>1, Zenon DEF Inv, EvidenceOK
    <2>5. QED BY <2>2, <2>3, <2>4 DEF TypeOK, TablesTyped
  <1>2. QED BY <1>1, StoreAlwaysGood, PTL

\* No reorganisation, backfill, registration or crash leaves a row of a
\* transaction, or an entry of a contract's history, that is not of the indexed
\* chain: apply_block, apply_backfill_block, register_contracts, rollback_to and
\* reset_for_rebuild together keep the first two conjuncts of EvidenceIsCanonical.
THEOREM RowsStayCanonical ==
  Spec => [](OnIndexedChain(db.transactions) /\ OnIndexedChain(db.history))
  <1>1. Inv => OnIndexedChain(db.transactions) /\ OnIndexedChain(db.history)
    BY DEF Inv, Good, AllCanonical, Canonical, OnIndexedChain
  <1>2. QED BY <1>1, StoreAlwaysGood, PTL

\* No write of the store, by whichever action, lets a cursor come back for other
\* data.
THEOREM CursorsStayUnique == Spec => CursorsAreNotReused
  <1>1. Inv /\ [Next]_vars =>
            [/\ \/ db'.epoch > db.epoch
                \/ db'.epoch = db.epoch /\ db'.sequence >= db.sequence
             /\ <<db.contract, db.history, db.transactions>>'
                # <<db.contract, db.history, db.transactions>>
                   => <<db.tip, db.epoch, db.sequence>>' # <<db.tip, db.epoch, db.sequence>>]_vars
    <2>1. SUFFICES ASSUME Inv, Next
                   PROVE  CursorStep(db, db')
      BY Zenon DEF CursorStep
    <2>2. QED BY <2>1, CountingHolds, NextOK DEF StepOK, Write
  <1>2. QED BY <1>1, StoreAlwaysGood, PTL DEF Spec, CursorsAreNotReused

=============================================================================
