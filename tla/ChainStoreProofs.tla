-------------------------- MODULE ChainStoreProofs --------------------------
(***************************************************************************)
(* What one write of the node's store does, whatever calls it: for any     *)
(* tree of blocks and any transactions, every write keeps the store sound  *)
(* (Good) and moves its cursors on (CursorStep).                           *)
(*                                                                         *)
(* The chain of a block, the application of a block and a rollback are     *)
(* recursive functions.  What they compute is shown by induction over a    *)
(* set: the heights of the tree, the transactions of a block, the blocks   *)
(* undone.  Late registration is in ChainSyncProofs.                       *)
(***************************************************************************)
EXTENDS ChainStore, TLAPS

-----------------------------------------------------------------------------
(* Induction. *)

\* What the lemmas on the chain index need to know of numbers: a nonempty set of
\* natural numbers has a least element, and a set of contracts has a number of
\* members.  ChainSyncProofs ends with the proof that this holds (CountingHolds).
Counting ==
    /\ \A T \in SUBSET Nat : T # {} => \E x \in T : \A y \in T : x <= y
    /\ Cardinality({}) = 0
    /\ \A S \in SUBSET Contracts :
         /\ Cardinality(S) \in Nat
         /\ S # {} => Cardinality(S) > 0
         /\ \A c \in S : Cardinality(S \ {c}) = Cardinality(S) - 1
         /\ \A X \in SUBSET S : Cardinality(X) <= Cardinality(S)

\* A nonempty set of natural numbers has a least element.
LEMMA Least ==
  ASSUME Counting,
         NEW T, T \subseteq Nat, T # {}
  PROVE  \E x \in T : \A y \in T : x <= y
  BY Zenon DEF Counting

\* What holds of 0 and is handed on holds up to N.
LEMMA UpTo ==
  ASSUME Counting,
         NEW N \in Nat, NEW S, 0 \in S, \A n \in 1 .. N : n - 1 \in S => n \in S
  PROVE  \A n \in 0 .. N : n \in S
  <1> DEFINE T == {n \in Nat : n <= N /\ n \notin S}
  <1> SUFFICES ASSUME T # {} PROVE FALSE
    OBVIOUS
  <1>1. PICK n \in T : \A m \in T : n <= m
    BY Least, Zenon
  <1>2. n # 0 /\ n - 1 \in Nat /\ n - 1 \notin T
    BY <1>1
  <1>3. QED BY <1>1, <1>2

(* The tree of blocks. *)

\* Heights count the steps from the anchor.
LEMMA TreeFacts ==
  ASSUME NEW b \in Blocks
  PROVE  /\ Height[b] \in Nat
         /\ b = Activation => Height[b] = 0
         /\ b # Activation => /\ Parent[b] \in Blocks
                              /\ Height[Parent[b]] \in Nat
                              /\ Height[b] = Height[Parent[b]] + 1
  <1>1. Height[b] \in Nat /\ Height[Activation] = 0
    BY ChainAssumption DEF TreeAssumption
  <1>2. ASSUME b # Activation
        PROVE  Parent[b] \in Blocks /\ Height[Parent[b]] \in Nat
               /\ Height[b] = Height[Parent[b]] + 1
    BY <1>2, ChainAssumption DEF TreeAssumption
  <1>3. QED BY <1>1, <1>2

\* What holds of the anchor and is handed on to children holds of every block.
LEMMA TreeInduction ==
  ASSUME Counting,
         NEW S, Activation \in S,
         \A b \in Blocks \ {Activation} : Parent[b] \in S => b \in S
  PROVE  Blocks \subseteq S
  <1> DEFINE T == {Height[b] : b \in Blocks \ S}
  <1> SUFFICES ASSUME Blocks \ S # {} PROVE FALSE
    OBVIOUS
  <1>0. Activation \in Blocks
    BY ChainAssumption DEF TreeAssumption
  <1>1. T \subseteq Nat /\ T # {}
    BY TreeFacts
  <1>2. PICK h \in T : \A k \in T : h <= k
    BY <1>1, Least, Zenon
  <1>3. PICK b \in Blocks \ S : Height[b] = h
    OBVIOUS
  <1>4. b # Activation /\ Parent[b] \in Blocks /\ Height[Parent[b]] = Height[b] - 1
        /\ Height[b] \in Nat
    BY TreeFacts
  <1>5. Parent[b] \in S
    BY <1>2, <1>3, <1>4
  <1>6. QED BY <1>4, <1>5

-----------------------------------------------------------------------------
(* The chain of a block. *)

\* A table of chains for the blocks up to height n.
IsChains(g, n) ==
    g = [b \in {a \in Blocks : Height[a] <= n} |->
            IF b = Activation THEN {b} ELSE g[Parent[b]] \cup {b}]

\* There is one for every height.
LEMMA ChainsExist ==
  ASSUME Counting
  PROVE  \A n \in Nat : \E g : IsChains(g, n)
  <1> DEFINE Bad == {n \in Nat : ~\E g : IsChains(g, n)}
  <1> SUFFICES ASSUME Bad # {} PROVE FALSE
    OBVIOUS
  <1>1. PICK n \in Bad : \A m \in Bad : n <= m
    <2> HIDE DEF IsChains
    <2> QED BY Least, Zenon
  <1>2. CASE n = 0
    <2>1. \A b \in Blocks : Height[b] <= 0 => b = Activation
      BY TreeFacts
    <2>2. IsChains([b \in {a \in Blocks : Height[a] <= 0} |-> {b}], 0)
      BY <2>1 DEF IsChains
    <2>3. QED BY <1>2, <2>2
  <1>3. CASE n # 0
    <2>1. n - 1 \in Nat /\ n - 1 \notin Bad
      BY <1>1, <1>3
    <2>2. PICK g : IsChains(g, n - 1)
      BY <2>1
    <2> DEFINE f == [b \in {a \in Blocks : Height[a] <= n} |->
                        IF Height[b] <= n - 1 THEN g[b] ELSE g[Parent[b]] \cup {b}]
    <2>3. ASSUME NEW b \in Blocks, Height[b] <= n
          PROVE  f[b] = IF b = Activation THEN {b} ELSE f[Parent[b]] \cup {b}
      <3>1. CASE b = Activation
        <4>1. Height[b] <= n - 1
          BY <3>1, <2>1, TreeFacts
        <4>2. g[b] = {b}
          BY <2>2, <3>1, <4>1 DEF IsChains
        <4>3. QED BY <2>3, <3>1, <4>1, <4>2
      <3>2. CASE b # Activation
        <4>1. Parent[b] \in Blocks /\ Height[Parent[b]] = Height[b] - 1 /\ Height[b] \in Nat
              /\ Height[Parent[b]] \in Nat
          BY <3>2, TreeFacts
        <4>2. f[Parent[b]] = g[Parent[b]]
          BY <2>3, <4>1
        <4>3. Height[b] <= n - 1 => g[b] = g[Parent[b]] \cup {b}
          BY <2>2, <3>2, Zenon DEF IsChains
        <4>4. QED BY <2>3, <3>2, <4>2, <4>3, Zenon
      <3>3. QED BY <3>1, <3>2
    <2>4. IsChains(f, n)
      BY <2>3, Zenon DEF IsChains
    <2>5. QED BY <2>4
  <1>4. QED BY <1>2, <1>3

\* Two of them agree where both are defined.
LEMMA ChainsAgree ==
  ASSUME Counting,
         NEW m \in Nat, NEW n \in Nat, m <= n, NEW f, IsChains(f, m), NEW g, IsChains(g, n)
  PROVE  \A b \in Blocks : Height[b] <= m => f[b] = g[b]
  <1> DEFINE S == {b \in Blocks : Height[b] <= m => f[b] = g[b]}
  <1>1. ASSUME NEW b \in Blocks, Height[b] <= m, Height[b] \in Nat
        PROVE  /\ f[b] = IF b = Activation THEN {b} ELSE f[Parent[b]] \cup {b}
               /\ g[b] = IF b = Activation THEN {b} ELSE g[Parent[b]] \cup {b}
    <2>1. Height[b] <= n
      BY <1>1
    <2>2. QED BY <1>1, <2>1, Zenon DEF IsChains
  <1>2. Activation \in S
    BY <1>1, TreeFacts, ChainAssumption, Zenon DEF TreeAssumption
  <1>3. ASSUME NEW b \in Blocks \ {Activation}, Parent[b] \in S PROVE b \in S
    <2>1. Height[b] = Height[Parent[b]] + 1 /\ Height[b] \in Nat /\ Height[Parent[b]] \in Nat
      BY TreeFacts
    <2>2. ASSUME Height[b] <= m PROVE f[b] = g[b]
      <3>1. f[Parent[b]] = g[Parent[b]]
        BY <1>3, <2>1, <2>2
      <3>2. b \in Blocks /\ b # Activation
        OBVIOUS
      <3>3. f[b] = f[Parent[b]] \cup {b} /\ g[b] = g[Parent[b]] \cup {b}
        BY <1>1, <2>1, <2>2, <3>2, Zenon
      <3>4. QED BY <3>1, <3>3, Zenon
    <2>3. QED BY <2>2
  <1>4. Blocks \subseteq S
    <2> HIDE DEF S
    <2> QED BY <1>2, <1>3, TreeInduction
  <1>5. QED BY <1>4

\* The chain of a block is that of its parent, and the block.
LEMMA ChainDef ==
  ASSUME Counting
  PROVE  \A b \in Blocks : Chain[b] = IF b = Activation THEN {b} ELSE Chain[Parent[b]] \cup {b}
  <1> DEFINE table(n) == CHOOSE g : IsChains(g, n)
             G == [b \in Blocks |-> table(Height[b])[b]]
  <1>1. \A n \in Nat : IsChains(table(n), n)
    <2> HIDE DEF IsChains
    <2> QED BY ChainsExist
  <1>2. ASSUME NEW b \in Blocks
        PROVE  G[b] = IF b = Activation THEN {b} ELSE G[Parent[b]] \cup {b}
    <2>1. Height[b] \in Nat
      BY TreeFacts
    <2>2. table(Height[b])[b] =
             IF b = Activation THEN {b} ELSE table(Height[b])[Parent[b]] \cup {b}
      <3>1. PICK t : t = table(Height[b])
        OBVIOUS
      <3>2. IsChains(t, Height[b])
        BY <1>1, <2>1, <3>1
      <3>3. t[b] = IF b = Activation THEN {b} ELSE t[Parent[b]] \cup {b}
        <4>1. Height[b] <= Height[b]
          BY <2>1
        <4>2. QED BY <3>2, <4>1, Zenon DEF IsChains
      <3>4. QED BY <3>1, <3>3, Zenon
    <2>3. CASE b = Activation
      BY <2>2, <2>3
    <2>4. CASE b # Activation
      <3>1. Parent[b] \in Blocks /\ Height[Parent[b]] \in Nat /\ Height[Parent[b]] <= Height[b]
        BY <2>4, TreeFacts
      <3>2. PICK t, u : t = table(Height[b]) /\ u = table(Height[Parent[b]])
        OBVIOUS
      <3>3. IsChains(t, Height[b]) /\ IsChains(u, Height[Parent[b]])
        BY <1>1, <2>1, <3>1, <3>2
      <3>4. u[Parent[b]] = t[Parent[b]]
        BY <2>1, <3>1, <3>3, ChainsAgree
      <3>5. G[Parent[b]] = u[Parent[b]] /\ G[b] = t[b]
        BY <3>1, <3>2
      <3>6. QED BY <2>2, <2>4, <3>2, <3>4, <3>5, Zenon
    <2>5. QED BY <2>3, <2>4
  <1>3. G = [b \in Blocks |-> IF b = Activation THEN {b} ELSE G[Parent[b]] \cup {b}]
    <2> HIDE DEF table
    <2> QED BY <1>2, Zenon
  <1> HIDE DEF G
  <1>4. Chain = [b \in Blocks |-> IF b = Activation THEN {b} ELSE Chain[Parent[b]] \cup {b}]
    BY <1>3, Zenon DEF Chain
  <1>5. QED BY <1>4, Zenon

\* A chain has one block of every height up to that of its last block.
LEMMA ChainFacts ==
  ASSUME Counting,
         NEW b \in Blocks
  PROVE  /\ Chain[b] \subseteq Blocks
         /\ b \in Chain[b]
         /\ \A a \in Chain[b] : Height[a] <= Height[b]
         /\ \A x, y \in Chain[b] : Height[x] = Height[y] => x = y
         /\ \A h \in 0 .. Height[b] : \E a \in Chain[b] : Height[a] = h
  <1> DEFINE Fine(x) == /\ Chain[x] \subseteq Blocks
                        /\ x \in Chain[x]
                        /\ \A a \in Chain[x] : Height[a] <= Height[x]
                        /\ \A y, z \in Chain[x] : Height[y] = Height[z] => y = z
                        /\ \A h \in 0 .. Height[x] : \E a \in Chain[x] : Height[a] = h
             S == {x \in Blocks : Fine(x)}
  <1>1. Activation \in S
    <2>1. Activation \in Blocks
      BY ChainAssumption DEF TreeAssumption
    <2>2. Chain[Activation] = {Activation} /\ Height[Activation] = 0
      BY <2>1, ChainDef, TreeFacts, Zenon
    <2>3. QED BY <2>1, <2>2
  <1>2. ASSUME NEW x \in Blocks \ {Activation}, Parent[x] \in S PROVE x \in S
    <2>1. PICK p \in Blocks : p = Parent[x] /\ Fine(p)
      BY <1>2
    <2>2. Chain[x] = Chain[p] \cup {x}
      BY <2>1, ChainDef, Zenon
    <2>3. Height[x] \in Nat /\ Height[p] \in Nat /\ Height[x] = Height[p] + 1
      BY <2>1, TreeFacts
    <2>4. \A a \in Chain[p] : Height[a] \in Nat /\ Height[a] <= Height[p]
      BY <2>1, TreeFacts
    <2>5. \A a \in Chain[x] : Height[a] <= Height[x]
      BY <2>2, <2>3, <2>4
    <2>6. \A y, z \in Chain[x] : Height[y] = Height[z] => y = z
      BY <2>1, <2>2, <2>3, <2>4
    <2>7. \A h \in 0 .. Height[x] : \E a \in Chain[x] : Height[a] = h
      <3> TAKE h \in 0 .. Height[x]
      <3>1. CASE h = Height[x]
        BY <2>2, <3>1
      <3>2. CASE h # Height[x]
        <4>1. h \in 0 .. Height[p]
          BY <2>3, <3>2
        <4>2. QED BY <2>1, <2>2, <4>1
      <3>3. QED BY <3>1, <3>2
    <2>8. QED BY <2>1, <2>2, <2>5, <2>6, <2>7
  <1>3. Blocks \subseteq S
    <2> HIDE DEF S
    <2> QED BY <1>1, <1>2, TreeInduction
  <1>4. QED BY <1>3

\* The block of a chain at a height.
LEMMA AtFacts ==
  ASSUME Counting,
         NEW b \in Blocks, NEW h \in 0 .. Height[b]
  PROVE  At(b, h) \in Chain[b] /\ At(b, h) \in Blocks /\ Height[At(b, h)] = h
  BY ChainFacts DEF At

LEMMA AtOwnHeight ==
  ASSUME Counting,
         NEW b \in Blocks, NEW a \in Chain[b]
  PROVE  a \in Blocks /\ Height[a] \in 0 .. Height[b] /\ At(b, Height[a]) = a
  <1>1. a \in Blocks /\ Height[a] \in 0 .. Height[b]
    BY ChainFacts, TreeFacts
  <1>2. QED BY <1>1, AtFacts, ChainFacts

\* A block extends the chain of its parent.
LEMMA AtParent ==
  ASSUME Counting,
         NEW b \in Blocks, b # Activation, NEW h \in 0 .. Height[Parent[b]]
  PROVE  h \in 0 .. Height[b] /\ At(b, h) = At(Parent[b], h)
  <1>1. PICK p \in Blocks : p = Parent[b]
    BY TreeFacts
  <1>2. Height[b] = Height[p] + 1 /\ Height[p] \in Nat /\ h \in 0 .. Height[p]
    BY <1>1, TreeFacts
  <1>3. Chain[b] = Chain[p] \cup {b}
    BY <1>1, ChainDef, Zenon
  <1>4. At(p, h) \in Chain[p] /\ Height[At(p, h)] = h
    BY <1>2, AtFacts
  <1>5. At(p, h) \in Chain[b]
    BY <1>3, <1>4
  <1>6. At(b, h) = At(p, h)
    BY <1>4, <1>5, AtOwnHeight
  <1>7. QED BY <1>1, <1>2, <1>6
-----------------------------------------------------------------------------
(* Stores and undo records. *)

Columns == {"tip", "status", "epoch", "sequence", "contract", "retained", "progress",
            "history", "transactions", "undo"}

IsStore(d) == DOMAIN d = Columns

\* Two stores that differ in the columns S at most.
SameBut(d, e, S) == IsStore(e) /\ \A f \in Columns \ S : e[f] = d[f]

IsUndo(u) == DOMAIN u = {"previous", "contract", "progress", "history", "positions"}

\* The tables that TypeOK is about.
TablesTyped(d) ==
    /\ d.tip \in Blocks /\ d.status \in Statuses
    /\ d.epoch \in Nat /\ d.sequence \in Nat
    /\ d.contract \in [Contracts -> Record \cup {Null}]
    /\ d.progress \in [Contracts -> Progress \cup {Null}]
    /\ d.retained \subseteq Contracts

\* t is the transaction at position p of the chain of T.
Canonical(p, t, T) ==
    /\ p[1] \in 0 .. Height[T]
    /\ p[2] \in DOMAIN Body[At(T, p[1])]
    /\ Body[At(T, p[1])][p[2]] = t

AllCanonical(rows, T) == \A row \in rows : Canonical(row.position, row.txid, T)

\* What a rollback restores has the types of the tables.
UndoTyped(u) ==
    /\ IsUndo(u)
    /\ \A c \in Contracts : c \in DOMAIN u.contract => u.contract[c] \in Record \cup {Null}
    /\ \A c \in Contracts : c \in DOMAIN u.progress => u.progress[c] \in Progress \cup {Null}

\* The undo records are those of blocks above the anchor, and lead one block down.
JournalOK(undo, T) ==
    /\ DOMAIN undo = Heights
    /\ \A h \in Heights : undo[h] # Null =>
          /\ UndoTyped(undo[h])
          /\ h \in 1 .. Height[T]
          /\ undo[h].previous = At(T, h - 1)

\* A retained undo record knows every row of its height, whoever wrote it and
\* in whatever order: a block, a backfill, or a late registration.
RowsCovered(undo, transactions) ==
    \A row \in transactions :
        undo[row.position[1]] # Null => row.position \in undo[row.position[1]].positions

HistoryCovered(undo, history) ==
    \A e \in history :
        undo[e.position[1]] # Null =>
            \E gone \in undo[e.position[1]].history : gone.id = e.id /\ gone.position = e.position

\* T is the tip, except while a block is applied and the tip is not moved yet.
Good(d, T) ==
    /\ IsStore(d)
    /\ TablesTyped(d)
    /\ AllCanonical(d.transactions, T)
    /\ AllCanonical(d.history, T)
    /\ JournalOK(d.undo, T)
    /\ RowsCovered(d.undo, d.transactions)
    /\ HistoryCovered(d.undo, d.history)

\* The columns of a sound store have their types.
LEMMA GoodTypes ==
  ASSUME NEW T, NEW d, Good(d, T)
  PROVE  /\ IsStore(d)
         /\ d.tip \in Blocks /\ d.status \in Statuses
         /\ d.epoch \in Nat /\ d.sequence \in Nat
         /\ d.contract \in [Contracts -> Record \cup {Null}]
         /\ d.progress \in [Contracts -> Progress \cup {Null}]
         /\ d.retained \subseteq Contracts
  BY DEF Good, TablesTyped

\* A row's height is one of the tree.
LEMMA CanonicalHeight ==
  ASSUME Counting,
         NEW T \in Blocks, NEW p, NEW t, Canonical(p, t, T)
  PROVE  p[1] \in Heights
  BY AtFacts DEF Canonical, Heights

\* What a position of the chain holds.
LEMMA CanonicalAt ==
  ASSUME Counting,
         NEW T \in Blocks, NEW a \in Chain[T], NEW n \in DOMAIN Body[a]
  PROVE  Canonical(<<Height[a], n>>, Body[a][n], T)
  BY AtOwnHeight DEF Canonical

\* The undo table v keeps what u knows, and may drop records.
Extends(u, v) ==
    /\ DOMAIN v = Heights
    /\ \A h \in Heights : v[h] # Null =>
          /\ u[h] # Null
          /\ UndoTyped(v[h])
          /\ v[h].previous = u[h].previous
          /\ u[h].positions \subseteq v[h].positions
          /\ u[h].history \subseteq v[h].history

\* A write that keeps what the journal of changes knows and tells it of the rows
\* and of the history entries that it adds.
LEMMA KeepsGood ==
  ASSUME Counting,
         NEW T \in Blocks, NEW d, Good(d, T), NEW e, IsStore(e), TablesTyped(e),
         Extends(d.undo, e.undo),
         NEW rows, AllCanonical(rows, T), RowsCovered(e.undo, rows),
         e.transactions \subseteq d.transactions \cup rows,
         NEW entries, AllCanonical(entries, T), HistoryCovered(e.undo, entries),
         e.history \subseteq d.history \cup entries
  PROVE  Good(e, T)
  <1>1. JournalOK(e.undo, T)
    BY DEF Good, Extends, JournalOK
  <1>2. RowsCovered(e.undo, e.transactions)
    <2> SUFFICES ASSUME NEW row \in d.transactions, e.undo[row.position[1]] # Null
                 PROVE  row.position \in e.undo[row.position[1]].positions
      BY DEF RowsCovered
    <2>1. row.position[1] \in Heights
      BY CanonicalHeight DEF Good, AllCanonical
    <2>2. QED BY <2>1 DEF Good, Extends, RowsCovered
  <1>3. HistoryCovered(e.undo, e.history)
    <2> SUFFICES ASSUME NEW y \in d.history, e.undo[y.position[1]] # Null
                 PROVE  \E gone \in e.undo[y.position[1]].history :
                            gone.id = y.id /\ gone.position = y.position
      BY DEF HistoryCovered
    <2>1. y.position[1] \in Heights
      BY CanonicalHeight DEF Good, AllCanonical
    <2>2. QED BY <2>1 DEF Good, Extends, HistoryCovered
  <1>4. AllCanonical(e.transactions, T) /\ AllCanonical(e.history, T)
    BY DEF Good, AllCanonical
  <1>5. QED BY <1>1, <1>2, <1>3, <1>4 DEF Good

\* A write that leaves the rows and the history alone.
LEMMA SameEvidenceGood ==
  ASSUME Counting,
         NEW T \in Blocks, NEW d, Good(d, T), NEW e, IsStore(e), TablesTyped(e),
         Extends(d.undo, e.undo), e.transactions = d.transactions, e.history = d.history
  PROVE  Good(e, T)
  <1>1. AllCanonical({}, T) /\ RowsCovered(e.undo, {}) /\ HistoryCovered(e.undo, {})
    BY DEF AllCanonical, RowsCovered, HistoryCovered
  <1>2. QED BY <1>1, KeepsGood

\* A write of the status, the counters, the contracts or the scan positions.
LEMMA ColumnWrite ==
  ASSUME NEW T \in Blocks, NEW d, Good(d, T), NEW e, TablesTyped(e),
         SameBut(d, e, {"tip", "status", "epoch", "sequence", "contract", "retained", "progress"})
  PROVE  Good(e, T)
  <1>1. e.transactions = d.transactions /\ e.history = d.history /\ e.undo = d.undo
    BY DEF SameBut, Columns
  <1>2. IsStore(e)
    BY Zenon DEF SameBut
  <1>3. QED BY <1>1, <1>2, Zenon DEF Good

-----------------------------------------------------------------------------
(* The journal of changes. *)

\* A record of the journal is replaced by one that knows as much.
LEMMA ExtendOne ==
  ASSUME NEW T, NEW u, JournalOK(u, T), NEW h \in Heights, u[h] # Null,
         NEW v, UndoTyped(v), v.previous = u[h].previous,
         u[h].positions \subseteq v.positions, u[h].history \subseteq v.history,
         NEW w, w = [u EXCEPT ![h] = v]
  PROVE  Extends(u, w) /\ w[h] = v
  BY DEF JournalOK, Extends

LEMMA UndoWrite ==
  ASSUME Counting,
         NEW T \in Blocks, NEW d, Good(d, T), NEW u, Extends(d.undo, u),
         NEW e, e = [d EXCEPT !.undo = u]
  PROVE  Good(e, T) /\ SameBut(d, e, {"undo"})
  <1>1. SameBut(d, e, {"undo"}) /\ e.undo = u
    BY DEF Good, IsStore, SameBut, Columns
  <1>2. TablesTyped(e) /\ IsStore(e) /\ e.transactions = d.transactions /\ e.history = d.history
    BY <1>1 DEF Good, TablesTyped, SameBut, Columns
  <1>3. QED BY <1>1, <1>2, SameEvidenceGood, Zenon

LEMMA SameStore ==
  ASSUME NEW T, NEW d, Good(d, T), NEW S
  PROVE  SameBut(d, d, S)
  BY DEF Good, SameBut

LEMMA FirstWinsTyped ==
  ASSUME NEW R, NEW g, NEW f \in [Contracts -> R], NEW S,
         \A c \in Contracts : c \in DOMAIN g => g[c] \in R,
         NEW x, x = FirstWins(g, f, S)
  PROVE  \A c \in Contracts : c \in DOMAIN x => x[c] \in R
  BY DEF FirstWins

LEMMA PushContractsGood ==
  ASSUME Counting,
         NEW T \in Blocks, NEW d, Good(d, T), NEW h \in Heights, NEW S,
         NEW e, e = PushContracts(d, h, S)
  PROVE  Good(e, T) /\ SameBut(d, e, {"undo"})
  <1>1. CASE d.undo[h] = Null
    BY <1>1, SameStore DEF PushContracts
  <1>2. CASE d.undo[h] # Null
    <2>1. PICK u : u = d.undo[h]
      OBVIOUS
    <2>2. PICK x : x = FirstWins(u.contract, d.contract, S)
      BY Zenon
    <2>3. PICK v : v = [u EXCEPT !.contract = x]
      BY Zenon
    <2>4. PICK w : w = [d.undo EXCEPT ![h] = v]
      BY Zenon
    <2>5. e = [d EXCEPT !.undo = w]
      BY <1>2, <2>1, <2>2, <2>3, <2>4, Zenon DEF PushContracts
    <2>6. UndoTyped(u)
      BY <1>2, <2>1 DEF Good, JournalOK
    <2>7. \A c \in Contracts : c \in DOMAIN x => x[c] \in Record \cup {Null}
      BY <2>2, <2>6, FirstWinsTyped, Zenon DEF Good, TablesTyped, UndoTyped
    <2>8. /\ UndoTyped(v) /\ v.previous = u.previous
          /\ u.positions \subseteq v.positions /\ u.history \subseteq v.history
      BY <2>3, <2>6, <2>7 DEF UndoTyped, IsUndo
    <2>9. QED BY <1>2, <2>1, <2>4, <2>5, <2>8, ExtendOne, UndoWrite, Zenon DEF Good
  <1>3. QED BY <1>1, <1>2

LEMMA PushProgressGood ==
  ASSUME Counting,
         NEW T \in Blocks, NEW d, Good(d, T), NEW h \in Heights, NEW S,
         NEW e, e = PushProgress(d, h, S)
  PROVE  Good(e, T) /\ SameBut(d, e, {"undo"})
  <1>1. CASE d.undo[h] = Null
    BY <1>1, SameStore DEF PushProgress
  <1>2. CASE d.undo[h] # Null
    <2>1. PICK u : u = d.undo[h]
      OBVIOUS
    <2>2. PICK x : x = FirstWins(u.progress, d.progress, S)
      BY Zenon
    <2>3. PICK v : v = [u EXCEPT !.progress = x]
      BY Zenon
    <2>4. PICK w : w = [d.undo EXCEPT ![h] = v]
      BY Zenon
    <2>5. e = [d EXCEPT !.undo = w]
      BY <1>2, <2>1, <2>2, <2>3, <2>4, Zenon DEF PushProgress
    <2>6. UndoTyped(u)
      BY <1>2, <2>1 DEF Good, JournalOK
    <2>7. \A c \in Contracts : c \in DOMAIN x => x[c] \in Progress \cup {Null}
      BY <2>2, <2>6, FirstWinsTyped, Zenon DEF Good, TablesTyped, UndoTyped
    <2>8. /\ UndoTyped(v) /\ v.previous = u.previous
          /\ u.positions \subseteq v.positions /\ u.history \subseteq v.history
      BY <2>3, <2>6, <2>7 DEF UndoTyped, IsUndo
    <2>9. QED BY <1>2, <2>1, <2>4, <2>5, <2>8, ExtendOne, UndoWrite, Zenon DEF Good
  <1>3. QED BY <1>1, <1>2

-----------------------------------------------------------------------------
(* Transaction rows. *)

LEMMA MergeTransactionGood ==
  ASSUME Counting,
         NEW T \in Blocks, NEW d, Good(d, T), NEW p, NEW t, Canonical(p, t, T), NEW affected,
         NEW e, e = MergeTransaction(d, p, t, affected)
  PROVE  Good(e, T) /\ SameBut(d, e, {"transactions", "undo"})
  <1>1. PICK there : there = RowsAt(d, p)
    BY Zenon
  <1>2. PICK row : row = [position |-> p, txid |-> t,
                          affected |-> affected \cup UNION {r.affected : r \in there}]
    BY Zenon
  <1>3. PICK rows : rows = (d.transactions \ there) \cup {row}
    BY Zenon
  <1>4. PICK h : h = p[1]
    BY Zenon
  <1>5. h \in Heights /\ row.position = p /\ row.txid = t
    BY <1>2, <1>4, CanonicalHeight
  <1>6. /\ SameBut(d, e, {"transactions", "undo"}) /\ e.transactions = rows
        /\ Extends(d.undo, e.undo) /\ (e.undo[h] # Null => p \in e.undo[h].positions)
    <2>1. CASE there # {} \/ d.undo[h] = Null
      <3>1. e = [d EXCEPT !.transactions = rows]
        BY <1>1, <1>2, <1>3, <1>4, <2>1, Zenon DEF MergeTransaction
      <3>2. /\ SameBut(d, e, {"transactions", "undo"}) /\ e.transactions = rows
            /\ e.undo = d.undo
        BY <3>1 DEF Good, IsStore, SameBut, Columns
      <3>3. Extends(d.undo, d.undo)
        BY DEF Good, JournalOK, Extends
      <3>4. d.undo[h] # Null => p \in d.undo[h].positions
        BY <1>1, <1>4, <2>1 DEF RowsAt, Good, RowsCovered
      <3>5. QED BY <3>2, <3>3, <3>4, Zenon
    <2>2. CASE there = {} /\ d.undo[h] # Null
      <3>1. PICK r : r = d.undo[h]
        OBVIOUS
      <3>2. PICK v : v = [r EXCEPT !.positions = r.positions \cup {p}]
        BY Zenon
      <3>3. PICK u : u = [d.undo EXCEPT ![h] = v]
        BY Zenon
      <3>4. PICK w : w = [d EXCEPT !.transactions = rows]
        BY Zenon
      <3>5. SameBut(d, w, {"transactions"}) /\ w.transactions = rows /\ w.undo = d.undo
        BY <3>4 DEF Good, IsStore, SameBut, Columns
      <3>6. e = [w EXCEPT !.undo = u]
        BY <1>1, <1>2, <1>3, <1>4, <2>2, <3>1, <3>2, <3>3, <3>4, <3>5, Zenon DEF MergeTransaction
      <3>7. /\ SameBut(d, e, {"transactions", "undo"}) /\ e.transactions = rows
            /\ e.undo = u
        BY <3>5, <3>6 DEF IsStore, SameBut, Columns
      <3>8. UndoTyped(r) /\ h \in Heights
        BY <1>5, <2>2, <3>1 DEF Good, JournalOK
      <3>9. /\ UndoTyped(v) /\ v.previous = r.previous
            /\ r.positions \subseteq v.positions /\ r.history \subseteq v.history
        BY <3>2, <3>8 DEF UndoTyped, IsUndo
      <3>10. Extends(d.undo, u) /\ u[h] = v
        <4>1. JournalOK(d.undo, T) /\ d.undo[h] # Null
          BY <2>2 DEF Good
        <4>2. QED BY <3>1, <3>3, <3>8, <3>9, <4>1, ExtendOne
      <3>11. p \in v.positions
        BY <3>2, <3>8 DEF UndoTyped, IsUndo
      <3>12. QED BY <3>7, <3>10, <3>11, Zenon
    <2>3. QED BY <2>1, <2>2
  <1>7. TablesTyped(e) /\ IsStore(e) /\ e.history = d.history
    BY <1>6 DEF Good, TablesTyped, SameBut, Columns
  <1>8. /\ AllCanonical({row}, T) /\ RowsCovered(e.undo, {row})
        /\ AllCanonical({}, T) /\ HistoryCovered(e.undo, {})
    BY <1>4, <1>5, <1>6 DEF AllCanonical, RowsCovered, HistoryCovered
  <1>9. e.transactions \subseteq d.transactions \cup {row} /\ e.history \subseteq d.history \cup {}
    BY <1>3, <1>6, <1>7
  <1>10. QED BY <1>6, <1>7, <1>8, <1>9, KeepsGood, Zenon

-----------------------------------------------------------------------------
(* The transactions of a block. *)

LEMMA BlockFacts ==
  ASSUME Counting,
         NEW T \in Blocks, NEW b \in Chain[T], NEW n \in DOMAIN Body[b]
  PROVE  /\ b \in Blocks /\ Height[b] \in Heights /\ Height[b] \in Nat
         /\ n \in Nat /\ Body[b][n] \in Txs /\ <<Height[b], n>> \in Position
  <1>1. b \in Blocks /\ Height[b] \in Nat
    BY AtOwnHeight, TreeFacts
  <1>2. Body[b] \in Seq(Txs)
    BY <1>1, ChainAssumption DEF TreeAssumption
  <1>3. n \in Nat /\ Body[b][n] \in Txs
    BY <1>2
  <1>4. QED BY <1>1, <1>3 DEF Heights, Position

\* The contracts after the n-th transaction of b.
Moved(contract, b, n, leg) ==
    [c \in Contracts |->
        CASE c \in leg.created ->
                [at |-> Body[b][n], created |-> <<Height[b], n>>,
                 sync |-> "Ready", through |-> b]
          [] c \in leg.updated -> [contract[c] EXCEPT !.at = Body[b][n]]
          [] OTHER -> contract[c]]

LEMMA MovedTyped ==
  ASSUME Counting,
         NEW T \in Blocks, NEW d, TablesTyped(d), NEW b \in Chain[T], NEW n \in DOMAIN Body[b],
         NEW leg, LegFits(d, b, n, leg)
  PROVE  /\ Moved(d.contract, b, n, leg) \in [Contracts -> Record \cup {Null}]
         /\ \A c \in Contracts : d.contract[c] \in Record =>
                                     Moved(d.contract, b, n, leg)[c] \in Record
  <1> DEFINE x == Moved(d.contract, b, n, leg)
             new == [at |-> Body[b][n], created |-> <<Height[b], n>>,
                     sync |-> "Ready", through |-> b]
  <1>1. new \in Record
    BY BlockFacts DEF Record
  <1>2. \A r \in Record : [r EXCEPT !.at = Body[b][n]] \in Record
    BY BlockFacts, Zenon DEF Record
  <1>3. ASSUME NEW c \in Contracts
        PROVE  x[c] \in Record \cup {Null} /\ (d.contract[c] \in Record => x[c] \in Record)
    <2>1. x[c] = CASE c \in leg.created -> new
                   [] c \in leg.updated -> [d.contract[c] EXCEPT !.at = Body[b][n]]
                   [] OTHER -> d.contract[c]
      BY Zenon DEF Moved
    <2>2. d.contract[c] \in Record \cup {Null}
      BY DEF TablesTyped
    <2>3. c \in leg.updated => c \notin leg.created /\ d.contract[c] \in Record
      BY <2>2 DEF LegFits, InputsAccounted, Present
    <2>4. CASE c \in leg.created
      <3>1. x[c] = new
        <4> HIDE DEF x, new
        <4> QED BY <2>1, <2>3, <2>4
      <3>2. QED BY <1>1, <3>1, Zenon
    <2>5. CASE c \in leg.updated
      <3>1. x[c] = [d.contract[c] EXCEPT !.at = Body[b][n]]
        <4> HIDE DEF x, new
        <4> QED BY <2>1, <2>3, <2>5
      <3>2. QED BY <1>2, <2>3, <2>5, <3>1, Zenon
    <2>6. CASE c \notin leg.created /\ c \notin leg.updated
      <3>1. x[c] = d.contract[c]
        <4> HIDE DEF x, new
        <4> QED BY <2>1, <2>6
      <3>2. QED BY <2>2, <3>1, Zenon
    <2>7. QED BY <2>4, <2>5, <2>6
  <1>4. x \in [Contracts -> Record \cup {Null}]
    <2>1. \A c \in Contracts : x[c] \in Record \cup {Null}
      BY <1>3
    <2>2. QED BY <2>1 DEF Moved
  <1>5. QED BY <1>3, <1>4, Zenon

\* Contract records that are stored stay so.
RecordsKept(d, e) == \A c \in Contracts : d.contract[c] \in Record => e.contract[c] \in Record

LEMMA EntriesFacts ==
  ASSUME Counting,
         NEW T \in Blocks, NEW b \in Chain[T], NEW n \in DOMAIN Body[b], NEW leg
  PROVE  /\ AllCanonical(Entries(b, n, leg), T)
         /\ \A e \in Entries(b, n, leg) : e.position = <<Height[b], n>>
  <1>1. \A e \in Entries(b, n, leg) : e.position = <<Height[b], n>> /\ e.txid = Body[b][n]
    BY DEF Entries
  <1>2. Canonical(<<Height[b], n>>, Body[b][n], T)
    BY CanonicalAt, Zenon
  <1>3. QED BY <1>1, <1>2, Zenon DEF AllCanonical

\* What a transaction of a block writes.
LegColumns == {"contract", "history", "transactions", "undo"}

\* The contracts of a transaction, with the history noted in the undo record.
LEMMA MoveAndPush ==
  ASSUME Counting,
         NEW T \in Blocks, NEW d, Good(d, T), NEW b \in Chain[T], NEW n \in DOMAIN Body[b],
         NEW leg, LegFits(d, b, n, leg),
         NEW e, e = PushHistory(MoveContracts(d, b, n, leg), Height[b], Entries(b, n, leg))
  PROVE  Good(e, T) /\ SameBut(d, e, LegColumns) /\ RecordsKept(d, e)
  <1>1. PICK h, x, entries, m :
            /\ h = Height[b] /\ x = Moved(d.contract, b, n, leg)
            /\ entries = Entries(b, n, leg) /\ m = MoveContracts(d, b, n, leg)
    BY Zenon
  <1>2. /\ x \in [Contracts -> Record \cup {Null}]
        /\ \A c \in Contracts : d.contract[c] \in Record => x[c] \in Record
    BY <1>1, MovedTyped, Zenon DEF Good
  <1>3. PICK y : y = d.history \cup entries
    BY Zenon
  <1>4. m = [d EXCEPT !.contract = x, !.history = y]
    BY <1>1, <1>3, Zenon DEF MoveContracts, Moved
  <1>5. /\ SameBut(d, m, {"contract", "history"}) /\ m.contract = x /\ m.history = y
        /\ m.undo = d.undo
    <2>1. IsStore(d)
      BY Zenon DEF Good
    <2>2. QED BY <1>4, <2>1, Zenon DEF IsStore, SameBut, Columns
  <1>6. AllCanonical(entries, T) /\ \A r \in entries : r.position[1] = h
    BY <1>1, EntriesFacts
  <1>7. h \in Heights
    BY <1>1, BlockFacts, Zenon
  <1>8. /\ SameBut(d, e, {"contract", "history", "undo"}) /\ e.contract = x /\ e.history = y
        /\ Extends(d.undo, e.undo) /\ HistoryCovered(e.undo, entries)
    <2>1. CASE d.undo[h] = Null
      <3>1. e = m
        BY <1>1, <1>5, <2>1, Zenon DEF PushHistory
      <3>2. Extends(d.undo, d.undo) /\ HistoryCovered(d.undo, entries)
        BY <1>6, <2>1, Zenon DEF Good, JournalOK, Extends, HistoryCovered
      <3>3. SameBut(d, m, {"contract", "history", "undo"})
        BY <1>5 DEF SameBut
      <3>4. QED BY <1>5, <3>1, <3>2, <3>3, Zenon
    <2>2. CASE d.undo[h] # Null
      <3>1. PICK r : r = d.undo[h]
        OBVIOUS
      <3>2. PICK v : v = [r EXCEPT !.history = r.history \cup entries]
        BY Zenon
      <3>3. PICK u : u = [d.undo EXCEPT ![h] = v]
        BY Zenon
      <3>4. e = [m EXCEPT !.undo = u]
        BY <1>1, <1>5, <2>2, <3>1, <3>2, <3>3, Zenon DEF PushHistory
      <3>5. /\ SameBut(d, e, {"contract", "history", "undo"})
            /\ e.contract = x /\ e.history = y /\ e.undo = u
        BY <1>5, <3>4, Zenon DEF IsStore, SameBut, Columns
      <3>6. UndoTyped(r) /\ JournalOK(d.undo, T)
        BY <1>7, <2>2, <3>1 DEF Good, JournalOK
      <3>7. /\ UndoTyped(v) /\ v.previous = r.previous
            /\ r.positions \subseteq v.positions /\ r.history \subseteq v.history
            /\ entries \subseteq v.history
        BY <3>2, <3>6, Zenon DEF UndoTyped, IsUndo
      <3>8. Extends(d.undo, u) /\ u[h] = v
        BY <1>7, <2>2, <3>1, <3>3, <3>6, <3>7, ExtendOne
      <3>9. HistoryCovered(u, entries)
        BY <1>6, <3>7, <3>8, Zenon DEF HistoryCovered
      <3>10. QED BY <3>5, <3>8, <3>9, Zenon
    <2>3. QED BY <2>1, <2>2
  <1>9. TablesTyped(e) /\ IsStore(e) /\ e.transactions = d.transactions
    BY <1>2, <1>8 DEF Good, TablesTyped, SameBut, Columns
  <1>10. AllCanonical({}, T) /\ RowsCovered(e.undo, {})
    BY Zenon DEF AllCanonical, RowsCovered
  <1>11. e.transactions \subseteq d.transactions \cup {} /\ e.history \subseteq d.history \cup entries
    BY <1>3, <1>8, <1>9
  <1>12. Good(e, T)
    BY <1>6, <1>8, <1>9, <1>10, <1>11, KeepsGood, Zenon
  <1>13. SameBut(d, e, LegColumns)
    BY <1>8 DEF SameBut, LegColumns
  <1>14. QED BY <1>2, <1>8, <1>12, <1>13, Zenon DEF RecordsKept

\* One transaction of a block keeps the store sound.
LEMMA ApplyLegGood ==
  ASSUME Counting,
         NEW T \in Blocks, NEW d, Good(d, T), NEW b \in Chain[T], NEW n \in DOMAIN Body[b],
         NEW leg, LegFits(d, b, n, leg), NEW e, e = ApplyLeg(d, b, n, leg)
  PROVE  Good(e, T) /\ SameBut(d, e, LegColumns) /\ RecordsKept(d, e)
  <1>1. PICK touched, p, m :
            /\ touched = leg.created \cup leg.updated
            /\ p = PushContracts(d, Height[b], touched)
            /\ m = PushHistory(MoveContracts(p, b, n, leg), Height[b], Entries(b, n, leg))
    BY Zenon
  <1>2. e = MergeTransaction(m, <<Height[b], n>>, Body[b][n], touched)
    BY <1>1, Zenon DEF ApplyLeg
  <1>3. Good(p, T) /\ SameBut(d, p, {"undo"})
    BY <1>1, BlockFacts, PushContractsGood, Zenon
  <1>4. p.contract = d.contract /\ p.history = d.history /\ SameBut(d, p, LegColumns)
    BY <1>3 DEF SameBut, Columns, LegColumns
  <1>5. LegFits(p, b, n, leg)
    BY <1>4, Zenon DEF LegFits, InputsAccounted, Present
  <1>6. Good(m, T) /\ SameBut(p, m, LegColumns) /\ RecordsKept(p, m)
    BY <1>1, <1>3, <1>5, MoveAndPush, Zenon
  <1>7. Good(e, T) /\ SameBut(m, e, {"transactions", "undo"})
    BY <1>2, <1>6, CanonicalAt, MergeTransactionGood
  <1>8. SameBut(m, e, LegColumns) /\ e.contract = m.contract
    BY <1>7 DEF SameBut, Columns, LegColumns
  <1>9. SameBut(d, e, LegColumns)
    BY <1>4, <1>6, <1>8 DEF SameBut
  <1>10. RecordsKept(d, e)
    BY <1>4, <1>6, <1>8, Zenon DEF RecordsKept
  <1>11. QED BY <1>7, <1>9, <1>10

LEMMA AppendEventsGood ==
  ASSUME NEW T \in Blocks, NEW d, Good(d, T), NEW n \in Nat, NEW e, e = AppendEvents(d, n)
  PROVE  Good(e, T) /\ SameBut(d, e, {"sequence"}) /\ e.sequence = d.sequence + n
  <1>1. SameBut(d, e, {"sequence"}) /\ e.sequence = d.sequence + n
    BY DEF Good, IsStore, AppendEvents, SameBut, Columns
  <1>2. TablesTyped(e)
    BY <1>1 DEF Good, TablesTyped, SameBut, Columns
  <1>3. SameBut(d, e, {"tip", "status", "epoch", "sequence", "contract", "retained", "progress"})
    BY <1>1 DEF SameBut
  <1>4. QED BY <1>1, <1>2, <1>3, ColumnWrite

\* The n-th turn of the loop over the transactions of a block.
LegTurn(before, b, legs, events, n) ==
    IF before = Null \/ ~Relevant(legs[n]) THEN before
    ELSE IF LegFits(before, b, n, legs[n])
         THEN AppendEvents(ApplyLeg(before, b, n, legs[n]), events)
         ELSE Null

AreLegTurns(f, d, b, legs, events) ==
    f = [n \in 0 .. Len(Body[b]) |-> IF n = 0 THEN d ELSE LegTurn(f[n - 1], b, legs, events, n)]

LEMMA LegTurns ==
  ASSUME Counting,
         NEW d, NEW b \in Blocks, NEW legs, NEW events
  PROVE  \E f : /\ AreLegTurns(f, d, b, legs, events)
                /\ ApplyLegs(d, b, legs, events) = f[Len(Body[b])]
  <1> DEFINE N == Len(Body[b])
             F(x, n) == LegTurn(x, b, legs, events, n)
             Is(g, n) == g = [k \in 0 .. n |-> IF k = 0 THEN d ELSE F(g[k - 1], k)]
             Bad == {n \in Nat : ~\E g : Is(g, n)}
  <1>0. N \in Nat
    BY ChainAssumption DEF TreeAssumption
  <1> HIDE DEF F, N
  <1>1. Bad = {}
    <2> SUFFICES ASSUME Bad # {} PROVE FALSE
      OBVIOUS
    <2>1. PICK n \in Bad : \A m \in Bad : n <= m
      <3> HIDE DEF Is
      <3> QED BY Least, Zenon
    <2>2. CASE n = 0
      <3>1. Is([k \in 0 .. 0 |-> d], 0)
        OBVIOUS
      <3>2. QED BY <2>2, <3>1, Zenon
    <2>3. CASE n # 0
      <3>1. n - 1 \in Nat /\ n - 1 \notin Bad
        <4> HIDE DEF Is
        <4> QED BY <2>1, <2>3
      <3>2. PICK g : Is(g, n - 1)
        BY <3>1
      <3>3. Is([k \in 0 .. n |-> IF k = n THEN F(g[n - 1], n) ELSE g[k]], n)
        BY <2>3, <3>2
      <3>4. QED BY <3>3, Zenon
    <2>4. QED BY <2>2, <2>3
  <1>2. PICK g : Is(g, N)
    BY <1>0, <1>1, Zenon
  <1>3. PICK f : f = CHOOSE g1 : Is(g1, N)
    OBVIOUS
  <1>4. Is(f, N)
    BY <1>2, <1>3, Zenon
  <1>5. ApplyLegs(d, b, legs, events) = f[N]
    BY <1>3, Zenon DEF ApplyLegs, F, N, LegTurn
  <1>6. AreLegTurns(f, d, b, legs, events)
    BY <1>4, Zenon DEF AreLegTurns, F, N
  <1>7. QED BY <1>5, <1>6, Zenon DEF N

\* What the application of transactions leaves alone, and what it only adds to.
Onward(d, e) ==
    /\ SameBut(d, e, LegColumns \cup {"sequence"})
    /\ e.sequence >= d.sequence
    /\ RecordsKept(d, e)

LEMMA LegTurnGood ==
  ASSUME Counting,
         NEW T \in Blocks, NEW d, NEW x, x # Null => Good(x, T) /\ Onward(d, x),
         NEW b \in Chain[T], NEW n \in DOMAIN Body[b], NEW legs, NEW events \in Nat,
         d.sequence \in Nat,
         NEW y, y = LegTurn(x, b, legs, events, n)
  PROVE  y # Null => Good(y, T) /\ Onward(d, y)
  <1>1. CASE x = Null \/ ~Relevant(legs[n]) \/ ~LegFits(x, b, n, legs[n])
    BY <1>1, Zenon DEF LegTurn
  <1>2. CASE x # Null /\ Relevant(legs[n]) /\ LegFits(x, b, n, legs[n])
    <2>1. PICK z : z = ApplyLeg(x, b, n, legs[n])
      BY Zenon
    <2>2. Good(z, T) /\ SameBut(x, z, LegColumns) /\ RecordsKept(x, z)
      BY <1>2, <2>1, ApplyLegGood
    <2>3. y = AppendEvents(z, events)
      BY <1>2, <2>1, Zenon DEF LegTurn
    <2>4. Good(y, T) /\ SameBut(z, y, {"sequence"}) /\ y.sequence = z.sequence + events
      BY <2>2, <2>3, AppendEventsGood, Zenon
    <2>5. /\ y.contract = z.contract /\ z.sequence = x.sequence
          /\ SameBut(d, y, LegColumns \cup {"sequence"})
      BY <1>2, <2>2, <2>4 DEF SameBut, Columns, LegColumns, Onward
    <2>6. RecordsKept(d, y)
      BY <1>2, <2>2, <2>5, Zenon DEF Onward, RecordsKept
    <2>7. y.sequence >= d.sequence
      <3>1. x.sequence \in Nat /\ x.sequence >= d.sequence
        BY <1>2, GoodTypes, Zenon DEF Onward
      <3>2. QED BY <2>4, <2>5, <3>1
    <2>8. QED BY <2>4, <2>5, <2>6, <2>7, Zenon DEF Onward
  <1>3. QED BY <1>1, <1>2

\* The transactions of a block keep the store sound, or are refused.
LEMMA ApplyLegsGood ==
  ASSUME Counting,
         NEW T \in Blocks, NEW d, Good(d, T), NEW b \in Chain[T], NEW legs, NEW events \in Nat,
         NEW e, e = ApplyLegs(d, b, legs, events), e # Null
  PROVE  Good(e, T) /\ Onward(d, e)
  <1>1. b \in Blocks
    BY AtOwnHeight
  <1>2. PICK N : N = Len(Body[b])
    BY Zenon
  <1>3. N \in Nat /\ DOMAIN Body[b] = 1 .. N
    BY <1>1, <1>2, ChainAssumption DEF TreeAssumption
  <1>4. PICK f : AreLegTurns(f, d, b, legs, events) /\ e = f[N]
    <2>1. \E f : /\ AreLegTurns(f, d, b, legs, events)
                 /\ ApplyLegs(d, b, legs, events) = f[Len(Body[b])]
      BY <1>1, LegTurns
    <2>2. QED BY <1>2, <2>1
  <1> DEFINE S == {n \in 0 .. N : f[n] # Null => Good(f[n], T) /\ Onward(d, f[n])}
  <1>5. 0 \in S
    <2>1. f[0] = d
      BY <1>2, <1>3, <1>4 DEF AreLegTurns
    <2>2. d.sequence >= d.sequence
      BY GoodTypes
    <2>3. QED BY <1>3, <2>1, <2>2, SameStore DEF Onward, RecordsKept
  <1>6. ASSUME NEW n \in 1 .. N, n - 1 \in S PROVE n \in S
    <2>1. n \in 0 .. N /\ n \in DOMAIN Body[b] /\ n # 0
      BY <1>3
    <2>2. f[n] = LegTurn(f[n - 1], b, legs, events, n)
      BY <1>2, <1>4, <2>1 DEF AreLegTurns
    <2>3. d.sequence \in Nat /\ (f[n - 1] # Null => Good(f[n - 1], T) /\ Onward(d, f[n - 1]))
      BY <1>6, GoodTypes
    <2>4. f[n] # Null => Good(f[n], T) /\ Onward(d, f[n])
      BY <2>1, <2>2, <2>3, LegTurnGood, Zenon
    <2>5. QED BY <2>1, <2>4
  <1>7. N \in S
    <2> HIDE DEF S
    <2>1. \A n \in 1 .. N : n - 1 \in S => n \in S
      BY <1>6
    <2>2. \A n \in 0 .. N : n \in S
      BY <1>3, <1>5, <2>1, UpTo, Zenon
    <2>3. N \in 0 .. N
      BY <1>3
    <2>4. QED BY <2>2, <2>3
  <1>8. QED BY <1>4, <1>7

-----------------------------------------------------------------------------
(* Blocks. *)

\* The contracts, or the scan positions, are replaced.
LEMMA ContractWrite ==
  ASSUME NEW T \in Blocks, NEW d, Good(d, T), NEW x \in [Contracts -> Record \cup {Null}],
         NEW e, e = [d EXCEPT !.contract = x]
  PROVE  Good(e, T) /\ SameBut(d, e, {"contract"}) /\ e.contract = x
  <1>1. SameBut(d, e, {"contract"}) /\ e.contract = x
    BY DEF Good, IsStore, SameBut, Columns
  <1>2. TablesTyped(e)
    BY <1>1 DEF Good, TablesTyped, SameBut, Columns
  <1>3. SameBut(d, e, {"tip", "status", "epoch", "sequence", "contract", "retained", "progress"})
    BY <1>1 DEF SameBut
  <1>4. QED BY <1>1, <1>2, <1>3, ColumnWrite

LEMMA ProgressWrite ==
  ASSUME NEW T \in Blocks, NEW d, Good(d, T), NEW x \in [Contracts -> Progress \cup {Null}],
         NEW e, e = [d EXCEPT !.progress = x]
  PROVE  Good(e, T) /\ SameBut(d, e, {"progress"}) /\ e.progress = x
  <1>1. SameBut(d, e, {"progress"}) /\ e.progress = x
    BY DEF Good, IsStore, SameBut, Columns
  <1>2. TablesTyped(e)
    BY <1>1 DEF Good, TablesTyped, SameBut, Columns
  <1>3. SameBut(d, e, {"tip", "status", "epoch", "sequence", "contract", "retained", "progress"})
    BY <1>1 DEF SameBut
  <1>4. QED BY <1>1, <1>2, <1>3, ColumnWrite

LEMMA MarkThroughGood ==
  ASSUME NEW T \in Blocks, NEW d, Good(d, T), NEW b \in Blocks, NEW S,
         \A c \in S : c \in Contracts => d.contract[c] \in Record,
         NEW sync \in {"CatchingUp", "Ready"}, NEW e, e = MarkThrough(d, b, S, sync)
  PROVE  Good(e, T) /\ SameBut(d, e, {"contract"})
  <1> DEFINE Marked(r) == [r EXCEPT !.sync = sync, !.through = b]
             x == [c \in Contracts |-> IF c \in S THEN Marked(d.contract[c]) ELSE d.contract[c]]
  <1>1. \A r \in Record : Marked(r) \in Record
    <2> SUFFICES ASSUME NEW r \in Record PROVE Marked(r) \in Record
      BY Zenon
    <2>1. [r EXCEPT !.sync = sync] \in Record
      BY DEF Record
    <2>2. \A q \in Record : [q EXCEPT !.through = b] \in Record
      BY DEF Record
    <2>3. QED BY <2>1, <2>2, Zenon
  <1>2. e = [d EXCEPT !.contract = x]
    BY Zenon DEF MarkThrough
  <1>3. x \in [Contracts -> Record \cup {Null}]
    <2> HIDE DEF Marked
    <2> QED BY <1>1, GoodTypes
  <1>4. QED
    <2> HIDE DEF x
    <2> QED BY <1>2, <1>3, ContractWrite

LEMMA AdvanceCatchingGood ==
  ASSUME Counting,
         NEW T \in Blocks, NEW d, Good(d, T), NEW b \in Blocks,
         NEW e, e = AdvanceCatching(d, b), e # Null
  PROVE  /\ Good(e, T) /\ SameBut(d, e, {"contract", "progress", "sequence", "undo"})
         /\ e.sequence >= d.sequence
  <1>1. PICK h : h = Height[b] /\ h \in Heights /\ h \in Nat
    BY TreeFacts DEF Heights
  <1>2. PICK rows : rows = {c \in Contracts : d.progress[c] # Null /\ d.progress[c].next[1] = h}
    BY Zenon
  <1>3. PICK S, q, p, r : /\ S = rows \cap CatchingUp(d)
                          /\ q = PushContracts(d, h, S)
                          /\ p = PushProgress(q, h, S)
                          /\ r = MarkThrough(p, b, S, "Ready")
    BY Zenon
  <1>4. PICK item, x : /\ item = [next |-> <<h + 1, 0>>, pinned |-> b]
                       /\ x = [c \in Contracts |-> IF c \in S THEN item ELSE r.progress[c]]
    BY Zenon
  <1>5. PICK m : m = [r EXCEPT !.progress = x]
    BY Zenon
  <1>6. e = AppendEvents(m, 2 * Cardinality(S))
    <2>1. e = IF \A c \in rows : Present(d, c) THEN AppendEvents(m, 2 * Cardinality(S)) ELSE Null
      BY <1>1, <1>2, <1>3, <1>4, <1>5, Zenon DEF AdvanceCatching
    <2>2. QED BY <2>1, Zenon
  <1>7. S \in SUBSET Contracts /\ \A c \in S : d.contract[c] \in Record
    BY <1>3, GoodTypes DEF CatchingUp, Present
  <1>8. Good(q, T) /\ SameBut(d, q, {"undo"})
    BY <1>1, <1>3, PushContractsGood
  <1>9. Good(p, T) /\ SameBut(q, p, {"undo"})
    BY <1>1, <1>3, <1>8, PushProgressGood
  <1>10. p.contract = d.contract
    BY <1>8, <1>9 DEF SameBut, Columns
  <1>11. Good(r, T) /\ SameBut(p, r, {"contract"})
    <2>1. \A c \in S : c \in Contracts => p.contract[c] \in Record
      BY <1>7, <1>10
    <2>2. QED BY <1>3, <1>9, <2>1, MarkThroughGood, Zenon
  <1>12. x \in [Contracts -> Progress \cup {Null}]
    <2>1. item \in Progress
      BY <1>1, <1>4 DEF Progress
    <2>2. r.progress \in [Contracts -> Progress \cup {Null}]
      BY <1>11, GoodTypes
    <2>3. x = [c \in Contracts |-> IF c \in S THEN item ELSE r.progress[c]]
      BY <1>4
    <2>4. QED BY <2>1, <2>2, <2>3
  <1>13. Good(m, T) /\ SameBut(r, m, {"progress"})
    BY <1>5, <1>11, <1>12, ProgressWrite
  <1>14. PICK k \in Nat : k = 2 * Cardinality(S)
    BY <1>7 DEF Counting
  <1>15. Good(e, T) /\ SameBut(m, e, {"sequence"}) /\ e.sequence = m.sequence + k
    <2>1. e = AppendEvents(m, k)
      BY <1>6, <1>14
    <2>2. QED BY <1>13, <1>14, <2>1, AppendEventsGood
  <1>16. SameBut(d, e, {"contract", "progress", "sequence", "undo"}) /\ m.sequence = d.sequence
    BY <1>8, <1>9, <1>11, <1>13, <1>15 DEF SameBut, Columns
  <1>17. e.sequence >= d.sequence
    <2>1. d.sequence \in Nat
      BY GoodTypes
    <2>2. QED BY <1>14, <1>15, <1>16, <2>1
  <1>18. QED BY <1>15, <1>16, <1>17, Zenon

LEMMA PruneUndoGood ==
  ASSUME Counting,
         NEW T \in Blocks, NEW d, Good(d, T), NEW e, e = PruneUndo(d)
  PROVE  Good(e, T) /\ SameBut(d, e, {"undo"})
  <1>1. PICK u : u = [h \in Heights |->
                         IF h < Height[d.tip] - (UndoRetention - 1) THEN Null ELSE d.undo[h]]
    BY Zenon
  <1>2. e = [d EXCEPT !.undo = u]
    BY <1>1, Zenon DEF PruneUndo
  <1>3. Extends(d.undo, u)
    BY <1>1, Zenon DEF Extends, Good, JournalOK
  <1>4. QED BY <1>2, <1>3, UndoWrite

\* A chain keeps what it holds when a block is put on top.
LEMMA CanonicalChild ==
  ASSUME Counting,
         NEW b \in Blocks, b # Activation, NEW p, NEW t, Canonical(p, t, Parent[b])
  PROVE  Canonical(p, t, b)
  BY AtParent DEF Canonical

LEMMA OpenedGood ==
  ASSUME Counting,
         NEW d, Good(d, d.tip), NEW b \in Blocks, b # Activation, Parent[b] = d.tip,
         NEW e, e = [d EXCEPT !.undo[Height[b]] = NoUndo(d.tip)]
  PROVE  Good(e, b) /\ SameBut(d, e, {"undo"})
  <1>1. PICK tip \in Blocks : tip = d.tip
    BY GoodTypes
  <1>2. PICK h : h = Height[b] /\ h \in Heights
    BY DEF Heights
  <1>3. h \in Nat /\ Height[tip] \in Nat /\ h = Height[tip] + 1
    BY <1>1, <1>2, TreeFacts
  <1>4. PICK v : v = NoUndo(tip)
    OBVIOUS
  <1>5. UndoTyped(v) /\ v.previous = tip
    BY <1>4 DEF NoUndo, UndoTyped, IsUndo
  <1>6. PICK u : u = [d.undo EXCEPT ![h] = v]
    BY Zenon
  <1>7. e = [d EXCEPT !.undo = u]
    BY <1>1, <1>2, <1>4, <1>6, Zenon
  <1>8. /\ DOMAIN d.undo = Heights
        /\ \A k \in Heights : d.undo[k] # Null =>
              /\ UndoTyped(d.undo[k])
              /\ k \in 1 .. Height[tip]
              /\ d.undo[k].previous = At(tip, k - 1)
    BY <1>1, Zenon DEF Good, JournalOK
  <1>9. DOMAIN u = Heights /\ u[h] = v /\ \A k \in Heights : k # h => u[k] = d.undo[k]
    BY <1>2, <1>6, <1>8
  <1>10. JournalOK(u, b)
    <2> SUFFICES ASSUME NEW k \in Heights, u[k] # Null
                 PROVE  /\ UndoTyped(u[k])
                        /\ k \in 1 .. Height[b]
                        /\ u[k].previous = At(b, k - 1)
      BY <1>9, Zenon DEF JournalOK
    <2>1. CASE k = h
      <3>1. tip \in Chain[b]
        <4>1. Chain[b] = Chain[tip] \cup {b}
          BY <1>1, ChainDef, Zenon
        <4>2. QED BY <4>1, ChainFacts
      <3>2. At(b, Height[tip]) = tip
        BY <3>1, AtOwnHeight
      <3>3. QED BY <1>2, <1>3, <1>5, <1>9, <2>1, <3>2
    <2>2. CASE k # h
      <3>1. UndoTyped(u[k]) /\ k \in 1 .. Height[tip] /\ u[k].previous = At(tip, k - 1)
        BY <1>8, <1>9, <2>2
      <3>2. k - 1 \in 0 .. Height[tip]
        BY <1>3, <3>1
      <3>3. At(b, k - 1) = At(tip, k - 1)
        BY <1>1, <3>2, AtParent
      <3>4. QED BY <1>2, <1>3, <3>1, <3>3
    <2>3. QED BY <2>1, <2>2
  <1>11. ASSUME NEW row, Canonical(row.position, row.txid, tip)
         PROVE  u[row.position[1]] = d.undo[row.position[1]] /\ Canonical(row.position, row.txid, b)
    <2>1. row.position[1] \in Heights
      BY <1>11, CanonicalHeight
    <2>2. row.position[1] # h
      BY <1>3, <1>11 DEF Canonical
    <2>3. Canonical(row.position, row.txid, b)
      BY <1>1, <1>11, CanonicalChild
    <2>4. QED BY <1>9, <2>1, <2>2, <2>3
  <1>12. \A row \in d.transactions \cup d.history :
             u[row.position[1]] = d.undo[row.position[1]] /\ Canonical(row.position, row.txid, b)
    BY <1>1, <1>11 DEF Good, AllCanonical
  <1>13. AllCanonical(d.transactions, b) /\ AllCanonical(d.history, b)
    BY <1>12 DEF AllCanonical
  <1>14. RowsCovered(u, d.transactions)
    BY <1>12 DEF Good, RowsCovered
  <1>15. HistoryCovered(u, d.history)
    BY <1>12 DEF Good, HistoryCovered
  <1>16. SameBut(d, e, {"undo"}) /\ e.undo = u
    BY <1>7 DEF Good, IsStore, SameBut, Columns
  <1>17. TablesTyped(e) /\ e.transactions = d.transactions /\ e.history = d.history
    BY <1>16 DEF Good, TablesTyped, SameBut, Columns
  <1>18. QED BY <1>10, <1>13, <1>14, <1>15, <1>16, <1>17, Zenon DEF Good, SameBut

\* A block that is applied becomes the tip of a sound store.
LEMMA ApplyBlockGood ==
  ASSUME Counting,
         NEW d, Good(d, d.tip), NEW b \in Blocks, NEW legs,
         NEW e, e = ApplyBlock(d, b, legs), e # Null
  PROVE  /\ Good(e, e.tip)
         /\ e.tip = b /\ Height[b] = Height[d.tip] + 1
         /\ e.status = d.status /\ e.epoch = d.epoch /\ e.sequence >= d.sequence
  <1>1. PICK o, a, v, w : /\ o = [d EXCEPT !.undo[Height[b]] = NoUndo(d.tip)]
                          /\ a = ApplyLegs(o, b, legs, 1)
                          /\ v = IF a = Null THEN Null ELSE AdvanceCatching(a, b)
                          /\ w = [v EXCEPT !.tip = b]
    BY Zenon
  <1>2. e = IF d.status = "RescanRequired" \/ b = Activation \/ Parent[b] # d.tip \/ v = Null
            THEN Null ELSE PruneUndo(w)
    BY <1>1, Zenon DEF ApplyBlock
  <1>3. b # Activation /\ Parent[b] = d.tip /\ v # Null /\ e = PruneUndo(w)
    BY <1>2, Zenon
  <1>4. a # Null /\ v = AdvanceCatching(a, b) /\ a = ApplyLegs(o, b, legs, 1)
    BY <1>1, <1>3, Zenon
  <1>5. Good(o, b) /\ SameBut(d, o, {"undo"})
    BY <1>1, <1>3, OpenedGood, Zenon
  <1>6. Good(a, b) /\ Onward(o, a)
    BY <1>4, <1>5, ApplyLegsGood, ChainFacts
  <1>7. /\ Good(v, b) /\ SameBut(a, v, {"contract", "progress", "sequence", "undo"})
        /\ v.sequence >= a.sequence
    BY <1>3, <1>4, <1>6, AdvanceCatchingGood
  <1>8. SameBut(v, w, {"tip"}) /\ w.tip = b
    <2>1. IsStore(v) /\ w = [v EXCEPT !.tip = b]
      BY <1>1, <1>7, Zenon DEF Good
    <2>2. QED BY <2>1 DEF IsStore, SameBut, Columns
  <1>9. Good(w, b)
    <2>1. TablesTyped(w)
      BY <1>7, <1>8 DEF Good, TablesTyped, SameBut, Columns
    <2>2. SameBut(v, w, {"tip", "status", "epoch", "sequence", "contract", "retained", "progress"})
      BY <1>8 DEF SameBut
    <2>3. QED BY <1>7, <2>1, <2>2, ColumnWrite, Zenon
  <1>10. Good(e, b) /\ SameBut(w, e, {"undo"})
    BY <1>3, <1>9, PruneUndoGood
  <1>11. e.tip = b
    BY <1>8, <1>10 DEF SameBut, Columns
  <1>12. /\ e.status = d.status /\ e.epoch = d.epoch
         /\ o.sequence = d.sequence /\ e.sequence = v.sequence
    BY <1>5, <1>6, <1>7, <1>8, <1>10, Zenon DEF SameBut, Columns, Onward, LegColumns
  <1>13. e.sequence >= d.sequence
    <2>1. d.sequence \in Nat /\ a.sequence \in Nat /\ v.sequence \in Nat
      BY <1>6, <1>7, GoodTypes, Zenon
    <2>2. a.sequence >= o.sequence
      BY <1>6 DEF Onward
    <2>3. QED BY <1>7, <1>12, <2>1, <2>2
  <1>14. Height[b] = Height[d.tip] + 1
    BY <1>3, TreeFacts
  <1>15. QED BY <1>10, <1>11, <1>12, <1>13, <1>14

\* A backfill keeps the store sound, and its events move the high-water mark.
LEMMA ApplyBackfillBlockGood ==
  ASSUME Counting,
         NEW d, Good(d, d.tip), NEW b, NEW targets, targets # {}, NEW legs,
         NEW e, e = ApplyBackfillBlock(d, b, targets, legs), e # Null
  PROVE  /\ Good(e, e.tip)
         /\ e.tip = d.tip /\ e.status = d.status /\ e.epoch = d.epoch
         /\ e.sequence > d.sequence
  <1>1. PICK h, p, a, q, sync, r :
            /\ h = Height[b]
            /\ p = PushProgress(d, h, targets)
            /\ a = ApplyLegs(p, b, legs, 0)
            /\ q = PushContracts(a, h, targets)
            /\ sync = IF b = d.tip THEN "Ready" ELSE "CatchingUp"
            /\ r = MarkThrough(q, b, targets, sync)
    BY Zenon
  <1> DEFINE Step(item) == [next |-> <<h + 1, 0>>,
                            pinned |-> IF item.pinned = b /\ b # d.tip THEN d.tip ELSE item.pinned]
  <1>2. PICK x, m, k :
            /\ x = [c \in Contracts |-> IF c \in targets THEN Step(r.progress[c]) ELSE r.progress[c]]
            /\ m = [r EXCEPT !.progress = x]
            /\ k = Cardinality(targets) * (IF b = d.tip THEN 2 ELSE 1)
    BY Zenon
  <1>3. e = IF \/ d.status = "RescanRequired"
               \/ b \notin Chain[d.tip]
               \/ \E c \in targets :
                     \/ c \notin CatchingUp(d) \/ d.progress[c] = Null
                     \/ d.progress[c].next[1] # h \/ Height[d.progress[c].pinned] < h
               \/ a = Null
            THEN Null ELSE AppendEvents(m, k)
    BY <1>1, <1>2, Zenon DEF ApplyBackfillBlock
  <1>4. /\ b \in Chain[d.tip] /\ a # Null /\ e = AppendEvents(m, k)
        /\ \A c \in targets : c \in CatchingUp(d) /\ d.progress[c] # Null
    BY <1>3, Zenon
  <1>5. PICK T \in Blocks : T = d.tip
    BY GoodTypes, Zenon
  <1>6. b \in Blocks /\ h \in Nat /\ h \in Heights
    BY <1>1, <1>4, <1>5, AtOwnHeight, TreeFacts, Zenon DEF Heights
  <1>7. /\ targets \in SUBSET Contracts
        /\ \A c \in targets : d.contract[c] \in Record /\ d.progress[c] \in Progress
    BY <1>4, GoodTypes DEF CatchingUp, Present
  <1>8. Good(p, T) /\ SameBut(d, p, {"undo"})
    BY <1>1, <1>5, <1>6, PushProgressGood
  <1>9. Good(a, T) /\ Onward(p, a)
    <2>1. 0 \in Nat /\ a = ApplyLegs(p, b, legs, 0)
      BY <1>1, Zenon
    <2>2. QED BY <1>4, <1>5, <1>8, <2>1, ApplyLegsGood, Zenon
  <1>10. Good(q, T) /\ SameBut(a, q, {"undo"})
    BY <1>1, <1>6, <1>9, PushContractsGood
  <1>11. /\ p.contract = d.contract /\ q.contract = a.contract
         /\ SameBut(d, q, LegColumns \cup {"sequence"})
         /\ p.sequence = d.sequence /\ q.sequence = a.sequence
    BY <1>8, <1>9, <1>10 DEF SameBut, Columns, Onward, LegColumns
  <1>12. Good(r, T) /\ SameBut(q, r, {"contract"})
    <2>1. \A c \in targets : c \in Contracts => q.contract[c] \in Record
      BY <1>7, <1>9, <1>11, Zenon DEF Onward, RecordsKept
    <2>2. sync \in {"CatchingUp", "Ready"} /\ r = MarkThrough(q, b, targets, sync)
      BY <1>1, Zenon
    <2>3. QED BY <1>6, <1>10, <2>1, <2>2, MarkThroughGood, Zenon
  <1>13. r.progress = d.progress
    BY <1>11, <1>12, Zenon DEF SameBut, Columns, LegColumns
  <1>14. x \in [Contracts -> Progress \cup {Null}]
    <2>1. \A item \in Progress : Step(item) \in Progress
      BY <1>5, <1>6 DEF Progress
    <2>2. r.progress \in [Contracts -> Progress \cup {Null}]
      BY <1>12, GoodTypes
    <2> HIDE DEF Step
    <2>3. x = [c \in Contracts |-> IF c \in targets THEN Step(r.progress[c]) ELSE r.progress[c]]
      BY <1>2
    <2>4. QED BY <1>7, <1>13, <2>1, <2>2, <2>3
  <1>15. Good(m, T) /\ SameBut(r, m, {"progress"})
    BY <1>2, <1>12, <1>14, ProgressWrite, Zenon
  <1>16. k \in Nat /\ k > 0
    <2>1. Cardinality(targets) \in Nat /\ Cardinality(targets) > 0
      BY <1>7, Zenon DEF Counting
    <2>2. QED BY <1>2, <2>1
  <1>17. Good(e, T) /\ SameBut(m, e, {"sequence"}) /\ e.sequence = m.sequence + k
    BY <1>4, <1>15, <1>16, AppendEventsGood, Zenon
  <1>18. /\ e.tip = d.tip /\ e.status = d.status /\ e.epoch = d.epoch
         /\ m.sequence = a.sequence
    BY <1>11, <1>12, <1>15, <1>17 DEF SameBut, Columns, LegColumns
  <1>19. e.sequence > d.sequence
    <2>1. d.sequence \in Nat /\ a.sequence \in Nat /\ a.sequence >= p.sequence
      BY <1>9, GoodTypes, Zenon DEF Onward
    <2>2. QED BY <1>11, <1>16, <1>17, <1>18, <2>1
  <1>20. QED BY <1>5, <1>17, <1>18, <1>19

-----------------------------------------------------------------------------
(* Rollback. *)

\* A chain without its last block holds what was below that block.
LEMMA CanonicalParent ==
  ASSUME Counting,
         NEW b \in Blocks, b # Activation, NEW p, NEW t, Canonical(p, t, b), p[1] # Height[b]
  PROVE  Canonical(p, t, Parent[b])
  <1>1. p[1] \in 0 .. Height[Parent[b]]
    BY TreeFacts DEF Canonical
  <1>2. At(b, p[1]) = At(Parent[b], p[1])
    BY <1>1, AtParent, Zenon
  <1>3. QED BY <1>1, <1>2 DEF Canonical

\* A turn of the rollback leads to a sound store one block down.
LEMMA UndoTipGood ==
  ASSUME Counting,
         NEW d, Good(d, d.tip), NEW h, h = Height[d.tip], d.undo[h] # Null,
         NEW e, e = UndoTip(d)
  PROVE  /\ Good(e, e.tip)
         /\ h \in Nat /\ Height[e.tip] = h - 1
         /\ e.status = d.status /\ e.epoch = d.epoch /\ e.sequence = d.sequence
         /\ \A k \in Heights : k # h => e.undo[k] = d.undo[k]
  <1>1. PICK T \in Blocks : T = d.tip
    BY GoodTypes
  <1>2. h \in Heights /\ h \in Nat
    BY <1>1, TreeFacts DEF Heights
  <1>3. PICK u : u = d.undo[h]
    OBVIOUS
  <1>4. UndoTyped(u) /\ h \in 1 .. h /\ u.previous = At(T, h - 1)
    BY <1>1, <1>2, <1>3, Zenon DEF Good, JournalOK
  <1>5. PICK P \in Blocks : T # Activation /\ P = Parent[T] /\ Height[P] = h - 1
    BY <1>1, <1>2, <1>4, TreeFacts
  <1>6. u.previous = P
    <2>1. P \in Chain[P] /\ h - 1 \in 0 .. Height[P]
      BY <1>2, <1>4, <1>5, ChainFacts
    <2>2. At(T, h - 1) = At(P, h - 1)
      BY <1>5, <2>1, AtParent
    <2>3. At(P, Height[P]) = P
      BY <2>1, AtOwnHeight
    <2>4. QED BY <1>4, <1>5, <2>2, <2>3, Zenon
  <1>7. PICK x1, x2, x3, x4, x5 :
            /\ x1 = [c \in Contracts |-> IF c \in DOMAIN u.contract THEN u.contract[c]
                                         ELSE d.contract[c]]
            /\ x2 = [c \in Contracts |-> IF c \in DOMAIN u.progress THEN u.progress[c]
                                         ELSE d.progress[c]]
            /\ x3 = {y \in d.history : \A gone \in u.history :
                                           y.id # gone.id \/ y.position # gone.position}
            /\ x4 = {row \in d.transactions : row.position \notin u.positions}
            /\ x5 = [d.undo EXCEPT ![h] = Null]
    BY Zenon
  <1>8. /\ SameBut(d, e, {"tip", "contract", "progress", "history", "transactions", "undo"})
        /\ e.tip = P /\ e.contract = x1 /\ e.progress = x2 /\ e.history = x3
        /\ e.transactions = x4 /\ e.undo = x5
    <2>1. IsStore(d)
      BY DEF Good
    <2>2. e = [d EXCEPT !.tip = P, !.contract = x1, !.progress = x2, !.history = x3,
                        !.transactions = x4, !.undo = x5]
      <3>1. e = [d EXCEPT !.tip = u.previous, !.contract = x1, !.progress = x2, !.history = x3,
                          !.transactions = x4, !.undo = [@ EXCEPT ![h] = Null]]
        BY <1>3, <1>7, Zenon DEF UndoTip
      <3>2. QED BY <1>6, <1>7, <3>1, Zenon
    <2>3. QED BY <2>1, <2>2, Zenon DEF IsStore, SameBut, Columns
  <1>9. IsStore(e) /\ e.status = d.status /\ e.epoch = d.epoch /\ e.sequence = d.sequence
        /\ e.retained = d.retained
    BY <1>8, Zenon DEF SameBut, Columns
  <1>10. TablesTyped(e)
    <2>1. TablesTyped(d)
      BY Zenon DEF Good
    <2>2. x1 \in [Contracts -> Record \cup {Null}]
      BY <1>4, <1>7, <2>1, Zenon DEF UndoTyped, TablesTyped
    <2>3. x2 \in [Contracts -> Progress \cup {Null}]
      BY <1>4, <1>7, <2>1, Zenon DEF UndoTyped, TablesTyped
    <2>4. QED BY <1>8, <1>9, <2>1, <2>2, <2>3, Zenon DEF TablesTyped
  <1>11. /\ DOMAIN x5 = Heights /\ x5[h] = Null
         /\ \A k \in Heights : k # h => x5[k] = d.undo[k]
    BY <1>2, <1>7 DEF Good, JournalOK
  <1>12. AllCanonical(x4, P) /\ RowsCovered(x5, x4)
    <2> SUFFICES ASSUME NEW row \in x4
                 PROVE  /\ Canonical(row.position, row.txid, P)
                        /\ x5[row.position[1]] # Null => row.position \in x5[row.position[1]].positions
      BY Zenon DEF AllCanonical, RowsCovered
    <2>1. row \in d.transactions /\ row.position \notin u.positions
      BY <1>7, Zenon
    <2>2. /\ Canonical(row.position, row.txid, T)
          /\ d.undo[row.position[1]] # Null =>
                row.position \in d.undo[row.position[1]].positions
      BY <1>1, <2>1, Zenon DEF Good, AllCanonical, RowsCovered
    <2>3. row.position[1] # h /\ row.position[1] \in Heights
      BY <1>3, <2>1, <2>2, CanonicalHeight, Zenon
    <2>4. Canonical(row.position, row.txid, P)
      BY <1>1, <1>5, <2>2, <2>3, CanonicalParent, Zenon
    <2>5. x5[row.position[1]] = d.undo[row.position[1]]
      BY <1>11, <2>3
    <2>6. QED BY <2>2, <2>4, <2>5, Zenon
  <1>13. AllCanonical(x3, P) /\ HistoryCovered(x5, x3)
    <2> SUFFICES ASSUME NEW y \in x3
                 PROVE  /\ Canonical(y.position, y.txid, P)
                        /\ x5[y.position[1]] # Null =>
                              \E gone \in x5[y.position[1]].history :
                                  gone.id = y.id /\ gone.position = y.position
      BY Zenon DEF AllCanonical, HistoryCovered
    <2>1. /\ y \in d.history
          /\ \A gone \in u.history : y.id # gone.id \/ y.position # gone.position
      BY <1>7
    <2>2. /\ Canonical(y.position, y.txid, T)
          /\ d.undo[y.position[1]] # Null =>
                \E gone \in d.undo[y.position[1]].history :
                    gone.id = y.id /\ gone.position = y.position
      BY <1>1, <2>1, Zenon DEF Good, AllCanonical, HistoryCovered
    <2>3. y.position[1] # h /\ y.position[1] \in Heights
      BY <1>3, <2>1, <2>2, CanonicalHeight, Zenon
    <2>4. Canonical(y.position, y.txid, P)
      BY <1>1, <1>5, <2>2, <2>3, CanonicalParent, Zenon
    <2>5. x5[y.position[1]] = d.undo[y.position[1]]
      BY <1>11, <2>3
    <2>6. QED BY <2>2, <2>4, <2>5, Zenon
  <1>14. JournalOK(x5, P)
    <2> SUFFICES ASSUME NEW k \in Heights, x5[k] # Null
                 PROVE  /\ UndoTyped(x5[k])
                        /\ k \in 1 .. Height[P]
                        /\ x5[k].previous = At(P, k - 1)
      BY <1>11, Zenon DEF JournalOK
    <2>1. k # h /\ x5[k] = d.undo[k]
      BY <1>11, Zenon
    <2>2. UndoTyped(x5[k]) /\ k \in 1 .. h /\ x5[k].previous = At(T, k - 1)
      BY <1>1, <2>1, Zenon DEF Good, JournalOK
    <2>3. k \in 1 .. Height[P] /\ k - 1 \in 0 .. Height[P]
      BY <1>2, <1>5, <2>1, <2>2
    <2>4. At(T, k - 1) = At(P, k - 1)
      BY <1>5, <2>3, AtParent
    <2>5. QED BY <2>2, <2>3, <2>4, Zenon
  <1>15. Good(e, P)
    BY <1>8, <1>9, <1>10, <1>12, <1>13, <1>14, Zenon DEF Good
  <1>16. QED BY <1>2, <1>5, <1>8, <1>9, <1>11, <1>15, Zenon

UndoTurns(f, d, depth) == f = [n \in 0 .. depth |-> IF n = 0 THEN d ELSE UndoTip(f[n - 1])]

LEMMA UndoTurnsExist ==
  ASSUME Counting,
         NEW d, NEW depth \in Nat,
         ~(depth > UndoRetention \/ \E k \in Height[d.tip] - depth + 1 .. Height[d.tip] :
                                        d.undo[k] = Null)
  PROVE  \E f : /\ UndoTurns(f, d, depth)
                /\ RollbackTo(d, depth) = AppendEvents([f[depth] EXCEPT !.status = "Syncing"], 1)
  <1> DEFINE F(x) == UndoTip(x)
             Is(g, n) == g = [k \in 0 .. n |-> IF k = 0 THEN d ELSE F(g[k - 1])]
             Bad == {n \in Nat : ~\E g : Is(g, n)}
  <1> HIDE DEF F
  <1>1. Bad = {}
    <2> SUFFICES ASSUME Bad # {} PROVE FALSE
      OBVIOUS
    <2>1. PICK n \in Bad : \A m \in Bad : n <= m
      <3> HIDE DEF Is
      <3> QED BY Least, Zenon
    <2>2. CASE n = 0
      <3>1. Is([k \in 0 .. 0 |-> d], 0)
        OBVIOUS
      <3>2. QED BY <2>2, <3>1, Zenon
    <2>3. CASE n # 0
      <3>1. n - 1 \in Nat /\ n - 1 \notin Bad
        <4> HIDE DEF Is
        <4> QED BY <2>1, <2>3
      <3>2. PICK g : Is(g, n - 1)
        BY <3>1
      <3>3. Is([k \in 0 .. n |-> IF k = n THEN F(g[n - 1]) ELSE g[k]], n)
        BY <2>3, <3>2
      <3>4. QED BY <3>3, Zenon
    <2>4. QED BY <2>2, <2>3
  <1>2. PICK g : Is(g, depth)
    <2> HIDE DEF Is
    <2> QED BY <1>1, Zenon
  <1>3. PICK f : f = CHOOSE g1 : Is(g1, depth)
    OBVIOUS
  <1>4. Is(f, depth)
    BY <1>2, <1>3, Zenon
  <1>5. UndoTurns(f, d, depth)
    BY <1>4, Zenon DEF UndoTurns, F
  <1>6. RollbackTo(d, depth) = AppendEvents([f[depth] EXCEPT !.status = "Syncing"], 1)
    BY <1>3, Zenon DEF RollbackTo, F
  <1>7. QED BY <1>5, <1>6, Zenon

\* The cursor of a page or of a subscription is not valid for other data: either it
\* stays behind, or nothing it shows has changed.
CursorStep(d, e) ==
    /\ \/ e.epoch > d.epoch
       \/ e.epoch = d.epoch /\ e.sequence >= d.sequence
    /\ <<e.contract, e.history, e.transactions>> # <<d.contract, d.history, d.transactions>>
          => <<e.tip, e.epoch, e.sequence>> # <<d.tip, d.epoch, d.sequence>>

\* What a sound store may become in one write transaction.
Write(d, e) == Good(e, e.tip) /\ CursorStep(d, e)

LEMMA NoWrite ==
  ASSUME NEW d, Good(d, d.tip)
  PROVE  Write(d, d)
  <1>1. d.sequence \in Nat
    BY GoodTypes
  <1>2. QED BY <1>1 DEF Write, CursorStep

\* The status and the counters may change without the tables.
LEMMA CounterWrite ==
  ASSUME NEW T \in Blocks, NEW d, Good(d, T), NEW e, SameBut(d, e, {"status", "epoch", "sequence"}),
         e.status \in Statuses, e.epoch \in Nat, e.sequence \in Nat
  PROVE  Good(e, T)
  <1>1. TablesTyped(e)
    BY DEF Good, TablesTyped, SameBut, Columns
  <1>2. SameBut(d, e, {"tip", "status", "epoch", "sequence", "contract", "retained", "progress"})
    BY DEF SameBut
  <1>3. QED BY <1>1, <1>2, ColumnWrite, Zenon

LEMMA SetSyncStatusWrite ==
  ASSUME NEW d, Good(d, d.tip), NEW status \in Statuses, NEW e, e = SetSyncStatus(d, status)
  PROVE  /\ Good(e, e.tip) /\ e.tip = d.tip
         /\ SameBut(d, e, {"status", "sequence"}) /\ e.sequence >= d.sequence
  <1>1. d.tip \in Blocks /\ d.epoch \in Nat /\ d.sequence \in Nat /\ d.sequence + 1 \in Nat
    BY GoodTypes
  <1>2. CASE d.status \in {status, "RescanRequired"}
    <2>1. e = d
      BY <1>2 DEF SetSyncStatus
    <2>2. QED BY <1>1, <2>1, SameStore
  <1>3. CASE d.status \notin {status, "RescanRequired"}
    <2>1. IsStore(d) /\ e = [[d EXCEPT !.status = status] EXCEPT !.sequence = @ + 1]
      BY <1>3, Zenon DEF Good, SetSyncStatus, AppendEvents
    <2>2. /\ SameBut(d, e, {"status", "sequence"})
          /\ e.status = status /\ e.sequence = d.sequence + 1
      BY <2>1, Zenon DEF IsStore, SameBut, Columns
    <2>3. /\ SameBut(d, e, {"status", "epoch", "sequence"})
          /\ e.tip = d.tip /\ e.epoch = d.epoch
      BY <2>2 DEF SameBut, Columns
    <2>4. Good(e, d.tip)
      BY <1>1, <2>2, <2>3, CounterWrite
    <2>5. QED BY <1>1, <2>2, <2>3, <2>4
  <1>4. QED BY <1>2, <1>3, Zenon

LEMMA MarkRebuildRequiredWrite ==
  ASSUME NEW d, Good(d, d.tip), NEW e, e = MarkRebuildRequired(d)
  PROVE  Write(d, e) /\ e.tip = d.tip
  <1>1. d.tip \in Blocks /\ d.epoch \in Nat /\ d.epoch + 1 \in Nat /\ d.epoch + 1 > d.epoch
    BY GoodTypes
  <1>2. CASE d.status = "RescanRequired"
    <2>1. e = d
      BY <1>2 DEF MarkRebuildRequired
    <2>2. QED BY <2>1, NoWrite
  <1>3. CASE d.status # "RescanRequired"
    <2>1. /\ IsStore(d)
          /\ e = [d EXCEPT !.status = "RescanRequired", !.epoch = d.epoch + 1, !.sequence = 1]
      BY <1>3, Zenon DEF Good, MarkRebuildRequired
    <2>2. /\ SameBut(d, e, {"status", "epoch", "sequence"})
          /\ e.status = "RescanRequired" /\ e.epoch = d.epoch + 1 /\ e.sequence = 1
      BY <2>1, Zenon DEF IsStore, SameBut, Columns
    <2>3. Good(e, d.tip) /\ e.tip = d.tip
      BY <1>1, <2>2, CounterWrite DEF Statuses, SameBut, Columns
    <2>4. QED BY <1>1, <2>2, <2>3 DEF Write, CursorStep
  <1>4. QED BY <1>2, <1>3

\* A rollback leads to a sound store, or to one that waits for a rebuild.
LEMMA RollbackToWrite ==
  ASSUME Counting,
         NEW d, Good(d, d.tip), NEW depth \in Nat, depth <= Height[d.tip],
         NEW e, e = RollbackTo(d, depth)
  PROVE  Write(d, e)
  <1>1. PICK h : h = Height[d.tip]
    BY Zenon
  <1>2. h \in Nat
    BY <1>1, TreeFacts, GoodTypes, Zenon
  <1>3. CASE depth > UndoRetention \/ \E k \in h - depth + 1 .. h : d.undo[k] = Null
    <2>1. e = MarkRebuildRequired(d)
      BY <1>1, <1>3, Zenon DEF RollbackTo
    <2>2. QED BY <2>1, MarkRebuildRequiredWrite
  <1>4. CASE ~(depth > UndoRetention \/ \E k \in h - depth + 1 .. h : d.undo[k] = Null)
    <2>1. PICK f : /\ UndoTurns(f, d, depth)
                   /\ e = AppendEvents([f[depth] EXCEPT !.status = "Syncing"], 1)
      <3>1. \E f : /\ UndoTurns(f, d, depth)
                   /\ RollbackTo(d, depth) = AppendEvents([f[depth] EXCEPT !.status = "Syncing"], 1)
        BY <1>1, <1>4, UndoTurnsExist, Zenon
      <3>2. QED BY <3>1, Zenon
    <2> DEFINE Fine(n, x) ==
                   /\ Good(x, x.tip) /\ Height[x.tip] = h - n
                   /\ x.status = d.status /\ x.epoch = d.epoch /\ x.sequence = d.sequence
                   /\ \A k \in Heights : k <= h - n => x.undo[k] = d.undo[k]
               S == {n \in 0 .. depth : Fine(n, f[n])}
    <2>2. 0 \in S
      <3>1. f[0] = d
        BY <2>1 DEF UndoTurns
      <3>2. QED BY <1>1, <1>2, <3>1
    <2>3. ASSUME NEW n \in 1 .. depth, n - 1 \in S PROVE n \in S
      <3>1. PICK x : x = f[n - 1]
        OBVIOUS
      <3>2. PICK y : y = f[n]
        BY Zenon
      <3>3. Fine(n - 1, x)
        BY <2>3, <3>1
      <3>4. y = UndoTip(x)
        <4>1. n \in 0 .. depth /\ n # 0
          OBVIOUS
        <4>2. QED BY <2>1, <3>1, <3>2, <4>1, Zenon DEF UndoTurns
      <3>5. PICK hx : hx = Height[x.tip] /\ hx = h - n + 1
        BY <1>2, <3>3
      <3>6. hx \in Heights /\ hx \in h - depth + 1 .. h
        <4>1. x.tip \in Blocks
          BY <3>3, GoodTypes, Zenon
        <4>2. hx \in Heights
          BY <3>5, <4>1, Zenon DEF Heights
        <4>3. hx \in h - depth + 1 .. h
          BY <1>2, <3>5
        <4>4. QED BY <4>2, <4>3
      <3>7. d.undo[hx] # Null
        BY <1>4, <3>6, Zenon
      <3>8. x.undo[hx] # Null
        BY <1>2, <3>3, <3>5, <3>6, <3>7
      <3>9. /\ Good(y, y.tip) /\ Height[y.tip] = hx - 1
            /\ y.status = x.status /\ y.epoch = x.epoch /\ y.sequence = x.sequence
            /\ \A k \in Heights : k # hx => y.undo[k] = x.undo[k]
        BY <3>3, <3>4, <3>5, <3>8, UndoTipGood
      <3>10. \A k \in Heights : k <= h - n => y.undo[k] = d.undo[k]
        <4> TAKE k \in Heights
        <4> HAVE k <= h - n
        <4>1. k \in Nat
          BY TreeFacts DEF Heights
        <4>2. k # hx /\ k <= h - (n - 1)
          BY <1>2, <3>5, <4>1
        <4>3. QED BY <3>3, <3>9, <4>2
      <3>11. Fine(n, y)
        BY <1>2, <3>3, <3>5, <3>9, <3>10
      <3>12. n \in 0 .. depth
        OBVIOUS
      <3>13. QED BY <3>2, <3>11, <3>12
    <2>4. depth \in S
      <3> HIDE DEF S
      <3>1. \A n \in 1 .. depth : n - 1 \in S => n \in S
        BY <2>3
      <3>2. \A n \in 0 .. depth : n \in S
        BY <2>2, <3>1, UpTo, Zenon
      <3>3. depth \in 0 .. depth
        OBVIOUS
      <3>4. QED BY <3>2, <3>3
    <2>5. PICK x : x = f[depth] /\ Fine(depth, x)
      BY <2>4, Zenon
    <2>6. /\ IsStore(x) /\ x.tip \in Blocks /\ x.epoch \in Nat /\ x.sequence \in Nat
          /\ x.sequence + 1 \in Nat
      BY <2>5, GoodTypes
    <2>7. e = [[x EXCEPT !.status = "Syncing"] EXCEPT !.sequence = @ + 1]
      BY <2>1, <2>5, Zenon DEF AppendEvents
    <2>8. /\ SameBut(x, e, {"status", "epoch", "sequence"})
          /\ e.status = "Syncing" /\ e.epoch = x.epoch /\ e.sequence = x.sequence + 1
          /\ e.tip = x.tip
      BY <2>6, <2>7, Zenon DEF IsStore, SameBut, Columns
    <2>9. Good(e, x.tip)
      BY <2>5, <2>6, <2>8, CounterWrite, Zenon DEF Statuses
    <2>10. e.epoch = d.epoch /\ e.sequence = d.sequence + 1 /\ d.sequence \in Nat
      BY <2>5, <2>6, <2>8, Zenon
    <2>11. QED BY <2>8, <2>9, <2>10 DEF Write, CursorStep
  <1>5. QED BY <1>3, <1>4

\* The reset before a rebuild keeps the journal going.
LEMMA ResetForRebuildWrite ==
  ASSUME NEW d, Good(d, d.tip), NEW e, e = ResetForRebuild(d)
  PROVE  Write(d, e)
  <1>1. PICK x1, x2, x3, z : /\ x1 = [c \in Contracts |-> Null]
                             /\ x2 = [h \in Heights |-> Null]
                             /\ x3 = d.sequence + 1
                             /\ z = EmptyStore
    BY Zenon
  <1>2. /\ IsStore(z) /\ z.tip = Activation /\ z.contract = x1 /\ z.progress = x1
        /\ z.history = {} /\ z.transactions = {} /\ z.undo = x2
    BY <1>1 DEF EmptyStore, IsStore, Columns
  <1>3. e = [z EXCEPT !.status = "Syncing", !.epoch = d.epoch, !.sequence = x3,
                      !.retained = d.retained]
    BY <1>1, Zenon DEF ResetForRebuild
  <1>4. /\ SameBut(z, e, {"status", "epoch", "sequence", "retained"})
        /\ e.status = "Syncing" /\ e.epoch = d.epoch /\ e.sequence = x3 /\ e.retained = d.retained
    BY <1>2, <1>3, Zenon DEF IsStore, SameBut, Columns
  <1>5. /\ IsStore(e) /\ e.tip = Activation /\ e.contract = x1 /\ e.progress = x1
        /\ e.history = {} /\ e.transactions = {} /\ e.undo = x2
    BY <1>2, <1>4, Zenon DEF SameBut, Columns
  <1>6. d.epoch \in Nat /\ d.sequence \in Nat /\ d.retained \subseteq Contracts
        /\ Activation \in Blocks
    BY ChainAssumption, GoodTypes, Zenon DEF TreeAssumption
  <1>7. TablesTyped(e)
    BY <1>1, <1>4, <1>5, <1>6 DEF TablesTyped, Statuses
  <1>8. JournalOK(x2, Activation)
    BY <1>1, Zenon DEF JournalOK
  <1>9. Good(e, Activation)
    BY <1>5, <1>7, <1>8 DEF Good, AllCanonical, RowsCovered, HistoryCovered
  <1>10. QED BY <1>1, <1>4, <1>5, <1>6, <1>9 DEF Write, CursorStep

=============================================================================
