-------------------------- MODULE ChainStoreProofs --------------------------
(***************************************************************************)
(* Proofs about ChainStore for every block tree and every choice of the    *)
(* depths that satisfies the assumptions: type correctness, the durable    *)
(* tables and the context in RAM in step through commits, reorgs, crashes  *)
(* and restarts, what pruning keeps, that an interrupted suffix resumes    *)
(* and a staged reorg commits, and the refinement of CanonicalLedger.      *)
(***************************************************************************)
EXTENDS ChainStore, TLAPS

-----------------------------------------------------------------------------
(* The block tree. *)

\* Heights are natural numbers up to MaxHeight, and ancestors are blocks.
LEMMA TreeFacts ==
    /\ Genesis \in Block /\ NoBlock \notin Block
    /\ \A b \in Block : Height[b] \in Nat /\ Height[b] \in Heights
    /\ \A b \in Block : Anc[b] \in [Heights -> Block]
    /\ \A b \in Block : \A h \in Heights : Anc[b][h] \in Block
    /\ 0 \in Heights
    /\ Heights \subseteq Nat
<1>1. Genesis \in Block /\ NoBlock \notin Block
  BY TreeTypes, Zenon DEF TreeTypes
<1>2. ASSUME NEW b \in Block PROVE Height[b] \in Nat /\ Height[b] \in Heights
  BY TreeTypes DEF TreeTypes, Heights
<1>3. ASSUME NEW b \in Block PROVE Anc[b] \in [Heights -> Block]
  BY TreeTypes, Zenon DEF TreeTypes
<1>4. ASSUME NEW b \in Block, NEW h \in Heights PROVE Anc[b][h] \in Block
  BY <1>3, Zenon
<1>5. 0 \in Heights /\ Heights \subseteq Nat
  BY TreeTypes DEF TreeTypes, Heights
<1> QED
  BY <1>1, <1>2, <1>3, <1>4, <1>5, Zenon

\* The finality depth is positive and the memory's header window covers it.
LEMMA DepthFacts ==
    /\ FinalityDepth \in Nat /\ FinalityDepth >= 1
    /\ HeaderWindow \in Nat /\ HeaderWindow >= FinalityDepth
BY Depths DEF Depths

\* A height below another is not above it.
LEMMA Below == ASSUME NEW m \in Nat, NEW n \in Nat, m < n PROVE m <= n
OBVIOUS

\* The ancestor of b at a height not above b's lies at that height, and its own
\* ancestors are those of b.
LEMMA AncestorFacts ==
    ASSUME NEW b \in Block, NEW h \in Nat, h <= Height[b]
    PROVE  /\ h \in Heights
           /\ Anc[b][h] \in Block
           /\ Height[Anc[b][h]] = h
           /\ Extends(b, Anc[b][h])
           /\ \A k \in Nat : k <= h => Anc[Anc[b][h]][k] = Anc[b][k]
<1>1. h \in Heights /\ Height[b] \in Nat
  BY TreeTypes DEF TreeTypes, Heights
<1>2. Anc[b][h] \in Block
  BY <1>1, TreeFacts, Zenon
<1>3. h \in 0 .. Height[b]
  BY <1>1
<1>4. Height[Anc[b][h]] = h
  <2>1. \A n \in 0 .. Height[b] : Height[Anc[b][n]] = n
    BY TreeShape DEF TreeShape
  <2> QED
    BY <1>3, <2>1, Zenon
<1>5. ASSUME NEW k \in Nat, k <= h PROVE Anc[Anc[b][h]][k] = Anc[b][k]
  <2>1. k \in 0 .. h
    BY <1>5
  <2> QED
    BY <1>3, <2>1, TreeShape DEF TreeShape
<1> QED
  BY <1>1, <1>2, <1>4, <1>5, Zenon DEF Extends

\* Chains through a common block agree below it.
LEMMA SharedPrefix ==
    ASSUME NEW a \in Block, NEW b \in Block, Extends(b, a),
           NEW h \in Nat, h <= Height[a]
    PROVE  Anc[b][h] = Anc[a][h]
BY TreeFacts, AncestorFacts DEF Extends

\* Every block extends itself and Genesis.
LEMMA ExtendsEnds ==
    ASSUME NEW b \in Block
    PROVE  Extends(b, b) /\ Extends(b, Genesis) /\ Height[Genesis] = 0
           /\ Anc[b][Height[b]] = b
<1>1. Height[b] \in Nat /\ Height[Genesis] = 0 /\ Anc[b][Height[b]] = b /\ Anc[b][0] = Genesis
  BY TreeFacts, TreeShape, Zenon DEF TreeShape
<1> QED
  BY <1>1 DEF Extends

\* Ancestry is transitive.
LEMMA ExtendsTransitive ==
    ASSUME NEW a \in Block, NEW b \in Block, NEW c \in Block,
           Extends(c, b), Extends(b, a)
    PROVE  Extends(c, a)
BY TreeFacts, SharedPrefix DEF Extends

\* Of two ancestors of one block, the higher extends the lower.
LEMMA ChainIsLinear ==
    ASSUME NEW a \in Block, NEW b \in Block, NEW c \in Block,
           Extends(c, a), Extends(c, b), Height[a] <= Height[b]
    PROVE  Extends(b, a)
BY TreeFacts, SharedPrefix, Zenon DEF Extends

\* A block extends its parent, which is one lower.
LEMMA ParentFacts ==
    ASSUME NEW b \in Block, Height[b] # 0
    PROVE  /\ Parent(b) \in Block
           /\ Height[Parent(b)] = Height[b] - 1
           /\ Extends(b, Parent(b))
<1>0. Height[b] \in Nat
  BY TreeFacts, Zenon
<1>1. PICK h \in Nat : h = Height[b] - 1 /\ h <= Height[b]
  BY <1>0
<1>2. Parent(b) = Anc[b][h]
  BY <1>1, Zenon DEF Parent
<1> QED
  BY <1>1, <1>2, AncestorFacts

\* A chain that extends another one strictly has more work.
LEMMA ExtensionWins ==
    ASSUME NEW a \in Block, NEW b \in Block, Extends(b, a), Height[a] < Height[b]
    PROVE  ChainWins(b, a)
<1>1. Height[a] \in 0 .. Height[b]
  BY TreeFacts
<1>2. Work[Anc[b][Height[a]]] < Work[b]
  BY <1>1, TreeWork, Zenon DEF TreeWork
<1>3. Work[a] < Work[b]
  BY <1>2, Zenon DEF Extends
<1>4. Work[a] \in Nat /\ Work[b] \in Nat
  BY TreeTypes, Zenon DEF TreeTypes
<1> QED
  BY <1>3, <1>4, Zenon DEF ChainWins

-----------------------------------------------------------------------------
(* The inductive invariant. *)

\* RestartResumes and the refinement need each other's ingredients: a restart is
\* a stutter only if the tables are restorable, the tables stay the chain of
\* the tip only if the context in RAM matches them when a commit or a reorg
\* begins, and a reorg commits the right chain only if its staged part is in
\* step.  Together they are inductive.
Inv ==
    /\ TypeOK
    /\ HeadersAreTheChain
    /\ FinalityBound
    /\ RestartResumes
    /\ HotMatchesDurable
    /\ StagedReorgInStep

\* The genesis state satisfies the invariant.
LEMMA InitInv == Init => Inv
<1> SUFFICES ASSUME Init PROVE Inv
  BY Zenon
<1> USE DEF Init
<1>1. Height[Genesis] = 0 /\ Genesis \in Block /\ Anc[Genesis][0] = Genesis
      /\ Extends(Genesis, Genesis) /\ NoBlock \notin Block
  BY TreeFacts, ExtendsEnds, Zenon
<1>2. TypeOK
  BY <1>1, TreeFacts, Zenon DEF TypeOK, Cell, Phase
<1>3. HeadersAreTheChain
  BY <1>1, TreeFacts DEF HeadersAreTheChain
<1>4. FinalityBound
  BY <1>1, Depths DEF FinalityBound, Depths
<1>5. RestartResumes
  BY <1>1, TreeFacts DEF RestartResumes, Restorable, TipAuthorized
<1>6. HotMatchesDurable
  BY <1>1, Zenon DEF HotMatchesDurable
<1>7. StagedReorgInStep
  <2>1. cap \notin Reorg
    BY EmptyCell, Zenon DEF EmptyCell
  <2> QED
    BY <2>1, Zenon DEF StagedReorgInStep, StagedCandidate, RollbackInStep, ReplayInStep, CapabilityLinked
<1> QED
  BY <1>2, <1>3, <1>4, <1>5, <1>6, <1>7, Zenon DEF Inv

\* A step that leaves the durable tables alone except undo logs, payloads and
\* the watermark, and keeps the terminal of the tip, keeps what the invariant
\* says of them.
LEMMA DurableKept ==
    ASSUME Inv, UNCHANGED <<headers, tip, final, utxo>>,
           terms'[Height[tip]] = terms[Height[tip]], UNCHANGED authority
    PROVE  HeadersAreTheChain' /\ FinalityBound' /\ RestartResumes'
<1>1. HeadersAreTheChain'
  BY Zenon DEF Inv, HeadersAreTheChain
<1>2. FinalityBound'
  BY Zenon DEF Inv, FinalityBound, Extends
<1>3. RestartResumes'
  BY Zenon DEF Inv, RestartResumes, Restorable, TipAuthorized, RecordCovers, MarkerRow, CompleteRow
<1> QED
  BY <1>1, <1>2, <1>3, Zenon

\* A step that only takes or drops a capability.
LEMMA CapabilityStep ==
    ASSUME Inv, UNCHANGED <<headers, tip, final, utxo, undo, bodies, terms, watermark>>,
           UNCHANGED <<memTip, memFinal, memUtxo, recent, staging, phase, authority>>,
           cap' \in Suffix \cup Reorg \cup {NoBlock}, CapabilityLinked'
    PROVE  Inv'
<1>1. TypeOK'
  BY Zenon DEF Inv, TypeOK
<1>2. HeadersAreTheChain' /\ FinalityBound' /\ RestartResumes'
  BY DurableKept, Zenon
<1>3. HotMatchesDurable'
  BY Zenon DEF Inv, HotMatchesDurable
<1>4. StagedReorgInStep'
  BY Zenon DEF Inv, StagedReorgInStep, StagedCandidate, RollbackInStep, ReplayInStep, Extends, ChainWins
<1> QED
  BY <1>1, <1>2, <1>3, <1>4, Zenon DEF Inv

\* finalized_for_tip answers with a block of the chain of t, at or above the
\* current checkpoint, when the header it may have to look up is one of t's.
LEMMA FinalizedOnChain ==
    ASSUME NEW t \in Block, NEW h \in Nat, memFinal \in Block,
           Extends(t, memFinal), h <= Height[t] + FinalityDepth,
           \A k \in Heights : (k = h - FinalityDepth /\ k > Height[memFinal])
                                  => HeaderAt(k) = Anc[t][k]
    PROVE  /\ FinalizedForTip(h) \in Block
           /\ Extends(t, FinalizedForTip(h))
           /\ Extends(FinalizedForTip(h), memFinal)
           /\ h - Height[FinalizedForTip(h)] <= FinalityDepth
<1>1. FinalityDepth \in Nat /\ Height[memFinal] \in Nat /\ Height[t] \in Nat
  BY TreeFacts, Depths, Zenon DEF Depths
<1>2. CASE h <= Height[memFinal] + FinalityDepth
  <2>1. FinalizedForTip(h) = memFinal
    BY <1>2, Zenon DEF FinalizedForTip
  <2>2. Extends(memFinal, memFinal)
    BY ExtendsEnds, Zenon
  <2> QED
    BY <1>1, <1>2, <2>1, <2>2
<1>3. CASE ~ (h <= Height[memFinal] + FinalityDepth)
  <2>1. PICK k \in Nat : k = h - FinalityDepth /\ k > Height[memFinal] /\ k <= Height[t]
    BY <1>1, <1>3
  <2>2. /\ k \in Heights /\ Anc[t][k] \in Block /\ Height[Anc[t][k]] = k
        /\ Extends(t, Anc[t][k])
    BY <2>1, AncestorFacts, Zenon
  <2>3. FinalizedForTip(h) = Anc[t][k]
    BY <1>3, <2>1, <2>2, Zenon DEF FinalizedForTip
  <2>4. Extends(Anc[t][k], memFinal)
    BY <1>1, <2>1, <2>2, ChainIsLinear
  <2> QED
    BY <1>1, <2>1, <2>2, <2>3, <2>4
<1> QED
  BY <1>2, <1>3, Zenon

\* commit_block keeps the invariant, whichever caller committed.
LEMMA CommitBlockStep ==
    ASSUME Inv, Idle, NEW b \in Block, NEW row \in Row, row.block = b,
           Height[b] = Height[memTip] + 1, Parent(b) = memTip,
           CommitBlock(b, row), cap' \in Suffix \cup Reorg \cup {NoBlock},
           CapabilityLinked'
    PROVE  Inv' /\ Ledger!LedgerNext
<1> DEFINE f == FinalizedForTip(Height[b])
<1>1. /\ TypeOK /\ memTip = tip /\ memFinal = final /\ memUtxo = utxo /\ utxo = tip
      /\ \A h \in Heights : recent[h] # NoBlock => recent[h] = headers[h]
      /\ tip \in Block /\ final \in Block /\ Extends(tip, final)
      /\ NoBlock \notin Block
  BY TreeFacts, Zenon DEF Inv, HotMatchesDurable, Idle, TypeOK, FinalityBound, RestartResumes, Restorable
<1>2. /\ Height[b] \in Heights /\ Height[b] \in Nat /\ Height[tip] \in Nat
      /\ Height[b] = Height[tip] + 1 /\ Extends(b, tip)
      /\ FinalityDepth \in Nat /\ FinalityDepth >= 1
  <2>1. Height[b] # 0
    BY <1>1, TreeFacts
  <2> QED
    BY <1>1, <2>1, TreeFacts, ParentFacts, Depths DEF Depths
<1>3. \A h \in Heights : h <= Height[tip] => HeaderAt(h) = Anc[tip][h]
  BY <1>1, Zenon DEF Inv, HeadersAreTheChain, HeaderAt
<1>4. f \in Block /\ Extends(tip, f) /\ Extends(f, final) /\ Height[b] - Height[f] <= FinalityDepth
  <2>1. \A k \in Heights : (k = Height[b] - FinalityDepth /\ k > Height[memFinal])
                               => HeaderAt(k) = Anc[tip][k]
    BY <1>2, <1>3
  <2> QED
    BY <1>1, <1>2, <2>1, FinalizedOnChain
<1>5. /\ headers' = [headers EXCEPT ![Height[b]] = b]
      /\ tip' = b /\ final' = f /\ utxo' = b
      /\ undo' = [undo EXCEPT ![Height[b]] = b]
      /\ bodies' = [bodies EXCEPT ![Height[b]] = b]
      /\ terms' = [terms EXCEPT ![Height[b]] = row]
      /\ authority' = IF IsComplete(row) THEN NoBlock ELSE authority
      /\ memTip' = b /\ memFinal' = f /\ memUtxo' = b
      /\ recent' = WindowWith(b) /\ phase' = "payloads"
      /\ watermark' = watermark /\ staging' = staging
      /\ IsMarker(row) => RecordCovers(authority, Height[b], row.authority)
  BY Zenon DEF CommitBlock
<1> HIDE DEF f
<1>6. TypeOK'
  <2>1. recent' \in [Heights -> Cell]
    BY <1>1, <1>5, Zenon DEF TypeOK, WindowWith, Cell
  <2>2. /\ headers' \in [Heights -> Cell] /\ undo' \in [Heights -> Cell]
        /\ bodies' \in [Heights -> Cell]
    BY <1>1, <1>5, Zenon DEF TypeOK, Cell
  <2>3. terms' \in [Heights -> Row \cup {NoBlock}]
    BY <1>1, <1>5, Zenon DEF TypeOK
  <2> QED
    BY <1>1, <1>4, <1>5, <2>1, <2>2, <2>3, Zenon DEF TypeOK, Phase, Idle
<1>7. Extends(b, f)
  BY <1>1, <1>2, <1>4, ExtendsTransitive, Zenon
<1>8. HeadersAreTheChain'
  <2>1. ASSUME NEW h \in Heights
        PROVE  headers'[h] = IF h <= Height[b] THEN Anc[b][h] ELSE NoBlock
    <3>1. CASE h = Height[b]
      BY <1>1, <1>2, <1>5, <3>1, ExtendsEnds DEF TypeOK
    <3>2. CASE h # Height[b] /\ h <= Height[b]
      <4>0. h \in Nat
        BY TreeFacts, Zenon
      <4>1. h \in Nat /\ h <= Height[tip]
        BY <1>2, <3>2, <4>0
      <4>2. Anc[b][h] = Anc[tip][h]
        BY <1>1, <1>2, <4>1, SharedPrefix, Zenon
      <4> QED
        BY <1>1, <1>5, <3>2, <4>1, <4>2, Zenon DEF Inv, HeadersAreTheChain, TypeOK
    <3>3. CASE ~ (h <= Height[b])
      <4>1. ~ (h <= Height[tip]) /\ h # Height[b]
        BY <1>2, <3>3, TreeFacts
      <4> QED
        BY <1>1, <1>5, <3>3, <4>1, Zenon DEF Inv, HeadersAreTheChain, TypeOK
    <3> QED
      BY <3>1, <3>2, <3>3, Zenon
  <2> QED
    BY <2>1, <1>5, Zenon DEF HeadersAreTheChain
<1>9. FinalityBound'
  BY <1>4, <1>5, <1>7, Zenon DEF FinalityBound
<1>10. RestartResumes'
  <2>1. headers'[Height[b]] = b
    BY <1>1, <1>2, <1>5, Zenon DEF TypeOK
  <2>2. Height[f] <= Height[b] /\ headers'[Height[f]] = f
    BY <1>4, <1>5, <1>7, <1>8, TreeFacts, Zenon DEF HeadersAreTheChain, Extends
  <2>3. terms'[Height[b]] = row
    BY <1>1, <1>2, <1>5, Zenon DEF TypeOK
  <2>4. TipAuthorized'
    <3>1. CASE row.authority = b
      <4>1. row = CompleteRow(b)
        BY <3>1, Zenon DEF Row, CompleteRow
      <4> QED
        BY <1>5, <2>3, <4>1, Zenon DEF TipAuthorized
    <3>2. CASE row.authority # b
      <4>1. IsMarker(row) /\ ~ IsComplete(row)
        BY <3>2, EmptyCell, Zenon DEF IsMarker, IsComplete, EmptyCell
      <4>2. authority' = authority /\ RecordCovers(authority, Height[b], row.authority)
        BY <1>5, <4>1, Zenon
      <4>3. authority # NoBlock /\ authority.tip = row.authority
        BY <4>2, Zenon DEF RecordCovers
      <4>4. row = MarkerRow(b, authority.tip)
        BY <4>3, Zenon DEF Row, MarkerRow
      <4> QED
        BY <1>5, <2>3, <4>2, <4>3, <4>4, Zenon DEF TipAuthorized, RecordCovers
    <3> QED
      BY <3>1, <3>2, Zenon
  <2> QED
    BY <1>5, <2>1, <2>2, <2>4, Zenon DEF RestartResumes, Restorable
<1>11. HotMatchesDurable'
  <2>1. ASSUME NEW h \in Heights, recent'[h] # NoBlock PROVE recent'[h] = headers'[h]
    BY <1>1, <1>2, <1>5, <2>1, Zenon DEF WindowWith, TypeOK
  <2> QED
    BY <1>5, <2>1, Zenon DEF HotMatchesDurable
<1>12. StagedReorgInStep'
  BY <1>1, <1>5, Zenon DEF TypeOK, Idle, StagedReorgInStep, StagedCandidate, RollbackInStep, ReplayInStep
<1>13. Ledger!LedgerNext
  <2>1. ChainWins(b, tip)
    BY <1>1, <1>2, ExtensionWins
  <2>2. Ledger!Adopt(b, f)
    BY <1>4, <1>5, <1>7, <2>1, Zenon DEF Ledger!Adopt, Ledger!ChainWins, Ledger!Extends, ChainWins, Extends
  <2> QED
    BY <1>4, <2>2, Zenon DEF Ledger!LedgerNext
<1> QED
  BY <1>6, <1>8, <1>9, <1>10, <1>11, <1>12, <1>13, Zenon DEF Inv

\* begin_verified_recursive_suffix replaces the record only when the tip does
\* not depend on it.
LEMMA BeginSuffixStep ==
    ASSUME Inv, NEW t \in Block, BeginSuffix(t)
    PROVE  Inv'
<1>1. /\ UNCHANGED <<headers, tip, final, utxo, undo, bodies, terms, watermark,
                     memTip, memFinal, memUtxo, recent, staging, phase>>
      /\ authority' = IF TipIsMarker THEN authority ELSE [boundary |-> tip, tip |-> t]
      /\ cap' = [kind |-> "suffix", previous |-> memTip, target |-> t]
  BY Zenon DEF BeginSuffix
<1>2. TypeOK'
  <2>1. [boundary |-> tip, tip |-> t] \in Authority
    BY Zenon DEF Inv, TypeOK, Authority
  <2>2. cap' \in Suffix
    BY <1>1, Zenon DEF Inv, TypeOK, Suffix
  <2> QED
    BY <1>1, <2>1, <2>2, Zenon DEF Inv, TypeOK
<1>3. HeadersAreTheChain' /\ FinalityBound'
  BY <1>1, Zenon DEF Inv, HeadersAreTheChain, FinalityBound, Extends
<1>4. RestartResumes'
  <2>1. CASE TipIsMarker
    BY <1>1, <2>1, DurableKept, Zenon
  <2>2. CASE ~ TipIsMarker
    <3>1. Height[tip] = 0 \/ terms[Height[tip]] = CompleteRow(tip)
      <4>1. SUFFICES ASSUME Height[tip] # 0, terms[Height[tip]] # CompleteRow(tip)
                     PROVE  FALSE
        BY Zenon
      <4>2. /\ authority # NoBlock /\ RecordCovers(authority, Height[tip], authority.tip)
            /\ terms[Height[tip]] = MarkerRow(tip, authority.tip)
        BY <4>1, Zenon DEF Inv, RestartResumes, Restorable, TipAuthorized
      <4>3. authority.tip \in Block /\ tip \in Block
        BY <4>2, Zenon DEF Inv, TypeOK, Authority
      <4>4. authority.tip # tip
        BY <4>2, <4>3, TreeFacts DEF RecordCovers
      <4>5. MarkerRow(tip, authority.tip) \in Row
        BY <4>3, Zenon DEF MarkerRow, Row
      <4>6. terms[Height[tip]] # NoBlock
        BY <4>2, <4>5, EmptyCell, Zenon DEF EmptyCell
      <4> QED
        BY <2>2, <4>1, <4>2, <4>4, <4>6 DEF TipIsMarker, IsMarker, MarkerRow
    <3> QED
      BY <1>1, <3>1, Zenon DEF Inv, RestartResumes, Restorable, TipAuthorized
  <2> QED
    BY <2>1, <2>2, Zenon
<1>5. HotMatchesDurable'
  BY <1>1, Zenon DEF Inv, HotMatchesDurable
<1>6. StagedReorgInStep'
  <2>1. cap' \notin Reorg
    BY <1>1, Zenon DEF Reorg
  <2> QED
    BY <1>1, <2>1, Zenon DEF Inv, StagedReorgInStep, CapabilityLinked, StagedCandidate, RollbackInStep,
                      ReplayInStep, Extends, ChainWins
<1> QED
  BY <1>2, <1>3, <1>4, <1>5, <1>6, Zenon DEF Inv

\* The rollback starts from the durable tip, towards a block of its chain that
\* is not below the checkpoint.
LEMMA StartReorgStep ==
    ASSUME Inv, StartReorg
    PROVE  Inv'
<1> DEFINE a == cap.ancestor
           t == cap.target
<1>1. /\ UNCHANGED <<headers, tip, final, utxo, undo, bodies, terms, authority, watermark,
                     memTip, memFinal, memUtxo, recent, cap>>
      /\ staging' = [ancestor |-> a, target |-> t, at |-> Height[memTip]]
      /\ phase' = "revert" /\ phase = "idle" /\ cap \in Reorg
      /\ CandidateWins /\ InReorgWindow(a)
  BY Zenon DEF StartReorg, Idle
<1>2. a \in Block /\ t \in Block
  BY <1>1, Zenon DEF Reorg
<1>3. /\ memTip = tip /\ memFinal = final /\ memUtxo = utxo /\ utxo = tip
      /\ \A h \in Heights : recent[h] # NoBlock => recent[h] = headers[h]
      /\ tip \in Block /\ final \in Block /\ Extends(tip, final)
      /\ headers[Height[tip]] = tip
  BY <1>1, Zenon DEF Inv, HotMatchesDurable, TypeOK, FinalityBound, RestartResumes, Restorable
<1>4. /\ Height[a] < Height[tip] /\ Height[tip] - Height[a] <= FinalityDepth
      /\ Height[final] <= Height[a] /\ HeaderAt(Height[a]) = a
  BY <1>1, <1>3, Zenon DEF InReorgWindow
<1>5. Extends(tip, a)
  <2>1. headers[Height[a]] = a
    BY <1>2, <1>3, <1>4, TreeFacts, Zenon DEF HeaderAt
  <2>2. Height[a] \in Heights /\ Height[a] <= Height[tip]
    BY <1>2, <1>3, <1>4, TreeFacts
  <2>3. headers[Height[a]] = Anc[tip][Height[a]]
    BY <2>2, Zenon DEF Inv, HeadersAreTheChain
  <2> QED
    BY <2>1, <2>2, <2>3, Zenon DEF Extends
<1>6. Extends(a, final)
  BY <1>2, <1>3, <1>4, <1>5, ChainIsLinear, Zenon
<1>7. Extends(t, a) /\ Height[a] < Height[t]
  BY <1>1, Zenon DEF Inv, StagedReorgInStep, CapabilityLinked
<1>8. ChainWins(t, tip)
  BY <1>1, <1>3, Zenon DEF CandidateWins
<1>9. staging' \in Staging /\ staging' # NoBlock
  <2>1. staging' \in Staging
    BY <1>1, <1>2, <1>3, TreeFacts, Zenon DEF Staging
  <2> QED
    BY <2>1, EmptyCell, Zenon DEF EmptyCell
<1>10. staging'.ancestor = a /\ staging'.target = t /\ staging'.at = Height[tip]
  BY <1>1, <1>3, Zenon
<1> HIDE DEF a, t
<1>11. TypeOK'
  BY <1>1, <1>9, Zenon DEF Inv, TypeOK, Phase
<1>12. HeadersAreTheChain' /\ FinalityBound' /\ RestartResumes'
  BY <1>1, DurableKept, Zenon
<1>13. HotMatchesDurable'
  BY <1>1, Zenon DEF HotMatchesDurable
<1>14. StagedCandidate'
  BY <1>1, <1>4, <1>5, <1>6, <1>7, <1>8, <1>10, Zenon DEF StagedCandidate
<1>15. RollbackInStep'
  <2>1. ASSUME NEW h \in Heights, recent'[h] # NoBlock
        PROVE  h <= staging'.at /\ recent'[h] = headers'[h]
    <3>1. recent[h] = headers[h] /\ recent[h] # NoBlock
      BY <1>1, <1>3, <2>1, Zenon
    <3>2. h <= Height[tip]
      BY <3>1, Zenon DEF Inv, HeadersAreTheChain
    <3> QED
      BY <1>1, <1>10, <3>1, <3>2, Zenon
  <2>2. Height[tip] \in Nat
    BY <1>3, TreeFacts, Zenon
  <2> QED
    BY <1>1, <1>3, <1>4, <1>10, <2>1, <2>2 DEF RollbackInStep
<1>16. CapabilityLinked' /\ ReplayInStep'
  BY <1>1, Zenon DEF Inv, StagedReorgInStep, CapabilityLinked, ReplayInStep, Extends
<1> QED
  BY <1>11, <1>12, <1>13, <1>14, <1>15, <1>16, Zenon DEF Inv, StagedReorgInStep

\* One turn of the rollback loop restores the state of the parent on the old
\* chain; the last one reaches the ancestor.
LEMMA RevertBlockStep ==
    ASSUME Inv, RevertBlock
    PROVE  Inv'
<1> DEFINE h == staging.at
           a == staging.ancestor
<1>1. /\ UNCHANGED <<headers, tip, final, utxo, undo, bodies, terms, authority, watermark,
                     memFinal, cap>>
      /\ phase = "revert" /\ memUtxo = undo[h] /\ memUtxo' = Parent(undo[h])
      /\ recent' = [recent EXCEPT ![h] = NoBlock]
      /\ staging' = [staging EXCEPT !.at = h - 1]
      /\ IF h - 1 = Height[a] THEN memTip' = a /\ phase' = "apply"
                              ELSE memTip' = memTip /\ phase' = phase
  BY Zenon DEF RevertBlock
<1>2. /\ staging \in Staging /\ staging # NoBlock
      /\ a \in Block /\ staging.target \in Block /\ h \in Heights
      /\ tip \in Block /\ final \in Block /\ recent \in [Heights -> Cell]
  BY <1>1, Zenon DEF Inv, TypeOK, Staging
<1>3. /\ Height[a] < h /\ h <= Height[tip] /\ memTip = tip /\ memFinal = final
      /\ memUtxo = headers[h]
      /\ \A k \in Heights : recent[k] # NoBlock => k <= h /\ recent[k] = headers[k]
  BY <1>1, Zenon DEF Inv, StagedReorgInStep, RollbackInStep
<1>4. /\ Extends(tip, a) /\ Extends(a, final) /\ Extends(staging.target, a)
      /\ Height[a] < Height[staging.target]
  BY <1>2, Zenon DEF Inv, StagedReorgInStep, StagedCandidate
<1>5. h \in Nat /\ Height[a] \in Nat /\ h # 0 /\ h - 1 \in Nat /\ Height[tip] \in Nat
  <2>1. h \in Nat /\ Height[a] \in Nat /\ Height[tip] \in Nat /\ Height[a] < h
    BY <1>2, <1>3, TreeFacts, Zenon
  <2> QED
    BY <2>1
<1>6. undo[h] = Anc[tip][h]
  BY <1>1, <1>2, <1>3, Zenon DEF Inv, HeadersAreTheChain
<1>7. /\ Parent(undo[h]) \in Block /\ Parent(undo[h]) = Anc[tip][h - 1]
      /\ h - 1 \in Heights /\ headers[h - 1] = Anc[tip][h - 1]
  <2>1. /\ Anc[tip][h] \in Block /\ Height[Anc[tip][h]] = h
        /\ \A k \in Nat : k <= h => Anc[Anc[tip][h]][k] = Anc[tip][k]
    BY <1>2, <1>3, <1>5, AncestorFacts, Zenon
  <2>2. Parent(undo[h]) = Anc[tip][h - 1]
    BY <1>5, <1>6, <2>1 DEF Parent
  <2>3. PICK k \in Nat : k = h - 1 /\ k <= Height[tip]
    BY <1>3, <1>5
  <2>4. k \in Heights /\ Anc[tip][k] \in Block
    BY <1>2, <2>3, AncestorFacts, Zenon
  <2>5. headers[k] = Anc[tip][k]
    BY <2>3, <2>4, Zenon DEF Inv, HeadersAreTheChain
  <2> QED
    BY <2>2, <2>3, <2>4, <2>5, Zenon
<1>8. /\ staging' \in Staging /\ staging' # NoBlock
      /\ staging'.ancestor = a /\ staging'.target = staging.target /\ staging'.at = h - 1
  <2>1. /\ staging' \in Staging /\ staging'.ancestor = a
        /\ staging'.target = staging.target /\ staging'.at = h - 1
    BY <1>1, <1>2, <1>7, Zenon DEF Staging
  <2> QED
    BY <2>1, EmptyCell, Zenon DEF EmptyCell
<1>9. /\ recent' \in [Heights -> Cell]
      /\ \A k \in Heights : recent'[k] # NoBlock => k <= h - 1 /\ recent'[k] = headers[k]
  <2>1. recent' \in [Heights -> Cell]
    BY <1>1, <1>2, Zenon DEF Cell
  <2>2. ASSUME NEW k \in Heights, recent'[k] # NoBlock
        PROVE  k <= h - 1 /\ recent'[k] = headers[k]
    <3>1. k # h /\ recent'[k] = recent[k]
      BY <1>1, <1>2, <2>2, Zenon
    <3>2. k <= h /\ recent[k] = headers[k] /\ k \in Nat
      BY <1>3, <2>2, <3>1, TreeFacts, Zenon
    <3> QED
      BY <1>5, <3>1, <3>2
  <2> QED
    BY <2>1, <2>2, Zenon
<1> HIDE DEF h, a
<1>10. TypeOK'
  <2>1. memTip' \in Block /\ phase' \in {"revert", "apply"}
    BY <1>1, <1>2, <1>3, Zenon
  <2>2. memUtxo' \in Block
    BY <1>1, <1>7, Zenon
  <2> QED
    BY <1>1, <1>8, <1>9, <2>1, <2>2, Zenon DEF Inv, TypeOK, Phase
<1>11. HeadersAreTheChain' /\ FinalityBound' /\ RestartResumes'
  BY <1>1, DurableKept, Zenon
<1>12. HotMatchesDurable'
  BY <1>1, Zenon DEF HotMatchesDurable
<1>13. StagedCandidate'
  BY <1>1, <1>2, <1>8, Zenon DEF Inv, StagedReorgInStep, StagedCandidate, Extends, ChainWins, a
<1>14. CapabilityLinked'
  BY <1>1, Zenon DEF Inv, StagedReorgInStep, CapabilityLinked, Extends
<1>15. CASE h - 1 = Height[a]
  <2>1. memTip' = a /\ phase' = "apply"
    BY <1>1, <1>15, Zenon
  <2>2. memUtxo' = a
    BY <1>1, <1>4, <1>7, <1>15, Zenon DEF Extends
  <2>3. ASSUME NEW k \in Heights, recent'[k] # NoBlock
        PROVE  k <= Height[a] /\ recent'[k] = Anc[a][k]
    <3>1. k <= Height[a] /\ recent'[k] = headers[k] /\ k \in Nat
      BY <1>9, <1>15, <2>3, TreeFacts, Zenon
    <3>2. headers[k] = Anc[tip][k]
      BY <1>2, <1>4, <1>5, <3>1 DEF Inv, HeadersAreTheChain, Extends
    <3> QED
      BY <1>2, <1>4, <3>1, <3>2, SharedPrefix, Zenon
  <2>4. Extends(a, a)
    BY <1>2, ExtendsEnds, Zenon
  <2>5. \A k \in Heights : ~ (Height[a] < k /\ k <= Height[a])
    BY <1>5, TreeFacts
  <2>6. ReplayInStep'
    BY <1>1, <1>3, <1>4, <1>8, <2>1, <2>2, <2>3, <2>4, <2>5, Zenon DEF ReplayInStep
  <2>7. RollbackInStep'
    BY <2>1, Zenon DEF RollbackInStep
  <2> QED
    BY <1>10, <1>11, <1>12, <1>13, <1>14, <2>6, <2>7, Zenon DEF Inv, StagedReorgInStep
<1>16. CASE h - 1 # Height[a]
  <2>1. memTip' = memTip /\ phase' = "revert"
    BY <1>1, <1>16, Zenon
  <2>2. Height[a] < h - 1 /\ h - 1 <= Height[tip]
    BY <1>3, <1>5, <1>16
  <2>3. memUtxo' = headers[h - 1]
    BY <1>1, <1>7, Zenon
  <2>4. RollbackInStep'
    BY <1>1, <1>3, <1>8, <1>9, <2>1, <2>2, <2>3, Zenon DEF RollbackInStep
  <2>5. ReplayInStep'
    BY <2>1, Zenon DEF ReplayInStep
  <2> QED
    BY <1>10, <1>11, <1>12, <1>13, <1>14, <2>4, <2>5, Zenon DEF Inv, StagedReorgInStep
<1> QED
  BY <1>15, <1>16, Zenon

\* Applying the next block of the replacement moves tip, state and window one
\* block up the target's chain.
LEMMA StageBlockStep ==
    ASSUME Inv, StageBlock
    PROVE  Inv'
<1> DEFINE b == Anc[staging.target][Height[memTip] + 1]
           t == staging.target
           a == staging.ancestor
<1>1. /\ UNCHANGED <<headers, tip, final, utxo, undo, bodies, terms, authority, watermark,
                     memFinal, staging, cap, phase>>
      /\ phase = "apply" /\ memTip # t
      /\ memTip' = b /\ memUtxo' = b /\ recent' = WindowWith(b)
  BY Zenon DEF StageBlock
<1>2. /\ staging \in Staging /\ staging # NoBlock /\ memTip \in Block
      /\ a \in Block /\ t \in Block /\ recent \in [Heights -> Cell]
  BY <1>1, Zenon DEF Inv, TypeOK, Staging
<1>3. /\ Extends(t, memTip) /\ Extends(memTip, a) /\ memFinal = final
      /\ \A h \in Heights :
            /\ recent[h] # NoBlock => h <= Height[memTip] /\ recent[h] = Anc[memTip][h]
            /\ (Height[a] < h /\ h <= Height[memTip] /\ h >= Height[memTip] - HeaderWindow)
                  => recent[h] # NoBlock
  BY <1>1, Zenon DEF Inv, StagedReorgInStep, ReplayInStep
<1>4. /\ Height[memTip] \in Nat /\ Height[t] \in Nat /\ Height[a] \in Nat
      /\ HeaderWindow \in Nat
  BY <1>2, TreeFacts, Depths, Zenon DEF Depths
<1>5. Height[memTip] < Height[t]
  <2>1. Extends(t, memTip)
    BY <1>3, Zenon
  <2>2. Anc[t][Height[t]] = t
    BY <1>2, ExtendsEnds, Zenon
  <2>3. Height[memTip] <= Height[t] /\ Height[memTip] # Height[t]
    BY <1>1, <2>1, <2>2, Zenon DEF Extends
  <2> QED
    BY <1>4, <2>3
<1>6. /\ b \in Block /\ Height[b] = Height[memTip] + 1 /\ Extends(t, b)
      /\ Height[b] \in Heights
  <2>1. PICK k \in Nat : k = Height[memTip] + 1 /\ k <= Height[t]
    BY <1>4, <1>5
  <2> QED
    BY <1>2, <2>1, AncestorFacts, Zenon
<1> HIDE DEF b, a, t
<1>7. Extends(b, memTip)
  <2>1. Extends(t, memTip)
    BY <1>3, Zenon
  <2>2. Height[memTip] <= Height[b]
    BY <1>4, <1>6
  <2> QED
    BY <1>2, <1>6, <2>1, <2>2, ChainIsLinear, Zenon
<1>8. Extends(b, a)
  <2>1. Extends(memTip, a)
    BY <1>3, Zenon
  <2> QED
    BY <1>2, <1>6, <1>7, <2>1, ExtendsTransitive, Zenon
<1>9. ASSUME NEW h \in Heights
      PROVE  /\ recent'[h] # NoBlock => h <= Height[b] /\ recent'[h] = Anc[b][h]
             /\ (Height[a] < h /\ h <= Height[b] /\ h >= Height[b] - HeaderWindow)
                   => recent'[h] # NoBlock
  <2>0. h \in Nat
    BY TreeFacts, Zenon
  <2>w. recent' = WindowWith(b)
    BY <1>1, Zenon
  <2>1. CASE h = Height[b]
    <3>1. recent'[h] = b /\ b # NoBlock
      BY <1>6, <2>w, <2>1, TreeFacts, Zenon DEF WindowWith
    <3> QED
      BY <1>4, <1>6, <2>1, <3>1, ExtendsEnds
  <2>2. CASE h = Height[b] - HeaderWindow - 1
    <3>1. recent'[h] = NoBlock
      BY <1>4, <1>6, <2>w, <2>2 DEF WindowWith
    <3> QED
      BY <1>4, <1>6, <2>0, <2>2, <3>1
  <2>3. CASE h # Height[b] /\ h # Height[b] - HeaderWindow - 1
    <3>1. recent'[h] = recent[h]
      BY <2>w, <2>3, Zenon DEF WindowWith
    <3>2. h <= Height[memTip] => Anc[b][h] = Anc[memTip][h]
      BY <1>2, <1>6, <1>7, <2>0, SharedPrefix, Zenon
    <3>3. (h <= Height[b] /\ h >= Height[b] - HeaderWindow) =>
             h <= Height[memTip] /\ h >= Height[memTip] - HeaderWindow
      BY <1>4, <1>6, <2>0, <2>3
    <3> QED
      BY <1>3, <1>4, <1>6, <2>0, <3>1, <3>2, <3>3
  <2> QED
    BY <2>1, <2>2, <2>3, Zenon
<1>10. TypeOK'
  <2>1. recent' \in [Heights -> Cell]
    BY <1>1, <1>2, <1>6, Zenon DEF WindowWith, Cell
  <2> QED
    BY <1>1, <1>6, <2>1, Zenon DEF Inv, TypeOK
<1>11. HeadersAreTheChain' /\ FinalityBound' /\ RestartResumes'
  BY <1>1, DurableKept, Zenon
<1>12. HotMatchesDurable' /\ RollbackInStep'
  BY <1>1, Zenon DEF HotMatchesDurable, RollbackInStep
<1>13. StagedCandidate' /\ CapabilityLinked'
  BY <1>1, Zenon DEF Inv, StagedReorgInStep, StagedCandidate, CapabilityLinked, Extends, ChainWins
<1>14. ReplayInStep'
  BY <1>1, <1>3, <1>6, <1>8, <1>9, Zenon DEF ReplayInStep, a, t
<1> QED
  BY <1>10, <1>11, <1>12, <1>13, <1>14, Zenon DEF Inv, StagedReorgInStep

\* The header window rebuilt from the table is typed and canonical.
LEMMA RebuiltWindow ==
    ASSUME Inv
    PROVE  /\ WindowFrom(headers, tip, HeaderWindow) \in [Heights -> Cell]
           /\ \A h \in Heights :
                 WindowFrom(headers, tip, HeaderWindow)[h] # NoBlock
                     => WindowFrom(headers, tip, HeaderWindow)[h] = headers[h]
BY Zenon DEF Inv, TypeOK, WindowFrom, Cell

\* A step to the state in RAM that restore_from_mdbx and reload_hot_state_from_mdbx
\* build from the durable tables.
LEMMA ReloadStep ==
    ASSUME Inv, UNCHANGED durable,
           memTip' = tip, memFinal' = final, memUtxo' = utxo,
           recent' = WindowFrom(headers, tip, HeaderWindow),
           staging' = NoBlock, cap' = NoBlock, phase' = "idle"
    PROVE  Inv'
<1>1. UNCHANGED <<headers, tip, final, utxo, undo, bodies, terms, authority, watermark>>
  BY Zenon DEF durable
<1>2. TypeOK'
  BY <1>1, RebuiltWindow, Zenon DEF Inv, TypeOK, Phase
<1>3. HeadersAreTheChain' /\ FinalityBound' /\ RestartResumes'
  BY <1>1, DurableKept, Zenon
<1>4. HotMatchesDurable'
  BY <1>1, RebuiltWindow, Zenon DEF HotMatchesDurable
<1>5. cap' \notin Reorg
  BY EmptyCell, Zenon DEF EmptyCell
<1>6. StagedReorgInStep'
  BY <1>5, Zenon DEF StagedReorgInStep, CapabilityLinked, StagedCandidate, RollbackInStep, ReplayInStep
<1> QED
  BY <1>2, <1>3, <1>4, <1>6, Zenon DEF Inv

\* Maintenance keeps the invariant: it only deletes payloads below the tip.
LEMMA PruneStep ==
    ASSUME Inv, PrunePayloads \/ PruneUndo \/ PruneFails
    PROVE  Inv'
<1>1. /\ UNCHANGED <<headers, tip, final, utxo, authority, memTip, memFinal, memUtxo,
                     recent, staging, cap>>
      /\ phase \in {"payloads", "undo"} /\ phase' \in {"idle", "undo"}
  BY Zenon DEF PrunePayloads, PruneUndo, PruneFails, durable
<1>2. /\ terms' \in [Heights -> Row \cup {NoBlock}] /\ bodies' \in [Heights -> Cell]
      /\ undo' \in [Heights -> Cell] /\ watermark' \in Nat
      /\ terms'[Height[tip]] = terms[Height[tip]]
  <2>0. /\ TypeOK /\ Height[tip] \in Heights /\ Height[tip] \in Nat /\ Heights \subseteq Nat
        /\ ServingDepth \in Nat \ {0}
    BY TreeFacts, Depths, Zenon DEF Inv, TypeOK, Depths
  <2>1. CASE PrunePayloads
    <3>1. undo' = undo
      BY <2>1, Zenon DEF PrunePayloads
    <3>2. CASE NothingToRetire
      BY <2>0, <3>1, <3>2, Zenon DEF NothingToRetire, TypeOK
    <3>3. CASE \E last \in Heights : \E dropBoundaryBody \in BOOLEAN :
                  RetirePayloads(last, dropBoundaryBody)
      <4>1. PICK last \in Heights, dropBoundaryBody \in BOOLEAN :
                  RetirePayloads(last, dropBoundaryBody)
        BY <3>3, Zenon
      <4>2. /\ terms' = [h \in Heights |-> IF h \in watermark + 1 .. last
                                           THEN NoBlock ELSE terms[h]]
            /\ bodies' = [h \in Heights |->
                            IF h \in watermark + 1 .. last
                               \/ (dropBoundaryBody /\ h = PruneCutoff)
                            THEN NoBlock ELSE bodies[h]]
            /\ watermark' = last /\ last \in watermark .. PruneCutoff - 1
        BY <4>1, Zenon DEF RetirePayloads
      <4>3. last < Height[tip]
        <5>1. Height[final] \in Nat /\ last \in Nat
          BY <2>0, TreeFacts, Zenon DEF TypeOK
        <5>2. PruneCutoff \in Int /\ PruneCutoff <= Height[tip] - ServingDepth
          BY <2>0, <5>1 DEF PruneCutoff
        <5> QED
          BY <2>0, <4>2, <5>1, <5>2 DEF TypeOK
      <4> QED
        BY <2>0, <3>1, <4>2, <4>3 DEF TypeOK, Cell
    <3> QED
      BY <2>1, <3>2, <3>3, Zenon DEF PrunePayloads
  <2>2. CASE PruneUndo
    BY <2>0, <2>2, Zenon DEF PruneUndo, TypeOK, Cell
  <2>3. CASE PruneFails
    BY <2>0, <2>3, Zenon DEF PruneFails, TypeOK, durable
  <2> QED
    BY <2>1, <2>2, <2>3, Zenon
<1>3. TypeOK'
  BY <1>1, <1>2, Zenon DEF Inv, TypeOK, Phase
<1>4. HeadersAreTheChain' /\ FinalityBound' /\ RestartResumes'
  BY <1>1, <1>2, DurableKept, Zenon
<1>5. HotMatchesDurable'
  BY <1>1, Zenon DEF Inv, HotMatchesDurable
<1>6. StagedReorgInStep'
  BY <1>1, Zenon DEF Inv, TypeOK, StagedReorgInStep, CapabilityLinked, StagedCandidate,
              RollbackInStep, ReplayInStep, Extends
<1> QED
  BY <1>3, <1>4, <1>5, <1>6, Zenon DEF Inv

\* The header table after a suffix above height m of the durable chain was
\* replaced by that of a block t whose chain passes through the same block at m.
LEMMA ReplacedHeaders ==
    ASSUME Inv, NEW t \in Block, NEW m \in Nat, m <= Height[tip], m <= Height[t],
           Anc[t][m] = Anc[tip][m]
    PROVE  /\ Replaced(headers, m, t, Anc[t]) \in [Heights -> Cell]
           /\ \A h \in Heights : Replaced(headers, m, t, Anc[t])[h]
                                    = IF h <= Height[t] THEN Anc[t][h] ELSE NoBlock
<1>1. /\ tip \in Block /\ headers \in [Heights -> Cell] /\ Heights \subseteq Nat
      /\ Height[tip] \in Nat /\ Height[t] \in Nat
      /\ \A h \in Heights : Anc[t][h] \in Block
  BY TreeFacts, Zenon DEF Inv, TypeOK
<1>2. Replaced(headers, m, t, Anc[t]) \in [Heights -> Cell]
  BY <1>1, Zenon DEF Replaced, Cell
<1>3. ASSUME NEW h \in Heights
      PROVE  Replaced(headers, m, t, Anc[t])[h] = IF h <= Height[t] THEN Anc[t][h] ELSE NoBlock
  <2>1. h \in Nat
    BY <1>1, Zenon
  <2>2. Replaced(headers, m, t, Anc[t])[h] =
            IF h <= m THEN headers[h]
            ELSE IF h <= Height[t] THEN Anc[t][h]
            ELSE IF h <= Height[tip] THEN NoBlock ELSE headers[h]
    BY Zenon DEF Replaced
  <2>3. headers[h] = IF h <= Height[tip] THEN Anc[tip][h] ELSE NoBlock
    BY Zenon DEF Inv, HeadersAreTheChain
  <2>4. CASE h <= m
    <3>1. Anc[Anc[t][m]][h] = Anc[t][h]
      BY <2>1, <2>4, AncestorFacts, Zenon
    <3>2. Anc[Anc[tip][m]][h] = Anc[tip][h]
      BY <1>1, <2>1, <2>4, AncestorFacts
    <3>3. Anc[t][h] = Anc[tip][h]
      BY <3>1, <3>2, Zenon
    <3>4. h <= Height[t] /\ h <= Height[tip]
      BY <1>1, <2>1, <2>4
    <3> QED
      BY <2>2, <2>3, <2>4, <3>3, <3>4, Zenon
  <2>5. CASE ~ (h <= m)
    BY <1>1, <2>1, <2>2, <2>3, <2>5, Zenon
  <2> QED
    BY <2>4, <2>5, Zenon
<1> QED
  BY <1>2, <1>3, Zenon

\* The checkpoint that a fully staged reorg computes lies on the new branch: the
\* window in RAM still holds every new header finalized_for_tip may ask for, and
\* below the branch point the two chains agree.
LEMMA StagedCheckpoint ==
    ASSUME Inv, phase = "apply", NEW a \in Block, NEW t \in Block,
           a = staging.ancestor, t = staging.target, memTip = t
    PROVE  /\ FinalizedForTip(Height[t]) \in Block
           /\ Extends(t, FinalizedForTip(Height[t]))
           /\ Extends(FinalizedForTip(Height[t]), final)
           /\ Height[t] - Height[FinalizedForTip(Height[t])] <= FinalityDepth
<1>2. staging # NoBlock /\ tip \in Block /\ final \in Block
  BY Zenon DEF Inv, TypeOK
<1>3. Extends(tip, a) /\ Extends(a, final) /\ Extends(t, a)
  BY <1>2, Zenon DEF Inv, StagedReorgInStep, StagedCandidate
<1>4. /\ memFinal = final
      /\ \A h \in Heights :
            /\ recent[h] # NoBlock => h <= Height[t] /\ recent[h] = Anc[t][h]
            /\ (Height[a] < h /\ h <= Height[t] /\ h >= Height[t] - HeaderWindow)
                  => recent[h] # NoBlock
  BY Zenon DEF Inv, StagedReorgInStep, ReplayInStep
<1>5. /\ Height[a] \in Nat /\ Height[t] \in Nat /\ Height[tip] \in Nat
      /\ Height[a] <= Height[tip]
      /\ FinalityDepth \in Nat /\ HeaderWindow \in Nat /\ HeaderWindow >= FinalityDepth
      /\ Heights \subseteq Nat
  <2>1. Height[a] <= Height[tip]
    BY <1>3, Zenon DEF Extends
  <2> QED
    BY <1>2, <2>1, TreeFacts, Depths, SMTT(20) DEF Depths
<1>6. Extends(t, final)
  BY <1>2, <1>3, ExtendsTransitive, Zenon
<1>7. ASSUME NEW k \in Heights, k = Height[t] - FinalityDepth, k > Height[memFinal]
      PROVE  HeaderAt(k) = Anc[t][k]
  <2>1. CASE recent[k] # NoBlock
    BY <1>4, <2>1, Zenon DEF HeaderAt
  <2>2. CASE recent[k] = NoBlock
    <3>1. k <= Height[a] /\ k \in Nat
      BY <1>4, <1>5, <1>7, <2>2
    <3>2. headers[k] = Anc[tip][k]
      BY <1>5, <3>1 DEF Inv, HeadersAreTheChain
    <3>3. Anc[tip][k] = Anc[a][k] /\ Anc[t][k] = Anc[a][k]
      BY <1>2, <1>3, <3>1, SharedPrefix, Zenon
    <3> QED
      BY <2>2, <3>2, <3>3, Zenon DEF HeaderAt
  <2> QED
    BY <2>1, <2>2, Zenon
<1>8. \A k \in Heights : (k = Height[t] - FinalityDepth /\ k > Height[memFinal])
                             => HeaderAt(k) = Anc[t][k]
  BY <1>7, Zenon
<1>9. Height[t] <= Height[t] + FinalityDepth
  BY <1>5
<1> QED
  BY <1>2, <1>4, <1>5, <1>6, <1>8, <1>9, FinalizedOnChain, Zenon

\* commit_reorg moves the durable tables to the target, whose chain keeps the
\* checkpoint.
LEMMA CommitReorgStep ==
    ASSUME Inv, CommitReorg
    PROVE  Inv' /\ Ledger!LedgerNext
<1> DEFINE a == staging.ancestor
           t == staging.target
           f == FinalizedForTip(Height[t])
<1>1. /\ phase = "apply" /\ memTip = t
      /\ headers' = Replaced(headers, Height[a], t, Anc[t])
      /\ terms' = Replaced(Rebound(terms, Height[a], t), Height[a], t, BranchRows(t))
      /\ undo' = Replaced(undo, Height[a], t, Anc[t])
      /\ bodies' = Replaced(bodies, Height[a], t, Anc[t])
      /\ watermark' = (IF watermark > Height[a] THEN Height[a] ELSE watermark)
      /\ authority' = NoBlock /\ tip' = t /\ final' = f /\ utxo' = memUtxo
      /\ memFinal' = f /\ staging' = NoBlock /\ cap' = NoBlock /\ phase' = "payloads"
      /\ UNCHANGED <<memTip, memUtxo, recent>>
  BY Zenon DEF CommitReorg
<1>2. /\ staging \in Staging /\ staging # NoBlock
      /\ a \in Block /\ t \in Block /\ tip \in Block /\ final \in Block
  BY <1>1, Zenon DEF Inv, TypeOK, Staging
<1>3. /\ Extends(tip, a) /\ Extends(a, final) /\ Extends(t, a) /\ Height[a] < Height[t]
      /\ ChainWins(t, tip)
  BY <1>2, Zenon DEF Inv, StagedReorgInStep, StagedCandidate
<1>4. /\ memUtxo = t /\ memFinal = final
      /\ \A h \in Heights :
            /\ recent[h] # NoBlock => h <= Height[t] /\ recent[h] = Anc[t][h]
            /\ (Height[a] < h /\ h <= Height[t] /\ h >= Height[t] - HeaderWindow)
                  => recent[h] # NoBlock
  BY <1>1, Zenon DEF Inv, StagedReorgInStep, ReplayInStep
<1>5. /\ Height[a] \in Nat /\ Height[t] \in Nat /\ Height[tip] \in Nat
      /\ Height[a] <= Height[tip] /\ Height[t] \in Heights
      /\ FinalityDepth \in Nat /\ HeaderWindow \in Nat /\ HeaderWindow >= FinalityDepth
      /\ FinalityDepth >= 1
      /\ Heights \subseteq Nat /\ NoBlock \notin Block
  <2>1. /\ Height[a] \in Nat /\ Height[t] \in Nat /\ Height[tip] \in Nat
        /\ Height[t] \in Heights /\ Heights \subseteq Nat /\ NoBlock \notin Block
    BY <1>2, TreeFacts, Zenon
  <2>2. Extends(tip, a)
    BY <1>3, Zenon
  <2>3. Height[a] <= Height[tip]
    BY <2>2, Zenon DEF Extends
  <2>4. FinalityDepth \in Nat /\ HeaderWindow \in Nat /\ HeaderWindow >= FinalityDepth
        /\ FinalityDepth >= 1
    BY DepthFacts, Zenon
  <2> QED
    BY <2>1, <2>3, <2>4, Zenon
<1>7. Anc[t][Height[a]] = Anc[tip][Height[a]]
  BY <1>3, Zenon DEF Extends
<1>8. f \in Block /\ Extends(t, f) /\ Extends(f, final) /\ Height[t] - Height[f] <= FinalityDepth
  BY <1>1, <1>2, StagedCheckpoint, Zenon
<1>9. /\ headers' \in [Heights -> Cell]
      /\ \A h \in Heights : headers'[h] = IF h <= Height[t] THEN Anc[t][h] ELSE NoBlock
  <2>0. Height[a] <= Height[t]
    <3>1. Height[a] < Height[t] /\ Height[a] \in Nat /\ Height[t] \in Nat
      BY <1>3, <1>5, Zenon
    <3> QED
      BY <3>1, Below, Zenon
  <2>1. PICK m \in Nat : m = Height[a] /\ m <= Height[tip] /\ m <= Height[t]
    BY <1>5, <2>0, Zenon
  <2>2. Anc[t][m] = Anc[tip][m]
    BY <1>7, <2>1, Zenon
  <2>3. headers' = Replaced(headers, m, t, Anc[t])
    BY <1>1, <2>1, Zenon
  <2> HIDE DEF t
  <2> QED
    BY <1>2, <2>1, <2>2, <2>3, ReplacedHeaders, Zenon
<1> HIDE DEF a, t, f
<1>10. BranchRows(t) \in [Heights -> Row] /\ BranchRows(t)[Height[t]] = CompleteRow(t)
  BY <1>2, <1>5, TreeFacts, ExtendsEnds, Zenon DEF BranchRows, Row, CompleteRow
<1>11. Rebound(terms, Height[a], t) \in [Heights -> Row \cup {NoBlock}]
  <2>1. ASSUME NEW h \in Heights, IsMarker(terms[h]) PROVE MarkerRow(terms[h].block, t) \in Row
    BY <1>2, <2>1, Zenon DEF Inv, TypeOK, IsMarker, MarkerRow, Row
  <2> QED
    BY <2>1, Zenon DEF Inv, TypeOK, Rebound
<1>12. terms' \in [Heights -> Row \cup {NoBlock}] /\ terms'[Height[t]] = CompleteRow(t)
  <2>1. terms' \in [Heights -> Row \cup {NoBlock}]
    BY <1>1, <1>10, <1>11, Zenon DEF Replaced
  <2>2. ~ (Height[t] <= Height[a]) /\ Height[t] <= Height[t]
    BY <1>3, <1>5
  <2>3. terms'[Height[t]] = BranchRows(t)[Height[t]]
    BY <1>1, <1>5, <2>2, Zenon DEF Replaced
  <2> QED
    BY <1>10, <2>1, <2>3, Zenon
<1>13. undo' \in [Heights -> Cell] /\ bodies' \in [Heights -> Cell]
  BY <1>1, <1>2, TreeFacts, Zenon DEF Inv, TypeOK, Replaced, Cell
<1>14. TypeOK'
  <2>1. watermark' \in Nat
    BY <1>1, <1>5, Zenon DEF Inv, TypeOK
  <2> QED
    BY <1>1, <1>2, <1>4, <1>8, <1>9, <1>12, <1>13, <2>1, Zenon DEF Inv, TypeOK, Phase
<1>15. HeadersAreTheChain'
  BY <1>1, <1>9, Zenon DEF HeadersAreTheChain
<1>16. FinalityBound'
  BY <1>1, <1>8, Zenon DEF FinalityBound
<1>17. RestartResumes'
  <2>1. headers'[Height[t]] = t
    <3>1. Height[t] \in Heights /\ Height[t] <= Height[t]
      BY <1>5
    <3>2. Anc[t][Height[t]] = t
      BY <1>2, ExtendsEnds, Zenon
    <3>3. headers'[Height[t]] = Anc[t][Height[t]]
      BY <1>9, <3>1, Zenon
    <3> QED
      BY <3>2, <3>3, Zenon
  <2>2. Height[f] <= Height[t] /\ headers'[Height[f]] = f
    BY <1>8, <1>9, TreeFacts, Zenon DEF Extends
  <2>3. TipAuthorized'
    BY <1>1, <1>12, Zenon DEF TipAuthorized
  <2> QED
    BY <1>1, <1>4, <2>1, <2>2, <2>3, Zenon DEF RestartResumes, Restorable
<1>18. HotMatchesDurable'
  <2>1. ASSUME NEW h \in Heights, recent'[h] # NoBlock PROVE recent'[h] = headers'[h]
    BY <1>1, <1>4, <1>9, <2>1, Zenon
  <2> QED
    BY <1>1, <2>1, Zenon DEF HotMatchesDurable
<1>19. StagedReorgInStep'
  <2>1. cap' \notin Reorg
    BY <1>1, EmptyCell, Zenon DEF EmptyCell
  <2> QED
    BY <1>1, <2>1, Zenon DEF StagedReorgInStep, CapabilityLinked, StagedCandidate,
                      RollbackInStep, ReplayInStep
<1>20. Ledger!LedgerNext
  <2>1. Ledger!Adopt(t, f)
    BY <1>1, <1>3, <1>8, Zenon DEF Ledger!Adopt, Ledger!ChainWins, Ledger!Extends, ChainWins, Extends
  <2> QED
    BY <1>2, <1>8, <2>1, Zenon DEF Ledger!LedgerNext
<1> QED
  BY <1>14, <1>15, <1>16, <1>17, <1>18, <1>19, <1>20, Zenon DEF Inv

\* A snapshot moves the tip and the checkpoint to a block that extends the old
\* checkpoint.
LEMMA InstallSnapshotStep ==
    ASSUME Inv, NEW t \in Block, InstallSnapshot(t)
    PROVE  Inv' /\ Ledger!LedgerNext
<1>1. PICK m \in 0 .. Height[tip] : JoinsAt(t, m) /\ headers' = Replaced(headers, m, t, Anc[t])
  BY Zenon DEF InstallSnapshot
<1>2. /\ phase = "idle" /\ Height[memTip] < Height[t]
      /\ tip' = t /\ final' = t /\ utxo' = t
      /\ undo' = [h \in Heights |-> NoBlock]
      /\ bodies' = [h \in Heights |-> NoBlock]
      /\ terms' = [h \in Heights |-> IF h = Height[t] THEN CompleteRow(t) ELSE NoBlock]
      /\ authority' = NoBlock /\ watermark' = Height[t] - 1
      /\ memTip' = t /\ memFinal' = t /\ memUtxo' = t
      /\ recent' = WindowFrom(Anc[t], t, SnapshotWindow)
      /\ UNCHANGED <<staging, cap, phase>>
  BY Zenon DEF InstallSnapshot, Idle, SnapshotWatermark
<1>3. tip \in Block /\ final \in Block /\ memTip = tip /\ Extends(tip, final)
  BY <1>2, Zenon DEF Inv, TypeOK, HotMatchesDurable, FinalityBound
<1>4. /\ Height[tip] \in Nat /\ Height[t] \in Nat /\ Height[final] \in Nat
      /\ Height[t] \in Heights /\ Height[tip] < Height[t] /\ NoBlock \notin Block
      /\ m \in Nat /\ m <= Height[tip] /\ m <= Height[t] /\ m \in Heights
      /\ FinalityDepth \in Nat
  <2>1. /\ Height[tip] \in Nat /\ Height[t] \in Nat /\ Height[final] \in Nat
        /\ Height[t] \in Heights /\ NoBlock \notin Block /\ FinalityDepth \in Nat
    BY <1>3, TreeFacts, Depths, Zenon DEF Depths
  <2>a. Height[tip] < Height[t]
    BY <1>2, <1>3, Zenon
  <2>b. m \in 0 .. Height[tip]
    BY <1>1, Zenon
  <2>2. m \in Nat /\ m <= Height[tip] /\ Height[tip] < Height[t]
    BY <2>1, <2>a, <2>b
  <2>3. m \in Heights
    BY <1>3, <2>2, AncestorFacts, Zenon
  <2> QED
    BY <2>1, <2>2, <2>3
<1>5. Anc[t][m] = Anc[tip][m]
  BY <1>1, <1>4, Zenon DEF JoinsAt, Inv, HeadersAreTheChain
<1>6. Extends(t, final) /\ ChainWins(t, tip)
  <2>1. CASE m = Height[tip]
    <3>1. Extends(t, tip)
      BY <1>3, <1>4, <1>5, <2>1, ExtendsEnds, Zenon DEF Extends
    <3> QED
      BY <1>3, <1>4, <3>1, ExtendsTransitive, ExtensionWins, Zenon
  <2>2. CASE m # Height[tip]
    <3>1. m >= Height[final] /\ ChainWins(t, tip)
      BY <1>1, <2>2, Zenon DEF JoinsAt
    <3>2. Anc[t][m] \in Block /\ Height[Anc[t][m]] = m /\ Extends(t, Anc[t][m])
      BY <1>4, AncestorFacts, Zenon
    <3>3. Extends(tip, Anc[t][m])
      BY <1>3, <1>4, <1>5, AncestorFacts, Zenon
    <3>4. Extends(Anc[t][m], final)
      BY <1>3, <1>4, <3>1, <3>2, <3>3, ChainIsLinear, Zenon
    <3> QED
      BY <1>3, <3>1, <3>2, <3>4, ExtendsTransitive, Zenon
  <2> QED
    BY <2>1, <2>2, Zenon
<1>7. /\ headers' \in [Heights -> Cell]
      /\ \A h \in Heights : headers'[h] = IF h <= Height[t] THEN Anc[t][h] ELSE NoBlock
  BY <1>1, <1>4, <1>5, ReplacedHeaders, Zenon
<1>8. /\ recent' \in [Heights -> Cell]
      /\ \A h \in Heights : recent'[h] # NoBlock => recent'[h] = headers'[h]
  <2>1. recent' \in [Heights -> Cell]
    BY <1>2, TreeFacts, Zenon DEF WindowFrom, Cell
  <2>2. ASSUME NEW h \in Heights, recent'[h] # NoBlock PROVE recent'[h] = headers'[h]
    BY <1>2, <1>7, <2>2, Zenon DEF WindowFrom
  <2> QED
    BY <2>1, <2>2, Zenon
<1>9. /\ terms' \in [Heights -> Row \cup {NoBlock}]
      /\ terms'[Height[t]] = CompleteRow(t)
  <2>1. CompleteRow(t) \in Row
    BY Zenon DEF CompleteRow, Row
  <2> QED
    BY <1>2, <1>4, <2>1, Zenon
<1>10. TypeOK'
  <2>1. undo' \in [Heights -> Cell] /\ bodies' \in [Heights -> Cell]
    BY <1>2, Zenon DEF Cell
  <2>2. watermark' \in Nat
    <3>1. watermark' = Height[t] - 1
      BY <1>2, Zenon
    <3> QED
      BY <1>4, <3>1
  <2> QED
    BY <1>2, <1>7, <1>8, <1>9, <2>1, <2>2, Zenon DEF Inv, TypeOK, Phase
<1>11. HeadersAreTheChain'
  BY <1>2, <1>7, Zenon DEF HeadersAreTheChain
<1>12. FinalityBound'
  <2>1. Extends(t, t)
    BY ExtendsEnds, Zenon
  <2>2. Height[t] - Height[t] <= FinalityDepth
    BY <1>4
  <2>3. tip' = t /\ final' = t
    BY <1>2, Zenon
  <2> QED
    BY <2>1, <2>2, <2>3, Zenon DEF FinalityBound, Extends
<1>13. RestartResumes'
  <2>1. Anc[t][Height[t]] = t
    BY ExtendsEnds, Zenon
  <2>2. headers'[Height[t]] = t
    <3>1. Height[t] \in Heights /\ Height[t] <= Height[t]
      BY <1>4
    <3> QED
      BY <1>7, <2>1, <3>1, Zenon
  <2>3. TipAuthorized'
    BY <1>2, <1>9, Zenon DEF TipAuthorized
  <2>4. tip' = t /\ final' = t /\ utxo' = t
    BY <1>2, Zenon
  <2>5. Height[t] <= Height[t]
    BY <1>4
  <2> QED
    BY <2>2, <2>3, <2>4, <2>5, Zenon DEF RestartResumes, Restorable
<1>14. HotMatchesDurable'
  BY <1>2, <1>8, Zenon DEF HotMatchesDurable
<1>15. StagedReorgInStep'
  <2>1. staging' = NoBlock /\ phase' = "idle"
    BY <1>2, Zenon DEF Inv, TypeOK
  <2>2. CapabilityLinked'
    BY <1>2, Zenon DEF Inv, StagedReorgInStep, CapabilityLinked, Extends
  <2> QED
    BY <2>1, <2>2, Zenon DEF StagedReorgInStep, StagedCandidate, RollbackInStep, ReplayInStep
<1>16. Ledger!LedgerNext
  <2>1. Extends(t, t) /\ Height[t] - Height[t] <= FinalityDepth
    BY <1>4, ExtendsEnds
  <2>2. Ledger!Adopt(t, t)
    BY <1>2, <1>6, <2>1, Zenon DEF Ledger!Adopt, Ledger!ChainWins, Ledger!Extends, ChainWins, Extends
  <2> QED
    BY <2>2, Zenon DEF Ledger!LedgerNext
<1> QED
  BY <1>10, <1>11, <1>12, <1>13, <1>14, <1>15, <1>16, Zenon DEF Inv

-----------------------------------------------------------------------------
(* Every step, and the theorems. *)

\* Every step keeps the invariant and is, for the ledger, an adoption of a
\* winning chain or no step at all.
LEMMA NextInv ==
    ASSUME Inv, [Next]_vars
    PROVE  Inv' /\ [Ledger!LedgerNext]_(Ledger!ledgerVars)
<1> USE DEF Ledger!ledgerVars
<1>1. CASE UNCHANGED vars
  <2>1. UNCHANGED <<headers, tip, final, utxo, undo, bodies, terms, watermark,
                    memTip, memFinal, memUtxo, recent, staging, phase, authority, cap>>
    BY <1>1, Zenon DEF vars
  <2>2. cap' \in Suffix \cup Reorg \cup {NoBlock} /\ CapabilityLinked'
    BY <2>1, Zenon DEF Inv, TypeOK, StagedReorgInStep, CapabilityLinked, Extends
  <2> QED
    BY <2>1, <2>2, CapabilityStep, Zenon
<1>2. CASE \E b \in Block : CommitLocal(b)
  <2>1. PICK b \in Block : CommitLocal(b)
    BY <1>2, Zenon
  <2>2. CompleteRow(b) \in Row /\ CompleteRow(b).block = b
    BY Zenon DEF CompleteRow, Row
  <2>3. cap' \in Suffix \cup Reorg \cup {NoBlock} /\ CapabilityLinked'
    BY <2>1, Zenon DEF CommitLocal, Inv, TypeOK, StagedReorgInStep, CapabilityLinked, Extends
  <2> QED
    BY <2>1, <2>2, <2>3, CommitBlockStep, Zenon DEF CommitLocal
<1>3. CASE \E t \in Block : BeginSuffix(t)
  BY <1>3, BeginSuffixStep, Zenon DEF BeginSuffix
<1>4. CASE \E b \in Block : ApplySuffixBlock(b)
  <2>1. PICK b \in Block : ApplySuffixBlock(b)
    BY <1>4, Zenon
  <2>2. cap \in Suffix /\ cap.target \in Block
    BY <2>1, Zenon DEF ApplySuffixBlock, Suffix
  <2>3. CompleteRow(b) \in Row /\ MarkerRow(b, cap.target) \in Row
        /\ CompleteRow(b).block = b /\ MarkerRow(b, cap.target).block = b
    BY <2>2, Zenon DEF CompleteRow, MarkerRow, Row
  <2>4. PICK row \in Row : row.block = b /\ CommitBlock(b, row)
    <3>1. CASE b = cap.target
      BY <2>1, <2>3, <3>1, Zenon DEF ApplySuffixBlock
    <3>2. CASE b # cap.target
      BY <2>1, <2>3, <3>2, Zenon DEF ApplySuffixBlock
    <3> QED
      BY <3>1, <3>2, Zenon
  <2>5. cap' = NoBlock \/ cap' = [cap EXCEPT !.previous = b]
    BY <2>1, Zenon DEF ApplySuffixBlock
  <2>6. [cap EXCEPT !.previous = b] \in Suffix
    BY <2>2, Zenon DEF Suffix
  <2>7. cap' \in Suffix \cup {NoBlock} /\ cap' \notin Reorg
    <3>1. [cap EXCEPT !.previous = b] \notin Reorg
      BY <2>6, Zenon DEF Suffix, Reorg
    <3> QED
      BY <2>5, <2>6, <3>1, EmptyCell, Zenon DEF EmptyCell
  <2> QED
    BY <2>1, <2>4, <2>7, CommitBlockStep, Zenon DEF ApplySuffixBlock, CapabilityLinked
<1>5. CASE AbandonCapability
  <2>1. cap' \notin Reorg
    BY <1>5, EmptyCell, Zenon DEF AbandonCapability, EmptyCell
  <2> QED
    BY <1>5, <2>1, CapabilityStep, Zenon DEF AbandonCapability, CapabilityLinked
<1>6. CASE \E a, t \in Block : AuthorizeReorg(a, t)
  <2>1. PICK a \in Block, t \in Block : AuthorizeReorg(a, t)
    BY <1>6, Zenon
  <2>2. cap' \in Reorg /\ cap'.target = t /\ cap'.ancestor = a
    BY <2>1, Zenon DEF AuthorizeReorg, Reorg, Inv, TypeOK
  <2>3. CapabilityLinked'
    BY <2>1, <2>2, Zenon DEF AuthorizeReorg, CapabilityLinked
  <2> QED
    BY <2>1, <2>2, <2>3, CapabilityStep, Zenon DEF AuthorizeReorg
<1>7. CASE StartReorg
  BY <1>7, StartReorgStep, Zenon DEF StartReorg
<1>8. CASE RevertBlock
  BY <1>8, RevertBlockStep, Zenon DEF RevertBlock
<1>9. CASE StageBlock
  BY <1>9, StageBlockStep, Zenon DEF StageBlock
<1>10. CASE CommitReorg
  BY <1>10, CommitReorgStep, Zenon
<1>11. CASE AbortReorg
  BY <1>11, ReloadStep, Zenon DEF AbortReorg, durable
<1>12. CASE \E t \in Block : InstallSnapshot(t)
  BY <1>12, InstallSnapshotStep, Zenon
<1>13. CASE PrunePayloads \/ PruneUndo \/ PruneFails
  BY <1>13, PruneStep, Zenon DEF PrunePayloads, PruneUndo, PruneFails, durable
<1>14. CASE Restart
  <2>1. Restorable
    BY Zenon DEF Inv, RestartResumes
  <2> QED
    BY <1>14, <2>1, ReloadStep, Zenon DEF Restart, durable
<1> QED
  BY <1>1, <1>2, <1>3, <1>4, <1>5, <1>6, <1>7, <1>8, <1>9, <1>10, <1>11, <1>12, <1>13, <1>14, Zenon
     DEF Next

\* The inductive invariant holds in every reachable state of the store, for every
\* block tree and all depths.
THEOREM InvariantHolds == Spec => []Inv
<1>1. Init => Inv
  BY InitInv, Zenon
<1>2. Inv /\ [Next]_vars => Inv'
  BY NextInv, Zenon
<1> QED
  BY <1>1, <1>2, PTL DEF Spec

\* Whatever transaction was the last one before a crash, restore_from_mdbx
\* accepts the database: open_or_create never clears it.
THEOREM NeverCleared == Spec => []RestartResumes
<1>1. Inv => RestartResumes
  BY Zenon DEF Inv
<1> QED
  BY <1>1, InvariantHolds, PTL

\* In every reachable state the header table is the chain of the durable tip,
\* the context in RAM is the durable chain between operations, and a staged
\* reorg is in step with the chain it will replace.
THEOREM StoreAlwaysConsistent == Spec => []StoreConsistent
<1>1. Inv => StoreConsistent
  BY Zenon DEF Inv, StoreConsistent
<1> QED
  BY <1>1, InvariantHolds, PTL

\* The store implements the canonical ledger: every durable change of the tip
\* is the adoption of a chain that wins fork choice and keeps the finalized
\* prefix, for every tree and all depths.
THEOREM Refinement == Spec => ImplementsLedger
<1>1. Init => Ledger!LedgerInit
  BY Zenon DEF Init, Ledger!LedgerInit
<1>2. Inv /\ [Next]_vars => [Ledger!LedgerNext]_(Ledger!ledgerVars)
  BY NextInv, Zenon
<1> QED
  BY <1>1, <1>2, InvariantHolds, PTL DEF Spec, ImplementsLedger, Ledger!LedgerSpec

-----------------------------------------------------------------------------
(* What rollbacks, peers and an interrupted suffix need of the rows. *)

\* Every height above the watermark, the checkpoint among them, still has the
\* terminal row that binds its block, and the watermark stays below the
\* checkpoint.
RowsBind ==
    /\ \A h \in Heights : (watermark < h /\ h <= Height[tip]) =>
          terms[h] # NoBlock /\ terms[h].block = headers[h]
    /\ watermark = 0 \/ watermark < Height[final]

\* Above the checkpoint every block keeps its own undo log and body.
LogsKept ==
    \A h \in Heights : (Height[final] < h /\ h <= Height[tip]) =>
        undo[h] = headers[h] /\ bodies[h] = headers[h]

\* PruningSound says nothing of the row at the checkpoint, which a reorg that
\* branches there needs; it is inductive together with that row and the blocks
\* the rows bind.
Retained == RowsBind /\ LogsKept /\ InterruptedSuffixResumable

\* The checkpoint never moves down.
LEMMA CheckpointForward ==
    ASSUME Inv, [Next]_vars
    PROVE  Height[final] <= Height[final']
<1>1. final \in Block /\ Height[final] \in Nat
  BY TreeFacts, Zenon DEF Inv, TypeOK
<1>2. CASE Ledger!LedgerNext
  <2>1. PICK t \in Block, f \in Block : Ledger!Adopt(t, f)
    BY <1>2, Zenon DEF Ledger!LedgerNext
  <2>2. final' = f /\ Extends(f, final)
    BY <2>1, Zenon DEF Ledger!Adopt, Ledger!Extends, Extends
  <2> QED
    BY <2>2, Zenon DEF Extends
<1>3. CASE UNCHANGED Ledger!ledgerVars
  BY <1>1, <1>3 DEF Ledger!ledgerVars
<1> QED
  BY <1>2, <1>3, NextInv, Zenon

\* The genesis row is the only one, and no prune has run.
LEMMA RetainedInit == Init => Retained
<1> SUFFICES ASSUME Init PROVE Retained
  BY Zenon
<1>1. Height[Genesis] = 0 /\ Heights \subseteq Nat
  BY TreeFacts, ExtendsEnds, Zenon
<1>2. watermark = 0 /\ tip = Genesis /\ final = Genesis
  BY Zenon DEF Init
<1>0. \A h \in Heights : ~(0 < h /\ h <= 0)
  BY <1>1
<1>3. RowsBind
  BY <1>0, <1>1, <1>2, Zenon DEF RowsBind
<1>4. LogsKept
  BY <1>0, <1>1, <1>2, Zenon DEF LogsKept
<1>5. InterruptedSuffixResumable
  BY <1>1, <1>2, Zenon DEF InterruptedSuffixResumable, TipIsMarker
<1> QED
  BY <1>3, <1>4, <1>5, Zenon DEF Retained

\* A step that leaves the durable tables alone, except for an authority record
\* that the tip does not depend on.
LEMMA RetainedFrame ==
    ASSUME Retained, UNCHANGED <<headers, tip, final, undo, bodies, terms, watermark>>,
           authority' = authority \/ ~ TipIsMarker
    PROVE  Retained'
<1>1. RowsBind'
  BY Zenon DEF Retained, RowsBind
<1>2. LogsKept'
  BY Zenon DEF Retained, LogsKept
<1>3. InterruptedSuffixResumable'
  BY Zenon DEF Retained, InterruptedSuffixResumable, TipIsMarker, IsMarker, RecordCovers, Extends
<1> QED
  BY <1>1, <1>2, <1>3, Zenon DEF Retained

\* commit_block writes every row of its block, and a marker only on the way to
\* the target its record names.
LEMMA RetainedCommit ==
    ASSUME Inv, Retained, Idle, NEW b \in Block, NEW row \in Row, row.block = b,
           Height[b] = Height[memTip] + 1, CommitBlock(b, row),
           row.authority # b => Extends(row.authority, b),
           Height[final] <= Height[final'], final' \in Block
    PROVE  Retained'
<1>1. /\ memTip = tip /\ tip \in Block /\ final \in Block /\ watermark \in Nat
      /\ headers \in [Heights -> Cell] /\ undo \in [Heights -> Cell]
      /\ bodies \in [Heights -> Cell] /\ terms \in [Heights -> Row \cup {NoBlock}]
  BY Zenon DEF Inv, HotMatchesDurable, Idle, TypeOK
<1>2. /\ Height[b] \in Heights /\ Height[b] \in Nat /\ Height[tip] \in Nat
      /\ Height[b] = Height[tip] + 1 /\ Heights \subseteq Nat
      /\ Height[final] \in Nat /\ Height[final'] \in Nat
  BY <1>1, TreeFacts, Zenon
<1>3. /\ headers' = [headers EXCEPT ![Height[b]] = b]
      /\ tip' = b
      /\ undo' = [undo EXCEPT ![Height[b]] = b]
      /\ bodies' = [bodies EXCEPT ![Height[b]] = b]
      /\ terms' = [terms EXCEPT ![Height[b]] = row]
      /\ authority' = IF IsComplete(row) THEN NoBlock ELSE authority
      /\ watermark' = watermark
      /\ IsMarker(row) => RecordCovers(authority, Height[b], row.authority)
  BY Zenon DEF CommitBlock
<1>4. row # NoBlock
  BY EmptyCell, Zenon DEF EmptyCell
<1>5. RowsBind'
  <2>1. ASSUME NEW h \in Heights, watermark < h, h <= Height[b]
        PROVE  terms'[h] # NoBlock /\ terms'[h].block = headers'[h]
    <3>1. CASE h = Height[b]
      BY <1>1, <1>2, <1>3, <1>4, <3>1, Zenon
    <3>2. CASE h # Height[b]
      <4>1. h <= Height[tip]
        BY <1>2, <2>1, <3>2
      <4>2. terms[h] # NoBlock /\ terms[h].block = headers[h]
        BY <2>1, <4>1, Zenon DEF Retained, RowsBind
      <4> QED
        BY <1>1, <1>3, <3>2, <4>2, Zenon
    <3> QED
      BY <3>1, <3>2, Zenon
  <2>2. watermark = 0 \/ watermark < Height[final']
    BY <1>1, <1>2 DEF Retained, RowsBind
  <2> QED
    BY <1>3, <2>1, <2>2, Zenon DEF RowsBind
<1>6. LogsKept'
  <2>1. ASSUME NEW h \in Heights, Height[final'] < h, h <= Height[b]
        PROVE  undo'[h] = headers'[h] /\ bodies'[h] = headers'[h]
    <3>1. CASE h = Height[b]
      BY <1>1, <1>2, <1>3, <3>1, Zenon
    <3>2. CASE h # Height[b]
      <4>1. Height[final] < h /\ h <= Height[tip]
        BY <1>2, <2>1, <3>2
      <4>2. undo[h] = headers[h] /\ bodies[h] = headers[h]
        BY <4>1, Zenon DEF Retained, LogsKept
      <4> QED
        BY <1>1, <1>3, <3>2, <4>2, Zenon
    <3> QED
      BY <3>1, <3>2, Zenon
  <2> QED
    BY <1>3, <2>1, Zenon DEF LogsKept
<1>7. InterruptedSuffixResumable'
  <2>1. terms'[Height[b]] = row
    BY <1>1, <1>2, <1>3, Zenon
  <2>2. SUFFICES ASSUME IsMarker(row)
                 PROVE  /\ Height[b] < Height[row.authority]
                        /\ Extends(row.authority, b)
                        /\ RecordCovers(authority', Height[b], row.authority)
    BY <1>3, <2>1, Zenon DEF InterruptedSuffixResumable, TipIsMarker, RecordCovers
  <2>3. row.authority # b /\ ~ IsComplete(row)
    BY <2>2, Zenon DEF IsMarker, IsComplete
  <2>4. authority' = authority /\ RecordCovers(authority, Height[b], row.authority)
    BY <1>3, <2>2, <2>3, Zenon
  <2> QED
    BY <2>3, <2>4, Zenon DEF RecordCovers
<1> QED
  BY <1>5, <1>6, <1>7, Zenon DEF Retained

\* commit_reorg writes the rows of the new branch, with a complete terminal at
\* its tip; below the branch point rows are at most rebound, which keeps the
\* block they bind.
LEMMA RetainedReorg ==
    ASSUME Inv, Retained, CommitReorg, Inv', Height[final] <= Height[final']
    PROVE  Retained'
<1> DEFINE a == staging.ancestor
           t == staging.target
<1>1. /\ phase = "apply" /\ tip' = t
      /\ terms' = Replaced(Rebound(terms, Height[a], t), Height[a], t, BranchRows(t))
      /\ undo' = Replaced(undo, Height[a], t, Anc[t])
      /\ bodies' = Replaced(bodies, Height[a], t, Anc[t])
      /\ watermark' = (IF watermark > Height[a] THEN Height[a] ELSE watermark)
  BY Zenon DEF CommitReorg
<1>2. /\ staging \in Staging /\ staging # NoBlock /\ watermark \in Nat
      /\ a \in Block /\ t \in Block /\ tip \in Block /\ final \in Block /\ final' \in Block
  BY <1>1, Zenon DEF Inv, TypeOK, Staging
<1>3. Extends(tip, a) /\ Extends(a, final) /\ Extends(t, a) /\ Height[a] < Height[t]
  BY <1>2, Zenon DEF Inv, StagedReorgInStep, StagedCandidate
<1> HIDE DEF a, t
<1>4. /\ Height[a] \in Nat /\ Height[t] \in Nat /\ Height[tip] \in Nat
      /\ Height[final] \in Nat /\ Height[final'] \in Nat
      /\ Height[t] \in Heights /\ Heights \subseteq Nat
  BY <1>2, TreeFacts, Zenon
<1>5. Height[a] <= Height[tip] /\ Height[final] <= Height[a]
  BY <1>3, Zenon DEF Extends
<1>6. watermark' = watermark /\ (watermark = 0 \/ watermark < Height[final])
  BY <1>1, <1>2, <1>4, <1>5 DEF Retained, RowsBind
<1>7. \A h \in Heights : h <= Height[t] => headers'[h] = Anc[t][h]
  BY <1>1, Zenon DEF Inv, HeadersAreTheChain
<1>8. \A h \in Heights : h <= Height[a] => headers[h] = headers'[h]
  <2>1. SUFFICES ASSUME NEW h \in Heights, h <= Height[a] PROVE headers[h] = headers'[h]
    BY Zenon
  <2>2. h \in Nat /\ h <= Height[tip] /\ h <= Height[t]
    BY <1>3, <1>4, <1>5, <2>1
  <2>3. Anc[tip][h] = Anc[a][h] /\ Anc[t][h] = Anc[a][h]
    BY <1>2, <1>3, <2>1, <2>2, SharedPrefix, Zenon
  <2> QED
    BY <1>7, <2>2, <2>3, Zenon DEF Inv, HeadersAreTheChain
<1>9. \A h \in Heights :
        /\ h <= Height[a] =>
              terms'[h] = Rebound(terms, Height[a], t)[h]
              /\ undo'[h] = undo[h] /\ bodies'[h] = bodies[h]
        /\ (Height[a] < h /\ h <= Height[t]) =>
              terms'[h] = BranchRows(t)[h] /\ undo'[h] = Anc[t][h] /\ bodies'[h] = Anc[t][h]
  <2>1. SUFFICES ASSUME NEW h \in Heights
                 PROVE  /\ h <= Height[a] =>
                              terms'[h] = Rebound(terms, Height[a], t)[h]
                              /\ undo'[h] = undo[h] /\ bodies'[h] = bodies[h]
                        /\ (Height[a] < h /\ h <= Height[t]) =>
                              /\ terms'[h] = BranchRows(t)[h]
                              /\ undo'[h] = Anc[t][h] /\ bodies'[h] = Anc[t][h]
    BY Zenon
  <2> DEFINE reb == Rebound(terms, Height[a], t)
             rows == BranchRows(t)
             anc == Anc[t]
             m == Height[a]
  <2>2. h \in Heights /\ h \in Nat /\ m \in Nat /\ Height[t] \in Nat
    BY <1>4, <2>1, Zenon
  <2> HIDE DEF reb, rows, anc, m
  <2>3. /\ h <= m => Replaced(reb, m, t, rows)[h] = reb[h]
        /\ (m < h /\ h <= Height[t]) => Replaced(reb, m, t, rows)[h] = rows[h]
    BY <2>2 DEF Replaced
  <2>4. /\ h <= m => Replaced(undo, m, t, anc)[h] = undo[h]
        /\ (m < h /\ h <= Height[t]) => Replaced(undo, m, t, anc)[h] = anc[h]
    BY <2>2 DEF Replaced
  <2>5. /\ h <= m => Replaced(bodies, m, t, anc)[h] = bodies[h]
        /\ (m < h /\ h <= Height[t]) => Replaced(bodies, m, t, anc)[h] = anc[h]
    BY <2>2 DEF Replaced
  <2>6. /\ terms' = Replaced(reb, m, t, rows) /\ undo' = Replaced(undo, m, t, anc)
        /\ bodies' = Replaced(bodies, m, t, anc)
    BY <1>1, Zenon DEF reb, rows, anc, m
  <2> QED
    BY <2>3, <2>4, <2>5, <2>6, Zenon DEF reb, rows, anc, m
<1>10. RowsBind'
  <2>1. ASSUME NEW h \in Heights, watermark < h, h <= Height[t]
        PROVE  terms'[h] # NoBlock /\ terms'[h].block = headers'[h]
    <3>1. CASE h <= Height[a]
      <4>1. /\ terms[h] # NoBlock /\ terms[h].block = headers[h]
            /\ terms[h] \in Row \cup {NoBlock}
        <5>1. h <= Height[tip]
          BY <1>4, <1>5, <3>1
        <5> QED
          BY <2>1, <5>1, Zenon DEF Retained, RowsBind, Inv, TypeOK
      <4>2. /\ MarkerRow(terms[h].block, t) # NoBlock
            /\ MarkerRow(terms[h].block, t).block = terms[h].block
        <5>1. terms[h].block \in Block
          BY <4>1, Zenon DEF Row
        <5>2. MarkerRow(terms[h].block, t) \in Row
          BY <1>2, <5>1, Zenon DEF MarkerRow, Row
        <5> QED
          BY <5>2, EmptyCell, Zenon DEF EmptyCell, MarkerRow
      <4>3. terms'[h] = terms[h] \/ terms'[h] = MarkerRow(terms[h].block, t)
        BY <1>9, <3>1, Zenon DEF Rebound
      <4> QED
        BY <1>8, <3>1, <4>1, <4>2, <4>3, Zenon
    <3>2. CASE ~ (h <= Height[a])
      <4>1. Height[a] < h
        BY <1>4, <3>2
      <4>2. terms'[h] = [block |-> Anc[t][h], authority |-> t]
        BY <1>9, <2>1, <4>1, Zenon DEF BranchRows
      <4>3. Anc[t][h] \in Block
        BY <1>2, TreeFacts, Zenon
      <4>4. terms'[h] \in Row
        BY <1>2, <4>2, <4>3 DEF Row
      <4> QED
        BY <1>7, <2>1, <4>2, <4>4, EmptyCell DEF EmptyCell
    <3> QED
      BY <3>1, <3>2, Zenon
  <2>2. watermark = 0 \/ watermark < Height[final']
    BY <1>2, <1>4, <1>6
  <2> QED
    BY <1>1, <1>6, <2>1, <2>2, Zenon DEF RowsBind
<1>11. LogsKept'
  <2>1. ASSUME NEW h \in Heights, Height[final'] < h, h <= Height[t]
        PROVE  undo'[h] = headers'[h] /\ bodies'[h] = headers'[h]
    <3>1. CASE h <= Height[a]
      <4>1. Height[final] < h /\ h <= Height[tip]
        BY <1>4, <1>5, <2>1, <3>1
      <4>2. undo[h] = headers[h] /\ bodies[h] = headers[h]
        BY <4>1, Zenon DEF Retained, LogsKept
      <4> QED
        BY <1>8, <1>9, <3>1, <4>2, Zenon
    <3>2. CASE ~ (h <= Height[a])
      <4>1. Height[a] < h
        BY <1>4, <3>2
      <4> QED
        BY <1>7, <1>9, <2>1, <4>1, Zenon
    <3> QED
      BY <3>1, <3>2, Zenon
  <2> QED
    BY <1>1, <2>1, Zenon DEF LogsKept
<1>12. InterruptedSuffixResumable'
  <2>1. Height[a] < Height[t] /\ Height[t] <= Height[t]
    BY <1>3, <1>4
  <2>2. terms'[Height[t]] = [block |-> Anc[t][Height[t]], authority |-> t]
    BY <1>4, <1>9, <2>1, Zenon DEF BranchRows
  <2>3. Anc[t][Height[t]] = t
    BY <1>2, ExtendsEnds, Zenon
  <2>4. terms'[Height[t]].authority = terms'[Height[t]].block
    BY <2>2, <2>3
  <2> QED
    BY <1>1, <2>4, Zenon DEF InterruptedSuffixResumable, TipIsMarker, IsMarker
<1> QED
  BY <1>10, <1>11, <1>12, Zenon DEF Retained

\* A snapshot leaves one row, its own terminal, and counts everything below as
\* retired.
LEMMA RetainedSnapshot ==
    ASSUME Inv, NEW t \in Block, InstallSnapshot(t), Inv'
    PROVE  Retained'
<1>1. /\ phase = "idle" /\ Height[memTip] < Height[t] /\ tip' = t /\ final' = t
      /\ terms' = [h \in Heights |-> IF h = Height[t] THEN CompleteRow(t) ELSE NoBlock]
      /\ watermark' = Height[t] - 1
  BY Zenon DEF InstallSnapshot, Idle, SnapshotWatermark
<1>2. /\ Height[t] \in Nat /\ Height[t] \in Heights /\ Heights \subseteq Nat
      /\ memTip \in Block /\ Height[memTip] \in Nat
  BY TreeFacts, Zenon DEF Inv, TypeOK
<1>3. CompleteRow(t) # NoBlock /\ CompleteRow(t).block = t /\ CompleteRow(t).authority = t
  <2>1. CompleteRow(t) \in Row
    BY Zenon DEF CompleteRow, Row
  <2> QED
    BY <2>1, EmptyCell, Zenon DEF EmptyCell, CompleteRow
<1>4. headers'[Height[t]] = t
  BY <1>1, Zenon DEF Inv, RestartResumes, Restorable
<1>5. terms'[Height[t]] = CompleteRow(t)
  BY <1>1, <1>2, Zenon
<1>6. RowsBind'
  <2>1. ASSUME NEW h \in Heights, watermark' < h, h <= Height[t]
        PROVE  terms'[h] # NoBlock /\ terms'[h].block = headers'[h]
    <3>1. h = Height[t]
      BY <1>1, <1>2, <2>1
    <3> QED
      BY <1>3, <1>4, <1>5, <3>1, Zenon
  <2>2. watermark' < Height[t]
    BY <1>1, <1>2
  <2> QED
    BY <1>1, <2>1, <2>2, Zenon DEF RowsBind
<1>7. LogsKept'
  BY <1>1, <1>2 DEF LogsKept
<1>8. InterruptedSuffixResumable'
  BY <1>1, <1>3, <1>5, Zenon DEF InterruptedSuffixResumable, TipIsMarker, IsMarker
<1> QED
  BY <1>6, <1>7, <1>8, Zenon DEF Retained

\* Payload pruning stops below the checkpoint, and undo logs are kept deeper than
\* finality reaches; the two transactions may also fail.
LEMMA RetainedPrune ==
    ASSUME Inv, Retained, PrunePayloads \/ PruneUndo \/ PruneFails
    PROVE  Retained'
<1>1. /\ UNCHANGED <<headers, tip, final, authority>>
  BY Zenon DEF PrunePayloads, PruneUndo, PruneFails, durable
<1>2. /\ tip \in Block /\ final \in Block /\ watermark \in Nat
      /\ undo \in [Heights -> Cell] /\ bodies \in [Heights -> Cell]
      /\ terms \in [Heights -> Row \cup {NoBlock}]
  BY Zenon DEF Inv, TypeOK
<1>3. /\ Height[tip] \in Nat /\ Height[tip] \in Heights /\ Height[final] \in Nat
      /\ Height[final] <= Height[tip] /\ Height[tip] - Height[final] <= FinalityDepth
      /\ Heights \subseteq Nat
  BY <1>2, TreeFacts, Zenon DEF Inv, FinalityBound, Extends
<1>4. /\ FinalityDepth \in Nat /\ UndoDepth \in Nat /\ UndoDepth > FinalityDepth
      /\ ServingDepth \in Nat \ {0}
  BY Depths, Zenon DEF Depths
<1>5. CASE PrunePayloads
  <2>1. undo' = undo
    BY <1>5, Zenon DEF PrunePayloads
  <2>2. CASE NothingToRetire
    BY <1>1, <2>1, <2>2, RetainedFrame, Zenon DEF NothingToRetire
  <2>3. CASE \E last \in Heights : \E dropBoundaryBody \in BOOLEAN :
                RetirePayloads(last, dropBoundaryBody)
    <3>1. PICK last \in Heights, dropBoundaryBody \in BOOLEAN :
                RetirePayloads(last, dropBoundaryBody)
      BY <2>3, Zenon
    <3>2. /\ terms' = [h \in Heights |-> IF h \in watermark + 1 .. last
                                         THEN NoBlock ELSE terms[h]]
          /\ bodies' = [h \in Heights |->
                          IF h \in watermark + 1 .. last
                             \/ (dropBoundaryBody /\ h = PruneCutoff)
                          THEN NoBlock ELSE bodies[h]]
          /\ watermark' = last /\ last \in watermark .. PruneCutoff - 1
      BY <3>1, Zenon DEF RetirePayloads
    <3>3. PruneCutoff \in Int /\ PruneCutoff <= Height[final] /\ PruneCutoff < Height[tip]
      BY <1>3, <1>4 DEF PruneCutoff
    <3>4. /\ last \in Nat /\ watermark <= last /\ last < PruneCutoff
          /\ last < Height[final] /\ last < Height[tip]
      BY <1>2, <1>3, <3>2, <3>3
    <3>5. RowsBind'
      <4>1. ASSUME NEW h \in Heights, last < h, h <= Height[tip]
            PROVE  terms'[h] # NoBlock /\ terms'[h].block = headers[h]
        <5>1. watermark < h /\ h \notin watermark + 1 .. last
          BY <1>2, <1>3, <3>4, <4>1
        <5>2. terms'[h] = terms[h]
          BY <3>2, <5>1, Zenon
        <5> QED
          BY <4>1, <5>1, <5>2, Zenon DEF Retained, RowsBind
      <4> QED
        BY <1>1, <3>2, <3>4, <4>1, Zenon DEF RowsBind
    <3>6. LogsKept'
      <4>1. ASSUME NEW h \in Heights, Height[final] < h, h <= Height[tip]
            PROVE  bodies'[h] = bodies[h]
        <5>1. h \notin watermark + 1 .. last /\ h # PruneCutoff
          BY <1>2, <1>3, <3>3, <3>4, <4>1
        <5> QED
          BY <3>2, <5>1, Zenon
      <4> QED
        BY <1>1, <2>1, <4>1, Zenon DEF Retained, LogsKept
    <3>7. InterruptedSuffixResumable'
      <4>1. Height[tip] \notin watermark + 1 .. last
        BY <1>2, <1>3, <3>4
      <4>2. terms'[Height[tip]] = terms[Height[tip]]
        BY <1>3, <3>2, <4>1, Zenon
      <4> QED
        BY <1>1, <4>2, Zenon DEF Retained, InterruptedSuffixResumable, TipIsMarker, IsMarker,
                          RecordCovers, Extends
    <3> QED
      BY <3>5, <3>6, <3>7, Zenon DEF Retained
  <2> QED
    BY <1>5, <2>2, <2>3, Zenon DEF PrunePayloads
<1>6. CASE PruneUndo
  <2>1. /\ undo' = [h \in Heights |-> IF h <= UndoCutoff THEN NoBlock ELSE undo[h]]
        /\ UNCHANGED <<bodies, terms, watermark>>
    BY <1>6, Zenon DEF PruneUndo
  <2>2. UndoCutoff \in Int /\ UndoCutoff < Height[final]
    BY <1>3, <1>4 DEF UndoCutoff
  <2>3. RowsBind'
    BY <1>1, <2>1, Zenon DEF Retained, RowsBind
  <2>4. LogsKept'
    <3>1. ASSUME NEW h \in Heights, Height[final] < h, h <= Height[tip]
          PROVE  undo'[h] = undo[h]
      <4>1. ~ (h <= UndoCutoff)
        BY <1>3, <2>2, <3>1
      <4> QED
        BY <2>1, <4>1, Zenon
    <3> QED
      BY <1>1, <2>1, <3>1, Zenon DEF Retained, LogsKept
  <2>5. InterruptedSuffixResumable'
    BY <1>1, <2>1, Zenon DEF Retained, InterruptedSuffixResumable, TipIsMarker, IsMarker,
                      RecordCovers, Extends
  <2> QED
    BY <2>3, <2>4, <2>5, Zenon DEF Retained
<1>7. CASE PruneFails
  BY <1>7, RetainedFrame, Zenon DEF PruneFails, durable
<1> QED
  BY <1>5, <1>6, <1>7, Zenon

\* Every step keeps the rows.
LEMMA RetainedNext ==
    ASSUME Inv, Retained, [Next]_vars
    PROVE  Retained'
<1>0. /\ Inv' /\ Height[final] <= Height[final'] /\ final' \in Block
  <2>1. Inv'
    BY NextInv, Zenon
  <2> QED
    BY <2>1, CheckpointForward, Zenon DEF Inv, TypeOK
<1>1. CASE UNCHANGED vars
  BY <1>1, RetainedFrame, Zenon DEF vars
<1>2. CASE \E b \in Block : CommitLocal(b)
  <2>1. PICK b \in Block : CommitLocal(b)
    BY <1>2, Zenon
  <2>2. /\ CompleteRow(b) \in Row /\ CompleteRow(b).block = b
        /\ CompleteRow(b).authority = b
    BY Zenon DEF CompleteRow, Row
  <2>3. /\ Idle /\ Height[b] = Height[memTip] + 1 /\ CommitBlock(b, CompleteRow(b))
    BY <2>1, Zenon DEF CommitLocal
  <2> QED
    BY <1>0, <2>2, <2>3, RetainedCommit, Zenon
<1>3. CASE \E t \in Block : BeginSuffix(t)
  BY <1>3, RetainedFrame, Zenon DEF BeginSuffix
<1>4. CASE \E b \in Block : ApplySuffixBlock(b)
  <2>1. PICK b \in Block : ApplySuffixBlock(b)
    BY <1>4, Zenon
  <2>2. /\ Idle /\ cap \in Suffix /\ Height[b] = Height[memTip] + 1
        /\ Height[b] <= Height[cap.target] /\ BodyOfPlan(b)
        /\ CommitBlock(b, IF b = cap.target THEN CompleteRow(b) ELSE MarkerRow(b, cap.target))
    BY <2>1, Zenon DEF ApplySuffixBlock
  <2>3. cap.target \in Block
    BY <2>2, Zenon DEF Suffix
  <2>4. Extends(cap.target, b)
    BY <2>2, Zenon DEF BodyOfPlan, Extends
  <2>5. PICK row \in Row : /\ row.block = b /\ CommitBlock(b, row)
                           /\ row.authority # b => Extends(row.authority, b)
    <3>1. CASE b = cap.target
      <4>1. /\ CompleteRow(b) \in Row /\ CompleteRow(b).block = b
            /\ CompleteRow(b).authority = b
        BY Zenon DEF CompleteRow, Row
      <4> QED
        BY <2>2, <3>1, <4>1, Zenon
    <3>2. CASE b # cap.target
      <4>1. /\ MarkerRow(b, cap.target) \in Row /\ MarkerRow(b, cap.target).block = b
            /\ MarkerRow(b, cap.target).authority = cap.target
        BY <2>3, Zenon DEF MarkerRow, Row
      <4> QED
        BY <2>2, <2>4, <3>2, <4>1, Zenon
    <3> QED
      BY <3>1, <3>2, Zenon
  <2> QED
    BY <1>0, <2>2, <2>5, RetainedCommit, Zenon
<1>5. CASE AbandonCapability \/ (\E a, t \in Block : AuthorizeReorg(a, t)) \/ StartReorg
           \/ RevertBlock \/ StageBlock
  BY <1>5, RetainedFrame, Zenon
     DEF AbandonCapability, AuthorizeReorg, StartReorg, RevertBlock, StageBlock
<1>6. CASE CommitReorg
  BY <1>0, <1>6, RetainedReorg, Zenon
<1>7. CASE AbortReorg
  BY <1>7, RetainedFrame, Zenon DEF AbortReorg, durable
<1>8. CASE \E t \in Block : InstallSnapshot(t)
  BY <1>0, <1>8, RetainedSnapshot, Zenon
<1>9. CASE PrunePayloads \/ PruneUndo \/ PruneFails
  BY <1>9, RetainedPrune, Zenon
<1>10. CASE Restart
  <2>1. Restorable
    BY Zenon DEF Inv, RestartResumes
  <2> QED
    BY <1>10, <2>1, RetainedFrame, Zenon DEF Restart, durable
<1> QED
  BY <1>1, <1>2, <1>3, <1>4, <1>5, <1>6, <1>7, <1>8, <1>9, <1>10, Zenon DEF Next

\* The rows are kept in every reachable state.
LEMMA AlwaysRetained == Spec => [](Inv /\ Retained)
<1>1. Init => Inv /\ Retained
  BY InitInv, RetainedInit, Zenon
<1>2. Inv /\ Retained /\ [Next]_vars => Inv' /\ Retained'
  BY NextInv, RetainedNext, Zenon
<1> QED
  BY <1>1, <1>2, PTL DEF Spec

\* Pruning takes neither too much nor stops, for every tree and all depths:
\* above the checkpoint every block keeps its undo log, its body and its
\* terminal row, and above the watermark no terminal row that the bounded loop
\* insists on is missing.
THEOREM PruningAlwaysSound == Spec => []PruningSound
<1>1. Inv /\ Retained => PruningSound
  <2> SUFFICES ASSUME Inv, Retained PROVE PruningSound
    BY Zenon
  <2>1. /\ Height[tip] \in Nat /\ Height[tip] \in Heights /\ Height[final] \in Nat
        /\ watermark \in Nat
    BY TreeFacts, Zenon DEF Inv, TypeOK
  <2>2. \A h \in Nat : h <= Height[tip] => h \in Heights
    BY AncestorFacts, Zenon DEF Inv, TypeOK
  <2>3. SuffixRetained
    <3>1. SUFFICES ASSUME NEW h \in Height[final] + 1 .. Height[tip]
                   PROVE  /\ undo[h] = headers[h] /\ bodies[h] = headers[h]
                          /\ terms[h] # NoBlock /\ terms[h].block = headers[h]
      BY Zenon DEF SuffixRetained
    <3>2. h \in Heights /\ Height[final] < h /\ h <= Height[tip] /\ watermark < h
      BY <2>1, <2>2 DEF Retained, RowsBind
    <3> QED
      BY <3>2, Zenon DEF Retained, RowsBind, LogsKept
  <2>4. PruningNeverStuck
    <3>1. ASSUME NEW h \in watermark + 1 .. Height[tip] PROVE terms[h] # NoBlock
      <4>1. h \in Heights /\ watermark < h /\ h <= Height[tip]
        BY <2>1, <2>2
      <4> QED
        BY <4>1, Zenon DEF Retained, RowsBind
    <3> QED
      BY <3>1, Zenon DEF PruningNeverStuck, Retained, RowsBind
  <2> QED
    BY <2>3, <2>4, Zenon DEF PruningSound
<1> QED
  BY <1>1, AlwaysRetained, PTL

\* A suffix that a crash or an error interrupted can always be resumed: the
\* target the tip's marker names extends the tip and its record covers it.
THEOREM SuffixAlwaysResumable == Spec => []InterruptedSuffixResumable
<1>1. Inv /\ Retained => InterruptedSuffixResumable
  BY Zenon DEF Retained
<1> QED
  BY <1>1, AlwaysRetained, PTL

\* In the tables commit_reorg is about to write every parent of a replaced block
\* is authorized: on the branch by the new terminal at its tip, at the branch
\* point by its own row, rebound to that terminal if it was a marker.
LEMMA BranchAuthorized ==
    ASSUME Inv, Retained, phase = "apply", NEW a \in Block, NEW t \in Block,
           a = staging.ancestor, t = staging.target
    PROVE  ReplacementAuthorized(Replaced(headers, Height[a], t, Anc[t]),
               Replaced(Rebound(terms, Height[a], t), Height[a], t, BranchRows(t)), t)
<1> DEFINE hs == Replaced(headers, Height[a], t, Anc[t])
           ts == Replaced(Rebound(terms, Height[a], t), Height[a], t, BranchRows(t))
<1>1. staging # NoBlock /\ tip \in Block /\ final \in Block /\ watermark \in Nat
  BY Zenon DEF Inv, TypeOK
<1>2. Extends(tip, a) /\ Extends(a, final) /\ Extends(t, a) /\ Height[a] < Height[t]
  BY <1>1, Zenon DEF Inv, StagedReorgInStep, StagedCandidate
<1>3. /\ Height[a] \in Nat /\ Height[t] \in Nat /\ Height[tip] \in Nat
      /\ Height[final] \in Nat /\ Height[t] \in Heights /\ Height[a] \in Heights
      /\ Heights \subseteq Nat /\ FinalityDepth \in Nat
  BY <1>1, TreeFacts, DepthFacts, Zenon
<1>4. /\ Height[a] <= Height[tip] /\ Height[final] <= Height[a]
      /\ Anc[tip][Height[a]] = a /\ Anc[t][Height[a]] = a
  BY <1>2, Zenon DEF Extends
<1>5. \A h \in Heights : h <= Height[t] => hs[h] = Anc[t][h]
  <2>0. Height[a] <= Height[t]
    <3>1. Height[a] < Height[t] /\ Height[a] \in Nat /\ Height[t] \in Nat
      BY <1>2, <1>3, Zenon
    <3> QED
      BY <3>1, Below, Zenon
  <2>1. PICK m \in Nat : m = Height[a] /\ m <= Height[tip] /\ m <= Height[t]
    BY <1>3, <1>4, <2>0, Zenon
  <2>2. Anc[t][m] = Anc[tip][m]
    BY <1>4, <2>1, Zenon
  <2> QED
    BY <2>1, <2>2, ReplacedHeaders, Zenon
<1>6. \A h \in Heights :
        /\ h <= Height[a] => ts[h] = Rebound(terms, Height[a], t)[h]
        /\ (Height[a] < h /\ h <= Height[t]) => ts[h] = MarkerRow(Anc[t][h], t)
  <2>1. \A h \in Heights : BranchRows(t)[h] = MarkerRow(Anc[t][h], t)
    BY Zenon DEF BranchRows, MarkerRow
  <2>2. SUFFICES ASSUME NEW h \in Heights
                 PROVE  /\ h <= Height[a] => ts[h] = Rebound(terms, Height[a], t)[h]
                        /\ (Height[a] < h /\ h <= Height[t]) =>
                              ts[h] = MarkerRow(Anc[t][h], t)
    BY Zenon
  <2> DEFINE reb == Rebound(terms, Height[a], t)
             rows == BranchRows(t)
             m == Height[a]
  <2>3. h \in Heights /\ h \in Nat /\ m \in Nat /\ Height[t] \in Nat
    BY <1>3, <2>2, Zenon
  <2> HIDE DEF reb, rows, m
  <2>4. /\ h <= m => Replaced(reb, m, t, rows)[h] = reb[h]
        /\ (m < h /\ h <= Height[t]) => Replaced(reb, m, t, rows)[h] = rows[h]
    BY <2>3 DEF Replaced
  <2> QED
    BY <2>1, <2>4, Zenon DEF reb, rows, m
<1> HIDE DEF hs, ts
<1>7. hs[Height[t]] = t /\ ts[Height[t]] = CompleteRow(t)
  <2>1. Height[a] < Height[t] /\ Height[t] <= Height[t]
    BY <1>2, <1>3
  <2>2. Anc[t][Height[t]] = t
    BY ExtendsEnds, Zenon
  <2> QED
    BY <1>3, <1>5, <1>6, <2>1, <2>2, Zenon DEF MarkerRow, CompleteRow
<1>8. \A h \in Nat : h < Height[t] => MarkerAuthorized(hs, ts, authority, h, t)
  BY <1>7, Zenon DEF MarkerAuthorized
<1>9. ASSUME NEW h \in Height[a] .. Height[t] - 1
      PROVE  ParentAuthorized(hs, ts, authority, Anc[t][h])
  <2>1. h \in Nat /\ Height[a] <= h /\ h < Height[t] /\ h <= Height[t]
    BY <1>3
  <2>2. h \in Heights /\ Anc[t][h] \in Block /\ Height[Anc[t][h]] = h
    BY <2>1, AncestorFacts, Zenon
  <2>3. hs[h] = Anc[t][h]
    BY <1>5, <2>1, <2>2, Zenon
  <2>4. CASE Height[a] < h
    <3>1. ts[h] = MarkerRow(Anc[t][h], t)
      BY <1>6, <2>1, <2>2, <2>4, Zenon
    <3>2. MarkerRow(Anc[t][h], t) \in Row
      BY <2>2, Zenon DEF MarkerRow, Row
    <3>3. ts[h] # NoBlock /\ ts[h].block = Anc[t][h] /\ ts[h].authority = t
      BY <3>1, <3>2, EmptyCell DEF EmptyCell, MarkerRow
    <3> QED
      BY <1>8, <2>1, <2>2, <2>3, <3>3, Zenon DEF ParentAuthorized
  <2>5. CASE h = Height[a]
    <3>1. Anc[t][h] = a
      BY <1>4, <2>5, Zenon
    <3>2. CASE h = 0
      BY <2>2, <2>3, <3>2, Zenon DEF ParentAuthorized
    <3>3. CASE h # 0
      <4>1. /\ terms[h] # NoBlock /\ terms[h].block = headers[h]
            /\ headers[h] = a
        <5>1. watermark < h /\ h <= Height[tip]
          BY <1>1, <1>3, <1>4, <2>5, <3>3 DEF Retained, RowsBind
        <5> QED
          BY <1>4, <2>2, <2>5, <5>1, Zenon DEF Retained, RowsBind, Inv, HeadersAreTheChain
      <4>2. ts[h] = IF IsMarker(terms[h]) THEN MarkerRow(terms[h].block, t) ELSE terms[h]
        <5>1. h <= Height[a] /\ h >= Height[a] - FinalityDepth
          BY <1>3, <2>5
        <5> QED
          BY <1>6, <2>2, <5>1, Zenon DEF Rebound
      <4>3. CASE IsMarker(terms[h])
        <5>1. ts[h] = MarkerRow(a, t)
          BY <4>1, <4>2, <4>3, Zenon
        <5>2. MarkerRow(a, t) \in Row
          BY Zenon DEF MarkerRow, Row
        <5>3. ts[h] # NoBlock /\ ts[h].block = a /\ ts[h].authority = t
          BY <5>1, <5>2, EmptyCell DEF EmptyCell, MarkerRow
        <5> QED
          BY <1>8, <2>1, <2>2, <2>3, <3>1, <5>3, Zenon DEF ParentAuthorized
      <4>4. CASE ~ IsMarker(terms[h])
        BY <2>2, <2>3, <3>1, <4>1, <4>2, <4>4, Zenon DEF ParentAuthorized
      <4> QED
        BY <4>3, <4>4, Zenon
    <3> QED
      BY <3>2, <3>3, Zenon
  <2> QED
    BY <1>3, <2>1, <2>4, <2>5
<1>10. ReplacementAuthorized(hs, ts, t)
  BY <1>9, Zenon DEF ReplacementAuthorized
<1> QED
  BY <1>10, Zenon DEF hs, ts

\* A fully staged reorg always commits: commit_reorg's checkpoint lies on the new
\* branch, and no replaced block has an unauthorized parent, whatever suffixes
\* and prunes left the markers below the branch point.
THEOREM StagedReorgAlwaysCommits == Spec => []StagedReorgCommits
<1>1. Inv /\ Retained => StagedReorgCommits
  <2> SUFFICES ASSUME Inv, Retained, phase = "apply", memTip = staging.target
               PROVE  StagedReorgCommits
    BY Zenon DEF StagedReorgCommits
  <2>1. PICK a \in Block, t \in Block : a = staging.ancestor /\ t = staging.target
    BY Zenon DEF Inv, TypeOK, Staging
  <2>2. Extends(t, FinalizedForTip(Height[t]))
    BY <2>1, StagedCheckpoint, Zenon
  <2>3. ReplacementAuthorized(Replaced(headers, Height[a], t, Anc[t]),
            Replaced(Rebound(terms, Height[a], t), Height[a], t, BranchRows(t)), t)
    BY <2>1, BranchAuthorized, Zenon
  <2> QED
    BY <2>1, <2>2, <2>3, Zenon DEF StagedReorgCommits
<1> QED
  BY <1>1, AlwaysRetained, PTL
=============================================================================
