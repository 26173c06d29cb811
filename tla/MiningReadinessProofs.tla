------------------------ MODULE MiningReadinessProofs ------------------------
(***************************************************************************)
(* For any tree of blocks, any peers, quorum and TTL: the permission to    *)
(* mine is backed by fresh confirmations, and the tip the quorum knows is  *)
(* on the chain of the committed tip but for a replacement it is yet to be *)
(* told of.                                                                *)
(***************************************************************************)
EXTENDS MiningReadiness, FiniteSetTheorems, TLAPS

-----------------------------------------------------------------------------
(* The tree. *)

LEMMA TreeFacts ==
    /\ NoBlock \notin Block /\ Genesis \in Block
    /\ \A b \in Block : Height[b] \in Nat /\ Height[b] \in Heights
    /\ \A b \in Block : \A h \in Heights : Anc[b][h] \in Block
    /\ \A b \in Block : \A h \in 0 .. Height[b] : h \in Heights
<1>1. \A b \in Block : Height[b] \in Heights
  BY TreeTypes, Zenon DEF TreeTypes
<1>2. ASSUME NEW b \in Block PROVE Height[b] \in Nat
  <2>1. Height[b] \in Heights
    BY <1>1, Zenon
  <2> QED
    BY <2>1 DEF Heights
<1>3. ASSUME NEW b \in Block, NEW h \in Heights PROVE Anc[b][h] \in Block
  <2>1. Anc[b] \in [Heights -> Block]
    BY TreeTypes, Zenon DEF TreeTypes
  <2> QED
    BY <2>1, Zenon
<1>4. ASSUME NEW b \in Block, NEW h \in 0 .. Height[b] PROVE h \in Heights
  <2>1. Height[b] \in 0 .. MaxHeight /\ MaxHeight \in Nat
    BY <1>1, TreeTypes, Zenon DEF TreeTypes, Heights
  <2> QED
    BY <1>4, <2>1 DEF Heights
<1> QED
  BY <1>1, <1>2, <1>3, <1>4, TreeTypes, Zenon DEF TreeTypes

LEMMA ExtendsRefl == ASSUME NEW b \in Block PROVE Extends(b, b)
<1>1. Height[b] <= Height[b]
  BY TreeFacts
<1> QED
  BY <1>1, TreeShape, Zenon DEF TreeShape, Extends

\* Two ancestors of a block, and the ancestor of an ancestor.
LEMMA AncestorOfAncestor ==
    ASSUME NEW a \in Block, NEW b \in Block, NEW c \in Block, Extends(c, b),
           Height[a] <= Height[b]
    PROVE  /\ Anc[b][Height[a]] = Anc[c][Height[a]]
           /\ Height[a] <= Height[c]
<1>1. /\ Height[a] \in Nat /\ Height[b] \in Nat /\ Height[c] \in Nat
      /\ Height[b] <= Height[c] /\ Anc[c][Height[b]] = b
  BY TreeFacts, Zenon DEF Extends
<1>2. /\ Height[b] \in 0 .. Height[c] /\ Height[a] \in 0 .. Height[b]
      /\ Height[a] <= Height[c]
  BY <1>1
<1>3. Anc[Anc[c][Height[b]]][Height[a]] = Anc[c][Height[a]]
  BY <1>2, TreeShape DEF TreeShape
<1> QED
  BY <1>1, <1>2, <1>3, Zenon

LEMMA ExtendsTrans ==
    ASSUME NEW a \in Block, NEW b \in Block, NEW c \in Block, Extends(c, b), Extends(b, a)
    PROVE  Extends(c, a)
BY AncestorOfAncestor, Zenon DEF Extends

LEMMA AncestorsOnOneChain ==
    ASSUME NEW a \in Block, NEW b \in Block, NEW c \in Block, Extends(c, a), Extends(c, b)
    PROVE  OnOneChain(a, b)
<1>1. Height[a] <= Height[b] \/ Height[b] <= Height[a]
  BY TreeFacts
<1>2. CASE Height[a] <= Height[b]
  <2>1. Anc[b][Height[a]] = Anc[c][Height[a]]
    BY <1>2, AncestorOfAncestor, Zenon
  <2> QED
    BY <1>2, <2>1, Zenon DEF Extends, OnOneChain
<1>3. CASE Height[b] <= Height[a]
  <2>1. Anc[a][Height[b]] = Anc[c][Height[b]]
    BY <1>3, AncestorOfAncestor, Zenon
  <2> QED
    BY <1>3, <2>1, Zenon DEF Extends, OnOneChain
<1> QED
  BY <1>1, <1>2, <1>3, Zenon

\* A block extends its parent, and no block but the first has height 0.
LEMMA ParentBelow == ASSUME NEW b \in Block, Height[b] # 0 PROVE Extends(b, Parent(b))
<1>1. Height[b] \in Nat
  BY TreeFacts, Zenon
<1>2. Height[b] - 1 \in 0 .. Height[b] /\ Height[b] - 1 <= Height[b]
  BY <1>1
<1>3. Height[Parent(b)] = Height[b] - 1
  BY <1>2, TreeShape DEF TreeShape, Parent
<1> QED
  BY <1>2, <1>3, Zenon DEF Extends, Parent

LEMMA OnlyGenesisAtZero == ASSUME NEW b \in Block, b # Genesis PROVE Height[b] # 0
BY TreeShape DEF TreeShape

\* What reconcile_canonical_tip takes for a child is one.
LEMMA ChildExtends ==
    ASSUME NEW a \in Block, NEW b \in Block, IsChild(b, a)
    PROVE  OnOneChain(a, b)
<1>1. Height[b] # 0
  <2>1. Height[a] \in Nat /\ Height[b] = Height[a] + 1
    BY TreeFacts, Zenon DEF IsChild
  <2> QED
    BY <2>1
<1> QED
  BY <1>1, ParentBelow, Zenon DEF IsChild, OnOneChain

-----------------------------------------------------------------------------
(* The operations of the quorum. *)

\* A lease is none, or runs, belongs to a connected peer and ends within the TTL
\* of its confirmation.
Fresh(q, since) ==
    \A p \in Peer : \/ q.frontier[p] = NoFrontier
                    \/ /\ p \in q.connected
                       /\ q.frontier[p].left \in 1 .. TTL
                       /\ since[p] + q.frontier[p].left <= TTL

\* Where the leases of r come from, when the peers P have confirmed its tip.
Carried(q, r, P) ==
    \A p \in Peer :
        \/ r.frontier[p] = NoFrontier
        \/ /\ p \in P /\ p \in r.connected
           /\ r.frontier[p] = [left |-> TTL, parent |-> r.tip]
        \/ /\ p \in q.connected => p \in r.connected
           /\ r.frontier[p] = q.frontier[p] /\ r.tip = q.tip
        \/ /\ p \in q.connected => p \in r.connected
           /\ r.frontier[p].left = q.frontier[p].left
           /\ q.frontier[p].parent = q.tip /\ OnOneChain(q.tip, r.tip)

LEMMA Leases ==
    /\ NoFrontier \in FrontierType /\ NoLease \in LeaseType
    /\ \A b \in Block : [left |-> TTL, parent |-> b] \in FrontierType
    /\ \A ok \in BOOLEAN : [left |-> TTL, ok |-> ok] \in LeaseType
    /\ TTL \in Nat \ {0}
BY ReadinessConstants
   DEF ReadinessConstants, NoFrontier, NoLease, FrontierType, LeaseType

LEMMA QuorumFields ==
    ASSUME NEW q \in QuorumType
    PROVE  /\ q.tip \in Block /\ q.complete \in BOOLEAN /\ q.better \in BOOLEAN
           /\ q.connected \in SUBSET Peer /\ q.health \in [Peer -> LeaseType]
           /\ q.frontier \in [Peer -> FrontierType]
BY DEF QuorumType

\* Nothing changes, and a peer comes.
LEMMA CarriedSame == ASSUME NEW q PROVE Carried(q, q, {})
BY Zenon DEF Carried

\* set_canonical_tip_state
LEMMA WithTipCarries ==
    ASSUME NEW q \in QuorumType, NEW b \in Block, NEW extends \in BOOLEAN,
           NEW better \in BOOLEAN, extends => OnOneChain(q.tip, b)
    PROVE  LET r == WithTip(q, b, extends, better)
           IN  r \in QuorumType /\ r.tip = b /\ r.connected = q.connected /\ Carried(q, r, {})
<1> DEFINE r == WithTip(q, b, extends, better)
           moved == LeasesMoved(q, b, extends)
<1>1. moved \in [Peer -> FrontierType]
  <2> SUFFICES ASSUME NEW p \in Peer
               PROVE  [q.frontier[p] EXCEPT !.parent = b] \in FrontierType
    BY Leases, Zenon DEF LeasesMoved
  <2> QED
    BY QuorumFields DEF FrontierType
<1>2. ASSUME NEW p \in Peer
      PROVE  \/ moved[p] = NoFrontier
             \/ /\ q.frontier[p].parent = q.tip /\ extends
                /\ moved[p].left = q.frontier[p].left
  <2>1. q.frontier[p] \in FrontierType
    BY QuorumFields, Zenon
  <2>2. [q.frontier[p] EXCEPT !.parent = b].left = q.frontier[p].left
    BY <2>1 DEF FrontierType
  <2> QED
    BY <2>2, Zenon DEF LeasesMoved
<1> HIDE DEF moved
<1>3. /\ r \in QuorumType /\ r.tip = b /\ r.connected = q.connected
      /\ r.frontier = IF b = q.tip THEN q.frontier ELSE moved
  BY <1>1, Zenon DEF WithTip, QuorumType, moved
<1> HIDE DEF r
<1>4. Carried(q, r, {})
  BY <1>2, <1>3, Zenon DEF Carried
<1> QED
  BY <1>3, <1>4, Zenon DEF r

\* reconcile_canonical_tip
LEMMA ReconciledCarries ==
    ASSUME NEW q \in QuorumType, NEW b \in Block
    PROVE  LET r == Reconciled(q, b)
           IN  r \in QuorumType /\ r.tip = b /\ r.connected = q.connected /\ Carried(q, r, {})
<1>1. q.tip \in Block /\ IsChild(b, q.tip) \in BOOLEAN
  BY QuorumFields, Zenon DEF IsChild
<1>2. IsChild(b, q.tip) => OnOneChain(q.tip, b)
  BY <1>1, ChildExtends, Zenon
<1>3. CASE q.tip = b
  BY <1>3, CarriedSame, Zenon DEF Reconciled
<1>4. CASE q.tip # b
  BY <1>1, <1>2, <1>4, WithTipCarries, Zenon DEF Reconciled
<1> QED
  BY <1>3, <1>4, Zenon

\* renew_health
LEMMA RenewedCarries ==
    ASSUME NEW q \in QuorumType, NEW p \in Peer, NEW ok \in BOOLEAN
    PROVE  LET r == Renewed(q, p, ok)
           IN  /\ r \in QuorumType /\ r.tip = q.tip /\ r.connected = q.connected
               /\ \A x \in Peer : r.frontier[x] = q.frontier[x] \/ r.frontier[x] = NoFrontier
               /\ p \in q.connected => r.health[p] = [left |-> TTL, ok |-> ok]
<1> DEFINE r == Renewed(q, p, ok)
<1>1. CASE p \notin q.connected
  BY <1>1, Zenon DEF Renewed
<1>2. CASE p \in q.connected
  <2> DEFINE h == [q.health EXCEPT ![p] = [left |-> TTL, ok |-> ok]]
             f == [q.frontier EXCEPT ![p] = IF ok THEN q.frontier[p] ELSE NoFrontier]
  <2>1. /\ h \in [Peer -> LeaseType] /\ h[p] = [left |-> TTL, ok |-> ok]
        /\ f \in [Peer -> FrontierType]
        /\ \A x \in Peer : f[x] = q.frontier[x] \/ f[x] = NoFrontier
    BY QuorumFields, Leases
  <2>2. r = [q EXCEPT !.health = h, !.frontier = f]
    BY <1>2 DEF Renewed, QuorumType
  <2> HIDE DEF h, f
  <2> QED
    BY <2>1, <2>2, Zenon DEF QuorumType
<1> QED
  BY <1>1, <1>2, Zenon


\* confirm_tip
LEMMA ConfirmedLeases ==
    ASSUME NEW q \in QuorumType, NEW p \in Peer, NEW b \in Block, Confirmable(q, p, b)
    PROVE  LET r == Confirmed(q, p, b)
           IN  /\ r \in QuorumType /\ r.tip = b /\ r.connected = q.connected
               /\ r.frontier[p] = [left |-> TTL, parent |-> b]
               /\ \A x \in Peer : x = p \/ r.frontier[x] = q.frontier[x]
                                    \/ r.frontier[x] = NoFrontier
<1> DEFINE n == Renewed(q, p, TRUE)
           f == [n.frontier EXCEPT ![p] = [left |-> TTL, parent |-> b]]
           r == Confirmed(q, p, b)
<1>1. /\ n \in QuorumType /\ n.tip = q.tip /\ n.connected = q.connected
      /\ \A x \in Peer : n.frontier[x] = q.frontier[x] \/ n.frontier[x] = NoFrontier
  BY RenewedCarries, Zenon
<1>2. q.tip = b
  BY Zenon DEF Confirmable
<1> HIDE DEF n
<1>3. /\ f \in [Peer -> FrontierType] /\ f[p] = [left |-> TTL, parent |-> b]
      /\ \A x \in Peer : x = p \/ f[x] = n.frontier[x]
  BY <1>1, QuorumFields, Leases
<1>4. r = [n EXCEPT !.frontier = f]
  <2>1. r = [n EXCEPT !.frontier[p] = [left |-> TTL, parent |-> b]]
    BY Zenon DEF Confirmed, n
  <2> QED
    BY <1>1, <2>1 DEF QuorumType
<1> HIDE DEF f, r
<1>5. r \in QuorumType /\ r.tip = n.tip /\ r.connected = n.connected /\ r.frontier = f
  BY <1>1, <1>3, <1>4, Zenon DEF QuorumType
<1> QED
  BY <1>1, <1>2, <1>3, <1>5, Zenon DEF r

\* The confirmations of the sources of a suffix, or of the one of a snapshot.
LEMMA ConfirmedByLeases ==
    ASSUME NEW q \in QuorumType, NEW b \in Block, NEW P \in SUBSET Peer,
           \A p \in P : Confirmable(q, p, b)
    PROVE  LET r == ConfirmedBy(q, P, b)
           IN  /\ r \in QuorumType /\ r.tip = q.tip /\ r.connected = q.connected
               /\ \A x \in P : r.frontier[x] = [left |-> TTL, parent |-> b]
               /\ \A x \in Peer \ P : r.frontier[x] = q.frontier[x]
<1> DEFINE h == [p \in Peer |-> IF p \in P THEN Confirmed(q, p, b).health[p] ELSE q.health[p]]
           f == [p \in Peer |-> IF p \in P THEN Confirmed(q, p, b).frontier[p] ELSE q.frontier[p]]
           r == ConfirmedBy(q, P, b)
<1>1. ASSUME NEW p \in P
      PROVE  /\ Confirmed(q, p, b).health[p] \in LeaseType
             /\ Confirmed(q, p, b).frontier[p] = [left |-> TTL, parent |-> b]
  <2>1. p \in Peer /\ Confirmable(q, p, b)
    BY <1>1, Zenon
  <2>2. /\ Confirmed(q, p, b) \in QuorumType
        /\ Confirmed(q, p, b).frontier[p] = [left |-> TTL, parent |-> b]
    BY <2>1, ConfirmedLeases, Zenon
  <2>3. Confirmed(q, p, b).health \in [Peer -> LeaseType]
    BY <2>2, QuorumFields, Zenon
  <2> QED
    BY <2>1, <2>2, <2>3, Zenon
<1>2. /\ h \in [Peer -> LeaseType] /\ f \in [Peer -> FrontierType]
      /\ \A x \in P : f[x] = [left |-> TTL, parent |-> b]
      /\ \A x \in Peer \ P : f[x] = q.frontier[x]
  BY <1>1, QuorumFields, Leases
<1>3. r = [q EXCEPT !.health = h, !.frontier = f]
  BY DEF ConfirmedBy, QuorumType
<1> HIDE DEF h, f, r
<1>4. r \in QuorumType /\ r.tip = q.tip /\ r.connected = q.connected /\ r.frontier = f
  BY <1>2, <1>3, Zenon DEF QuorumType
<1> QED
  BY <1>2, <1>4, Zenon DEF r

\* disconnect
LEMMA DepartedLeases ==
    ASSUME NEW q \in QuorumType, NEW p \in Peer
    PROVE  LET r == Departed(q, p)
           IN  /\ r \in QuorumType /\ r.tip = q.tip /\ r.connected = q.connected \ {p}
               /\ r.frontier[p] = NoFrontier
               /\ \A x \in Peer \ {p} : r.frontier[x] = q.frontier[x]
<1> DEFINE h == [q.health EXCEPT ![p] = NoLease]
           f == [q.frontier EXCEPT ![p] = NoFrontier]
           r == Departed(q, p)
<1>1. /\ h \in [Peer -> LeaseType] /\ f \in [Peer -> FrontierType]
      /\ f[p] = NoFrontier /\ \A x \in Peer \ {p} : f[x] = q.frontier[x]
      /\ q.connected \ {p} \in SUBSET Peer
  BY QuorumFields, Leases
<1>2. r = [q EXCEPT !.connected = q.connected \ {p}, !.health = h, !.frontier = f]
  BY DEF Departed, QuorumType
<1> HIDE DEF h, f, r
<1>3. r \in QuorumType /\ r.tip = q.tip /\ r.connected = q.connected \ {p} /\ r.frontier = f
  BY <1>1, <1>2, Zenon DEF QuorumType
<1> QED
  BY <1>1, <1>3, Zenon DEF r

\* expire
LEMMA ExpiredLeases ==
    ASSUME NEW q \in QuorumType
    PROVE  LET r == Expired(q)
           IN  /\ r \in QuorumType /\ r.tip = q.tip /\ r.connected = q.connected
               /\ \A x \in Peer : r.frontier[x] = q.frontier[x] \/ r.frontier[x] = NoFrontier
<1> DEFINE h == [p \in Peer |-> IF q.health[p].left > 0 THEN q.health[p] ELSE NoLease]
           f == [p \in Peer |-> IF q.frontier[p].left > 0 /\ q.health[p].left > 0
                                 THEN q.frontier[p] ELSE NoFrontier]
           r == Expired(q)
<1>1. /\ h \in [Peer -> LeaseType] /\ f \in [Peer -> FrontierType]
      /\ \A x \in Peer : f[x] = q.frontier[x] \/ f[x] = NoFrontier
  BY QuorumFields, Leases
<1>2. r = [q EXCEPT !.health = h, !.frontier = f]
  BY DEF Expired, QuorumType
<1> HIDE DEF h, f, r
<1>3. r \in QuorumType /\ r.tip = q.tip /\ r.connected = q.connected /\ r.frontier = f
  BY <1>1, <1>2, Zenon DEF QuorumType
<1> QED
  BY <1>1, <1>3, Zenon DEF r

\* set_sync_state
LEMMA SyncStateLeases ==
    ASSUME NEW q \in QuorumType, NEW complete \in BOOLEAN, NEW better \in BOOLEAN
    PROVE  LET r == [q EXCEPT !.complete = complete, !.better = better]
           IN  /\ r \in QuorumType /\ r.tip = q.tip /\ r.connected = q.connected
               /\ r.frontier = q.frontier
BY Zenon DEF QuorumType


-----------------------------------------------------------------------------
(* The quorum in the state. *)

\* More peers are in more failure domains.
LEMMA EnoughMore ==
    ASSUME NEW B \in SUBSET Peer, NEW A \in SUBSET B, Enough(A)
    PROVE  Enough(B)
<1>1. IsFiniteSet(B)
  BY ReadinessConstants, FS_Subset, Zenon DEF ReadinessConstants
<1>2. IsFiniteSet(DomainsOf(B)) /\ Cardinality(DomainsOf(B)) \in Nat
  <2> DEFINE f == [p \in B |-> Domain[p]]
  <2>1. f \in Surjection(B, DomainsOf(B))
    BY DEF Surjection, DomainsOf
  <2> QED
    BY <1>1, <2>1, FS_Surjection, FS_CardinalityType
<1>3. DomainsOf(A) \in SUBSET DomainsOf(B)
  BY Zenon DEF DomainsOf
<1>4. /\ IsFiniteSet(DomainsOf(A))
      /\ Cardinality(DomainsOf(A)) <= Cardinality(DomainsOf(B))
  BY <1>2, <1>3, FS_Subset, Zenon
<1>5. Cardinality(DomainsOf(A)) \in Nat
  BY <1>4, FS_CardinalityType, Zenon
<1>6. Required \in Nat /\ Cardinality(DomainsOf(A)) >= Required
  BY ReadinessConstants DEF ReadinessConstants, Enough
<1>7. \A k, m, n \in Nat : m >= k /\ m <= n => n >= k
  OBVIOUS
<1> QED
  BY <1>2, <1>4, <1>5, <1>6, <1>7, Zenon DEF Enough

\* Whatever is published has confirmations behind it that a tick leaves fresh.
LEMMA ReadyBacked ==
    ASSUME NEW q \in QuorumType, NEW since \in [Peer -> 0 .. TTL + 1], Fresh(q, since),
           NonceSearchReady(q)
    PROVE  Enough({p \in q.connected : since[p] <= TTL - 1})
<1>1. ASSUME NEW p \in Authorizing(q)
      PROVE  p \in q.connected /\ since[p] <= TTL - 1
  <2>1. p \in Peer /\ q.frontier[p].left > 0
    BY <1>1, Zenon DEF Authorizing, LiveHealth
  <2>2. q.frontier[p] # NoFrontier
    BY <2>1 DEF NoFrontier
  <2>3. /\ p \in q.connected /\ q.frontier[p].left \in 1 .. TTL
        /\ since[p] + q.frontier[p].left <= TTL /\ since[p] \in 0 .. TTL + 1
    BY <2>1, <2>2, Zenon DEF Fresh
  <2>4. TTL \in Nat
    BY Leases, Zenon
  <2> QED
    BY <2>3, <2>4
<1>2. Enough(Authorizing(q))
  BY Zenon DEF NonceSearchReady
<1>3. /\ {p \in q.connected : since[p] <= TTL - 1} \in SUBSET Peer
      /\ Authorizing(q) \in SUBSET {p \in q.connected : since[p] <= TTL - 1}
  BY <1>1, QuorumFields, Zenon
<1> QED
  BY <1>2, <1>3, EnoughMore, Zenon

\* What the miner was told stays backed until the heartbeat after the next tick.
NonceInv ==
    nonceReady => Enough({p \in quorum.connected :
                              age[p] <= IF beaten THEN TTL - 1 ELSE TTL})

\* What a handler does to the quorum when the peers P have confirmed the tip.
Move(P) ==
    /\ quorum' \in QuorumType /\ Carried(quorum, quorum', P)
    /\ said' \in [Peer -> Block \cup {NoBlock}] /\ age' \in [Peer -> 0 .. TTL + 1]
    /\ \A p \in P : said'[p] = quorum'.tip /\ age'[p] = 0
    /\ \A p \in Peer \ P : p \in quorum'.connected => age'[p] = age[p]
    /\ proofReady' \in BOOLEAN /\ nonceReady' \in BOOLEAN /\ beaten' \in BOOLEAN
    /\ \/ nonceReady' = NonceSearchReady(quorum')
       \/ /\ nonceReady' = nonceReady /\ beaten' = beaten
          /\ quorum.connected \subseteq quorum'.connected

LEMMA MoveFresh ==
    ASSUME TypeOK, Fresh(quorum, age), NEW P \in SUBSET Peer, Move(P)
    PROVE  Fresh(quorum', age')
<1> SUFFICES ASSUME NEW p \in Peer, quorum'.frontier[p] # NoFrontier
             PROVE  /\ p \in quorum'.connected
                    /\ quorum'.frontier[p].left \in 1 .. TTL
                    /\ age'[p] + quorum'.frontier[p].left <= TTL
  BY Zenon DEF Fresh
<1>1. TTL \in Nat \ {0} /\ age[p] \in 0 .. TTL + 1
  BY Leases, Zenon DEF TypeOK
<1>2. quorum.frontier[p].parent = quorum.tip => quorum.frontier[p] # NoFrontier
  BY TreeFacts, QuorumFields DEF TypeOK, NoFrontier
<1>3. \/ /\ p \in P /\ p \in quorum'.connected
         /\ quorum'.frontier[p] = [left |-> TTL, parent |-> quorum'.tip]
      \/ /\ p \in quorum.connected => p \in quorum'.connected
         /\ quorum'.frontier[p].left = quorum.frontier[p].left
         /\ quorum.frontier[p] # NoFrontier
  <2>1. Carried(quorum, quorum', P)
    BY Zenon DEF Move
  <2> QED
    BY <1>2, <2>1 DEF Carried
<1>4. age'[p] = 0 \/ (p \in quorum'.connected => age'[p] = age[p])
  BY Zenon DEF Move
<1>5. CASE /\ p \in P /\ p \in quorum'.connected
           /\ quorum'.frontier[p] = [left |-> TTL, parent |-> quorum'.tip]
  <2>1. age'[p] = 0
    BY <1>5, Zenon DEF Move
  <2> QED
    BY <1>1, <1>5, <2>1
<1>6. CASE /\ p \in quorum.connected => p \in quorum'.connected
           /\ quorum'.frontier[p].left = quorum.frontier[p].left
           /\ quorum.frontier[p] # NoFrontier
  <2>1. /\ p \in quorum.connected /\ quorum.frontier[p].left \in 1 .. TTL
        /\ age[p] + quorum.frontier[p].left <= TTL
    BY <1>6, Zenon DEF Fresh
  <2>2. age'[p] = 0 \/ age'[p] = age[p]
    BY <1>4, <1>6, <2>1, Zenon
  <2> QED
    BY <1>1, <1>6, <2>1, <2>2
<1> QED
  BY <1>3, <1>5, <1>6, Zenon

LEMMA MoveNonce ==
    ASSUME TypeOK, beaten \in BOOLEAN, Fresh(quorum, age), NonceInv,
           NEW P \in SUBSET Peer, Move(P)
    PROVE  NonceInv'
<1> DEFINE k == IF beaten' THEN TTL - 1 ELSE TTL
           Now == {p \in quorum'.connected : age'[p] <= k}
<1>0. TTL \in Nat \ {0} /\ quorum' \in QuorumType /\ age' \in [Peer -> 0 .. TTL + 1]
      /\ age \in [Peer -> 0 .. TTL + 1]
  BY Leases, Zenon DEF Move, TypeOK
<1>1. Now \in SUBSET Peer
  BY <1>0, QuorumFields, Zenon
<1>2. SUFFICES ASSUME nonceReady' PROVE Enough(Now)
  BY Zenon DEF NonceInv
<1>3. CASE nonceReady' = NonceSearchReady(quorum')
  <2>1. Enough({p \in quorum'.connected : age'[p] <= TTL - 1})
    BY <1>0, <1>2, <1>3, MoveFresh, ReadyBacked, Zenon
  <2>2. ASSUME NEW p \in quorum'.connected, age'[p] <= TTL - 1 PROVE age'[p] <= k
    <3>1. age'[p] \in 0 .. TTL + 1
      BY <1>0, <2>2, QuorumFields, Zenon
    <3> QED
      BY <1>0, <2>2, <3>1
  <2> QED
    BY <1>1, <2>1, <2>2, EnoughMore, Zenon
<1>4. CASE /\ nonceReady' = nonceReady /\ beaten' = beaten
           /\ quorum.connected \subseteq quorum'.connected
  <2>1. Enough({p \in quorum.connected : age[p] <= k})
    BY <1>2, <1>4, Zenon DEF NonceInv
  <2>2. ASSUME NEW p \in quorum.connected, age[p] <= k
        PROVE  p \in quorum'.connected /\ age'[p] <= k
    <3>1. p \in quorum'.connected /\ p \in Peer
      BY <1>0, <1>4, QuorumFields, Zenon
    <3>2. age'[p] = 0 \/ age'[p] = age[p]
      BY <3>1, Zenon DEF Move
    <3>3. 0 <= k
      BY <1>0
    <3> QED
      BY <2>2, <3>1, <3>2, <3>3, Zenon
  <2>3. {p \in quorum.connected : age[p] <= k} \in SUBSET Now
    BY <2>2, Zenon
  <2> QED
    BY <1>1, <2>1, <2>3, EnoughMore, Zenon
<1> QED
  BY <1>3, <1>4, Zenon DEF Move

\* A moved lease stays on its chain.
LEMMA MoveLeases ==
    ASSUME TypeOK, NEW P \in SUBSET Peer, Move(P)
    PROVE  LeaseMove
<1>1. quorum.tip \in Block /\ quorum'.tip \in Block
  BY QuorumFields, Zenon DEF TypeOK, Move
<1>2. NoFrontier.parent # quorum'.tip
  BY <1>1, TreeFacts DEF NoFrontier
<1>3. OnOneChain(quorum.tip, quorum.tip)
  BY <1>1, ExtendsRefl, Zenon DEF OnOneChain
<1> QED
  BY <1>2, <1>3, Zenon DEF LeaseMove, Move, Carried


\* Leases that end, and leases that are given, on the way.
LEMMA CarriedLess ==
    ASSUME NEW q, NEW r, NEW n, NEW P, Carried(q, r, P), n.tip = r.tip,
           n.connected = r.connected,
           \A x \in Peer : n.frontier[x] = r.frontier[x] \/ n.frontier[x] = NoFrontier
    PROVE  Carried(q, n, P)
<1> SUFFICES ASSUME NEW x \in Peer, n.frontier[x] = r.frontier[x]
             PROVE  \/ n.frontier[x] = NoFrontier
                    \/ /\ x \in P /\ x \in n.connected
                       /\ n.frontier[x] = [left |-> TTL, parent |-> n.tip]
                    \/ /\ x \in q.connected => x \in n.connected
                       /\ n.frontier[x] = q.frontier[x] /\ n.tip = q.tip
                    \/ /\ x \in q.connected => x \in n.connected
                       /\ n.frontier[x].left = q.frontier[x].left
                       /\ q.frontier[x].parent = q.tip /\ OnOneChain(q.tip, n.tip)
  BY Zenon DEF Carried
<1> QED
  BY DEF Carried

LEMMA CarriedConfirm ==
    ASSUME NEW q, NEW r, NEW n, NEW P \in SUBSET Peer, Carried(q, r, {}), n.tip = r.tip,
           n.connected = r.connected,
           \A x \in P : x \in r.connected /\ n.frontier[x] = [left |-> TTL, parent |-> r.tip],
           \A x \in Peer \ P : n.frontier[x] = r.frontier[x] \/ n.frontier[x] = NoFrontier
    PROVE  Carried(q, n, P)
<1> SUFFICES ASSUME NEW x \in Peer, x \notin P, n.frontier[x] = r.frontier[x]
             PROVE  \/ n.frontier[x] = NoFrontier
                    \/ /\ x \in P /\ x \in n.connected
                       /\ n.frontier[x] = [left |-> TTL, parent |-> n.tip]
                    \/ /\ x \in q.connected => x \in n.connected
                       /\ n.frontier[x] = q.frontier[x] /\ n.tip = q.tip
                    \/ /\ x \in q.connected => x \in n.connected
                       /\ n.frontier[x].left = q.frontier[x].left
                       /\ q.frontier[x].parent = q.tip /\ OnOneChain(q.tip, n.tip)
  BY Zenon DEF Carried
<1> QED
  BY DEF Carried

LEMMA NoteTyped ==
    ASSUME TypeOK, NEW P \in SUBSET Peer, NEW b \in Block, Note(P, b)
    PROVE  /\ said' \in [Peer -> Block \cup {NoBlock}] /\ age' \in [Peer -> 0 .. TTL + 1]
           /\ \A p \in P : said'[p] = b /\ age'[p] = 0
           /\ \A p \in Peer \ P : age'[p] = age[p]
<1>1. 0 \in 0 .. TTL + 1
  BY Leases
<1>2. /\ said' = [p \in Peer |-> IF p \in P THEN b ELSE said[p]]
      /\ age' = [p \in Peer |-> IF p \in P THEN 0 ELSE age[p]]
      /\ said \in [Peer -> Block \cup {NoBlock}] /\ age \in [Peer -> 0 .. TTL + 1]
  BY Zenon DEF Note, TypeOK
<1> HIDE DEF Note
<1>3. /\ said' \in [Peer -> Block \cup {NoBlock}]
      /\ \A p \in P : said'[p] = b
  BY <1>2
<1>4. /\ age' \in [Peer -> 0 .. TTL + 1]
      /\ \A p \in P : age'[p] = 0
      /\ \A p \in Peer \ P : age'[p] = age[p]
  BY <1>1, <1>2
<1> QED
  BY <1>3, <1>4, Zenon

LEMMA PublishTyped ==
    ASSUME NEW q \in QuorumType, Publish(q)
    PROVE  /\ quorum' = q /\ proofReady' \in BOOLEAN /\ nonceReady' \in BOOLEAN
           /\ nonceReady' = NonceSearchReady(quorum')
BY Zenon DEF Publish, ProofBuildReady, NonceSearchReady

-----------------------------------------------------------------------------
(* The handlers. *)

Base == {ForkPoint(a, b) : a \in Block, b \in Block}
Stage == {"running", "done"}
SuffixPlan == [kind : {"live", "reorg"}, base : Base, target : Block]
SuffixJob ==
    [kind : {"live", "reorg"}, base : Base, target : Block,
     reached : Block \cup {NoBlock}, stage : Stage]
SnapshotJob ==
    [kind : {"snapshot"}, target : Block, observer : Peer,
     reached : Block \cup {NoBlock}, stage : Stage]

\* The mutations are exclusive, so that what a job committed stays below the tip
\* until its completion is handled.
WorkOK ==
    /\ synced \in BOOLEAN /\ beaten \in BOOLEAN
    /\ plan \in SuffixPlan \cup {Nothing}
    /\ job \in SuffixJob \cup SnapshotJob \cup {Nothing}
    /\ job # Nothing /\ job.stage = "running" => job.reached = NoBlock
    /\ job # Nothing /\ job.reached # NoBlock => Extends(tip, job.reached)

IInv == TypeOK /\ WorkOK /\ ViewOnChain /\ Fresh(quorum, age) /\ NonceInv

LEMMA JobFields ==
    ASSUME WorkOK, job # Nothing
    PROVE  /\ job.target \in Block /\ job.reached \in Block \cup {NoBlock}
           /\ job.stage \in Stage
           /\ job.kind = "snapshot" => job.observer \in Peer
BY DEF WorkOK, SuffixJob, SnapshotJob

\* A handler that leaves the quorum, the peers and the channels alone.
LEMMA Stays ==
    ASSUME TypeOK, WorkOK, UNCHANGED <<quorum, proofReady, nonceReady, beaten, said, age>>
    PROVE  Move({})
BY CarriedSame, Zenon DEF Move, TypeOK, WorkOK

\* A handler that publishes, and hears nothing from a peer.
LEMMA PublishesCarried ==
    ASSUME TypeOK, WorkOK, NEW q \in QuorumType, Carried(quorum, q, {}), Publish(q),
           beaten' \in BOOLEAN, UNCHANGED <<said, age>>
    PROVE  Move({})
BY PublishTyped, Zenon DEF Move, TypeOK

\* A handler that publishes the confirmation of the peers P.
LEMMA PublishesConfirmed ==
    ASSUME TypeOK, WorkOK, NEW q \in QuorumType, NEW P \in SUBSET Peer, NEW b \in Block,
           Carried(quorum, q, P), q.tip = b, Publish(q), Note(P, b), UNCHANGED beaten
    PROVE  Move(P)
BY PublishTyped, NoteTyped, Zenon DEF Move, WorkOK


\* confirm_tip by one peer, from the quorum in the state.
LEMMA ConfirmMoves ==
    ASSUME TypeOK, WorkOK, NEW p \in Peer, Confirmable(quorum, p, tip),
           Publish(Confirmed(quorum, p, tip)), Note({p}, tip), UNCHANGED beaten
    PROVE  Move({p})
<1> DEFINE n == Confirmed(quorum, p, tip)
<1>1. quorum \in QuorumType /\ tip \in Block
  BY Zenon DEF TypeOK
<1>2. /\ n \in QuorumType /\ n.tip = tip /\ n.connected = quorum.connected
      /\ n.frontier[p] = [left |-> TTL, parent |-> tip]
      /\ \A x \in Peer : x = p \/ n.frontier[x] = quorum.frontier[x] \/ n.frontier[x] = NoFrontier
  BY <1>1, ConfirmedLeases
<1>3. p \in quorum.connected /\ quorum.tip = tip
  BY Zenon DEF Confirmable
<1> HIDE DEF n
<1>4. Carried(quorum, n, {p})
  <2>1. Carried(quorum, quorum, {})
    BY CarriedSame, Zenon
  <2>2. {p} \in SUBSET Peer
    BY Zenon
  <2> QED
    BY <1>2, <1>3, <2>1, <2>2, CarriedConfirm, Zenon
<1>5. Publish(n)
  BY Zenon DEF n
<1>6. {p} \in SUBSET Peer
  BY Zenon
<1> QED
  BY <1>1, <1>2, <1>4, <1>5, <1>6, PublishesConfirmed, Zenon

\* The handlers of what a peer does.
LEMMA PeerMoves ==
    ASSUME TypeOK, WorkOK, NEW p \in Peer, PeerStep(p)
    PROVE  \E P \in SUBSET Peer : Move(P)
<1>0. /\ quorum \in QuorumType /\ {} \in SUBSET Peer /\ {p} \in SUBSET Peer
      /\ beaten \in BOOLEAN
  BY Zenon DEF TypeOK, WorkOK
<1>1. CASE Connect(p)
  <2> DEFINE n == [quorum EXCEPT !.connected = quorum.connected \cup {p}]
  <2>1. quorum' = n /\ UNCHANGED <<proofReady, nonceReady, beaten, said, age>>
    BY <1>1, Zenon DEF Connect, published
  <2>2. quorum.connected \cup {p} \in SUBSET Peer
    BY <1>0, QuorumFields, Zenon
  <2>3. /\ n \in QuorumType /\ n.tip = quorum.tip /\ n.frontier = quorum.frontier
        /\ n.connected = quorum.connected \cup {p}
    BY <1>0, <2>2, Zenon DEF QuorumType
  <2> HIDE DEF n
  <2>4. Carried(quorum, n, {})
    BY <2>3, Zenon DEF Carried
  <2> QED
    BY <1>0, <2>1, <2>3, <2>4, Zenon DEF Move, TypeOK
<1>2. CASE Disconnect(p)
  <2> DEFINE n == Departed(quorum, p)
  <2>1. /\ n \in QuorumType /\ n.tip = quorum.tip /\ n.connected = quorum.connected \ {p}
        /\ n.frontier[p] = NoFrontier
        /\ \A x \in Peer \ {p} : n.frontier[x] = quorum.frontier[x]
    BY <1>0, DepartedLeases, Zenon
  <2>2. Publish(n) /\ UNCHANGED beaten
    BY <1>2, Zenon DEF Disconnect
  <2> HIDE DEF n
  <2>3. Carried(quorum, n, {})
    BY <2>1, Zenon DEF Carried
  <2>4. TTL + 1 \in 0 .. TTL + 1
    BY Leases
  <2>5. /\ said' = [said EXCEPT ![p] = NoBlock] /\ age' = [age EXCEPT ![p] = TTL + 1]
        /\ said \in [Peer -> Block \cup {NoBlock}] /\ age \in [Peer -> 0 .. TTL + 1]
    BY <1>2, Zenon DEF Disconnect, TypeOK
  <2>6. /\ said' \in [Peer -> Block \cup {NoBlock}] /\ age' \in [Peer -> 0 .. TTL + 1]
        /\ \A x \in Peer \ {p} : age'[x] = age[x]
    BY <2>4, <2>5, Zenon
  <2>7. \A x \in Peer : x \in n.connected => age'[x] = age[x]
    BY <2>1, <2>6, Zenon
  <2> QED
    BY <1>0, <2>1, <2>2, <2>3, <2>6, <2>7, PublishTyped, Zenon DEF Move
<1>3. CASE AnnounceTip(p)
  BY <1>0, <1>3, ConfirmMoves, Zenon DEF AnnounceTip
<1>4. CASE ConfirmHeaders(p)
  <2>1. UNCHANGED beaten
    BY <1>4, Zenon DEF ConfirmHeaders
  <2>2. CASE Confirmable(quorum, p, tip)
    BY <1>0, <1>4, <2>1, <2>2, ConfirmMoves, Zenon DEF ConfirmHeaders
  <2>3. CASE ~Confirmable(quorum, p, tip)
    BY <1>0, <1>4, <2>1, <2>3, Stays, Zenon DEF ConfirmHeaders, published
  <2> QED
    BY <2>2, <2>3, Zenon
<1>5. ASSUME NEW ok \in BOOLEAN, Publish(Renewed(quorum, p, ok)), UNCHANGED <<beaten, said, age>>
      PROVE  Move({})
  <2> DEFINE n == Renewed(quorum, p, ok)
  <2>1. /\ n \in QuorumType /\ n.tip = quorum.tip /\ n.connected = quorum.connected
        /\ \A x \in Peer : n.frontier[x] = quorum.frontier[x] \/ n.frontier[x] = NoFrontier
    BY <1>0, RenewedCarries, Zenon
  <2>2. Publish(n) /\ beaten' \in BOOLEAN
    BY <1>0, <1>5, Zenon
  <2> HIDE DEF n
  <2>3. Carried(quorum, n, {})
    BY <2>1, CarriedSame, CarriedLess, Zenon
  <2> QED
    BY <1>5, <2>1, <2>2, <2>3, PublishesCarried, Zenon
<1>6. CASE ObserveCompatible(p) \/ RejectIncompatible(p)
  BY <1>0, <1>5, <1>6, Zenon DEF ObserveCompatible, RejectIncompatible
<1> QED
  BY <1>1, <1>2, <1>3, <1>4, <1>6, Zenon DEF PeerStep

\* set_canonical_tip, then the confirmations of those who can give one.
LEMMA ToldMoves ==
    ASSUME TypeOK, WorkOK, NEW b \in Block, NEW extends \in BOOLEAN, NEW better \in BOOLEAN,
           extends => OnOneChain(quorum.tip, b), NEW told,
           told = WithTip(quorum, b, extends, better),
           NEW agreed \in SUBSET Peer, \A p \in agreed : Confirmable(told, p, b),
           UNCHANGED beaten
    PROVE  /\ told.tip = b
           /\ Publish(told) /\ UNCHANGED <<said, age>> => Move({})
           /\ ConfirmedBy(told, agreed, b).tip = b
           /\ Publish(ConfirmedBy(told, agreed, b)) /\ Note(agreed, b) => Move(agreed)
<1> DEFINE n == ConfirmedBy(told, agreed, b)
<1>0. quorum \in QuorumType /\ beaten' \in BOOLEAN
  BY Zenon DEF TypeOK, WorkOK
<1>1. /\ told \in QuorumType /\ told.tip = b /\ told.connected = quorum.connected
      /\ Carried(quorum, told, {})
  BY <1>0, WithTipCarries
<1>3. \A p \in agreed : p \in told.connected
  BY Zenon DEF Confirmable
<1>4. /\ n \in QuorumType /\ n.tip = told.tip /\ n.connected = told.connected
      /\ \A x \in agreed : n.frontier[x] = [left |-> TTL, parent |-> b]
      /\ \A x \in Peer \ agreed : n.frontier[x] = told.frontier[x]
  BY <1>1, ConfirmedByLeases, Zenon
<1> HIDE DEF n
<1>5. Carried(quorum, n, agreed)
  BY <1>1, <1>3, <1>4, CarriedConfirm, Zenon
<1>6. Publish(told) /\ UNCHANGED <<said, age>> => Move({})
  BY <1>0, <1>1, PublishesCarried, Zenon
<1>7. Publish(n) /\ Note(agreed, b) => Move(agreed)
  BY <1>1, <1>4, <1>5, PublishesConfirmed, Zenon
<1> QED
  BY <1>1, <1>4, <1>6, <1>7, Zenon DEF n

\* The completion of a suffix: a live one is on the chain of the tip, and so is
\* what the quorum knows.
LEMMA SuffixDoneMoves ==
    ASSUME TypeOK, WorkOK, ViewOnChain, NEW selected \in BOOLEAN,
           NEW sources \in SUBSET Peer, SuffixDone(selected, sources)
    PROVE  /\ \E P \in SUBSET Peer : Move(P)
           /\ \/ quorum' = quorum /\ job.reached = NoBlock
              \/ quorum'.tip = job.reached /\ job.reached # NoBlock
<1> DEFINE b == job.reached
           better == ~(selected /\ "fault" \notin held /\ b = job.target)
           live == job.kind = "live"
           told == WithTip(quorum, b, live, better)
           agreed == {p \in sources : Confirmable(told, p, b)}
<1>0. /\ job # Nothing /\ UNCHANGED beaten /\ {} \in SUBSET Peer /\ agreed \in SUBSET Peer
      /\ quorum.tip \in Block /\ tip \in Block
  BY QuorumFields, Zenon DEF SuffixDone, TypeOK
<1>1. CASE b = NoBlock
  <2>1. UNCHANGED <<quorum, published, said, age>>
    BY <1>1, Zenon DEF SuffixDone
  <2> QED
    BY <1>0, <1>1, <2>1, Stays, Zenon DEF published
<1>2. CASE b # NoBlock
  <2>1. b \in Block /\ live \in BOOLEAN /\ better \in BOOLEAN
    BY <1>0, <1>2, JobFields, Zenon
  <2>2. Extends(tip, b)
    BY <1>0, <1>2, Zenon DEF WorkOK
  <2>3. live => OnOneChain(quorum.tip, b)
    <3>1. live => Extends(tip, quorum.tip)
      BY Zenon DEF ViewOnChain, Replaced
    <3> QED
      BY <1>0, <2>1, <2>2, <3>1, AncestorsOnOneChain, Zenon
  <2>4. /\ told.tip = b
        /\ Publish(told) /\ UNCHANGED <<said, age>> => Move({})
        /\ ConfirmedBy(told, agreed, b).tip = b
        /\ Publish(ConfirmedBy(told, agreed, b)) /\ Note(agreed, b) => Move(agreed)
    <3>1. /\ told = WithTip(quorum, b, live, better) /\ agreed \in SUBSET Peer
          /\ \A p \in agreed : Confirmable(told, p, b)
      BY <1>0, Zenon
    <3> HIDE DEF b, live, better, told, agreed
    <3> QED
      BY <1>0, <2>1, <2>3, <3>1, ToldMoves, Zenon
  <2>5. \/ Publish(ConfirmedBy(told, agreed, b)) /\ Note(agreed, b)
        \/ Publish(told) /\ UNCHANGED <<said, age>>
    BY <1>2, Zenon DEF SuffixDone
  <2> HIDE DEF told, agreed, b
  <2>6. quorum'.tip = b
    BY <2>4, <2>5, Zenon DEF Publish
  <2>7. \E P \in SUBSET Peer : Move(P)
    BY <1>0, <2>4, <2>5, Zenon
  <2> QED
    BY <1>2, <2>6, <2>7, Zenon DEF b
<1> QED
  BY <1>1, <1>2, Zenon

LEMMA SnapshotDoneMoves ==
    ASSUME TypeOK, WorkOK, SnapshotDone
    PROVE  /\ \E P \in SUBSET Peer : Move(P)
           /\ \/ quorum' = quorum /\ job.reached = NoBlock
              \/ quorum'.tip = job.reached /\ job.reached # NoBlock
<1> DEFINE b == job.reached
           told == WithTip(quorum, b, FALSE, FALSE)
           agreed == {p \in {job.observer} : Confirmable(told, p, b)}
<1>0. /\ job # Nothing /\ job.kind = "snapshot" /\ UNCHANGED beaten /\ {} \in SUBSET Peer
  BY Zenon DEF SnapshotDone
<1>1. {job.observer} \in SUBSET Peer /\ agreed \in SUBSET Peer
  BY <1>0, JobFields, Zenon
<1>2. CASE b = NoBlock
  <2>1. UNCHANGED <<quorum, published, said, age>>
    BY <1>2, Zenon DEF SnapshotDone
  <2> QED
    BY <1>0, <1>2, <2>1, Stays, Zenon DEF published
<1>3. CASE b # NoBlock
  <2>1. b \in Block /\ FALSE \in BOOLEAN
    BY <1>0, <1>3, JobFields, Zenon
  <2>2. /\ told.tip = b
        /\ ConfirmedBy(told, agreed, b).tip = b
        /\ Publish(ConfirmedBy(told, agreed, b)) /\ Note(agreed, b) => Move(agreed)
    <3>1. /\ told = WithTip(quorum, b, FALSE, FALSE)
          /\ \A p \in agreed : Confirmable(told, p, b)
      BY Zenon
    <3> HIDE DEF b, told, agreed
    <3> QED
      BY <1>0, <1>1, <2>1, <3>1, ToldMoves, Zenon
  <2>3. Publish(ConfirmedBy(told, agreed, b)) /\ Note(agreed, b)
    BY <1>3, Zenon DEF SnapshotDone
  <2> HIDE DEF told, agreed, b
  <2>4. quorum'.tip = b
    BY <2>2, <2>3, Zenon DEF Publish
  <2>5. \E P \in SUBSET Peer : Move(P)
    BY <1>1, <2>2, <2>3, Zenon
  <2> QED
    BY <1>3, <2>4, <2>5, Zenon DEF b
<1> QED
  BY <1>2, <1>3, Zenon

\* The heartbeat and the hook of a local commit bring the quorum to the tip.
LEMMA LoopMoves ==
    ASSUME TypeOK, WorkOK, CanonicalTipChanged \/ Heartbeat
    PROVE  Move({}) /\ quorum'.tip = tip
<1> DEFINE r == Reconciled(quorum, tip)
<1>0. quorum \in QuorumType /\ tip \in Block /\ beaten' \in BOOLEAN /\ UNCHANGED <<said, age>>
  BY Zenon DEF TypeOK, WorkOK, CanonicalTipChanged, Heartbeat
<1>1. r \in QuorumType /\ r.tip = tip /\ r.connected = quorum.connected /\ Carried(quorum, r, {})
  BY <1>0, ReconciledCarries
<1> HIDE DEF r
<1>2. CASE CanonicalTipChanged
  <2>1. CASE quorum.tip = tip
    BY <1>2, <2>1, Stays, Zenon DEF CanonicalTipChanged, published
  <2>2. CASE quorum.tip # tip
    <3>1. Publish(r)
      BY <1>2, <2>2, Zenon DEF CanonicalTipChanged, r
    <3> QED
      BY <1>0, <1>1, <3>1, PublishesCarried, Zenon DEF Publish
  <2> QED
    BY <2>1, <2>2, Zenon
<1>3. CASE Heartbeat
  <2> DEFINE m == [r EXCEPT !.complete = synced, !.better = Unresolved']
             n == Expired(m)
  <2>1. synced \in BOOLEAN /\ Unresolved' \in BOOLEAN
    BY Zenon DEF WorkOK, Unresolved
  <2>2. m \in QuorumType /\ m.tip = r.tip /\ m.connected = r.connected /\ m.frontier = r.frontier
    BY <1>1, <2>1, SyncStateLeases, Zenon
  <2> HIDE DEF m
  <2>3. /\ n \in QuorumType /\ n.tip = m.tip /\ n.connected = m.connected
        /\ \A x \in Peer : n.frontier[x] = m.frontier[x] \/ n.frontier[x] = NoFrontier
    BY <2>2, ExpiredLeases, Zenon
  <2>4. Publish(n)
    BY <1>3, Zenon DEF Heartbeat, m, r
  <2> HIDE DEF n
  <2>5. Carried(quorum, n, {})
    BY <1>1, <2>2, <2>3, CarriedLess, Zenon
  <2> QED
    BY <1>0, <1>1, <2>2, <2>3, <2>4, <2>5, PublishesCarried, Zenon DEF Publish
<1> QED
  BY <1>2, <1>3, Zenon

\* The other handlers of suffixes, snapshots and local blocks.
LEMMA WorkMoves ==
    ASSUME TypeOK, WorkOK,
           \/ \E b \in Block : AdmitSuffix(b) \/ JobCommits(b) \/ LocalCommit(b)
           \/ \E b \in Block, p \in Peer : StartInstall(b, p)
           \/ PlanSnapshot \/ RetireSnapshot \/ GraphFaults
           \/ RetirePlan \/ StartApply \/ JobFails
    PROVE  Move({}) /\ quorum'.tip = quorum.tip
<1>0. quorum \in QuorumType /\ beaten \in BOOLEAN /\ synced \in BOOLEAN /\ TRUE \in BOOLEAN
  BY Zenon DEF TypeOK, WorkOK
<1>1. ASSUME NEW b \in Block, AdmitSuffix(b)
      PROVE  Move({}) /\ quorum'.tip = quorum.tip
  <2> DEFINE n == [quorum EXCEPT !.complete = synced, !.better = TRUE]
  <2>0. UNCHANGED <<beaten, said, age>> /\ SetSyncState(quorum, synced, TRUE)
    BY <1>1, Zenon DEF AdmitSuffix
  <2>1. CASE quorum.complete = synced /\ quorum.better = TRUE
    BY <2>0, <2>1, Stays, Zenon DEF SetSyncState, published
  <2>2. CASE ~(quorum.complete = synced /\ quorum.better = TRUE)
    <3>1. Publish(n)
      BY <2>0, <2>2, Zenon DEF SetSyncState
    <3>2. /\ n \in QuorumType /\ n.tip = quorum.tip /\ n.connected = quorum.connected
          /\ n.frontier = quorum.frontier
      BY <1>0, SyncStateLeases, Zenon
    <3> HIDE DEF n
    <3>3. Carried(quorum, n, {})
      BY <3>2, CarriedSame, CarriedLess, Zenon
    <3> QED
      BY <1>0, <2>0, <3>1, <3>2, <3>3, PublishesCarried, Zenon DEF Publish
  <2> QED
    BY <2>1, <2>2, Zenon
<1>2. CASE RetirePlan
  <2>1. Publish(quorum) /\ UNCHANGED <<beaten, said, age>>
    BY <1>2, Zenon DEF RetirePlan
  <2> QED
    BY <1>0, <2>1, CarriedSame, PublishesCarried, Zenon DEF Publish
<1>3. CASE UNCHANGED <<quorum, proofReady, nonceReady, beaten, said, age>>
  BY <1>3, Stays, Zenon
<1>4. ASSUME NEW b \in Block, JobCommits(b) \/ LocalCommit(b) \/ \E p \in Peer : StartInstall(b, p)
      PROVE  UNCHANGED <<quorum, proofReady, nonceReady, beaten, said, age>>
  BY <1>4, Zenon DEF JobCommits, LocalCommit, StartInstall, published
<1>5. ASSUME StartApply \/ JobFails
      PROVE  UNCHANGED <<quorum, proofReady, nonceReady, beaten, said, age>>
  BY <1>5, Zenon DEF StartApply, JobFails, published
<1>6. ASSUME PlanSnapshot \/ RetireSnapshot \/ GraphFaults
      PROVE  UNCHANGED <<quorum, proofReady, nonceReady, beaten, said, age>>
  BY <1>6, Zenon DEF PlanSnapshot, RetireSnapshot, GraphFaults, published
<1> QED
  BY <1>1, <1>2, <1>3, <1>4, <1>5, <1>6, Zenon


\* No handler of a peer changes the tip the quorum knows.
LEMMA PeerTip ==
    ASSUME TypeOK, NEW p \in Peer, PeerStep(p)
    PROVE  quorum'.tip = quorum.tip
<1>0. quorum \in QuorumType /\ tip \in Block
  BY Zenon DEF TypeOK
<1>1. CASE Connect(p)
  <2> DEFINE n == [quorum EXCEPT !.connected = quorum.connected \cup {p}]
  <2>1. quorum' = n /\ n.tip = quorum.tip
    BY <1>0, <1>1, Zenon DEF Connect, QuorumType
  <2> QED
    BY <2>1, Zenon
<1>2. CASE Disconnect(p)
  BY <1>0, <1>2, DepartedLeases, Zenon DEF Disconnect, Publish
<1>3. ASSUME Confirmable(quorum, p, tip), Publish(Confirmed(quorum, p, tip))
      PROVE  quorum'.tip = quorum.tip
  BY <1>0, <1>3, ConfirmedLeases, Zenon DEF Publish, Confirmable
<1>4. CASE ObserveCompatible(p)
  BY <1>0, <1>4, RenewedCarries, Zenon DEF ObserveCompatible, Publish
<1>5. CASE RejectIncompatible(p)
  BY <1>0, <1>5, RenewedCarries, Zenon DEF RejectIncompatible, Publish
<1> QED
  BY <1>1, <1>2, <1>3, <1>4, <1>5, Zenon DEF PeerStep, AnnounceTip, ConfirmHeaders

\* What time does to a lease.
LEMMA AgedLease ==
    ASSUME NEW lease \in FrontierType, NEW n, n = Aged(lease, NoFrontier)
    PROVE  /\ n \in FrontierType
           /\ \/ n = NoFrontier
              \/ lease.left > 1 /\ n.left = lease.left - 1 /\ n.parent = lease.parent
<1>1. TTL \in Nat /\ lease.left \in 0 .. TTL /\ lease.parent \in Block \cup {NoBlock}
  BY Leases DEF FrontierType
<1>2. CASE lease.left > 1
  <2>1. n = [lease EXCEPT !.left = lease.left - 1] /\ lease.left - 1 \in 0 .. TTL
    BY <1>1, <1>2 DEF Aged
  <2> QED
    BY <1>1, <1>2, <2>1, Zenon DEF FrontierType
<1>3. CASE ~(lease.left > 1)
  BY <1>3, Leases, Zenon DEF Aged
<1> QED
  BY <1>2, <1>3, Zenon

LEMMA TickTyped ==
    ASSUME TypeOK, Tick
    PROVE  /\ quorum' \in QuorumType /\ quorum'.tip = quorum.tip
           /\ quorum'.connected = quorum.connected
           /\ \A p \in Peer : quorum'.frontier[p] = Aged(quorum.frontier[p], NoFrontier)
           /\ said' \in [Peer -> Block \cup {NoBlock}] /\ age' \in [Peer -> 0 .. TTL + 1]
           /\ \A p \in Peer : age'[p] = IF age[p] > TTL THEN age[p] ELSE age[p] + 1
<1> DEFINE h == [p \in Peer |-> Aged(quorum.health[p], NoLease)]
           f == [p \in Peer |-> Aged(quorum.frontier[p], NoFrontier)]
<1>0. /\ quorum \in QuorumType /\ said \in [Peer -> Block \cup {NoBlock}]
      /\ age \in [Peer -> 0 .. TTL + 1] /\ TTL \in Nat
  BY Leases, Zenon DEF TypeOK
<1>1. quorum' = [quorum EXCEPT !.health = h, !.frontier = f]
  BY Zenon DEF Tick
<1>2. h \in [Peer -> LeaseType]
  <2> SUFFICES ASSUME NEW p \in Peer PROVE Aged(quorum.health[p], NoLease) \in LeaseType
    BY Zenon
  <2>1. quorum.health[p] \in LeaseType /\ NoLease \in LeaseType
    BY <1>0, Leases, QuorumFields, Zenon
  <2> QED
    BY <1>0, <2>1 DEF Aged, LeaseType
<1>3. f \in [Peer -> FrontierType]
  <2> SUFFICES ASSUME NEW p \in Peer PROVE Aged(quorum.frontier[p], NoFrontier) \in FrontierType
    BY Zenon
  <2>1. quorum.frontier[p] \in FrontierType
    BY <1>0, QuorumFields, Zenon
  <2> QED
    BY <2>1, AgedLease, Zenon
<1>4. \A p \in Peer : f[p] = Aged(quorum.frontier[p], NoFrontier)
  BY Zenon
<1> HIDE DEF h, f
<1>5. /\ quorum' \in QuorumType /\ quorum'.tip = quorum.tip
      /\ quorum'.connected = quorum.connected /\ quorum'.frontier = f
  BY <1>0, <1>1, <1>2, <1>3, Zenon DEF QuorumType
<1>6. said' \in [Peer -> Block \cup {NoBlock}]
  BY <1>0, Zenon DEF Tick
<1>7. age' = [p \in Peer |-> IF age[p] > TTL THEN age[p] ELSE age[p] + 1]
  BY Zenon DEF Tick
<1>8. age' \in [Peer -> 0 .. TTL + 1]
  BY <1>0, <1>7
<1> QED
  BY <1>4, <1>5, <1>6, <1>7, <1>8, Zenon

-----------------------------------------------------------------------------
(* The committed tip and the work on it. *)

\* A handler that leaves the chain and the work on it alone.
LEMMA SameWork ==
    ASSUME WorkOK, UNCHANGED <<tip, plan, job>>, synced' \in BOOLEAN, beaten' \in BOOLEAN
    PROVE  WorkOK'
BY Zenon DEF WorkOK

\* A handler that ends the job, or works on the plan alone.
LEMMA NoJob ==
    ASSUME WorkOK, job' = Nothing, plan' \in SuffixPlan \cup {Nothing}, UNCHANGED <<synced, beaten>>
    PROVE  WorkOK'
BY Zenon DEF WorkOK

LEMMA PeerWork ==
    ASSUME WorkOK, NEW p \in Peer, PeerStep(p)
    PROVE  UNCHANGED <<tip, plan, job>> /\ synced' \in BOOLEAN /\ beaten' \in BOOLEAN
BY Zenon DEF WorkOK, PeerStep, Connect, Disconnect, AnnounceTip, ConfirmHeaders,
             ObserveCompatible, RejectIncompatible, chainVars, workVars

LEMMA AdmitWork ==
    ASSUME TypeOK, WorkOK, NEW b \in Block, AdmitSuffix(b)
    PROVE  WorkOK' /\ UNCHANGED <<tip, job>>
<1>1. job = Nothing /\ job' = Nothing /\ UNCHANGED <<tip, job, synced, beaten>>
  BY Zenon DEF AdmitSuffix, chainVars
<1>2. ForkPoint(tip, b) \in Base
  BY DEF Base, TypeOK
<1>3. (IF Extends(b, tip) THEN "live" ELSE "reorg") \in {"live", "reorg"}
  BY Zenon
<1>4. plan' \in SuffixPlan
  BY <1>2, <1>3, Zenon DEF AdmitSuffix, SuffixPlan
<1> QED
  BY <1>1, <1>4, NoJob, Zenon

LEMMA StartWork ==
    ASSUME WorkOK, StartApply \/ \E b \in Block, p \in Peer : StartInstall(b, p)
    PROVE  WorkOK' /\ UNCHANGED tip /\ job = Nothing
<1>0. NoBlock \in Block \cup {NoBlock} /\ "running" \in Stage /\ "snapshot" \in {"snapshot"}
  BY Zenon DEF Stage
<1>1. CASE StartApply
  <2>1. /\ plan # Nothing /\ plan' = Nothing /\ job = Nothing /\ UNCHANGED <<tip, synced, beaten>>
        /\ job' = [kind |-> plan.kind, base |-> plan.base, target |-> plan.target,
                   reached |-> NoBlock, stage |-> "running"]
    BY <1>1, Zenon DEF StartApply, chainVars
  <2>2. plan.kind \in {"live", "reorg"} /\ plan.base \in Base /\ plan.target \in Block
    BY <2>1, Zenon DEF WorkOK, SuffixPlan
  <2>3. job' \in SuffixJob /\ job'.reached = NoBlock
    BY <1>0, <2>1, <2>2, Zenon DEF SuffixJob
  <2> QED
    BY <2>1, <2>3, Zenon DEF WorkOK
<1>2. ASSUME NEW b \in Block, NEW p \in Peer, StartInstall(b, p)
      PROVE  WorkOK' /\ UNCHANGED tip /\ job = Nothing
  <2>1. /\ job = Nothing /\ UNCHANGED <<tip, plan, synced, beaten>>
        /\ job' = [kind |-> "snapshot", target |-> b, observer |-> p,
                   reached |-> NoBlock, stage |-> "running"]
    BY <1>2, Zenon DEF StartInstall, chainVars
  <2>2. job' \in SnapshotJob /\ job'.reached = NoBlock
    BY <1>0, <2>1, Zenon DEF SnapshotJob
  <2> QED
    BY <2>1, <2>2, Zenon DEF WorkOK
<1> QED
  BY <1>1, <1>2, Zenon

\* What a job reports is its job with the stage and the block it reached.
LEMMA JobReport ==
    ASSUME WorkOK, job # Nothing, NEW r \in Block \cup {NoBlock},
           NEW j, j = [job EXCEPT !.reached = r, !.stage = "done"]
    PROVE  /\ j \in SuffixJob \cup SnapshotJob
           /\ j.kind = job.kind /\ j.reached = r /\ j.stage = "done"
<1>1. CASE job \in SuffixJob
  BY <1>1, Zenon DEF SuffixJob, Stage
<1>2. CASE job \in SnapshotJob
  BY <1>2, Zenon DEF SnapshotJob, Stage
<1> QED
  BY <1>1, <1>2, Zenon DEF WorkOK


LEMMA CommitWork ==
    ASSUME TypeOK, WorkOK, ViewOnChain, NEW b \in Block, JobCommits(b)
    PROVE  WorkOK' /\ ViewOnChain' /\ tip' \in Block
<1>1. /\ job # Nothing /\ tip' = b /\ UNCHANGED <<plan, quorum, synced, beaten>>
      /\ job' = [job EXCEPT !.reached = b, !.stage = "done"] /\ Reachable(b)
      /\ job.stage = "running"
  BY Zenon DEF JobCommits
<1>2. /\ job' \in SuffixJob \cup SnapshotJob
      /\ job'.kind = job.kind /\ job'.reached = b /\ job'.stage = "done"
  <2>1. /\ b \in Block \cup {NoBlock} /\ job # Nothing
        /\ job' = [job EXCEPT !.reached = b, !.stage = "done"]
    BY <1>1, Zenon
  <2> QED
    BY <2>1, JobReport, Zenon
<1>3. Extends(tip', job'.reached) /\ "done" # "running"
  BY <1>1, <1>2, ExtendsRefl, Zenon
<1>4. WorkOK'
  BY <1>1, <1>2, <1>3, Zenon DEF WorkOK
<1>6. job' # Nothing
  BY <1>2 DEF Nothing, SuffixJob, SnapshotJob
<1>7. b # NoBlock /\ quorum.tip \in Block /\ tip \in Block
  BY TreeFacts, QuorumFields, Zenon DEF TypeOK
<1>8. CASE job.kind = "live"
  <2>1. Extends(b, tip)
    BY <1>1, <1>8, Zenon DEF Reachable
  <2>2. Extends(tip, quorum.tip)
    BY <1>8, Zenon DEF ViewOnChain, Replaced
  <2>3. Extends(b, quorum.tip)
    BY <1>7, <2>1, <2>2, ExtendsTrans, Zenon
  <2> QED
    BY <1>1, <1>4, <2>3, Zenon DEF ViewOnChain
<1>9. CASE job.kind # "live"
  BY <1>1, <1>2, <1>4, <1>6, <1>7, <1>9, Zenon DEF ViewOnChain, Replaced
<1> QED
  BY <1>8, <1>9, Zenon

LEMMA FailWork ==
    ASSUME TypeOK, WorkOK, ViewOnChain, JobFails
    PROVE  WorkOK' /\ ViewOnChain' /\ tip' \in Block
<1>1. /\ job # Nothing /\ UNCHANGED <<tip, plan, quorum, synced, beaten>>
      /\ job' = [job EXCEPT !.stage = "done"] /\ job.stage = "running"
  BY Zenon DEF JobFails, chainVars
<1>2. job.reached = NoBlock
  BY <1>1, Zenon DEF WorkOK
<1>3. job' = [job EXCEPT !.reached = NoBlock, !.stage = "done"]
  <2>1. CASE job \in SuffixJob
    BY <1>1, <1>2, <2>1, Zenon DEF SuffixJob
  <2>2. CASE job \in SnapshotJob
    BY <1>1, <1>2, <2>2, Zenon DEF SnapshotJob
  <2> QED
    BY <1>1, <2>1, <2>2, Zenon DEF WorkOK
<1>4. /\ job' \in SuffixJob \cup SnapshotJob
      /\ job'.kind = job.kind /\ job'.reached = NoBlock /\ job'.stage = "done"
  BY <1>1, <1>3, JobReport, Zenon
<1>5. WorkOK'
  BY <1>1, <1>4, Zenon DEF WorkOK
<1> QED
  BY <1>1, <1>2, <1>4, <1>5, Zenon DEF ViewOnChain, Replaced, TypeOK

LEMMA LocalWork ==
    ASSUME TypeOK, WorkOK, ViewOnChain, NEW b \in Block, LocalCommit(b)
    PROVE  WorkOK' /\ ViewOnChain' /\ tip' \in Block
<1>1. /\ b # Genesis /\ Parent(b) = tip /\ tip' = b
      /\ UNCHANGED <<plan, job, quorum, synced, beaten>>
  BY Zenon DEF LocalCommit, workVars
<1>2. tip \in Block /\ quorum.tip \in Block
  BY QuorumFields, Zenon DEF TypeOK
<1>3. Extends(b, tip)
  BY <1>1, OnlyGenesisAtZero, ParentBelow, Zenon
<1>4. \A c \in Block : Extends(tip, c) => Extends(tip', c)
  BY <1>1, <1>2, <1>3, ExtendsTrans, Zenon
<1>5. job # Nothing /\ job.reached # NoBlock => Extends(tip', job.reached)
  BY <1>4, JobFields, Zenon DEF WorkOK
<1>6. WorkOK'
  BY <1>1, <1>5, Zenon DEF WorkOK
<1>7. ViewOnChain'
  BY <1>1, <1>2, <1>4, Zenon DEF ViewOnChain, Replaced
<1> QED
  BY <1>1, <1>6, <1>7, Zenon

\* The completions: the quorum learns the block that was reached, below the tip.
LEMMA DoneWork ==
    ASSUME TypeOK, WorkOK, ViewOnChain,
           \/ SnapshotDone
           \/ \E selected \in BOOLEAN, sources \in SUBSET Peer : SuffixDone(selected, sources)
    PROVE  WorkOK' /\ ViewOnChain' /\ tip' \in Block
<1>1. /\ job # Nothing /\ job' = Nothing /\ UNCHANGED <<tip, plan, synced, beaten>>
  BY Zenon DEF SnapshotDone, SuffixDone, chainVars
<1>2. WorkOK'
  BY <1>1, NoJob, Zenon DEF WorkOK
<1>3. \/ quorum' = quorum /\ job.reached = NoBlock
      \/ quorum'.tip = job.reached /\ job.reached # NoBlock
  BY SnapshotDoneMoves, SuffixDoneMoves, Zenon
<1>4. CASE quorum' = quorum /\ job.reached = NoBlock
  BY <1>1, <1>2, <1>4, Zenon DEF ViewOnChain, Replaced, TypeOK
<1>5. CASE quorum'.tip = job.reached /\ job.reached # NoBlock
  BY <1>1, <1>2, <1>5, Zenon DEF ViewOnChain, WorkOK, TypeOK
<1> QED
  BY <1>3, <1>4, <1>5, Zenon

\* Until its completion is handled, a job on another branch is the only reason
\* for the quorum to look elsewhere.
LEMMA ViewStep ==
    ASSUME TypeOK, WorkOK, ViewOnChain, Next
    PROVE  WorkOK' /\ ViewOnChain' /\ tip' \in Block
<1>0. tip \in Block /\ Extends(tip, tip)
  BY ExtendsRefl, Zenon DEF TypeOK
<1>1. ASSUME NEW p \in Peer, PeerStep(p)
      PROVE  WorkOK' /\ ViewOnChain' /\ tip' \in Block
  <2>1. quorum'.tip = quorum.tip
    BY <1>1, PeerTip, Zenon
  <2> QED
    BY <1>0, <1>1, <2>1, PeerWork, SameWork, Zenon DEF ViewOnChain, Replaced
<1>2. ASSUME NEW b \in Block, AdmitSuffix(b)
      PROVE  WorkOK' /\ ViewOnChain' /\ tip' \in Block
  <2>1. quorum'.tip = quorum.tip
    BY <1>2, WorkMoves, Zenon
  <2> QED
    BY <1>0, <1>2, <2>1, AdmitWork, Zenon DEF ViewOnChain, Replaced
<1>3. CASE StartApply \/ \E b \in Block, p \in Peer : StartInstall(b, p)
  <2>1. quorum'.tip = quorum.tip
    BY <1>3, WorkMoves, Zenon
  <2> QED
    BY <1>0, <1>3, <2>1, StartWork, Zenon DEF ViewOnChain, Replaced
<1>4. CASE RetirePlan
  <2>1. quorum'.tip = quorum.tip
    BY <1>4, WorkMoves, Zenon
  <2>2. UNCHANGED <<tip, job, synced, beaten>> /\ plan' = Nothing
    BY <1>4, Zenon DEF RetirePlan, chainVars
  <2> QED
    BY <1>0, <2>1, <2>2, Zenon DEF ViewOnChain, Replaced, WorkOK
<1>5. CASE CanonicalTipChanged \/ Heartbeat
  <2>1. quorum'.tip = tip
    BY <1>5, LoopMoves, Zenon
  <2>2. UNCHANGED <<tip, plan, job, synced>> /\ beaten' \in BOOLEAN
    BY <1>5, Zenon DEF CanonicalTipChanged, Heartbeat, ReconcileGraph, chainVars, workVars, WorkOK
  <2>3. synced' \in BOOLEAN
    BY <2>2, Zenon DEF WorkOK
  <2> QED
    BY <1>0, <2>1, <2>2, <2>3, SameWork, Zenon DEF ViewOnChain
<1>6. CASE Tick
  <2>1. UNCHANGED <<tip, plan, job, synced>> /\ beaten' \in BOOLEAN /\ synced' \in BOOLEAN
    BY <1>6, Zenon DEF Tick, chainVars, workVars, WorkOK
  <2>2. quorum'.tip = quorum.tip
    BY <1>6, TickTyped, Zenon
  <2> QED
    BY <1>0, <2>1, <2>2, SameWork, Zenon DEF ViewOnChain, Replaced
<1>7. CASE PlanSnapshot \/ RetireSnapshot \/ GraphFaults
  <2>1. UNCHANGED <<tip, plan, job, synced, beaten>>
    BY <1>7, Zenon DEF PlanSnapshot, RetireSnapshot, GraphFaults, chainVars
  <2>2. quorum'.tip = quorum.tip /\ synced' \in BOOLEAN /\ beaten' \in BOOLEAN
    BY <1>7, <2>1, WorkMoves, Zenon DEF WorkOK
  <2> QED
    BY <1>0, <2>1, <2>2, SameWork, Zenon DEF ViewOnChain, Replaced
<1> QED
  BY <1>1, <1>2, <1>3, <1>4, <1>5, <1>6, <1>7, CommitWork, FailWork, LocalWork, DoneWork,
     Zenon DEF Next

\* The other unresolved work is a fault of the graph, a snapshot plan, or both.
LEMMA HeldStep ==
    ASSUME held \subseteq {"fault", "snapshot"}, Next
    PROVE  held' \subseteq {"fault", "snapshot"}
<1>1. \/ held' \in {held, held \cup {"snapshot"}, held \cup {"fault"}}
      \/ held' \in {held \ {"snapshot"}, held \ {"fault"}}
  BY Zenon DEF Next, PeerStep, Connect, Disconnect, AnnounceTip, ConfirmHeaders,
     ObserveCompatible, RejectIncompatible, AdmitSuffix, JobCommits, LocalCommit, StartInstall,
     PlanSnapshot, RetireSnapshot, GraphFaults, RetirePlan, StartApply, JobFails, SuffixDone,
     SnapshotDone, CanonicalTipChanged, Heartbeat, ReconcileGraph, Tick, workVars
<1> QED
  BY <1>1, Zenon


-----------------------------------------------------------------------------
(* Time. *)

LEMMA TickFresh ==
    ASSUME TypeOK, Fresh(quorum, age), Tick
    PROVE  Fresh(quorum', age')
<1> SUFFICES ASSUME NEW p \in Peer, quorum'.frontier[p] # NoFrontier
             PROVE  /\ p \in quorum'.connected
                    /\ quorum'.frontier[p].left \in 1 .. TTL
                    /\ age'[p] + quorum'.frontier[p].left <= TTL
  BY Zenon DEF Fresh
<1> DEFINE l == quorum.frontier[p].left
           a == age[p]
<1>1. TTL \in Nat /\ a \in 0 .. TTL + 1 /\ quorum.frontier[p] \in FrontierType
  BY Leases, QuorumFields, Zenon DEF TypeOK
<1>2. /\ quorum'.connected = quorum.connected
      /\ quorum'.frontier[p] = Aged(quorum.frontier[p], NoFrontier)
      /\ age'[p] = IF a > TTL THEN a ELSE a + 1
  BY TickTyped, Zenon
<1>3. l > 1 /\ quorum'.frontier[p].left = l - 1
  BY <1>1, <1>2, AgedLease, Zenon
<1>4. quorum.frontier[p] # NoFrontier
  BY <1>3 DEF NoFrontier
<1>5. p \in quorum.connected /\ l \in 1 .. TTL /\ a + l <= TTL
  BY <1>4, Zenon DEF Fresh
<1> HIDE DEF l, a
<1>6. l - 1 \in 1 .. TTL /\ ~(a > TTL) /\ (a + 1) + (l - 1) <= TTL
  BY <1>1, <1>3, <1>5
<1> QED
  BY <1>2, <1>3, <1>5, <1>6, Zenon

\* The miner's permission is one heartbeat old at most.
LEMMA TickNonce ==
    ASSUME TypeOK, NonceInv, Tick
    PROVE  NonceInv'
<1> DEFINE Then == {p \in quorum.connected : age[p] <= TTL - 1}
           Now == {p \in quorum'.connected : age'[p] <= TTL}
<1>0. /\ TTL \in Nat /\ age \in [Peer -> 0 .. TTL + 1]
      /\ quorum \in QuorumType
  BY Leases, Zenon DEF TypeOK
<1>1. beaten /\ beaten' = FALSE /\ nonceReady' = nonceReady
  BY Zenon DEF Tick, published
<1>2. Now \in SUBSET Peer /\ quorum.connected \in SUBSET Peer
  BY <1>0, QuorumFields, TickTyped, Zenon
<1>3. Then \in SUBSET Now
  <2> SUFFICES ASSUME NEW p \in Then PROVE p \in Now
    BY Zenon
  <2>1. p \in Peer /\ p \in quorum.connected /\ age[p] \in 0 .. TTL + 1 /\ age[p] <= TTL - 1
    BY <1>0, <1>2, Zenon
  <2>2. age'[p] = IF age[p] > TTL THEN age[p] ELSE age[p] + 1
    BY <2>1, TickTyped, Zenon
  <2>3. age'[p] <= TTL
    BY <1>0, <2>1, <2>2
  <2> QED
    BY <2>1, <2>3, TickTyped, Zenon
<1>4. nonceReady => Enough(Then)
  BY <1>1, Zenon DEF NonceInv
<1> HIDE DEF Then
<1>5. nonceReady' => Enough(Now)
  BY <1>1, <1>2, <1>3, <1>4, EnoughMore, Zenon
<1> QED
  BY <1>1, <1>5, Zenon DEF NonceInv

LEMMA TickLeases ==
    ASSUME TypeOK, Tick
    PROVE  LeaseMove
<1> SUFFICES ASSUME NEW p \in Peer, quorum'.frontier[p].parent = quorum'.tip
             PROVE  /\ quorum.frontier[p].parent = quorum.tip
                    /\ OnOneChain(quorum.tip, quorum'.tip)
  BY Zenon DEF LeaseMove
<1>1. quorum'.tip = quorum.tip /\ quorum.tip \in Block /\ quorum.frontier[p] \in FrontierType
      /\ quorum'.frontier[p] = Aged(quorum.frontier[p], NoFrontier)
  BY TickTyped, QuorumFields, Zenon DEF TypeOK
<1>2. NoFrontier.parent # quorum.tip
  BY <1>1, TreeFacts DEF NoFrontier
<1>3. quorum'.frontier[p].parent = quorum.frontier[p].parent
  BY <1>1, <1>2, AgedLease, Zenon
<1> QED
  BY <1>1, <1>3, ExtendsRefl, Zenon DEF OnOneChain

-----------------------------------------------------------------------------
(* The theorems. *)

\* Every step but that of time is a handler's.
LEMMA HandlerMoves ==
    ASSUME TypeOK, WorkOK, ViewOnChain, Next, ~Tick
    PROVE  \E P \in SUBSET Peer : Move(P)
<1>1. {} \in SUBSET Peer
  BY Zenon
<1> QED
  BY <1>1, PeerMoves, WorkMoves, SuffixDoneMoves, SnapshotDoneMoves, LoopMoves, Zenon DEF Next

LEMMA IInvStep == IInv /\ [Next]_vars => IInv'
<1> SUFFICES ASSUME IInv, [Next]_vars PROVE IInv'
  BY Zenon
<1>0. /\ TypeOK /\ WorkOK /\ ViewOnChain /\ Fresh(quorum, age) /\ NonceInv
      /\ beaten \in BOOLEAN
  BY Zenon DEF IInv, WorkOK
<1>1. CASE Next
  <2>1. /\ WorkOK' /\ ViewOnChain' /\ tip' \in Block
        /\ held' \subseteq {"fault", "snapshot"}
    BY <1>0, <1>1, ViewStep, HeldStep, Zenon DEF TypeOK
  <2>2. CASE Tick
    <3>1. Fresh(quorum', age') /\ NonceInv'
      BY <1>0, <2>2, TickFresh, TickNonce, Zenon
    <3>2. UNCHANGED <<proofReady, nonceReady>>
      BY <2>2, Zenon DEF Tick, published
    <3>3. TypeOK'
      BY <1>0, <2>1, <2>2, <3>2, TickTyped, Zenon DEF TypeOK
    <3> QED
      BY <2>1, <3>1, <3>3, Zenon DEF IInv, Fresh
  <2>3. CASE ~Tick
    <3>1. PICK P \in SUBSET Peer : Move(P)
      BY <1>0, <1>1, <2>3, HandlerMoves, Zenon
    <3>2. Fresh(quorum', age') /\ NonceInv'
      BY <1>0, <3>1, MoveFresh, MoveNonce, Zenon
    <3>3. TypeOK'
      BY <2>1, <3>1, Zenon DEF TypeOK, Move
    <3> QED
      BY <2>1, <3>2, <3>3, Zenon DEF IInv, Fresh
  <2> QED
    BY <2>2, <2>3, Zenon
<1>2. CASE UNCHANGED vars
  BY <1>0, <1>2, Zenon DEF IInv, vars, TypeOK, WorkOK, ViewOnChain, Replaced, Fresh, NonceInv
<1> QED
  BY <1>1, <1>2, Zenon

LEMMA IInvInit == Init => IInv
<1> SUFFICES ASSUME Init PROVE IInv
  BY Zenon
<1>1. /\ tip = Genesis /\ Genesis \in Block /\ plan = Nothing /\ job = Nothing
      /\ synced = FALSE /\ beaten = FALSE /\ proofReady = FALSE /\ nonceReady = FALSE
      /\ held \subseteq {"fault", "snapshot"}
  BY TreeFacts, Zenon DEF Init
<1>2. quorum \in QuorumType /\ quorum.tip = Genesis
      /\ \A p \in Peer : quorum.frontier[p] = NoFrontier
  <2>1. /\ [p \in Peer |-> NoLease] \in [Peer -> LeaseType]
        /\ [p \in Peer |-> NoFrontier] \in [Peer -> FrontierType]
        /\ {} \in SUBSET Peer /\ FALSE \in BOOLEAN
    BY Leases, Zenon
  <2> QED
    BY <1>1, <2>1, Zenon DEF Init, QuorumType
<1>3. said \in [Peer -> Block \cup {NoBlock}]
  BY Zenon DEF Init
<1>4. age \in [Peer -> 0 .. TTL + 1]
  <2>1. TTL + 1 \in 0 .. TTL + 1
    BY Leases
  <2> QED
    BY <2>1, Zenon DEF Init
<1>5. TypeOK
  BY <1>1, <1>2, <1>3, <1>4, Zenon DEF TypeOK
<1>6. WorkOK
  BY <1>1, Zenon DEF WorkOK
<1>7. ViewOnChain
  BY <1>1, <1>2, ExtendsRefl, Zenon DEF ViewOnChain
<1> QED
  BY <1>1, <1>2, <1>5, <1>6, <1>7, Zenon DEF IInv, Fresh, NonceInv

LEMMA IInvBacked == IInv => MiningBacked
<1> SUFFICES ASSUME IInv PROVE MiningBacked
  BY Zenon
<1>0. TTL \in Nat /\ quorum \in QuorumType /\ age \in [Peer -> 0 .. TTL + 1]
  BY Leases, Zenon DEF IInv, TypeOK
<1>1. LeaseFresh
  <2> SUFFICES ASSUME NEW p \in Peer, quorum.frontier[p].left > 0
               PROVE  p \in quorum.connected /\ age[p] + quorum.frontier[p].left <= TTL
    BY Zenon DEF LeaseFresh
  <2>1. quorum.frontier[p] # NoFrontier
    BY DEF NoFrontier
  <2> QED
    BY <2>1, Zenon DEF IInv, Fresh
<1>2. NonceBacked
  <2> DEFINE k == IF beaten THEN TTL - 1 ELSE TTL
             A == {p \in quorum.connected : age[p] <= k}
             B == {p \in quorum.connected : age[p] <= TTL}
  <2>1. B \in SUBSET Peer /\ quorum.connected \in SUBSET Peer
    BY <1>0, QuorumFields, Zenon
  <2>2. A \in SUBSET B
    <3> SUFFICES ASSUME NEW p \in A PROVE age[p] <= TTL
      BY Zenon
    <3>1. p \in Peer /\ age[p] <= k
      BY <2>1, Zenon
    <3>2. age[p] \in 0 .. TTL + 1
      BY <1>0, <3>1, Zenon
    <3> QED
      BY <1>0, <3>1, <3>2
  <2>3. nonceReady => Enough(A)
    BY Zenon DEF IInv, NonceInv
  <2> HIDE DEF A
  <2> QED
    BY <2>1, <2>2, <2>3, EnoughMore, Zenon DEF NonceBacked
<1> QED
  BY <1>1, <1>2, Zenon DEF IInv, MiningBacked

\* In every reachable state, however completions, hooks, heartbeats, peers and
\* time interleave: the quorum looks at the chain of the tip, every running lease
\* ends within the TTL of what its peer confirmed, and the miner searches only
\* with enough such peers connected (MiningReadiness, publish_at).
THEOREM MiningAlwaysBacked == Spec => []MiningBacked
<1>1. IInv => MiningBacked
  BY IInvBacked
<1> QED
  BY <1>1, IInvInit, IInvStep, PTL DEF Spec

\* No step carries a lease to another branch: a peer has a lease for the new tip
\* because it confirmed that tip, or had one for a tip on the same chain
\* (set_committed_tip, reconcile_canonical_tip).
THEOREM LeasesStayOnChain == Spec => LeaseMovesOnChain
<1>1. IInv /\ Next => LeaseMove
  <2> SUFFICES ASSUME IInv, Next PROVE LeaseMove
    BY Zenon
  <2>1. TypeOK /\ WorkOK /\ ViewOnChain
    BY Zenon DEF IInv
  <2>2. CASE Tick
    BY <2>1, <2>2, TickLeases, Zenon
  <2>3. CASE ~Tick
    BY <2>1, <2>3, HandlerMoves, MoveLeases, Zenon
  <2> QED
    BY <2>2, <2>3, Zenon
<1>2. IInv /\ [Next]_vars => [LeaseMove]_vars
  BY <1>1, Zenon
<1> QED
  BY <1>2, IInvInit, IInvStep, PTL DEF Spec, LeaseMovesOnChain

=============================================================================
