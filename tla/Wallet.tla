------------------------------- MODULE Wallet -------------------------------
(***************************************************************************)
(* The node's wallet: the cache of the active address, the reservations of *)
(* the coins its payments spend, and the record of what it sent.           *)
(*                                                                         *)
(* A send holds the wallet operation gate from the reload of the cache to  *)
(* the answer of the memory pool; between the two it selects coins, proves *)
(* without a lock, reserves and submits.  Dropping the call rolls the      *)
(* reservation back.  A payment for a client object is built without the   *)
(* gate, is not submitted, and is released by its age.  Every change of    *)
(* the chain holds the gate.  The pool announces the transactions it drops *)
(* and a relay task releases their coins later.                            *)
(*                                                                         *)
(* Amounts are left out: any set of free coins may be what an amount       *)
(* selects.  A payment has one output, to another owner or, for a          *)
(* consolidation, back to the wallet.  A coin is named by what minted it.  *)
(* The pool is the part of module Mempool the wallet depends on.           *)
(***************************************************************************)
EXTENDS Naturals, FiniteSets, Sequences, Functions

CONSTANTS
    Slot,          \* slots of the chain state
    Send,          \* payments submitted to the pool
    Consolidation, \* those of them that pay the wallet itself
    Client,        \* payments that travel with a client object
    NoPayment,
    Setup          \* the situations looked at, see SetupType

Payment == Send \union Client

\* What holds a slot besides the consolidations of the wallet.
Minters == {"empty", "genesis", "reward", "foreign"}

SetupType ==
    [coins : SUBSET Slot,       \* the slots the wallet owns at first
     others : SUBSET Slot,      \* slots in use by other owners throughout
     payments : SUBSET Payment, \* the payments that are made
     window : Nat,              \* blocks an epoch anchor is accepted for, 2 * TX_EPOCH_BLOCKS
     attempts : Nat,            \* attempts of one send, 3
     gossip : BOOLEAN,          \* whether peers send a dropped payment back
     rewards : SUBSET Nat,      \* bound: at other heights a reward goes outside Slot
     height : Nat, reorgs : Nat, jumps : Nat, restarts : Nat, \* bounds
     saves : Nat, reads : Nat,  \* bounds: writes and reads that fail
     lags : Nat]                \* bound: times the relay task falls behind

ASSUME WalletConstants ==
    /\ Consolidation \subseteq Send
    /\ Send \intersect Client = {} /\ NoPayment \notin Payment
    /\ Minters \intersect Payment = {}
    /\ \A s \in Setup : {s} \subseteq SetupType

VARIABLES
    setup,      \* the situation, chosen once
    chain,      \* blocks with the image of the state after each
    pool,       \* the memory pool
    events,     \* TxEvicted on their way to the relay task
    lost,       \* payments whose TxEvicted the relay task never saw
    issued,     \* payments other nodes may hold
    body,       \* what each payment spends and mints, once it is built
    utxos,      \* the cache: slot -> coin
    loaded,     \* whether active_snapshot is set
    pendingIn, pendingOut, \* slots reserved for payments
    tracked,    \* payments whose slots the wallet knows how to release
    paidAt,     \* pending_client_payments: payment -> built_at
    history,    \* the record of each payment: none, pending or mined
    disk,       \* the record as it was last saved
    op,         \* the send that holds the gate
    build,      \* the client payment being built
    used        \* how often each bounded event happened

chainVars == <<chain, issued>>
poolVars == <<pool, events, lost>>
cacheVars == <<utxos, loaded>>
slotVars == <<pendingIn, pendingOut>>
bookVars == <<tracked, history, disk>>
walletVars == <<cacheVars, slotVars, bookVars, paidAt>>
callVars == <<op, build, body>>
vars == <<setup, chainVars, poolVars, walletVars, callVars, used>>

Last(s) == s[Len(s)]

\* f, and g where f says nothing.
Over(f, g) == [x \in DOMAIN f \union DOMAIN g |-> IF x \in DOMAIN f THEN f[x] ELSE g[x]]

Content(by, h) == [by |-> by, at |-> h]
Empty == Content("empty", 0)
Owned(c) == c.by \in {"genesis", "reward"} \union Consolidation
NoBody == [ins |-> <<>>, out |-> NoPayment, at |-> 0]
Idle == [step |-> "idle", tx |-> NoPayment, tries |-> 0]

Image == Last(chain).image
Height == Len(chain) - 1

\* Wrong: the chain changes while a send proves.
Ungated == op.step # "reserved"

\* Every change of the chain and every gated call first takes the gate.
GateFree == op.step = "idle"

\* get_verified_utxos_by_owner: what the owner index holds at a tip.
OwnedCoins(image) == RestrictValues(image, Owned)

InSlots(p) == DOMAIN body[p].ins
InSlotsOf(txs) == UNION {InSlots(p) : p \in txs}
OutSlotsOf(txs) == {body[p].out : p \in txs}

\* A block of height h over image may include p.
Includable(p, image, h) ==
    /\ body[p] # NoBody
    /\ \A s \in InSlots(p) : image[s] = body[p].ins[s]
    /\ image[body[p].out] = Empty
    /\ h <= body[p].at + setup.window

SlotsOf(p) == InSlots(p) \union {body[p].out}
Disjoint(txs) == \A p, q \in txs : p # q => SlotsOf(p) \intersect SlotsOf(q) = {}

\* The contents that the pages of a block mint at height h.
Mints(txs, rewards, h) ==
    LET paid == [s \in OutSlotsOf(txs) |->
                    LET p == CHOOSE p \in txs : body[p].out = s
                    IN  Content(IF p \in Consolidation THEN p ELSE "foreign", h)]
    IN  Over(paid, rewards)

\* The blocks other nodes or the miners of this one may append over image:
\* issued payments and at most one reward, the wallet's or somebody else's.
BlocksOver(image, h) ==
    LET fits == {p \in issued : Includable(p, image, h)}
        free == {s \in Slot : h \in setup.rewards /\ image[s] = Empty}
        rewards == {<<>>} \union
            UNION {[{s} -> {Content("reward", h), Content("foreign", h)}] : s \in free}
    IN  {b \in [txs : {t \in SUBSET fits : Disjoint(t)}, rewards : rewards] :
            DOMAIN b.rewards \intersect OutSlotsOf(b.txs) = {}}

Appended(blocks, b) ==
    LET old == Last(blocks).image
        gone == [s \in InSlotsOf(b.txs) |-> Empty]
        new == Mints(b.txs, b.rewards, Len(blocks))
    IN  Append(blocks, [txs |-> b.txs, image |-> Over(Over(new, gone), old)])

OnChain(blocks) == UNION {blocks[i].txs : i \in DOMAIN blocks}
-----------------------------------------------------------------------------
(* The pool.                                                               *)

ReservedIn == InSlotsOf(pool)
ReservedOut == OutSlotsOf(pool)

\* AsyncMempool::on_new_block.
PoolFollows(confirmed, blocks) ==
    LET left == pool \ confirmed
        dropped == {p \in left : ~Includable(p, Last(blocks).image, Len(blocks))}
    IN  /\ pool' = left \ dropped
        /\ events' = events \union dropped
        /\ UNCHANGED lost

MayEnterPool(p) == Includable(p, Image, Height + 1) /\ p \notin pool /\ Disjoint(pool \union {p})
-----------------------------------------------------------------------------
(* WalletState.                                                            *)

\* The record of the payments in txs, if it is pending, is dropped.
WithoutPending(txs) ==
    [p \in Payment |-> IF p \in txs /\ history[p] = "pending" THEN "none" ELSE history[p]]

\* Wrong: the slots are freed and the payment stays tracked.
ReleaseSlotsOnly(txs) ==
    /\ pendingIn' = pendingIn \ InSlotsOf(txs)
    /\ pendingOut' = pendingOut \ OutSlotsOf(txs)
    /\ history' = WithoutPending(txs)
    /\ disk' = IF history' # history THEN history' ELSE disk
    /\ UNCHANGED tracked

\* remove_pending_inputs, remove_pending_outputs and remove_pending_send.
Release(txs) ==
    /\ pendingIn' = pendingIn \ InSlotsOf(txs)
    /\ pendingOut' = pendingOut \ OutSlotsOf(txs)
    /\ tracked' = tracked \ txs
    /\ history' = WithoutPending(txs)
    /\ disk' = IF history' # history THEN history' ELSE disk

\* release_dropped_send: only what is still tracked is released.
ReleaseDropped(txs) == Release(txs \intersect tracked)

\* commit_verified_activation over the current owner: the pool's reservations
\* replace the wallet's own.
Activate(image) ==
    /\ utxos' = OwnedCoins(image)
    /\ loaded' = TRUE
    /\ pendingIn' = DOMAIN utxos' \intersect ReservedIn
    /\ pendingOut' = pendingOut \intersect ReservedOut

\* invalidate_active_cache.
Invalidate ==
    /\ utxos' = <<>>
    /\ loaded' = FALSE
    /\ pendingIn' = {}
    /\ UNCHANGED pendingOut

\* confirm_pending_tx for the given ids: a pending record is settled and its
\* slots are forgotten.
Confirm(ids, record) ==
    /\ history' = [p \in Payment |->
           IF p \in ids /\ record[p] = "pending" THEN "mined" ELSE record[p]]
    /\ tracked' = tracked \ {p \in ids : record[p] = "pending"}
    /\ disk' = history'

\* The coins the pages of a block do not spend.
KeepsUnspent(txs) == Restrict(utxos, DOMAIN utxos \ InSlotsOf(txs))

\* update_for_accepted_block: the block's delta on the cache, the records of
\* the payments in it, and the output slots it fills.
UpdateForBlock(b) ==
    LET mints == Mints(b.txs, b.rewards, Height + 1)
        ours == {p \in b.txs : InSlots(p) \intersect DOMAIN utxos # {}}
        noted == [p \in Payment |->
                     IF p \in ours /\ history[p] = "none" THEN "mined" ELSE history[p]]
    IN  /\ utxos' = Over(RestrictValues(mints, Owned), KeepsUnspent(b.txs))
        /\ loaded' = TRUE
        /\ pendingIn' = pendingIn \ InSlotsOf(b.txs)
        /\ pendingOut' = pendingOut \ DOMAIN mints
        /\ Confirm(b.txs, noted)

\* reserve_pending_submission up to the write of the record.
ReserveInMemory(p) ==
    /\ pendingIn' = pendingIn \union InSlots(p)
    /\ pendingOut' = pendingOut \union {body[p].out}
    /\ tracked' = tracked \union {p}
    /\ history' = [history EXCEPT ![p] = "pending"]

Reserve(p) == ReserveInMemory(p) /\ disk' = history'
-----------------------------------------------------------------------------
(* wallet_send and wallet_consolidate, under the gate.                     *)

\* The calls that only reload: walletScan, the two plans.
Scan ==
    /\ GateFree
    /\ Activate(Image)
    /\ UNCHANGED <<chainVars, poolVars, bookVars, paidAt, callVars, used>>

SendBegin ==
    /\ GateFree
    /\ \E p \in Send \intersect setup.payments : body[p] = NoBody
    /\ op' = [Idle EXCEPT !.step = "loaded"]
    /\ Activate(Image)
    /\ UNCHANGED <<chainVars, poolVars, bookVars, paidAt, build, body, used>>

\* The coins a payment may be built from, as the wallet lock shows them.
FreeCoins == DOMAIN utxos \ pendingIn

\* Coin selection and the choice of an empty output slot.
Selects(p, coins, s) ==
    /\ p \in setup.payments /\ body[p] = NoBody
    /\ coins \subseteq FreeCoins /\ coins # {}
    /\ s \in Slot \ (ReservedOut \union pendingOut) /\ Image[s] = Empty
    /\ body' = [body EXCEPT ![p] = [ins |-> Restrict(utxos, coins), out |-> s, at |-> Height]]

\* One attempt.  A consolidation is planned only when nothing is pending, and
\* joins at least two coins.
SendSelect(p) ==
    /\ op.step = "loaded" /\ op.tries < setup.attempts
    /\ \E coins \in SUBSET DOMAIN utxos, s \in Slot :
        /\ Selects(p, coins, s)
        /\ p \in Consolidation =>
               Cardinality(coins) > 1 /\ (op.tries = 0 => pendingIn \union pendingOut = {})
    /\ op' = [step |-> "proving", tx |-> p, tries |-> op.tries + 1]
    /\ UNCHANGED <<chainVars, poolVars, walletVars, build, used>>

SendReserve ==
    /\ op.step = "proving"
    /\ Reserve(op.tx)
    /\ op' = [op EXCEPT !.step = "reserved"]
    /\ UNCHANGED <<chainVars, poolVars, cacheVars, paidAt, build, body, used>>

\* The record is pushed and cannot be written: the error returns before a
\* guard exists.
SendReserveFails ==
    /\ op.step = "proving" /\ used.saves < setup.saves
    /\ ReserveInMemory(op.tx)
    /\ op' = Idle
    /\ used' = [used EXCEPT !.saves = @ + 1]
    /\ UNCHANGED <<chainVars, poolVars, cacheVars, disk, paidAt, build, body>>

\* The final admission and the disarming of the guard have no await between
\* them.
SendAdmit ==
    /\ op.step = "reserved" /\ MayEnterPool(op.tx)
    /\ pool' = pool \union {op.tx}
    /\ issued' = issued \union {op.tx}
    /\ op' = Idle
    /\ UNCHANGED <<chain, events, lost, walletVars, build, body, used>>

\* The pool refuses, for a conflict or for reasons of its own; the guard is
\* dropped and another attempt may follow.
SendRefused ==
    /\ op.step = "reserved"
    /\ Release({op.tx})
    /\ op' = IF op.tries < setup.attempts THEN [op EXCEPT !.step = "loaded", !.tx = NoPayment] ELSE Idle
    /\ UNCHANGED <<chainVars, poolVars, cacheVars, paidAt, build, body, used>>

\* The call fails or is dropped at an await.
SendDropped ==
    /\ op.step # "idle"
    /\ IF op.step = "reserved" THEN Release({op.tx}) ELSE UNCHANGED <<slotVars, bookVars>>
    /\ op' = Idle
    /\ UNCHANGED <<chainVars, poolVars, cacheVars, paidAt, build, body, used>>
-----------------------------------------------------------------------------
(* wallet_build_client_payment, without the gate.                          *)

ClientSelect(p) ==
    /\ build.step = "idle"
    /\ \E coins \in SUBSET DOMAIN utxos, s \in Slot : Selects(p, coins, s)
    /\ build' = [step |-> "proving", tx |-> p, tries |-> 1]
    /\ UNCHANGED <<chainVars, poolVars, walletVars, op, used>>

ClientReserve ==
    /\ build.step = "proving"
    /\ Reserve(build.tx)
    /\ build' = [build EXCEPT !.step = "reserved"]
    /\ UNCHANGED <<chainVars, poolVars, cacheVars, paidAt, op, body, used>>

ClientReserveFails ==
    /\ build.step = "proving" /\ used.saves < setup.saves
    /\ ReserveInMemory(build.tx)
    /\ build' = Idle
    /\ used' = [used EXCEPT !.saves = @ + 1]
    /\ UNCHANGED <<chainVars, poolVars, cacheVars, disk, paidAt, op, body>>

\* The tip is read, the payment is tracked and handed out.
ClientTrack ==
    /\ build.step = "reserved"
    /\ paidAt' = Over([p \in {build.tx} |-> Height], paidAt)
    /\ issued' = issued \union {build.tx}
    /\ build' = Idle
    /\ UNCHANGED <<chain, poolVars, cacheVars, slotVars, bookVars, op, body, used>>

\* The call is dropped while it proves or while it waits for the chain lock.
ClientDropped ==
    /\ build.step # "idle"
    /\ build' = Idle
    /\ UNCHANGED <<chainVars, poolVars, walletVars, op, body, used>>

\* Wrong: the anchor is taken to last for one epoch.
OneEpoch == setup.window \div 2

\* CLIENT_PAYMENT_LIFETIME_BLOCKS.
ClientLifetime == setup.window + 2

\* release_expired_client_payments, every two seconds.
ReleaseExpired ==
    LET expired == {p \in DOMAIN paidAt : Height >= paidAt[p] + ClientLifetime}
    IN  /\ expired # {}
        /\ paidAt' = Restrict(paidAt, DOMAIN paidAt \ expired)
        /\ ReleaseDropped(expired)
        /\ UNCHANGED <<chainVars, poolVars, cacheVars, callVars, used>>
-----------------------------------------------------------------------------
(* The relay task and the peers.                                           *)

\* TxEvicted; CapacityPressure is never sent.
Relay(p) ==
    /\ p \in events
    /\ events' = events \ {p}
    /\ ReleaseDropped({p})
    /\ UNCHANGED <<chainVars, pool, lost, cacheVars, paidAt, callVars, used>>

\* Lagged: the channel has overwritten some of the events; the task goes on
\* with the next one and nothing makes up for them.
Lag ==
    /\ used.lags < setup.lags
    /\ \E skipped \in SUBSET events :
        /\ skipped # {}
        /\ events' = events \ skipped
        /\ lost' = lost \union skipped
    /\ used' = [used EXCEPT !.lags = @ + 1]
    /\ UNCHANGED <<chainVars, pool, walletVars, callVars>>

\* A peer sends an issued payment again.
Regossip(p) ==
    /\ setup.gossip /\ p \in issued \intersect Send /\ MayEnterPool(p)
    /\ pool' = pool \union {p}
    /\ lost' = lost \ {p}
    /\ UNCHANGED <<chainVars, events, walletVars, callVars, used>>
-----------------------------------------------------------------------------
(* The chain.  Commit, wallet and pool change under the gate.              *)

\* A block mined here or the next block of a suffix.
AcceptBlock ==
    /\ GateFree /\ Height < setup.height
    /\ \E b \in BlocksOver(Image, Height + 1) :
        /\ chain' = Appended(chain, b)
        /\ UpdateForBlock(b)
        /\ PoolFollows(b.txs, chain')
    /\ UNCHANGED <<issued, paidAt, callVars, used>>

\* The id install_reorg_snapshot_and_artifacts looks a page up by: the hash of
\* the page, never the hash of the paged spend the record carries.
PageId(p) == <<"page", p>>

\* install_reorg_snapshot_and_artifacts over the blocks that replace others:
\* the snapshot, the reclaimed records back to pending, the replay.
InstallReorg(blocks, reclaimed, txs, filled) ==
    LET record == [p \in Payment |->
                      IF p \in reclaimed /\ history[p] # "none" THEN "pending" ELSE history[p]]
    IN  /\ utxos' = OwnedCoins(Last(blocks).image)
        /\ loaded' = TRUE
        /\ pendingIn' = DOMAIN utxos' \intersect ReservedIn
        /\ pendingOut' = (pendingOut \intersect ReservedOut) \ filled
        /\ Confirm({p \in Payment : \E q \in txs : PageId(q) = p}, record)

\* Two blocks replace the last one or the last two.
Reorg ==
    /\ GateFree /\ used.reorgs < setup.reorgs
    /\ \E d \in 1 .. (IF Height < 2 THEN Height ELSE 2) :
        LET base == SubSeq(chain, 1, Len(chain) - d)
            reclaimed == UNION {chain[i].txs : i \in Len(base) + 1 .. Len(chain)}
        IN  /\ Len(base) + 1 <= setup.height
            /\ \E b \in BlocksOver(Last(base).image, Len(base)) :
                LET first == Appended(base, b)
                    next == Appended(first, [txs |-> {}, rewards |-> <<>>])
                IN  /\ chain' = next
                    /\ \/ InstallReorg(next, reclaimed, b.txs,
                                       OutSlotsOf(b.txs) \union DOMAIN b.rewards)
                       \* the owner index cannot be read
                       \/ used.reads < setup.reads /\ Invalidate /\ UNCHANGED bookVars
                    /\ PoolFollows(b.txs, next)
    /\ used' = [used EXCEPT !.reorgs = @ + 1, !.reads = IF loaded' THEN @ ELSE @ + 1]
    /\ UNCHANGED <<issued, paidAt, callVars>>

\* A snapshot install: the blocks in between are never seen, the pool is told
\* of no confirmation, then the wallet is reloaded (rescan_wallet_from_chain).
Jump ==
    /\ GateFree /\ used.jumps < setup.jumps /\ Height < setup.height
    /\ \E b \in BlocksOver(Image, Height + 1) :
        /\ chain' = Appended(chain, b)
        /\ PoolFollows({}, chain')
        /\ \/ /\ utxos' = OwnedCoins(Last(chain').image)
              /\ loaded' = TRUE
              /\ pendingIn' = DOMAIN utxos' \intersect InSlotsOf(pool')
              /\ pendingOut' = pendingOut \intersect OutSlotsOf(pool')
           \/ used.reads < setup.reads /\ Invalidate
    /\ used' = [used EXCEPT !.jumps = @ + 1, !.reads = IF loaded' THEN @ ELSE @ + 1]
    /\ UNCHANGED <<issued, bookVars, paidAt, callVars>>

\* Wrong: the record is loaded as it was saved.
AsSaved(blocks) == disk

\* reconcile_receipts_at_startup over the retained blocks: pending records of
\* payments to others that are in one are settled.
Reconciled(blocks) ==
    [p \in Payment |->
        IF disk[p] = "pending" /\ p \in OnChain(blocks) \ Consolidation THEN "mined" ELSE disk[p]]

\* The process stops, possibly between the commit of a block and the update of
\* the wallet, and starts again.  The pool and the reservations are lost.
Restart ==
    /\ used.restarts < setup.restarts
    /\ \/ UNCHANGED chain
       \/ /\ GateFree /\ Height < setup.height
          /\ \E b \in BlocksOver(Image, Height + 1) : chain' = Appended(chain, b)
    /\ history' = Reconciled(chain') /\ disk' = history'
    /\ utxos' = OwnedCoins(Last(chain').image) /\ loaded' = TRUE
    /\ pendingIn' = {} /\ pendingOut' = {} /\ tracked' = {} /\ paidAt' = <<>>
    /\ pool' = {} /\ events' = {} /\ lost' = {}
    /\ op' = Idle /\ build' = Idle
    /\ used' = [used EXCEPT !.restarts = @ + 1]
    /\ UNCHANGED <<issued, body>>
-----------------------------------------------------------------------------
FirstContent(s) ==
    IF s \in setup.coins THEN Content("genesis", 0)
    ELSE IF s \in setup.others THEN Content("foreign", 0) ELSE Empty

Init ==
    /\ setup \in Setup
    /\ chain = <<[txs |-> {},
                  image |-> [s \in Slot |-> FirstContent(s)]]>>
    /\ pool = {} /\ events = {} /\ lost = {} /\ issued = {}
    /\ body = [p \in Payment |-> NoBody]
    /\ utxos = OwnedCoins(Image) /\ loaded = TRUE
    /\ pendingIn = {} /\ pendingOut = {} /\ tracked = {} /\ paidAt = <<>>
    /\ history = [p \in Payment |-> "none"] /\ disk = history
    /\ op = Idle /\ build = Idle
    /\ used = [reorgs |-> 0, jumps |-> 0, restarts |-> 0, saves |-> 0, reads |-> 0,
               lags |-> 0]

SendStep ==
    \/ \E p \in Send : SendSelect(p)
    \/ SendReserve \/ SendReserveFails \/ SendAdmit \/ SendRefused \/ SendDropped

ClientStep == ClientReserve \/ ClientReserveFails \/ ClientTrack \/ ClientDropped

Next ==
    /\ UNCHANGED setup
    /\ \/ Scan \/ SendBegin \/ SendStep
       \/ (\E p \in Client : ClientSelect(p)) \/ ClientStep \/ ReleaseExpired
       \/ (\E p \in Payment : Relay(p) \/ Regossip(p)) \/ Lag
       \/ AcceptBlock \/ Reorg \/ Jump \/ Restart

Spec == Init /\ [][Next]_vars

-----------------------------------------------------------------------------
Contents ==
    {c \in [by : Minters \union Consolidation, at : 0 .. setup.height] :
        c.by = "empty" => c.at = 0}
Bodies(p) == body[p] = NoBody \/ (InSlots(p) \subseteq Slot /\ body[p].out \in Slot /\ body[p].at \in 0 .. setup.height)
Records == [Payment -> {"none", "pending", "mined"}]

\* Types of the chain, the pool and the wallet.
TypeOK ==
    /\ \A i \in DOMAIN chain : chain[i].txs \subseteq issued /\ chain[i].image \in [Slot -> Contents]
    /\ pool \subseteq Send /\ events \subseteq Send /\ lost \subseteq Send /\ issued \subseteq Payment
    /\ \A p \in Payment : Bodies(p)
    /\ DOMAIN utxos \subseteq Slot /\ loaded \in BOOLEAN
    /\ pendingIn \subseteq Slot /\ pendingOut \subseteq Slot /\ tracked \subseteq Payment
    /\ DOMAIN paidAt \subseteq Client
    /\ history \in Records /\ disk \in Records
    /\ op.tx \in Send \union {NoPayment} /\ build.tx \in Client \union {NoPayment}

\* None of the given events has happened.
Without(what) == \A e \in what : used[e] = 0

\* The cache that claims to be the tip's is the tip's, whether it was built
\* from block deltas, a reorganisation or a reload (active_snapshot: "Exact
\* durable snapshot backing `utxos`"), as long as the owner index can be read.
CacheIsChain == loaded /\ Without({"reads"}) => utxos = OwnedCoins(Image)

\* While a send is under way the chain cannot take its coins: what it is built
\* from is live until the pool answers.
SpendsLiveCoins ==
    op.tx # NoPayment => \A s \in InSlots(op.tx) : Image[s] = body[op.tx].ins[s]

\* The coins the wallet shows and the coins its sends are built from are the
\* chain's, through blocks, reorganisations, reloads and dropped calls.
CoinsSound ==
    /\ TypeOK
    /\ CacheIsChain
    /\ SpendsLiveCoins

\* What the wallet holds reserved or shows as pending it can still settle: the
\* send is being submitted, is in the pool or has its eviction on the way ("task
\* cancellation cannot strand inputs, outputs, or history"), unless the relay
\* fell behind and skipped that very eviction.  A record that cannot be written
\* strands it too, and a restart or a reorganisation leaves the record of a
\* payment that is in no block pending.
NothingStranded ==
    Without({"saves", "restarts", "reorgs"}) =>
        \A p \in Send : p \in tracked \/ history[p] = "pending" =>
            p \in {op.tx} \union pool \union events \union lost

\* A payment of the wallet in the chain is in its record, and as mined.  When the
\* process stopped between the commit and the wallet's update, the record of a
\* payment to others that was still pending is settled at startup; that of a
\* consolidation is not, and one already given up is not brought back.
MinedRecorded ==
    Without({"reorgs", "jumps"}) => \A p \in OnChain(chain) :
        \/ history[p] = "mined"
        \/ used.restarts > 0 /\ (p \in Consolidation \/ history[p] = "none")

\* "it may sit in the mempool and confirm again on the replacement branch, and
\* the caller then gives it its new height" (wallet/mod.rs:364).
ReminedRecorded ==
    Without({"jumps"}) => \A p \in OnChain(chain) : history[p] = "mined"

\* A client payment is given up only when no block can include it any more.
ExpiryIsFinal ==
    [][\A p \in DOMAIN paidAt \ DOMAIN paidAt' :
          used' = used => ~Includable(p, Image, Height + 1)]_vars
=============================================================================
