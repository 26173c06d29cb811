---------------------------- MODULE WalletProofs ----------------------------
(***************************************************************************)
(* Proofs about Wallet for every set of slots and payments and every       *)
(* setup: the cache is the chain's, nothing the wallet holds is stranded,  *)
(* mined payments are recorded, and only dead client payments expire.      *)
(***************************************************************************)
EXTENDS Wallet, TLAPS

-----------------------------------------------------------------------------
(* Functions and sequences. *)

\* The owner index holds exactly the owned slots, with what the image holds there.
LEMMA OwnedFacts ==
    ASSUME NEW f
    PROVE  /\ DOMAIN OwnedCoins(f) = {s \in DOMAIN f : Owned(f[s])}
           /\ \A s \in DOMAIN OwnedCoins(f) : OwnedCoins(f)[s] = f[s] /\ Owned(f[s])
           /\ OwnedCoins(f) = [s \in {x \in DOMAIN f : Owned(f[x])} |-> f[s]]
BY Zenon DEF OwnedCoins, RestrictValues, Restrict

\* A sequence after one element was added.
LEMMA AppendFacts ==
    ASSUME NEW S, NEW s \in Seq(S), NEW x \in S
    PROVE  /\ Append(s, x) \in Seq(S)
           /\ Len(Append(s, x)) = Len(s) + 1
           /\ Last(Append(s, x)) = x
           /\ \A i \in 1 .. Len(s) : Append(s, x)[i] = s[i]
           /\ Append(s, x)[Len(s) + 1] = x
BY DEF Last

\* A proper prefix of a sequence.
LEMMA PrefixFacts ==
    ASSUME NEW S, NEW s \in Seq(S), NEW d \in Nat, d < Len(s)
    PROVE  /\ SubSeq(s, 1, Len(s) - d) \in Seq(S)
           /\ Len(SubSeq(s, 1, Len(s) - d)) = Len(s) - d
           /\ \A i \in 1 .. Len(s) - d : SubSeq(s, 1, Len(s) - d)[i] = s[i]
OBVIOUS

\* What Without tests.
LEMMA WithoutFacts ==
    /\ Without({"reads"}) <=> used.reads = 0
    /\ Without({"reorgs", "jumps"}) <=> used.reorgs = 0 /\ used.jumps = 0
    /\ Without({"saves", "restarts", "reorgs"}) <=>
          used.saves = 0 /\ used.restarts = 0 /\ used.reorgs = 0
BY Zenon DEF Without

-----------------------------------------------------------------------------
(* The inductive invariant. *)

Link == [txs : SUBSET Payment, image : [Slot -> Contents]]

\* The bounds and counters are numbers, and the chain is a sequence of blocks.
ChainInv ==
    /\ setup \in SetupType
    /\ used \in [reorgs : Nat, jumps : Nat, restarts : Nat, saves : Nat, reads : Nat, lags : Nat]
    /\ chain \in Seq(Link)
    /\ 1 <= Len(chain) /\ Height <= setup.height
    /\ \A i \in 1 .. Len(chain) : chain[i].txs \subseteq issued

\* A body that was built: it spends owned coins of slots that exist, and its
\* anchor is not above the tip.
Built(b) ==
    /\ DOMAIN b.ins \subseteq Slot /\ DOMAIN b.ins # {}
    /\ \A s \in DOMAIN b.ins : Owned(b.ins[s])
    /\ b.out \in Slot
    /\ b.at \in Nat /\ b.at <= Height

\* Whatever was handed out has a body.
BodyInv ==
    /\ body = [p \in Payment |-> body[p]]
    /\ \A p \in Payment : body[p] # NoBody => Built(body[p])
    /\ issued \subseteq {p \in Payment : body[p] # NoBody}
    /\ pool \subseteq issued \intersect Send
    /\ events \subseteq Send /\ lost \subseteq Send

\* The send under way holds a payment nobody else has seen, and its coins are
\* those of the chain.
OpInv ==
    /\ op \in [step : {"idle", "loaded", "proving", "reserved"},
               tx : Send \union {NoPayment}, tries : Nat]
    /\ op.tx = NoPayment <=> op.step \in {"idle", "loaded"}
    /\ op.tx # NoPayment =>
          /\ body[op.tx] # NoBody /\ op.tx \notin issued
          /\ \A s \in InSlots(op.tx) : Image[s] = body[op.tx].ins[s]

\* So does the client payment being built, without the gate.
BuildInv ==
    /\ build \in [step : {"idle", "proving", "reserved"},
                  tx : Client \union {NoPayment}, tries : Nat]
    /\ build.tx = NoPayment <=> build.step = "idle"
    /\ build.tx # NoPayment => body[build.tx] # NoBody /\ build.tx \notin issued

CallInv == OpInv /\ BuildInv

\* The cache holds owned coins, and those of the tip while a call holds the gate
\* or no read has failed.
CacheInv ==
    /\ DOMAIN utxos \subseteq Slot /\ loaded \in BOOLEAN
    /\ \A s \in DOMAIN utxos : Owned(utxos[s])
    /\ (op.step # "idle" \/ used.reads = 0) => utxos = OwnedCoins(Image)

\* No failed write, restart or reorganisation.
Undisturbed == used.saves = 0 /\ used.restarts = 0 /\ used.reorgs = 0

\* The reservations are slots, and the record has one entry for each payment.
BookTypes ==
    /\ pendingIn \subseteq Slot /\ pendingOut \subseteq Slot /\ tracked \subseteq Payment
    /\ history \in Records /\ disk \in Records

\* A send whose reservation something still settles: the call that submits it, the
\* pool, or an announcement, unless the announcement was lost.
InHand(p) == p \in {op.tx} \union pool \union events \union lost

\* A send is tracked exactly while its record is pending; one that is not built,
\* or is only being proved, is neither.
Settled ==
    Undisturbed =>
        /\ \A p \in Send : body[p] = NoBody => p \notin tracked /\ history[p] = "none"
        /\ op.step = "proving" => op.tx \notin tracked /\ history[op.tx] = "none"
        /\ \A p \in Send : p \in tracked <=> history[p] = "pending"
        /\ \A p \in Send : p \in tracked => InHand(p)

BookInv == BookTypes /\ Settled

\* Reads fail only in a reorganisation or a jump; short of those, what is in the
\* chain is recorded.
RecordInv ==
    used.reorgs = 0 /\ used.jumps = 0 =>
        /\ used.reads = 0
        /\ \A i \in 1 .. Len(chain) : \A p \in chain[i].txs :
              \/ history[p] = "mined"
              \/ used.restarts > 0 /\ (p \in Consolidation \/ history[p] = "none")

\* A client payment was handed out no earlier than it was anchored.
PaidInv ==
    /\ DOMAIN paidAt \subseteq Client
    /\ \A p \in DOMAIN paidAt :
          paidAt[p] \in Nat /\ body[p] # NoBody /\ body[p].at <= paidAt[p]

Inv == ChainInv /\ BodyInv /\ CallInv /\ CacheInv /\ BookInv /\ RecordInv /\ PaidInv

-----------------------------------------------------------------------------
(* Blocks. *)

\* A block that may follow an image at height h: issued payments that are
\* includable, and rewards in empty slots.
Fits(b, image, h) ==
    /\ b.txs \subseteq issued
    /\ \A p \in b.txs : Includable(p, image, h)
    /\ DOMAIN b.rewards \subseteq Slot
    /\ \A s \in DOMAIN b.rewards :
          image[s] = Empty /\ b.rewards[s] \in {Content("reward", h), Content("foreign", h)}

\* BlocksOver only offers such blocks.
LEMMA BlocksFit ==
    ASSUME NEW image, NEW h \in Nat, NEW b \in BlocksOver(image, h)
    PROVE  Fits(b, image, h)
<1> DEFINE fits == {p \in issued : Includable(p, image, h)}
           free == {s \in Slot : h \in setup.rewards /\ image[s] = Empty}
           mine == {Content("reward", h), Content("foreign", h)}
           rewards == {<<>>} \union UNION {[{s} -> mine] : s \in free}
<1>1. b \in [txs : {t \in SUBSET fits : Disjoint(t)}, rewards : rewards]
  BY Zenon DEF BlocksOver
<1>2. b.txs \in SUBSET fits /\ b.rewards \in rewards
  BY <1>1, Zenon
<1>3. CASE b.rewards = <<>>
  <2>1. DOMAIN b.rewards = {}
    BY <1>3
  <2> QED
    BY <1>2, <2>1, Zenon DEF Fits
<1>4. CASE b.rewards # <<>>
  <2>1. PICK s \in free : b.rewards \in [{s} -> mine]
    BY <1>2, <1>4, Zenon
  <2>2. /\ DOMAIN b.rewards = {s} /\ s \in Slot /\ image[s] = Empty
        /\ b.rewards[s] \in mine
    BY <2>1, Zenon
  <2> QED
    BY <1>2, <2>2, Zenon DEF Fits
<1> QED
  BY <1>3, <1>4, Zenon

\* The block with nothing in it always fits.
LEMMA EmptyFits ==
    ASSUME NEW image, NEW h
    PROVE  Fits([txs |-> {}, rewards |-> <<>>], image, h)
<1> DEFINE b == [txs |-> {}, rewards |-> <<>>]
<1>1. b.txs = {} /\ DOMAIN b.rewards = {}
  OBVIOUS
<1> HIDE DEF b
<1>2. Fits(b, image, h)
  BY <1>1, Zenon DEF Fits
<1> QED
  BY <1>2, Zenon DEF b

\* No empty slot is owned.
LEMMA EmptyNotOwned == ~ Owned(Empty)
<1>1. "empty" \notin {"genesis", "reward"} \union Consolidation
  BY WalletConstants, Zenon DEF WalletConstants, Minters, Payment
<1> QED
  BY <1>1, Zenon DEF Owned, Empty, Content

\* The types of the chain, apart from the rest of the invariant.
LEMMA ChainTypes ==
    ASSUME Inv
    PROVE  /\ chain \in Seq(Link) /\ Len(chain) \in Nat /\ 1 <= Len(chain)
           /\ setup \in SetupType /\ setup.height \in Nat
           /\ Height <= setup.height
           /\ \A i \in 1 .. Len(chain) : chain[i].txs \subseteq issued
<1>1. /\ chain \in Seq(Link) /\ 1 <= Len(chain) /\ setup \in SetupType
      /\ Height <= setup.height
      /\ \A i \in 1 .. Len(chain) : chain[i].txs \subseteq issued
  BY Zenon DEF Inv, ChainInv
<1>2. Len(chain) \in Nat BY <1>1
<1>3. setup.height \in Nat BY <1>1, Zenon DEF SetupType
<1> QED BY <1>1, <1>2, <1>3, Zenon

\* What the slots of a block hold afterwards.
LEMMA MintFacts ==
    ASSUME Inv, NEW image \in [Slot -> Contents], NEW h \in Nat, h <= setup.height,
           NEW b, Fits(b, image, h)
    PROVE  /\ DOMAIN Mints(b.txs, b.rewards, h) = OutSlotsOf(b.txs) \union DOMAIN b.rewards
           /\ DOMAIN Mints(b.txs, b.rewards, h) \subseteq Slot
           /\ \A s \in DOMAIN Mints(b.txs, b.rewards, h) :
                 Mints(b.txs, b.rewards, h)[s] \in Contents /\ image[s] = Empty
           /\ InSlotsOf(b.txs) \subseteq Slot
<1>1. /\ b.txs \subseteq issued /\ \A p \in b.txs : Includable(p, image, h)
      /\ DOMAIN b.rewards \subseteq Slot
      /\ \A s \in DOMAIN b.rewards :
            image[s] = Empty /\ b.rewards[s] \in {Content("reward", h), Content("foreign", h)}
  BY Zenon DEF Fits
<1>2. \A p \in b.txs : body[p].out \in Slot /\ InSlots(p) \subseteq Slot
                       /\ image[body[p].out] = Empty
  BY <1>1, Zenon DEF Inv, BodyInv, Built, Includable, InSlots
<1>3. OutSlotsOf(b.txs) \subseteq Slot /\ InSlotsOf(b.txs) \subseteq Slot
      /\ \A s \in OutSlotsOf(b.txs) : image[s] = Empty
  BY <1>2 DEF OutSlotsOf, InSlotsOf
<1>4. \A c \in Consolidation \union {"reward", "foreign"} : Content(c, h) \in Contents
  <2>1. SUFFICES ASSUME NEW c \in Consolidation \union {"reward", "foreign"}
                 PROVE  Content(c, h) \in Contents
    BY Zenon
  <2>2. c # "empty" /\ c \in Minters \union Consolidation
    BY <2>1, WalletConstants, Zenon DEF WalletConstants, Minters, Payment
  <2>3. h \in 0 .. setup.height
    BY ChainTypes
  <2> QED
    BY <2>2, <2>3, Zenon DEF Content, Contents
<1> DEFINE paid == [s \in OutSlotsOf(b.txs) |->
                      LET p == CHOOSE p \in b.txs : body[p].out = s
                      IN  Content(IF p \in Consolidation THEN p ELSE "foreign", h)]
<1>5. Mints(b.txs, b.rewards, h) = Over(paid, b.rewards)
  BY Zenon DEF Mints
<1>6. DOMAIN paid = OutSlotsOf(b.txs) /\ \A s \in DOMAIN paid : paid[s] \in Contents
  BY <1>4, Zenon
<1> HIDE DEF paid
<1>7. DOMAIN Over(paid, b.rewards) = OutSlotsOf(b.txs) \union DOMAIN b.rewards
  BY <1>6, Zenon DEF Over
<1>8. ASSUME NEW s \in DOMAIN Over(paid, b.rewards)
      PROVE  Over(paid, b.rewards)[s] \in Contents /\ image[s] = Empty
  <2>1. CASE s \in DOMAIN paid
    BY <1>3, <1>6, <2>1, Zenon DEF Over
  <2>2. CASE s \notin DOMAIN paid
    <3>1. s \in DOMAIN b.rewards
      BY <1>6, <1>7, <1>8, <2>2, Zenon
    <3>2. Over(paid, b.rewards)[s] = b.rewards[s]
      BY <2>2, <3>1, Zenon DEF Over
    <3> QED
      BY <1>1, <1>4, <3>1, <3>2, Zenon
  <2> QED
    BY <2>1, <2>2, Zenon
<1> QED
  BY <1>1, <1>3, <1>5, <1>7, <1>8, Zenon

\* The chain with one block more.
LEMMA AppendedFacts ==
    ASSUME Inv, NEW blocks \in Seq(Link), 1 <= Len(blocks), Len(blocks) <= setup.height,
           NEW b, Fits(b, Last(blocks).image, Len(blocks))
    PROVE  /\ Appended(blocks, b) \in Seq(Link)
           /\ Len(Appended(blocks, b)) = Len(blocks) + 1
           /\ Last(Appended(blocks, b)).txs = b.txs
           /\ Last(Appended(blocks, b)).image =
                 Over(Over(Mints(b.txs, b.rewards, Len(blocks)),
                           [s \in InSlotsOf(b.txs) |-> Empty]), Last(blocks).image)
           /\ \A i \in 1 .. Len(blocks) : Appended(blocks, b)[i] = blocks[i]
           /\ Appended(blocks, b)[Len(blocks) + 1].txs = b.txs
<1> DEFINE h == Len(blocks)
           old == Last(blocks).image
           gone == [s \in InSlotsOf(b.txs) |-> Empty]
           new == Mints(b.txs, b.rewards, h)
           img == Over(Over(new, gone), old)
           link == [txs |-> b.txs, image |-> img]
<1>1. h \in Nat /\ Last(blocks) \in Link
  BY DEF Last
<1>2. old \in [Slot -> Contents]
  BY <1>1, Zenon DEF Link
<1>3. /\ DOMAIN new \subseteq Slot /\ \A s \in DOMAIN new : new[s] \in Contents
      /\ InSlotsOf(b.txs) \subseteq Slot
  BY <1>1, <1>2, MintFacts, Zenon
<1>4. Empty \in Contents
  <2>1. 0 \in 0 .. setup.height
    BY ChainTypes
  <2> QED
    BY <2>1, Zenon DEF Empty, Content, Contents, Minters
<1>5. DOMAIN gone = InSlotsOf(b.txs) /\ \A s \in DOMAIN gone : gone[s] = Empty
  BY Zenon
<1>6. Appended(blocks, b) = Append(blocks, link)
  BY Zenon DEF Appended
<1> HIDE DEF new, gone, old
<1>7. img \in [Slot -> Contents]
  <2>1. /\ DOMAIN Over(new, gone) \subseteq Slot
        /\ \A s \in DOMAIN Over(new, gone) : Over(new, gone)[s] \in Contents
    BY <1>3, <1>4, <1>5, Zenon DEF Over
  <2> QED
    BY <1>2, <2>1, Zenon DEF Over
<1>8. link \in Link
  <2>1. b.txs \in SUBSET Payment
    BY Zenon DEF Fits, Inv, BodyInv
  <2> HIDE DEF img
  <2> QED
    BY <1>7, <2>1, Zenon DEF Link
<1>9. link.txs = b.txs /\ link.image = img
  BY Zenon
<1> HIDE DEF link
<1>10. /\ Append(blocks, link) \in Seq(Link) /\ Len(Append(blocks, link)) = h + 1
       /\ Last(Append(blocks, link)) = link
       /\ \A i \in 1 .. h : Append(blocks, link)[i] = blocks[i]
       /\ Append(blocks, link)[h + 1] = link
  BY <1>8, AppendFacts
<1> QED
  BY <1>6, <1>9, <1>10, Zenon DEF new, gone, old
-----------------------------------------------------------------------------
(* Steps that leave the chain alone, and steps that change it. *)

CallStep ==
    \/ Scan \/ SendBegin \/ SendStep
    \/ (\E p \in Client : ClientSelect(p)) \/ ClientStep \/ ReleaseExpired
    \/ (\E p \in Payment : Relay(p) \/ Regossip(p)) \/ Lag

\* A call counts nothing but a failed write or a lag of the relay task.
CountsCall ==
    used' = used \/ used' = [used EXCEPT !.saves = @ + 1] \/ used' = [used EXCEPT !.lags = @ + 1]

\* The counters are numbers.
LEMMA UsedFacts ==
    ASSUME Inv
    PROVE  /\ used.reorgs \in Nat /\ used.jumps \in Nat /\ used.restarts \in Nat
           /\ used.saves \in Nat /\ used.reads \in Nat
BY Zenon DEF Inv, ChainInv

\* A call changes no block, and counts only what CountsCall says.
LEMMA CallKeepsChain ==
    ASSUME Inv, CallStep
    PROVE  /\ chain' = chain /\ issued \subseteq issued'
           /\ CountsCall
<1>1. CASE Scan \/ SendBegin \/ ReleaseExpired
  BY <1>1, Zenon DEF Scan, SendBegin, ReleaseExpired, chainVars, CountsCall
<1>2. CASE \E p \in Send : SendSelect(p)
  BY <1>2, Zenon DEF SendSelect, chainVars, CountsCall
<1>3. CASE SendReserve \/ SendReserveFails
  BY <1>3, Zenon DEF SendReserve, SendReserveFails, chainVars, CountsCall
<1>4. CASE SendAdmit \/ SendRefused \/ SendDropped
  BY <1>4, Zenon DEF SendAdmit, SendRefused, SendDropped, chainVars, CountsCall
<1>5. CASE \E p \in Client : ClientSelect(p)
  BY <1>5, Zenon DEF ClientSelect, chainVars, CountsCall
<1>6. CASE ClientStep
  BY <1>6, Zenon DEF ClientStep, ClientReserve, ClientReserveFails, ClientTrack, ClientDropped,
                     chainVars, CountsCall
<1>7. CASE (\E p \in Payment : Relay(p) \/ Regossip(p)) \/ Lag
  BY <1>7, Zenon DEF Relay, Regossip, Lag, chainVars, CountsCall
<1> QED
  BY <1>1, <1>2, <1>3, <1>4, <1>5, <1>6, <1>7, Zenon DEF CallStep, SendStep

\* One block was appended to the chain.
LEMMA ChainGrows ==
    ASSUME Inv, Height < setup.height, NEW b \in BlocksOver(Image, Height + 1),
           chain' = Appended(chain, b), setup' = setup, issued' = issued
    PROVE  /\ Fits(b, Image, Height + 1)
           /\ chain' \in Seq(Link) /\ Len(chain') = Len(chain) + 1
           /\ Height' = Height + 1 /\ Height' <= setup'.height
           /\ \A i \in 1 .. Len(chain) : chain'[i] = chain[i]
           /\ chain'[Len(chain')].txs = b.txs
           /\ \A i \in 1 .. Len(chain') : chain'[i].txs \subseteq issued'
           /\ Image' = Over(Over(Mints(b.txs, b.rewards, Height + 1),
                                 [s \in InSlotsOf(b.txs) |-> Empty]), Image)
<1>1. /\ chain \in Seq(Link) /\ Len(chain) \in Nat /\ 1 <= Len(chain)
      /\ setup.height \in Nat /\ \A i \in 1 .. Len(chain) : chain[i].txs \subseteq issued
  BY ChainTypes, Zenon
<1>2. Height + 1 = Len(chain) /\ Height + 1 \in Nat /\ Len(chain) <= setup.height
  BY <1>1 DEF Height
<1>3. Fits(b, Last(chain).image, Len(chain))
  BY <1>2, BlocksFit, Zenon DEF Image
<1>4. /\ chain' \in Seq(Link) /\ Len(chain') = Len(chain) + 1
      /\ Last(chain').image = Over(Over(Mints(b.txs, b.rewards, Len(chain)),
                                        [s \in InSlotsOf(b.txs) |-> Empty]), Last(chain).image)
      /\ \A i \in 1 .. Len(chain) : chain'[i] = chain[i]
      /\ chain'[Len(chain) + 1].txs = b.txs
  BY <1>1, <1>2, <1>3, AppendedFacts, Zenon
<1>5. Height' = Height + 1 /\ Height' <= setup'.height
  BY <1>1, <1>2, <1>4 DEF Height
<1>6. Image' = Over(Over(Mints(b.txs, b.rewards, Height + 1),
                         [s \in InSlotsOf(b.txs) |-> Empty]), Image)
  BY <1>2, <1>4, Zenon DEF Image
<1>7. \A i \in 1 .. Len(chain') : chain'[i].txs \subseteq issued'
  <2>1. SUFFICES ASSUME NEW i \in 1 .. Len(chain') PROVE chain'[i].txs \subseteq issued
    BY Zenon
  <2>2. b.txs \subseteq issued
    BY <1>3, Zenon DEF Fits
  <2>3. i \in 1 .. Len(chain) \/ i = Len(chain) + 1
    BY <1>1, <1>4, <2>1
  <2> QED
    BY <1>1, <1>4, <2>2, <2>3, Zenon
<1>8. Fits(b, Image, Height + 1)
  BY <1>2, <1>3, Zenon DEF Image
<1> QED
  BY <1>4, <1>5, <1>6, <1>7, <1>8, Zenon

\* A reorganisation replaced the last one or two blocks by two others: the chain
\* does not become shorter.
LEMMA ChainReorganised ==
    ASSUME Inv, Reorg, setup' = setup
    PROVE  /\ chain' \in Seq(Link) /\ Len(chain) <= Len(chain') /\ Height' <= setup'.height
           /\ \A i \in 1 .. Len(chain') : chain'[i].txs \subseteq issued'
           /\ issued' = issued
<1>1. /\ chain \in Seq(Link) /\ Len(chain) \in Nat /\ 1 <= Len(chain)
      /\ setup.height \in Nat /\ \A i \in 1 .. Len(chain) : chain[i].txs \subseteq issued
  BY ChainTypes, Zenon
<1> DEFINE base(d) == SubSeq(chain, 1, Len(chain) - d)
           none == [txs |-> {}, rewards |-> <<>>]
<1>2. PICK d \in 1 .. (IF Height < 2 THEN Height ELSE 2) :
          /\ Len(base(d)) + 1 <= setup.height
          /\ \E b \in BlocksOver(Last(base(d)).image, Len(base(d))) :
                chain' = Appended(Appended(base(d), b), none)
  BY Zenon DEF Reorg
<1>3. PICK b \in BlocksOver(Last(base(d)).image, Len(base(d))) :
          chain' = Appended(Appended(base(d), b), none)
  BY <1>2, Zenon
<1>4. d \in Nat /\ d < Len(chain) /\ d <= 2
  BY <1>1, <1>2 DEF Height
<1>5. /\ base(d) \in Seq(Link) /\ Len(base(d)) = Len(chain) - d
      /\ \A i \in 1 .. Len(base(d)) : base(d)[i] = chain[i]
  BY <1>1, <1>4, PrefixFacts, ZenonT(30)
<1> DEFINE first == Appended(base(d), b)
           m == Len(base(d))
<1>6. m \in Nat /\ 1 <= m /\ m + 1 <= setup.height /\ m = Len(chain) - d
  BY <1>1, <1>2, <1>4, <1>5
<1>7. Fits(b, Last(base(d)).image, m)
  BY <1>3, <1>6, BlocksFit, Zenon
<1>8. /\ first \in Seq(Link) /\ Len(first) = m + 1
      /\ \A i \in 1 .. m : first[i] = base(d)[i]
      /\ first[m + 1].txs = b.txs
  <2>1. m <= setup.height
    BY <1>1, <1>6
  <2> QED
    BY <1>5, <1>6, <1>7, <2>1, AppendedFacts, Zenon
<1>9. \A i \in 1 .. m + 1 : first[i].txs \subseteq issued
  <2>1. SUFFICES ASSUME NEW i \in 1 .. m + 1 PROVE first[i].txs \subseteq issued
    BY Zenon
  <2>2. b.txs \subseteq issued
    BY <1>7, Zenon DEF Fits
  <2>3. (i \in 1 .. m /\ i \in 1 .. Len(chain)) \/ i = m + 1
    BY <1>1, <1>4, <1>6, <2>1
  <2> QED
    BY <1>1, <1>5, <1>8, <2>2, <2>3, Zenon
<1> HIDE DEF first, m, none
<1>10. chain' = Appended(first, none)
  BY <1>3, Zenon DEF first
<1>11. /\ chain' \in Seq(Link) /\ Len(chain') = m + 2
       /\ \A i \in 1 .. m + 1 : chain'[i] = first[i]
       /\ chain'[m + 2].txs = {}
  <2>1. Fits(none, Last(first).image, Len(first)) /\ none.txs = {}
    BY EmptyFits, Zenon DEF none
  <2>2. Len(first) = m + 1 /\ 1 <= Len(first) /\ Len(first) <= setup.height
        /\ Len(first) + 1 = m + 2
    BY <1>6, <1>8
  <2>3. /\ Appended(first, none) \in Seq(Link)
        /\ Len(Appended(first, none)) = Len(first) + 1
        /\ \A i \in 1 .. Len(first) : Appended(first, none)[i] = first[i]
        /\ Appended(first, none)[Len(first) + 1].txs = none.txs
    BY <1>8, <2>1, <2>2, AppendedFacts, Zenon
  <2> QED
    BY <1>10, <2>1, <2>2, <2>3, Zenon
<1>12. issued' = issued
  BY Zenon DEF Reorg
<1>13. \A i \in 1 .. Len(chain') : chain'[i].txs \subseteq issued'
  <2>1. SUFFICES ASSUME NEW i \in 1 .. Len(chain') PROVE chain'[i].txs \subseteq issued
    BY <1>12, Zenon
  <2>a. Len(chain') = m + 2 /\ m \in Nat
    BY <1>6, <1>11, Zenon
  <2>2. i \in 1 .. m + 1 \/ i = m + 2
    BY <2>a, <2>1
  <2> QED
    BY <1>9, <1>11, <2>2, Zenon
<1>14. Len(chain) <= Len(chain') /\ Height' <= setup'.height
  BY <1>1, <1>4, <1>6, <1>11 DEF Height
<1> QED
  BY <1>11, <1>12, <1>13, <1>14, Zenon
\* What a change of the chain does to the counters and to the chain itself.
LEMMA ChainChanges ==
    ASSUME Inv, AcceptBlock \/ Reorg \/ Jump \/ Restart, setup' = setup
    PROVE  ChainInv' /\ issued' = issued /\ body' = body /\ Height <= Height'
           /\ \A n \in {"reorgs", "jumps", "restarts", "saves", "reads", "lags"} :
                 used[n] <= used'[n]
<1>1. /\ chain \in Seq(Link) /\ Len(chain) \in Nat /\ 1 <= Len(chain)
      /\ setup \in SetupType /\ setup.height \in Nat
      /\ Height <= setup.height
      /\ \A i \in 1 .. Len(chain) : chain[i].txs \subseteq issued
  BY ChainTypes, Zenon
<1> DEFINE UsedType ==
             [reorgs : Nat, jumps : Nat, restarts : Nat, saves : Nat, reads : Nat, lags : Nat]
<1>2. used \in UsedType
  BY Zenon DEF Inv, ChainInv
<1>3. /\ issued' = issued /\ body' = body
  BY Zenon DEF AcceptBlock, Reorg, Jump, Restart, chainVars, callVars
<1>4. /\ used' \in UsedType
      /\ \A n \in {"reorgs", "jumps", "restarts", "saves", "reads", "lags"} : used[n] <= used'[n]
  <2>1. CASE AcceptBlock
    BY <1>2, <2>1 DEF AcceptBlock
  <2>2. CASE Reorg
    <3>1. used' = [used EXCEPT !.reorgs = @ + 1, !.reads = IF loaded' THEN @ ELSE @ + 1]
      BY <2>2, Zenon DEF Reorg
    <3>2. PICK r \in Nat : r = (IF loaded' THEN used.reads ELSE used.reads + 1)
      BY <1>2
    <3>3. used.reads <= r
      BY <1>2, <3>2
    <3>4. used' = [reorgs |-> used.reorgs + 1, jumps |-> used.jumps,
                   restarts |-> used.restarts, saves |-> used.saves, reads |-> r,
                   lags |-> used.lags]
      BY <1>2, <3>1, <3>2, Zenon
    <3>5. used' \in UsedType
      BY <1>2, <3>4
    <3> QED
      BY <1>2, <3>3, <3>4, <3>5
  <2>3. CASE Jump
    <3>1. used' = [used EXCEPT !.jumps = @ + 1, !.reads = IF loaded' THEN @ ELSE @ + 1]
      BY <2>3, Zenon DEF Jump
    <3>2. PICK r \in Nat : r = (IF loaded' THEN used.reads ELSE used.reads + 1)
      BY <1>2
    <3>3. used.reads <= r
      BY <1>2, <3>2
    <3>4. used' = [reorgs |-> used.reorgs, jumps |-> used.jumps + 1,
                   restarts |-> used.restarts, saves |-> used.saves, reads |-> r,
                   lags |-> used.lags]
      BY <1>2, <3>1, <3>2, Zenon
    <3>5. used' \in UsedType
      BY <1>2, <3>4
    <3> QED
      BY <1>2, <3>3, <3>4, <3>5
  <2>4. CASE Restart
    <3>1. used' = [used EXCEPT !.restarts = @ + 1]
      BY <2>4, Zenon DEF Restart
    <3> QED
      BY <1>2, <3>1
  <2> QED
    BY <2>1, <2>2, <2>3, <2>4, Zenon
<1>5. /\ chain' \in Seq(Link) /\ Len(chain) <= Len(chain') /\ Height' <= setup'.height
      /\ \A i \in 1 .. Len(chain') : chain'[i].txs \subseteq issued'
  <2>1. CASE Reorg
    BY <2>1, ChainReorganised, Zenon
  <2>2. CASE Height < setup.height /\ \E b \in BlocksOver(Image, Height + 1) :
                                         chain' = Appended(chain, b)
    <3>1. PICK b \in BlocksOver(Image, Height + 1) : chain' = Appended(chain, b)
      BY <2>2, Zenon
    <3>2. /\ chain' \in Seq(Link) /\ Len(chain') = Len(chain) + 1 /\ Height' <= setup'.height
          /\ \A i \in 1 .. Len(chain') : chain'[i].txs \subseteq issued'
      BY <1>3, <2>2, <3>1, ChainGrows, Zenon
    <3>3. Len(chain) <= Len(chain')
      BY <1>1, <3>2
    <3> QED
      BY <3>2, <3>3, Zenon
  <2>3. CASE UNCHANGED chain
    BY <1>1, <1>3, <2>3 DEF Height
  <2> QED
    BY <2>1, <2>2, <2>3, Zenon DEF AcceptBlock, Jump, Restart
<1>6. Height <= Height' /\ 1 <= Len(chain')
  <2>1. Len(chain') \in Nat
    BY <1>5
  <2> QED
    BY <1>1, <1>5, <2>1 DEF Height
<1>7. ChainInv'
  <2>1. Link' = Link
    BY Zenon DEF Link, Contents
  <2> QED
    BY <1>1, <1>4, <1>5, <1>6, <2>1, Zenon DEF ChainInv
<1> QED
  BY <1>3, <1>4, <1>6, <1>7, Zenon

\* The chain stays typed, and its payments issued, through a call.
LEMMA CallChainInv ==
    ASSUME Inv, CallStep, setup' = setup
    PROVE  ChainInv'
<1>1. /\ chain' = chain /\ issued \subseteq issued'
      /\ CountsCall
  BY CallKeepsChain, Zenon
<1>2. used' \in [reorgs : Nat, jumps : Nat, restarts : Nat, saves : Nat, reads : Nat, lags : Nat]
  BY <1>1 DEF Inv, ChainInv, CountsCall
<1>3. chain' \in Seq(Link') /\ 1 <= Len(chain') /\ Height' <= setup'.height
  BY <1>1, Zenon DEF Inv, ChainInv, Height, Link, Contents
<1>4. \A i \in 1 .. Len(chain') : chain'[i].txs \subseteq issued'
  BY <1>1, Zenon DEF Inv, ChainInv
<1> QED
  BY <1>2, <1>3, <1>4, Zenon DEF Inv, ChainInv

\* Coin selection builds a body from free coins the cache shows.
LEMMA SelectsBuilds ==
    ASSUME Inv, NEW p \in Payment, NEW coins, NEW s \in Slot, Selects(p, coins, s)
    PROVE  /\ body[p] = NoBody
           /\ body' = [body EXCEPT ![p] = [ins |-> Restrict(utxos, coins), out |-> s,
                                           at |-> Height]]
           /\ body'[p].ins = Restrict(utxos, coins) /\ body'[p].out = s /\ body'[p].at = Height
           /\ DOMAIN body'[p].ins = coins /\ coins # {}
           /\ coins \subseteq DOMAIN utxos
           /\ \A x \in coins : body'[p].ins[x] = utxos[x]
           /\ \A q \in Payment : q # p => body'[q] = body[q]
           /\ body' = [q \in Payment |-> body'[q]]
           /\ body'[p] # NoBody
<1>1. /\ body[p] = NoBody /\ coins \subseteq FreeCoins /\ coins # {}
      /\ body' = [body EXCEPT ![p] = [ins |-> Restrict(utxos, coins), out |-> s, at |-> Height]]
  BY Zenon DEF Selects
<1>2. body = [q \in Payment |-> body[q]]
  BY Zenon DEF Inv, BodyInv
<1> DEFINE new == [ins |-> Restrict(utxos, coins), out |-> s, at |-> Height]
<1>3. new.ins = Restrict(utxos, coins) /\ new.out = s /\ new.at = Height
  BY Zenon
<1>4. DOMAIN new.ins = coins /\ \A x \in coins : new.ins[x] = utxos[x]
  BY <1>3, Zenon DEF Restrict
<1> HIDE DEF new
<1>5. /\ body' = [q \in Payment |-> IF q = p THEN new ELSE body[q]]
  BY <1>1, <1>2, Zenon DEF new
<1>6. body'[p] = new
  BY <1>5, Zenon
<1>7. DOMAIN NoBody.ins = {}
  BY DEF NoBody
<1> QED
  BY <1>1, <1>3, <1>4, <1>5, <1>6, <1>7, Zenon DEF FreeCoins
-----------------------------------------------------------------------------
(* Bodies and calls. *)

\* The height is a number, and stands where the chain does.
LEMMA HeightFacts ==
    ASSUME ChainInv
    PROVE  Height \in Nat /\ Height <= setup.height /\ setup.height \in Nat
           /\ setup.window \in Nat /\ Image \in [Slot -> Contents]
<1>1. chain \in Seq(Link) /\ 1 <= Len(chain) /\ Len(chain) \in Nat
  BY DEF ChainInv
<1>2. Height \in Nat
  BY <1>1 DEF Height
<1>3. Last(chain) \in Link
  BY <1>1 DEF Last
<1>4. Image \in [Slot -> Contents]
  BY <1>3, Zenon DEF Image, Link
<1> QED
  BY <1>2, <1>4, Zenon DEF ChainInv, SetupType

\* Bodies stay while none is built and the chain does not become shorter.
LEMMA BodyFrame ==
    ASSUME Inv, ChainInv', body' = body, Height <= Height',
           issued' \subseteq {p \in Payment : body[p] # NoBody},
           pool' \subseteq issued' \intersect Send, events' \subseteq Send /\ lost' \subseteq Send
    PROVE  BodyInv'
<1>1. Height \in Nat /\ Height' \in Nat
  BY HeightFacts DEF Inv, ChainInv, Height
<1>2. ASSUME NEW p \in Payment, body[p] # NoBody PROVE Built(body[p])'
  <2>1. Built(body[p])
    BY <1>2, Zenon DEF Inv, BodyInv
  <2>2. body[p].at \in Nat /\ body[p].at <= Height
    BY <2>1, Zenon DEF Built
  <2>3. body[p].at <= Height'
    BY <1>1, <2>2
  <2> QED
    BY <2>1, <2>3, Zenon DEF Built
<1>3. body' = [p \in Payment |-> body'[p]]
  BY Zenon DEF Inv, BodyInv
<1> QED
  BY <1>2, <1>3, Zenon DEF BodyInv

\* A selection adds one body.
LEMMA BodySelects ==
    ASSUME Inv, NEW p \in Payment, NEW coins, NEW s \in Slot, Selects(p, coins, s),
           UNCHANGED <<chain, issued, pool, events, lost>>
    PROVE  BodyInv'
<1>1. /\ body[p] = NoBody
      /\ body'[p].ins = Restrict(utxos, coins) /\ body'[p].out = s /\ body'[p].at = Height
      /\ DOMAIN body'[p].ins = coins /\ coins # {}
      /\ coins \subseteq DOMAIN utxos
      /\ \A x \in coins : body'[p].ins[x] = utxos[x]
      /\ \A q \in Payment : q # p => body'[q] = body[q]
      /\ body' = [q \in Payment |-> body'[q]]
      /\ body'[p] # NoBody
  BY SelectsBuilds, ZenonT(30)
<1>2. Height \in Nat /\ Height' = Height
  BY HeightFacts, Zenon DEF Inv, Height
<1>3. DOMAIN utxos \subseteq Slot /\ \A x \in DOMAIN utxos : Owned(utxos[x])
  BY Zenon DEF Inv, CacheInv
<1>4. Built(body'[p])
  <2>1. body'[p].at \in Nat /\ body'[p].at <= Height
    BY <1>1, <1>2
  <2> QED
    BY <1>1, <1>3, <2>1, Zenon DEF Built
<1>5. ASSUME NEW q \in Payment, body'[q] # NoBody PROVE Built(body[q])'
  <2>1. Built(body'[q])
    <3>1. CASE q = p
      BY <1>4, <3>1, Zenon
    <3>2. CASE q # p
      BY <1>1, <1>5, <3>2, Zenon DEF Inv, BodyInv
    <3> QED
      BY <3>1, <3>2, Zenon
  <2> QED
    BY <1>2, <2>1, Zenon DEF Built
<1>6. issued' \subseteq {q \in Payment : body'[q] # NoBody}
  BY <1>1, Zenon DEF Inv, BodyInv
<1>7. pool' \subseteq issued' \intersect Send /\ events' \subseteq Send /\ lost' \subseteq Send
  BY Zenon DEF Inv, BodyInv
<1> QED
  BY <1>1, <1>5, <1>6, <1>7, Zenon DEF BodyInv

\* A send that proves or has reserved holds a payment; so does a build.
LEMMA HeldPayments ==
    ASSUME Inv
    PROVE  /\ op.step \in {"proving", "reserved"} =>
                 op.tx \in Send /\ op.tx # NoPayment /\ body[op.tx] # NoBody /\ op.tx \notin issued
           /\ op.step \notin {"proving", "reserved"} => op.tx = NoPayment
           /\ build.step # "idle" =>
                 /\ build.tx \in Client /\ build.tx # NoPayment
                 /\ body[build.tx] # NoBody /\ build.tx \notin issued
<1>1. /\ op.step \in {"idle", "loaded", "proving", "reserved"} /\ op.tx \in Send \union {NoPayment}
      /\ op.tx = NoPayment <=> op.step \in {"idle", "loaded"}
      /\ op.tx # NoPayment => body[op.tx] # NoBody /\ op.tx \notin issued
      /\ build.tx \in Client \union {NoPayment} /\ (build.tx = NoPayment <=> build.step = "idle")
      /\ build.tx # NoPayment => body[build.tx] # NoBody /\ build.tx \notin issued
  BY Zenon DEF Inv, CallInv, OpInv, BuildInv
<1> QED
  BY <1>1, Zenon

\* A call keeps the bodies sound.
LEMMA CallBodyInv ==
    ASSUME Inv, CallStep, ChainInv'
    PROVE  BodyInv'
<1>1. chain' = chain /\ Height' = Height /\ Height \in Nat /\ Height <= Height'
  <2>1. chain' = chain
    BY CallKeepsChain, Zenon
  <2>2. Height \in Nat
    BY HeightFacts, Zenon DEF Inv
  <2> QED
    BY <2>1, <2>2 DEF Height
<1>2. /\ issued \subseteq {p \in Payment : body[p] # NoBody}
      /\ pool \subseteq issued \intersect Send /\ events \subseteq Send /\ lost \subseteq Send
  BY Zenon DEF Inv, BodyInv
<1>3. CASE UNCHANGED <<body, issued, pool, events, lost>>
  BY <1>1, <1>2, <1>3, BodyFrame, Zenon
<1>4. CASE SendAdmit
  <2>1. /\ op.step = "reserved" /\ pool' = pool \union {op.tx}
        /\ issued' = issued \union {op.tx} /\ body' = body /\ events' = events /\ lost' = lost
    BY <1>4, Zenon DEF SendAdmit
  <2>2. op.tx \in Send /\ body[op.tx] # NoBody
    BY <2>1, HeldPayments, Zenon
  <2>3. op.tx \in Payment
    BY <2>2, Zenon DEF Payment
  <2> QED
    BY <1>1, <1>2, <2>1, <2>2, <2>3, BodyFrame, Zenon
<1>5. CASE ClientTrack
  <2>1. /\ build.step = "reserved" /\ issued' = issued \union {build.tx}
        /\ body' = body /\ pool' = pool /\ events' = events /\ lost' = lost
    BY <1>5, Zenon DEF ClientTrack, poolVars
  <2>2. build.tx \in Client /\ body[build.tx] # NoBody
    BY <2>1, HeldPayments, Zenon
  <2>3. build.tx \in Payment
    BY <2>2, Zenon DEF Payment
  <2> QED
    BY <1>1, <1>2, <2>1, <2>2, <2>3, BodyFrame, Zenon
<1>6. CASE \E p \in Payment : Relay(p) \/ Regossip(p)
  <2>1. PICK p \in Payment : Relay(p) \/ Regossip(p)
    BY <1>6, Zenon
  <2>2. CASE Relay(p)
    <3>1. /\ events' = events \ {p} /\ lost' = lost
          /\ pool' = pool /\ issued' = issued /\ body' = body
      BY <2>2, Zenon DEF Relay, chainVars, callVars
    <3> QED
      BY <1>1, <1>2, <3>1, BodyFrame, Zenon
  <2>3. CASE Regossip(p)
    <3>1. /\ p \in issued \intersect Send /\ pool' = pool \union {p} /\ events' = events
          /\ lost' = lost \ {p} /\ issued' = issued /\ body' = body
      BY <2>3, Zenon DEF Regossip, chainVars, callVars
    <3> QED
      BY <1>1, <1>2, <3>1, BodyFrame, Zenon
  <2> QED
    BY <2>1, <2>2, <2>3, Zenon
<1>7. CASE \E p \in Send : SendSelect(p)
  <2>1. PICK p \in Send : SendSelect(p)
    BY <1>7, Zenon
  <2>2. PICK coins \in SUBSET DOMAIN utxos, s \in Slot : Selects(p, coins, s)
    BY <2>1, Zenon DEF SendSelect
  <2>3. p \in Payment /\ UNCHANGED <<chain, issued, pool, events, lost>>
    BY <2>1, Zenon DEF SendSelect, Payment, chainVars, poolVars
  <2> QED
    BY <2>2, <2>3, BodySelects, Zenon
<1>8. CASE \E p \in Client : ClientSelect(p)
  <2>1. PICK p \in Client : ClientSelect(p)
    BY <1>8, Zenon
  <2>2. PICK coins \in SUBSET DOMAIN utxos, s \in Slot : Selects(p, coins, s)
    BY <2>1, Zenon DEF ClientSelect
  <2>3. p \in Payment /\ UNCHANGED <<chain, issued, pool, events, lost>>
    BY <2>1, Zenon DEF ClientSelect, Payment, chainVars, poolVars
  <2> QED
    BY <2>2, <2>3, BodySelects, Zenon
<1>9. CASE Scan \/ SendBegin \/ ReleaseExpired \/ SendReserve \/ SendReserveFails
           \/ SendRefused \/ SendDropped
  <2>1. UNCHANGED <<body, issued, pool, events, lost>>
    BY <1>9, Zenon DEF Scan, SendBegin, ReleaseExpired, SendReserve, SendReserveFails,
                       SendRefused, SendDropped, chainVars, poolVars, callVars
  <2> QED
    BY <1>3, <2>1, Zenon
<1>10. CASE ClientReserve \/ ClientReserveFails \/ ClientDropped
  <2>1. UNCHANGED <<body, issued, pool, events, lost>>
    BY <1>10, Zenon DEF ClientReserve, ClientReserveFails, ClientDropped, chainVars, poolVars
  <2> QED
    BY <1>3, <2>1, Zenon
<1>11. CASE Lag
  <2>1. /\ events' \subseteq events /\ lost' \subseteq lost \union events
        /\ pool' = pool /\ issued' = issued /\ body' = body
    BY <1>11, Zenon DEF Lag, chainVars, callVars
  <2> QED
    BY <1>1, <1>2, <2>1, BodyFrame, Zenon
<1> QED
  BY <1>4, <1>5, <1>6, <1>7, <1>8, <1>9, <1>10, <1>11, Zenon DEF CallStep, SendStep, ClientStep

\* So does a change of the chain, after which the pool holds a part of what it
\* held and announces the rest.
LEMMA ChainBodyInv ==
    ASSUME Inv, AcceptBlock \/ Reorg \/ Jump \/ Restart, setup' = setup
    PROVE  BodyInv'
<1>1. ChainInv' /\ issued' = issued /\ body' = body /\ Height <= Height'
  BY ChainChanges, Zenon
<1>2. /\ issued \subseteq {p \in Payment : body[p] # NoBody}
      /\ pool \subseteq issued \intersect Send /\ events \subseteq Send /\ lost \subseteq Send
  BY Zenon DEF Inv, BodyInv
<1>3. pool' \subseteq pool /\ events' \subseteq events \union pool /\ lost' \subseteq lost
  <2>1. ASSUME NEW confirmed, NEW blocks, PoolFollows(confirmed, blocks)
        PROVE  pool' \subseteq pool /\ events' \subseteq events \union pool /\ lost' \subseteq lost
    BY <2>1, Zenon DEF PoolFollows
  <2>2. CASE AcceptBlock
    BY <2>1, <2>2, Zenon DEF AcceptBlock, PoolFollows
  <2>3. CASE Reorg
    BY <2>1, <2>3, Zenon DEF Reorg, PoolFollows
  <2>4. CASE Jump
    BY <2>1, <2>4, Zenon DEF Jump, PoolFollows
  <2>5. CASE Restart
    BY <2>5, Zenon DEF Restart
  <2> QED
    BY <2>2, <2>3, <2>4, <2>5, Zenon
<1>4. pool' \subseteq issued' \intersect Send /\ events' \subseteq Send /\ lost' \subseteq Send
  BY <1>1, <1>2, <1>3, Zenon
<1> QED
  BY <1>1, <1>2, <1>4, BodyFrame, Zenon

\* No payment both is sent and travels with an object.
LEMMA PaymentFacts ==
    /\ Send \subseteq Payment /\ Client \subseteq Payment /\ Consolidation \subseteq Send
    /\ \A p \in Send : p \notin Client /\ p # NoPayment
    /\ \A p \in Client : p # NoPayment
BY WalletConstants, Zenon DEF WalletConstants, Payment

\* An idle call holds nothing, and neither does one that may try again.
LEMMA OpIdle ==
    ASSUME NEW n \in Nat,
           op' \in {Idle, [step |-> "loaded", tx |-> NoPayment, tries |-> n]}
    PROVE  OpInv'
BY PaymentFacts DEF OpInv, Idle

LEMMA BuildIdle ==
    ASSUME build' = Idle
    PROVE  BuildInv'
BY PaymentFacts, Zenon DEF BuildInv, Idle

\* A call keeps what it holds while bodies are only added and nobody hands its
\* payment out.
LEMMA OpKept ==
    ASSUME Inv, op' = op, chain' = chain,
           \A q \in Payment : body[q] # NoBody => body'[q] = body[q],
           op.tx # NoPayment => op.tx \notin issued'
    PROVE  OpInv'
<1>1. OpInv
  BY Zenon DEF Inv, CallInv
<1>2. CASE op.tx = NoPayment
  BY <1>1, <1>2, Zenon DEF OpInv
<1>3. CASE op.tx # NoPayment
  <2>1. op.tx \in Payment /\ body[op.tx] # NoBody
    BY <1>1, <1>3, PaymentFacts, Zenon DEF OpInv
  <2>2. body'[op.tx] = body[op.tx]
    BY <2>1, Zenon
  <2>3. \A s \in InSlots(op.tx)' : Image'[s] = body'[op'.tx].ins[s]
    BY <1>1, <1>3, <2>2, Zenon DEF OpInv, InSlots, Image
  <2> QED
    BY <1>1, <1>3, <2>1, <2>2, <2>3, Zenon DEF OpInv
<1> QED
  BY <1>2, <1>3, Zenon

LEMMA BuildKept ==
    ASSUME Inv, build' = build,
           \A q \in Payment : body[q] # NoBody => body'[q] = body[q],
           build.tx # NoPayment => build.tx \notin issued'
    PROVE  BuildInv'
<1>1. BuildInv
  BY Zenon DEF Inv, CallInv
<1>2. build.tx # NoPayment => build.tx \in Payment
  BY <1>1, PaymentFacts, Zenon DEF BuildInv
<1> QED
  BY <1>1, <1>2, Zenon DEF BuildInv

\* A selection touches one body, that of a payment not built before.
LEMMA SelectsOne ==
    ASSUME Inv, NEW p \in Payment, NEW coins, NEW s \in Slot, Selects(p, coins, s)
    PROVE  /\ \A q \in Payment : body[q] # NoBody => body'[q] = body[q]
           /\ body[p] = NoBody /\ p \notin issued
<1>1. body[p] = NoBody /\ \A q \in Payment : q # p => body'[q] = body[q]
  BY SelectsBuilds, ZenonT(30)
<1> QED
  BY <1>1, Zenon DEF Inv, BodyInv

\* The send steps.
LEMMA SendOpInv ==
    ASSUME Inv, SendBegin \/ SendStep
    PROVE  OpInv' /\ BuildInv'
<1>0. OpInv /\ BuildInv /\ setup.attempts \in Nat
  BY Zenon DEF Inv, CallInv, ChainInv, SetupType
<1>1. /\ op.tx \in Send \union {NoPayment} /\ op.tries \in Nat
      /\ build.tx \in Client \union {NoPayment}
      /\ op.tx # NoPayment => op.tx \notin issued
      /\ build.tx # NoPayment => build.tx \notin issued
      /\ op = [step |-> op.step, tx |-> op.tx, tries |-> op.tries]
  BY <1>0, Zenon DEF OpInv, BuildInv
<1>2. CASE SendBegin
  <2>1. op' = [step |-> "loaded", tx |-> NoPayment, tries |-> 0] /\ build' = build
        /\ body' = body /\ issued' = issued
    BY <1>2, Zenon DEF SendBegin, Idle, chainVars
  <2> QED
    BY <1>1, <2>1, OpIdle, BuildKept, Zenon
<1>3. ASSUME NEW p \in Send, SendSelect(p) PROVE OpInv' /\ BuildInv'
  <2>1. PICK coins \in SUBSET DOMAIN utxos, s \in Slot : Selects(p, coins, s)
    BY <1>3, Zenon DEF SendSelect
  <2>2. /\ op.step = "loaded" /\ op' = [step |-> "proving", tx |-> p, tries |-> op.tries + 1]
        /\ chain' = chain /\ issued' = issued /\ build' = build
    BY <1>3, Zenon DEF SendSelect, chainVars
  <2>3. p \in Payment /\ p # NoPayment
    BY PaymentFacts, Zenon
  <2>4. /\ \A q \in Payment : body[q] # NoBody => body'[q] = body[q]
        /\ body[p] = NoBody /\ p \notin issued
    BY <2>1, <2>3, SelectsOne, Zenon
  <2>5. /\ DOMAIN body'[p].ins = coins /\ coins \subseteq DOMAIN utxos
        /\ \A x \in coins : body'[p].ins[x] = utxos[x]
        /\ body'[p] # NoBody
    BY <2>1, <2>3, SelectsBuilds, Zenon
  <2>6. utxos = OwnedCoins(Image)
    BY <2>2, Zenon DEF Inv, CacheInv
  <2>7. \A x \in DOMAIN utxos : utxos[x] = Image[x]
    BY <2>6, OwnedFacts, Zenon
  <2>8. \A x \in DOMAIN body'[p].ins : Image'[x] = body'[p].ins[x]
    BY <2>2, <2>5, <2>7, Zenon DEF Image
  <2>9. op'.tx = p /\ op'.step = "proving"
        /\ op' \in [step : {"idle", "loaded", "proving", "reserved"},
                    tx : Send \union {NoPayment}, tries : Nat]
    BY <1>1, <2>2
  <2>10. OpInv'
    BY <2>2, <2>3, <2>4, <2>5, <2>8, <2>9, Zenon DEF OpInv, InSlots
  <2> QED
    BY <1>1, <2>2, <2>4, <2>10, BuildKept, Zenon
<1>4. CASE SendReserve
  <2>1. /\ op.step = "proving" /\ op' = [step |-> "reserved", tx |-> op.tx, tries |-> op.tries]
        /\ build' = build /\ body' = body /\ issued' = issued /\ chain' = chain
    BY <1>1, <1>4, Zenon DEF SendReserve, chainVars
  <2>2. op'.tx = op.tx /\ op'.step = "reserved" /\ op.tx # NoPayment
        /\ op' \in [step : {"idle", "loaded", "proving", "reserved"},
                    tx : Send \union {NoPayment}, tries : Nat]
    BY <1>0, <1>1, <2>1, Zenon DEF OpInv
  <2>3. \A s \in InSlots(op.tx)' : Image'[s] = body'[op.tx].ins[s]
    BY <1>0, <2>1, <2>2, Zenon DEF OpInv, InSlots, Image
  <2>4. OpInv'
    BY <1>0, <2>1, <2>2, <2>3, Zenon DEF OpInv
  <2> QED
    BY <1>1, <2>1, <2>4, BuildKept, Zenon
<1>5. CASE SendReserveFails \/ SendDropped
  <2>1. op' = Idle /\ build' = build /\ body' = body /\ issued' = issued
    BY <1>5, Zenon DEF SendReserveFails, SendDropped, chainVars
  <2> QED
    BY <1>1, <2>1, OpIdle, BuildKept, Zenon
<1>6. CASE SendAdmit
  <2>1. op' = Idle /\ build' = build /\ body' = body /\ issued' = issued \union {op.tx}
    BY <1>6, Zenon DEF SendAdmit
  <2>2. build.tx # NoPayment => build.tx \notin issued'
    BY <1>1, <2>1, PaymentFacts, Zenon
  <2> QED
    BY <2>1, <2>2, OpIdle, BuildKept, Zenon
<1>7. CASE SendRefused
  <2>1. /\ op' \in {Idle, [step |-> "loaded", tx |-> NoPayment, tries |-> op.tries]}
        /\ build' = build /\ body' = body /\ issued' = issued
    BY <1>1, <1>7, Zenon DEF SendRefused, chainVars
  <2> QED
    BY <1>1, <2>1, OpIdle, BuildKept, Zenon
<1> QED
  BY <1>2, <1>3, <1>4, <1>5, <1>6, <1>7, Zenon DEF SendStep

\* The steps of a build.
LEMMA ClientCallInv ==
    ASSUME Inv, (\E p \in Client : ClientSelect(p)) \/ ClientStep
    PROVE  OpInv' /\ BuildInv'
<1>0. OpInv /\ BuildInv
  BY Zenon DEF Inv, CallInv
<1>1. /\ op.tx \in Send \union {NoPayment} /\ build.tx \in Client \union {NoPayment}
      /\ op.tx # NoPayment => op.tx \notin issued
      /\ build.tx # NoPayment => build.tx \notin issued
      /\ build.tries \in Nat
      /\ build = [step |-> build.step, tx |-> build.tx, tries |-> build.tries]
  BY <1>0, Zenon DEF OpInv, BuildInv
<1>2. ASSUME NEW p \in Client, ClientSelect(p) PROVE OpInv' /\ BuildInv'
  <2>1. PICK coins \in SUBSET DOMAIN utxos, s \in Slot : Selects(p, coins, s)
    BY <1>2, Zenon DEF ClientSelect
  <2>2. /\ build' = [step |-> "proving", tx |-> p, tries |-> 1]
        /\ chain' = chain /\ issued' = issued /\ op' = op
    BY <1>2, Zenon DEF ClientSelect, chainVars
  <2>3. p \in Payment /\ p # NoPayment
    BY PaymentFacts, Zenon
  <2>4. /\ \A q \in Payment : body[q] # NoBody => body'[q] = body[q]
        /\ p \notin issued
    BY <2>1, <2>3, SelectsOne, Zenon
  <2>5. body'[p] # NoBody
    BY <2>1, <2>3, SelectsBuilds, Zenon
  <2>6. BuildInv'
    BY <2>2, <2>3, <2>4, <2>5, Zenon DEF BuildInv
  <2> QED
    BY <1>1, <2>2, <2>4, <2>6, OpKept, Zenon
<1>3. CASE ClientReserve
  <2>1. /\ build.step = "proving"
        /\ build' = [step |-> "reserved", tx |-> build.tx, tries |-> build.tries]
        /\ op' = op /\ body' = body /\ issued' = issued /\ chain' = chain
    BY <1>1, <1>3, Zenon DEF ClientReserve, chainVars
  <2>2. BuildInv'
    BY <1>0, <1>1, <2>1, Zenon DEF BuildInv
  <2> QED
    BY <1>1, <2>1, <2>2, OpKept, Zenon
<1>4. CASE ClientReserveFails \/ ClientDropped
  <2>1. build' = Idle /\ op' = op /\ body' = body /\ issued' = issued /\ chain' = chain
    BY <1>4, Zenon DEF ClientReserveFails, ClientDropped, chainVars
  <2> QED
    BY <1>1, <2>1, OpKept, BuildIdle, Zenon
<1>5. CASE ClientTrack
  <2>1. /\ build' = Idle /\ op' = op /\ body' = body /\ chain' = chain
        /\ issued' = issued \union {build.tx} /\ build.step = "reserved"
    BY <1>5, Zenon DEF ClientTrack
  <2>2. op.tx # NoPayment => op.tx \notin issued'
    <3>1. build.tx \in Client
      BY <2>1, HeldPayments, Zenon
    <3> QED
      BY <1>1, <2>1, <3>1, PaymentFacts, Zenon
  <2> QED
    BY <2>1, <2>2, OpKept, BuildIdle, Zenon
<1> QED
  BY <1>2, <1>3, <1>4, <1>5, Zenon DEF ClientStep

\* Every call leaves the calls sound.
LEMMA CallCallInv ==
    ASSUME Inv, CallStep
    PROVE  CallInv'
<1>1. CASE Scan \/ ReleaseExpired \/ (\E p \in Payment : Relay(p) \/ Regossip(p)) \/ Lag
  <2>1. op' = op /\ build' = build /\ body' = body /\ issued' = issued /\ chain' = chain
    BY <1>1, Zenon DEF Scan, ReleaseExpired, Relay, Regossip, Lag, chainVars, callVars
  <2>2. OpInv /\ BuildInv
    BY Zenon DEF Inv, CallInv
  <2>3. /\ op.tx # NoPayment => op.tx \notin issued'
        /\ build.tx # NoPayment => build.tx \notin issued'
    BY <2>1, <2>2, Zenon DEF OpInv, BuildInv
  <2> QED
    BY <2>1, <2>3, OpKept, BuildKept, Zenon DEF CallInv
<1> QED
  BY <1>1, SendOpInv, ClientCallInv, Zenon DEF CallInv, CallStep

\* The chain changes only while no send is under way.
LEMMA ChainCallInv ==
    ASSUME Inv, AcceptBlock \/ Reorg \/ Jump \/ Restart
    PROVE  CallInv'
<1>0. OpInv /\ BuildInv
  BY Zenon DEF Inv, CallInv
<1>1. CASE Restart
  BY <1>1, OpIdle, BuildIdle, Zenon DEF CallInv, Restart
<1>2. CASE AcceptBlock \/ Reorg \/ Jump
  <2>1. /\ op.step = "idle" /\ op' = op /\ build' = build /\ body' = body
        /\ issued' = issued
    BY <1>2, Zenon DEF AcceptBlock, Reorg, Jump, GateFree, callVars
  <2>2. op.tx = NoPayment
    BY <2>1, HeldPayments, Zenon
  <2>3. OpInv'
    BY <1>0, <2>1, <2>2, Zenon DEF OpInv
  <2>4. BuildInv'
    BY <1>0, <2>1, BuildKept, Zenon DEF BuildInv
  <2> QED
    BY <2>3, <2>4, Zenon DEF CallInv
<1> QED
  BY <1>1, <1>2, Zenon

-----------------------------------------------------------------------------
(* The cache. *)

\* A reload shows the owner index of the tip.
LEMMA CacheLoaded ==
    ASSUME ChainInv', utxos' = OwnedCoins(Image'), loaded' = TRUE
    PROVE  CacheInv'
<1>1. chain' \in Seq(Link') /\ 1 <= Len(chain')
  BY Zenon DEF ChainInv
<1>2. Last(chain') \in Link'
  BY <1>1 DEF Last
<1>3. DOMAIN Image' = Slot
  BY <1>2, Zenon DEF Image, Link
<1> QED
  BY <1>3, OwnedFacts, ZenonT(30) DEF CacheInv

\* A call that reads the cache leaves it.
LEMMA CacheKept ==
    ASSUME Inv, UNCHANGED cacheVars, chain' = chain, used'.reads = used.reads,
           op'.step # "idle" => op.step # "idle"
    PROVE  CacheInv'
BY Zenon DEF Inv, CacheInv, cacheVars, Image

\* Every call keeps the cache.
LEMMA CallCacheInv ==
    ASSUME Inv, CallStep, setup' = setup
    PROVE  CacheInv'
<1>1. chain' = chain /\ Image' = Image
  BY CallKeepsChain, Zenon DEF Image
<1>2. used'.reads = used.reads
  BY CallKeepsChain, Zenon DEF Inv, ChainInv, CountsCall
<1>3. CASE Scan \/ SendBegin
  <2>1. utxos' = OwnedCoins(Image) /\ loaded' = TRUE
    BY <1>3, Zenon DEF Scan, SendBegin, Activate
  <2> QED
    BY <1>1, <2>1, CallChainInv, CacheLoaded, Zenon
<1>4. CASE SendStep
  <2>1. UNCHANGED cacheVars
    BY <1>4, Zenon DEF SendStep, SendSelect, SendReserve, SendReserveFails, SendAdmit,
                       SendRefused, SendDropped, walletVars
  <2>2. op.step # "idle"
    BY <1>4, Zenon DEF SendStep, SendSelect, SendReserve, SendReserveFails, SendAdmit,
                SendRefused, SendDropped
  <2> QED
    BY <1>1, <1>2, <2>1, <2>2, CacheKept, Zenon
<1>5. CASE (\E p \in Client : ClientSelect(p)) \/ ClientStep \/ ReleaseExpired
           \/ (\E p \in Payment : Relay(p) \/ Regossip(p)) \/ Lag
  <2>1. UNCHANGED cacheVars /\ op' = op
    BY <1>5, Zenon DEF ClientSelect, ClientStep, ClientReserve, ClientReserveFails, ClientTrack,
                       ClientDropped, ReleaseExpired, Relay, Regossip, Lag, walletVars, callVars
  <2> QED
    BY <1>1, <1>2, <2>1, CacheKept, Zenon
<1> QED
  BY <1>3, <1>4, <1>5, Zenon DEF CallStep

\* The block's delta on the owned coins of the tip before it gives those of the tip
\* after it: what is minted took empty slots, and what is spent is gone.
LEMMA DeltaIsReload ==
    ASSUME Inv, Height < setup.height, NEW b \in BlocksOver(Image, Height + 1),
           chain' = Appended(chain, b), setup' = setup, issued' = issued, body' = body,
           utxos = OwnedCoins(Image)
    PROVE  Over(RestrictValues(Mints(b.txs, b.rewards, Height + 1), Owned), KeepsUnspent(b.txs))
              = OwnedCoins(Image')
<1> DEFINE mints == Mints(b.txs, b.rewards, Height + 1)
           spent == InSlotsOf(b.txs)
           gone == [s \in spent |-> Empty]
           ours == RestrictValues(mints, Owned)
           kept == KeepsUnspent(b.txs)
<1>1. Height + 1 \in Nat /\ Height + 1 <= setup.height /\ Image \in [Slot -> Contents]
  <2>1. Height \in Nat /\ setup.height \in Nat /\ Image \in [Slot -> Contents]
    BY HeightFacts, Zenon DEF Inv
  <2> QED
    BY <2>1
<1>2. Fits(b, Image, Height + 1) /\ Image' = Over(Over(mints, gone), Image)
  BY ChainGrows, Zenon
<1>3. /\ DOMAIN mints \subseteq Slot /\ \A s \in DOMAIN mints : Image[s] = Empty
      /\ spent \subseteq Slot
  BY <1>1, <1>2, MintFacts, Zenon
<1>4. /\ DOMAIN utxos = {s \in Slot : Owned(Image[s])}
      /\ \A s \in DOMAIN utxos : utxos[s] = Image[s]
  BY <1>1, OwnedFacts, Zenon
<1>5. /\ DOMAIN ours = {s \in DOMAIN mints : Owned(mints[s])}
      /\ \A s \in DOMAIN ours : ours[s] = mints[s]
  BY Zenon DEF RestrictValues, Restrict
<1>6. /\ DOMAIN kept = DOMAIN utxos \ spent
      /\ \A s \in DOMAIN kept : kept[s] = utxos[s]
  BY Zenon DEF KeepsUnspent, Restrict
<1>7. DOMAIN gone = spent /\ \A s \in spent : gone[s] = Empty
  BY Zenon
<1> HIDE DEF mints, spent, gone, ours, kept
<1>8. /\ DOMAIN Image' = Slot
      /\ \A s \in Slot : Image'[s] = IF s \in DOMAIN mints THEN mints[s]
                                     ELSE IF s \in spent THEN Empty ELSE Image[s]
  BY <1>1, <1>2, <1>3, <1>7, Zenon DEF Over
<1>9. ~ Owned(Empty)
  BY EmptyNotOwned, Zenon
<1>10. DOMAIN Over(ours, kept) = {s \in Slot : Owned(Image'[s])}
  <2>1. DOMAIN Over(ours, kept) = DOMAIN ours \union DOMAIN kept
    BY Zenon DEF Over
  <2>2. ASSUME NEW s \in Slot
        PROVE  s \in DOMAIN ours \union DOMAIN kept <=> Owned(Image'[s])
    BY <1>3, <1>4, <1>5, <1>6, <1>8, <1>9, Zenon
  <2>3. DOMAIN ours \union DOMAIN kept \subseteq Slot
    BY <1>3, <1>4, <1>5, <1>6, Zenon
  <2> QED
    BY <2>1, <2>2, <2>3, Zenon
<1>11. ASSUME NEW s \in DOMAIN Over(ours, kept) PROVE Over(ours, kept)[s] = Image'[s]
  <2>1. CASE s \in DOMAIN ours
    BY <1>3, <1>5, <1>8, <2>1, Zenon DEF Over
  <2>2. CASE s \notin DOMAIN ours
    <3>1. s \in DOMAIN kept /\ Over(ours, kept)[s] = kept[s]
      BY <2>2, Zenon DEF Over
    <3>2. s \in Slot /\ s \notin spent /\ kept[s] = Image[s] /\ Owned(Image[s])
      BY <1>4, <1>6, <3>1, Zenon
    <3> QED
      BY <1>3, <1>8, <1>9, <3>1, <3>2, Zenon
  <2> QED
    BY <2>1, <2>2, Zenon
<1>12. Over(ours, kept) = [s \in {x \in Slot : Owned(Image'[x])} |-> Image'[s]]
  <2>1. Over(ours, kept) = [s \in DOMAIN Over(ours, kept) |-> Over(ours, kept)[s]]
    BY Zenon DEF Over
  <2> QED
    BY <1>10, <1>11, <2>1, Zenon
<1> QED
  BY <1>8, <1>12, OwnedFacts, Zenon DEF ours, kept, mints

\* A cache that was invalidated says nothing.
LEMMA CacheInvalid ==
    ASSUME utxos' = <<>>, loaded' = FALSE, op'.step = "idle", used'.reads # 0
    PROVE  CacheInv'
<1>1. DOMAIN utxos' = {}
  OBVIOUS
<1> QED
  BY <1>1, Zenon DEF CacheInv

\* Every change of the chain keeps the cache.
LEMMA ChainCacheInv ==
    ASSUME Inv, AcceptBlock \/ Reorg \/ Jump \/ Restart, setup' = setup
    PROVE  CacheInv'
<1>1. ChainInv'
  BY ChainChanges, Zenon
<1>2. used.reads \in Nat
  BY UsedFacts, Zenon
<1>3. CASE AcceptBlock
  <2>1. PICK b \in BlocksOver(Image, Height + 1) : chain' = Appended(chain, b) /\ UpdateForBlock(b)
    BY <1>3, Zenon DEF AcceptBlock
  <2>2. /\ Height < setup.height /\ issued' = issued /\ body' = body /\ used' = used
        /\ op' = op /\ op.step = "idle"
    BY <1>3, Zenon DEF AcceptBlock, GateFree, callVars
  <2> DEFINE mints == Mints(b.txs, b.rewards, Height + 1)
             ours == RestrictValues(mints, Owned)
             kept == KeepsUnspent(b.txs)
  <2>3. utxos' = Over(ours, kept) /\ loaded' = TRUE
    BY <2>1, Zenon DEF UpdateForBlock
  <2>4. CASE used.reads = 0
    <3>1. utxos = OwnedCoins(Image)
      BY <2>4, Zenon DEF Inv, CacheInv
    <3>2. utxos' = OwnedCoins(Image')
      BY <2>1, <2>2, <2>3, <3>1, DeltaIsReload, Zenon
    <3> QED
      BY <1>1, <2>3, <3>2, CacheLoaded, Zenon
  <2>5. CASE used.reads # 0
    <3>1. Height + 1 \in Nat /\ Height + 1 <= setup.height /\ Image \in [Slot -> Contents]
      <4>1. Height \in Nat /\ setup.height \in Nat /\ Image \in [Slot -> Contents]
        BY HeightFacts, Zenon DEF Inv
      <4> QED
        BY <2>2, <4>1
    <3>2. Fits(b, Image, Height + 1)
      BY <2>1, <2>2, ChainGrows, Zenon
    <3>3. DOMAIN mints \subseteq Slot
      BY <3>1, <3>2, MintFacts, Zenon
    <3>4. DOMAIN utxos \subseteq Slot /\ \A s \in DOMAIN utxos : Owned(utxos[s])
      BY Zenon DEF Inv, CacheInv
    <3>5. DOMAIN ours \subseteq DOMAIN mints /\ \A s \in DOMAIN ours : Owned(ours[s])
      BY Zenon DEF RestrictValues, Restrict
    <3>6. DOMAIN kept \subseteq DOMAIN utxos /\ \A s \in DOMAIN kept : kept[s] = utxos[s]
      BY Zenon DEF KeepsUnspent, Restrict
    <3> HIDE DEF ours, kept, mints
    <3>7. DOMAIN utxos' = DOMAIN ours \union DOMAIN kept
          /\ \A s \in DOMAIN utxos' : utxos'[s] = IF s \in DOMAIN ours THEN ours[s] ELSE kept[s]
      BY <2>3, Zenon DEF Over
    <3>8. DOMAIN utxos' \subseteq Slot
      BY <3>3, <3>4, <3>5, <3>6, <3>7, Zenon
    <3>9. ASSUME NEW s \in DOMAIN utxos' PROVE Owned(utxos'[s])
      BY <3>4, <3>5, <3>6, <3>7, Zenon
    <3> QED
      BY <2>2, <2>3, <2>5, <3>8, <3>9, Zenon DEF CacheInv
  <2> QED
    BY <2>4, <2>5, Zenon
<1>4. CASE Reorg
  <2>1. \/ utxos' = OwnedCoins(Last(chain').image) /\ loaded' = TRUE
        \/ utxos' = <<>> /\ loaded' = FALSE
    BY <1>4, Zenon DEF Reorg, InstallReorg, Invalidate
  <2>2. op'.step = "idle"
    BY <1>4, Zenon DEF Reorg, GateFree, callVars
  <2>3. loaded' = FALSE => used'.reads = used.reads + 1
    BY <1>4, Zenon DEF Reorg, Inv, ChainInv
  <2>4. loaded' = FALSE => used'.reads # 0
    BY <1>2, <2>3
  <2> QED
    BY <1>1, <2>1, <2>2, <2>4, CacheLoaded, CacheInvalid, Zenon DEF Image
<1>5. CASE Jump
  <2>1. \/ utxos' = OwnedCoins(Last(chain').image) /\ loaded' = TRUE
        \/ utxos' = <<>> /\ loaded' = FALSE
    BY <1>5, Zenon DEF Jump, Invalidate
  <2>2. op'.step = "idle"
    BY <1>5, Zenon DEF Jump, GateFree, callVars
  <2>3. loaded' = FALSE => used'.reads = used.reads + 1
    BY <1>5, Zenon DEF Jump, Inv, ChainInv
  <2>4. loaded' = FALSE => used'.reads # 0
    BY <1>2, <2>3
  <2> QED
    BY <1>1, <2>1, <2>2, <2>4, CacheLoaded, CacheInvalid, Zenon DEF Image
<1>6. CASE Restart
  <2>1. utxos' = OwnedCoins(Image') /\ loaded' = TRUE
    BY <1>6, Zenon DEF Restart, Image
  <2> QED
    BY <1>1, <2>1, CacheLoaded, Zenon
<1> QED
  BY <1>3, <1>4, <1>5, <1>6, Zenon

-----------------------------------------------------------------------------
(* The reservations and the record. *)

\* A payment that has a body spends and fills slots.
LEMMA BodySlots ==
    ASSUME Inv, NEW p \in Payment, body[p] # NoBody
    PROVE  InSlots(p) \subseteq Slot /\ body[p].out \in Slot
BY Zenon DEF Inv, BodyInv, Built, InSlots

\* Releasing, reserving and confirming keep the types.
LEMMA ReleaseTypes ==
    ASSUME Inv, NEW txs, Release(txs)
    PROVE  BookTypes'
<1>1. BookTypes
  BY Zenon DEF Inv, BookInv
<1>2. history' \in Records
  BY <1>1, Zenon DEF Release, WithoutPending, Records, BookTypes
<1>3. disk' \in Records
  BY <1>1, <1>2, Zenon DEF Release, BookTypes
<1>4. /\ pendingIn' \subseteq pendingIn /\ pendingOut' \subseteq pendingOut
      /\ tracked' \subseteq tracked
  BY Zenon DEF Release
<1> QED
  BY <1>1, <1>2, <1>3, <1>4, Zenon DEF BookTypes, Records

LEMMA ReserveTypes ==
    ASSUME Inv, NEW p \in Payment, body[p] # NoBody, ReserveInMemory(p), disk' \in {disk, history'}
    PROVE  BookTypes'
<1>1. BookTypes
  BY Zenon DEF Inv, BookInv
<1>2. InSlots(p) \subseteq Slot /\ body[p].out \in Slot
  BY BodySlots, Zenon
<1>3. history' \in Records
  BY <1>1, Zenon DEF ReserveInMemory, Records, BookTypes
<1>4. disk' \in Records
  BY <1>1, <1>3, Zenon DEF BookTypes
<1>5. pendingIn' \subseteq Slot /\ pendingOut' \subseteq Slot /\ tracked' \subseteq Payment
  BY <1>1, <1>2, Zenon DEF ReserveInMemory, BookTypes
<1> QED
  BY <1>3, <1>4, <1>5, Zenon DEF BookTypes, Records

LEMMA ConfirmTypes ==
    ASSUME Inv, NEW ids, NEW record \in Records, Confirm(ids, record)
    PROVE  history' \in Records /\ disk' \in Records /\ tracked' \subseteq Payment
<1>1. BookTypes
  BY Zenon DEF Inv, BookInv
<1>2. history' \in Records
  BY Zenon DEF Confirm, Records
<1> QED
  BY <1>1, <1>2, Zenon DEF Confirm, BookTypes

\* Calls keep the types.
LEMMA CallBookTypes ==
    ASSUME Inv, CallStep, setup' = setup
    PROVE  BookTypes'
<1>1. BookTypes
  BY Zenon DEF Inv, BookInv
<1>2. CASE UNCHANGED <<slotVars, bookVars>>
  BY <1>1, <1>2, Zenon DEF BookTypes, slotVars, bookVars, Records
<1>3. CASE Scan \/ SendBegin
  <2>1. DOMAIN utxos' \subseteq Slot
    BY CallCacheInv, Zenon DEF CacheInv
  <2>2. /\ pendingIn' \subseteq DOMAIN utxos' /\ pendingOut' \subseteq pendingOut
        /\ UNCHANGED bookVars
    BY <1>3, Zenon DEF Scan, SendBegin, Activate
  <2> QED
    BY <1>1, <2>1, <2>2, Zenon DEF BookTypes, bookVars, Records
<1>4. CASE (\E p \in Send : SendSelect(p)) \/ SendAdmit
  <2>1. UNCHANGED <<slotVars, bookVars>>
    BY <1>4, Zenon DEF SendSelect, SendAdmit, walletVars
  <2> QED
    BY <1>2, <2>1, Zenon
<1>5. CASE SendReserve \/ SendReserveFails
  <2>1. op.step = "proving" /\ ReserveInMemory(op.tx) /\ disk' \in {disk, history'}
    BY <1>5, Zenon DEF SendReserve, SendReserveFails, Reserve
  <2>2. op.tx \in Payment /\ body[op.tx] # NoBody
    BY <2>1, HeldPayments, PaymentFacts, Zenon
  <2> QED
    BY <2>1, <2>2, ReserveTypes, Zenon
<1>6. CASE SendRefused \/ SendDropped
  <2>1. Release({op.tx}) \/ UNCHANGED <<slotVars, bookVars>>
    BY <1>6, Zenon DEF SendRefused, SendDropped
  <2> QED
    BY <1>2, <2>1, ReleaseTypes, Zenon
<1>7. CASE (\E p \in Client : ClientSelect(p)) \/ ClientTrack \/ ClientDropped
  <2>1. UNCHANGED <<slotVars, bookVars>>
    BY <1>7, Zenon DEF ClientSelect, ClientTrack, ClientDropped, walletVars
  <2> QED
    BY <1>2, <2>1, Zenon
<1>8. CASE ClientReserve \/ ClientReserveFails
  <2>1. build.step = "proving" /\ ReserveInMemory(build.tx) /\ disk' \in {disk, history'}
    BY <1>8, Zenon DEF ClientReserve, ClientReserveFails, Reserve
  <2>2. build.tx \in Payment /\ body[build.tx] # NoBody
    BY <2>1, HeldPayments, PaymentFacts, Zenon
  <2> QED
    BY <2>1, <2>2, ReserveTypes, Zenon
<1>9. CASE ReleaseExpired \/ (\E p \in Payment : Relay(p) \/ Regossip(p)) \/ Lag
  <2>1. (\E txs : Release(txs)) \/ UNCHANGED <<slotVars, bookVars>>
    BY <1>9, Zenon DEF ReleaseExpired, Relay, Regossip, Lag, ReleaseDropped, walletVars
  <2> QED
    BY <1>2, <2>1, ReleaseTypes, Zenon
<1> QED
  BY <1>3, <1>4, <1>5, <1>6, <1>7, <1>8, <1>9, Zenon DEF CallStep, SendStep, ClientStep

\* So do changes of the chain.
LEMMA ChainBookTypes ==
    ASSUME Inv, AcceptBlock \/ Reorg \/ Jump \/ Restart, setup' = setup
    PROVE  BookTypes'
<1>1. BookTypes
  BY Zenon DEF Inv, BookInv
<1>2. DOMAIN utxos' \subseteq Slot
  BY ChainCacheInv, Zenon DEF CacheInv
<1>3. CASE AcceptBlock
  <2>1. PICK b : UpdateForBlock(b)
    BY <1>3, Zenon DEF AcceptBlock
  <2> DEFINE ours == {p \in b.txs : InSlots(p) \intersect DOMAIN utxos # {}}
             noted == [p \in Payment |->
                          IF p \in ours /\ history[p] = "none" THEN "mined" ELSE history[p]]
  <2>2. noted \in Records
    BY <1>1, Zenon DEF Records, BookTypes
  <2>3. /\ pendingIn' \subseteq pendingIn /\ pendingOut' \subseteq pendingOut
        /\ Confirm(b.txs, noted)
    BY <2>1, Zenon DEF UpdateForBlock
  <2> HIDE DEF noted
  <2>4. history' \in Records /\ disk' \in Records /\ tracked' \subseteq Payment
    BY <2>2, <2>3, ConfirmTypes, Zenon
  <2> QED
    BY <1>1, <2>3, <2>4, Zenon DEF BookTypes, Records
<1>4. CASE Reorg
  <2>1. (\E bl, re, tx, fi : InstallReorg(bl, re, tx, fi)) \/ (Invalidate /\ UNCHANGED bookVars)
    BY <1>4, Zenon DEF Reorg
  <2>2. CASE Invalidate /\ UNCHANGED bookVars
    BY <1>1, <2>2, Zenon DEF BookTypes, bookVars, Records, Invalidate
  <2>3. ASSUME NEW bl, NEW re, NEW tx, NEW fi, InstallReorg(bl, re, tx, fi) PROVE BookTypes'
    <3> DEFINE record == [p \in Payment |->
                             IF p \in re /\ history[p] # "none" THEN "pending" ELSE history[p]]
               ids == {p \in Payment : \E q \in tx : PageId(q) = p}
    <3>1. record \in Records
      BY <1>1, Zenon DEF Records, BookTypes
    <3>2. /\ pendingIn' \subseteq DOMAIN utxos' /\ pendingOut' \subseteq pendingOut
          /\ Confirm(ids, record)
      BY <2>3, Zenon DEF InstallReorg
    <3> HIDE DEF record, ids
    <3>3. history' \in Records /\ disk' \in Records /\ tracked' \subseteq Payment
      BY <3>1, <3>2, ConfirmTypes, Zenon
    <3> QED
      BY <1>1, <1>2, <3>2, <3>3, Zenon DEF BookTypes, Records
  <2> QED
    BY <2>1, <2>2, <2>3, Zenon
<1>5. CASE Jump
  <2>1. pendingIn' \subseteq Slot /\ pendingOut' \subseteq pendingOut /\ UNCHANGED bookVars
    BY <1>2, <1>5, Zenon DEF Jump, Invalidate
  <2> QED
    BY <1>1, <2>1, Zenon DEF BookTypes, bookVars, Records
<1>6. CASE Restart
  <2>1. Reconciled(chain') \in Records
    BY <1>1, Zenon DEF Reconciled, Records, BookTypes
  <2>2. /\ history' = Reconciled(chain') /\ disk' = history'
        /\ pendingIn' = {} /\ pendingOut' = {} /\ tracked' = {}
    BY <1>6, Zenon DEF Restart
  <2> QED
    BY <2>1, <2>2, Zenon DEF BookTypes, Records
<1> QED
  BY <1>3, <1>4, <1>5, <1>6, Zenon

\* A step after which nothing was disturbed started from such a state.
LEMMA StaysUndisturbed ==
    ASSUME Inv, Next, Undisturbed'
    PROVE  Undisturbed /\ ~ Restart /\ ~ Reorg /\ ~ SendReserveFails /\ ~ ClientReserveFails
<1>1. /\ used.saves \in Nat /\ used.restarts \in Nat /\ used.reorgs \in Nat
      /\ used'.saves = 0 /\ used'.restarts = 0 /\ used'.reorgs = 0
  BY UsedFacts, Zenon DEF Undisturbed
<1>2. ASSUME AcceptBlock \/ Reorg \/ Jump \/ Restart PROVE Undisturbed
  <2>1. used.saves <= used'.saves /\ used.restarts <= used'.restarts
        /\ used.reorgs <= used'.reorgs
    BY <1>2, ChainChanges, Zenon DEF Next
  <2> QED
    BY <1>1, <2>1 DEF Undisturbed
<1>3. ASSUME CallStep PROVE Undisturbed
  <2>1. CountsCall
    BY <1>3, CallKeepsChain, Zenon
  <2>2. used \in [reorgs : Nat, jumps : Nat, restarts : Nat, saves : Nat, reads : Nat, lags : Nat]
    BY Zenon DEF Inv, ChainInv
  <2> QED
    BY <1>1, <2>1, <2>2 DEF Undisturbed, CountsCall
<1>4. Undisturbed
  BY <1>2, <1>3, Zenon DEF Next, CallStep
<1>5. used \in [reorgs : Nat, jumps : Nat, restarts : Nat, saves : Nat, reads : Nat, lags : Nat]
  BY Zenon DEF Inv, ChainInv
<1>6. ~ Restart
  BY <1>1, <1>5 DEF Restart
<1>7. ~ Reorg
  <2>1. SUFFICES ASSUME Reorg PROVE FALSE
    BY Zenon
  <2>2. used' = [used EXCEPT !.reorgs = @ + 1, !.reads = IF loaded' THEN @ ELSE @ + 1]
    BY <2>1, Zenon DEF Reorg
  <2>3. used'.reorgs = used.reorgs + 1
    BY <1>5, <2>2, Zenon
  <2> QED
    BY <1>1, <2>3
<1>8. ~ SendReserveFails /\ ~ ClientReserveFails
  BY <1>1, <1>5 DEF SendReserveFails, ClientReserveFails
<1> QED
  BY <1>4, <1>6, <1>7, <1>8, Zenon

\* What Settled says of a state nothing disturbed.
LEMMA SettledFacts ==
    ASSUME Inv, Undisturbed
    PROVE  /\ \A p \in Send : body[p] = NoBody => p \notin tracked /\ history[p] = "none"
           /\ op.step = "proving" => op.tx \notin tracked /\ history[op.tx] = "none"
           /\ \A p \in Send : p \in tracked <=> history[p] = "pending"
           /\ \A p \in Send : p \in tracked => InHand(p)
BY Zenon DEF Inv, BookInv, Settled

\* A step that settles no send leaves it in the hands of the call, of the pool, or
\* of an announcement.
LEMMA SettledKept ==
    ASSUME Inv, Undisturbed,
           \A p \in Send : (p \in tracked' <=> p \in tracked) /\ history'[p] = history[p],
           \A p \in Send : body'[p] = NoBody => body[p] = NoBody,
           op'.step = "proving" =>
              op'.tx \in Send /\ (body[op'.tx] = NoBody \/ (op.step = "proving" /\ op'.tx = op.tx)),
           \A p \in Send \intersect tracked :
              InHand(p) => InHand(p)'
    PROVE  Settled'
<1>1. /\ \A p \in Send : body[p] = NoBody => p \notin tracked /\ history[p] = "none"
      /\ op.step = "proving" => op.tx \notin tracked /\ history[op.tx] = "none"
      /\ \A p \in Send : p \in tracked <=> history[p] = "pending"
      /\ \A p \in Send : p \in tracked => InHand(p)
  BY SettledFacts, Zenon
<1>2. \A p \in Send : body'[p] = NoBody => p \notin tracked' /\ history'[p] = "none"
  BY <1>1, Zenon
<1>3. op'.step = "proving" => op'.tx \notin tracked' /\ history'[op'.tx] = "none"
  BY <1>1, Zenon
<1>4. \A p \in Send : p \in tracked' <=> history'[p] = "pending"
  BY <1>1, Zenon
<1>5. \A p \in Send : p \in tracked' => InHand(p)'
  BY <1>1, Zenon
<1> QED
  BY <1>2, <1>3, <1>4, <1>5, Zenon DEF Settled

\* What releasing does to the payments it is given, and that it leaves the others.
LEMMA ReleaseFacts ==
    ASSUME Inv, NEW txs, Release(txs)
    PROVE  /\ \A p \in Payment : p \in tracked' <=> p \in tracked /\ p \notin txs
           /\ \A p \in Payment : history'[p] =
                 IF p \in txs /\ history[p] = "pending" THEN "none" ELSE history[p]
BY Zenon DEF Release, WithoutPending

\* A send that gives up leaves neither a reservation nor a pending record.
LEMMA GivenUp ==
    ASSUME Inv, Undisturbed, Release({op.tx}), op.step = "reserved", op'.tx = NoPayment,
           op'.step # "proving", UNCHANGED <<body, pool, events, lost>>
    PROVE  Settled'
<1>1. /\ \A p \in Send : body[p] = NoBody => p \notin tracked /\ history[p] = "none"
      /\ \A p \in Send : p \in tracked <=> history[p] = "pending"
      /\ \A p \in Send : p \in tracked => InHand(p)
  BY SettledFacts, Zenon
<1>2. /\ \A p \in Send : p \in tracked' <=> p \in tracked /\ p # op.tx
      /\ \A p \in Send : history'[p] =
            IF p = op.tx /\ history[p] = "pending" THEN "none" ELSE history[p]
  BY ReleaseFacts, PaymentFacts, Zenon
<1>3. \A p \in Send : body'[p] = NoBody => p \notin tracked' /\ history'[p] = "none"
  BY <1>1, <1>2, Zenon
<1>4. \A p \in Send : p \in tracked' <=> history'[p] = "pending"
  BY <1>1, <1>2, Zenon
<1>5. \A p \in Send : p \in tracked' => InHand(p)'
  BY <1>1, <1>2, Zenon DEF InHand
<1> QED
  BY <1>3, <1>4, <1>5, Zenon DEF Settled

\* The steps of a send settle it or keep it in hand.
LEMMA SendSettled ==
    ASSUME Inv, Undisturbed, SendBegin \/ SendStep, ~ SendReserveFails
    PROVE  Settled'
<1>1. CASE SendBegin
  <2>1. /\ op.step = "idle" /\ op'.step = "loaded"
        /\ tracked' = tracked /\ history' = history /\ body' = body
        /\ pool' = pool /\ events' = events /\ lost' = lost
    BY <1>1, Zenon DEF SendBegin, GateFree, Idle, bookVars, poolVars
  <2>2. op.tx = NoPayment /\ NoPayment \notin Send
    BY <2>1, HeldPayments, PaymentFacts, Zenon
  <2> QED
    BY <2>1, <2>2, SettledKept, Zenon DEF InHand
<1>2. ASSUME NEW p \in Send, SendSelect(p) PROVE Settled'
  <2>1. PICK coins \in SUBSET DOMAIN utxos, s \in Slot : Selects(p, coins, s)
    BY <1>2, Zenon DEF SendSelect
  <2>2. /\ op.step = "loaded" /\ op'.step = "proving" /\ op'.tx = p
        /\ tracked' = tracked /\ history' = history
        /\ pool' = pool /\ events' = events /\ lost' = lost
    BY <1>2, Zenon DEF SendSelect, poolVars, walletVars, bookVars
  <2>3. p \in Payment /\ op.tx = NoPayment /\ NoPayment \notin Send
    BY <2>2, HeldPayments, PaymentFacts, Zenon
  <2>4. /\ \A q \in Payment : body[q] # NoBody => body'[q] = body[q]
        /\ body[p] = NoBody
    BY <2>1, <2>3, SelectsOne, Zenon
  <2>5. \A q \in Send : body'[q] = NoBody => body[q] = NoBody
    BY <2>4, PaymentFacts, Zenon
  <2> QED
    BY <2>2, <2>3, <2>4, <2>5, SettledKept, Zenon DEF InHand
<1>3. CASE SendReserve
  <2>1. /\ op.step = "proving" /\ ReserveInMemory(op.tx)
        /\ body' = body /\ pool' = pool /\ events' = events /\ lost' = lost
    BY <1>3, Zenon DEF SendReserve, Reserve, poolVars
  <2>2. op'.step = "reserved" /\ op'.tx = op.tx
    BY <1>3, Zenon DEF SendReserve, Inv, CallInv, OpInv
  <2>3. op.tx \in Send /\ op.tx \in Payment /\ body[op.tx] # NoBody
    BY <2>1, HeldPayments, PaymentFacts, Zenon
  <2>4. /\ \A p \in Send : body[p] = NoBody => p \notin tracked /\ history[p] = "none"
        /\ \A p \in Send : p \in tracked <=> history[p] = "pending"
        /\ \A p \in Send : p \in tracked => InHand(p)
    BY SettledFacts, Zenon
  <2>5. /\ tracked' = tracked \union {op.tx}
        /\ \A p \in Payment : history'[p] = IF p = op.tx THEN "pending" ELSE history[p]
    BY <2>1, <2>3, Zenon DEF ReserveInMemory, Inv, BookInv, BookTypes, Records
  <2>6. \A p \in Send : body'[p] = NoBody => p \notin tracked' /\ history'[p] = "none"
    BY <2>1, <2>3, <2>4, <2>5, PaymentFacts, Zenon
  <2>7. \A p \in Send : p \in tracked' <=> history'[p] = "pending"
    BY <2>4, <2>5, PaymentFacts, Zenon
  <2>8. \A p \in Send : p \in tracked' => InHand(p)'
    BY <2>1, <2>2, <2>4, <2>5, Zenon DEF InHand
  <2> QED
    BY <2>2, <2>6, <2>7, <2>8, Zenon DEF Settled
<1>4. CASE SendAdmit
  <2>1. /\ op'.step = "idle" /\ pool' = pool \union {op.tx} /\ events' = events /\ lost' = lost
        /\ tracked' = tracked /\ history' = history /\ body' = body
    BY <1>4, Zenon DEF SendAdmit, Idle, walletVars, bookVars
  <2> QED
    BY <2>1, SettledKept, Zenon DEF InHand
<1>5. CASE SendRefused
  <2>1. /\ op.step = "reserved" /\ Release({op.tx}) /\ UNCHANGED <<body, pool, events, lost>>
    BY <1>5, Zenon DEF SendRefused, poolVars
  <2>2. op'.tx = NoPayment /\ op'.step # "proving"
    BY <1>5, Zenon DEF SendRefused, Idle, Inv, CallInv, OpInv
  <2> QED
    BY <2>1, <2>2, GivenUp, Zenon
<1>6. CASE SendDropped
  <2>1. /\ op.step # "idle" /\ UNCHANGED <<body, pool, events, lost>>
        /\ op'.tx = NoPayment /\ op'.step # "proving"
    BY <1>6, Zenon DEF SendDropped, poolVars, Idle
  <2>2. CASE op.step = "reserved"
    <3>1. Release({op.tx})
      BY <1>6, <2>2, Zenon DEF SendDropped
    <3> QED
      BY <2>1, <2>2, <3>1, GivenUp, Zenon
  <2>3. CASE op.step # "reserved"
    <3>1. tracked' = tracked /\ history' = history
      BY <1>6, <2>3, Zenon DEF SendDropped, bookVars
    <3>2. op.tx \in Send => op.step = "proving"
      BY <2>1, <2>3, HeldPayments, PaymentFacts, Zenon DEF Inv, CallInv, OpInv
    <3>3. op.tx \in Send => op.tx \notin tracked
      BY <3>2, SettledFacts, Zenon
    <3> QED
      BY <2>1, <3>1, <3>3, SettledKept, Zenon DEF InHand
  <2> QED
    BY <2>2, <2>3, Zenon
<1> QED
  BY <1>1, <1>2, <1>3, <1>4, <1>5, <1>6, Zenon DEF SendStep

\* So do the other calls: a client payment is no send, and a release settles what it
\* releases.
LEMMA OtherSettled ==
    ASSUME Inv, Undisturbed, ~ ClientReserveFails,
           \/ Scan \/ (\E p \in Client : ClientSelect(p)) \/ ClientStep \/ ReleaseExpired
           \/ (\E p \in Payment : Relay(p) \/ Regossip(p)) \/ Lag
    PROVE  Settled'
<1>1. CASE Scan \/ ClientTrack \/ ClientDropped
  <2>1. op' = op /\ tracked' = tracked /\ history' = history /\ body' = body
        /\ pool' = pool /\ events' = events /\ lost' = lost
    BY <1>1, Zenon DEF Scan, ClientTrack, ClientDropped, bookVars, poolVars, callVars, walletVars
  <2>2. op.step = "proving" => op.tx \in Send
    BY HeldPayments, Zenon
  <2> QED
    BY <2>1, <2>2, SettledKept, Zenon DEF InHand
<1>2. ASSUME NEW p \in Client, ClientSelect(p) PROVE Settled'
  <2>1. PICK coins \in SUBSET DOMAIN utxos, s \in Slot : Selects(p, coins, s)
    BY <1>2, Zenon DEF ClientSelect
  <2>2. /\ op' = op /\ tracked' = tracked /\ history' = history
        /\ pool' = pool /\ events' = events /\ lost' = lost
    BY <1>2, Zenon DEF ClientSelect, poolVars, walletVars, bookVars
  <2>3. \A q \in Payment : body[q] # NoBody => body'[q] = body[q]
    BY <2>1, SelectsOne, PaymentFacts, Zenon
  <2>4. op.step = "proving" => op.tx \in Send
    BY HeldPayments, Zenon
  <2>5. \A q \in Send : body'[q] = NoBody => body[q] = NoBody
    BY <2>3, PaymentFacts, Zenon
  <2> QED
    BY <2>2, <2>4, <2>5, SettledKept, Zenon DEF InHand
<1>3. CASE ClientReserve
  <2>1. /\ build.step = "proving" /\ ReserveInMemory(build.tx)
        /\ op' = op /\ body' = body /\ pool' = pool /\ events' = events /\ lost' = lost
    BY <1>3, Zenon DEF ClientReserve, Reserve, poolVars
  <2>2. build.tx \in Client
    BY <2>1, HeldPayments, Zenon
  <2>3. /\ tracked' = tracked \union {build.tx}
        /\ \A p \in Payment : history'[p] = IF p = build.tx THEN "pending" ELSE history[p]
    BY <2>1, <2>2, PaymentFacts, Zenon DEF ReserveInMemory, Inv, BookInv, BookTypes, Records
  <2>4. \A p \in Send : (p \in tracked' <=> p \in tracked) /\ history'[p] = history[p]
    BY <2>2, <2>3, PaymentFacts, Zenon
  <2>5. op.step = "proving" => op.tx \in Send
    BY HeldPayments, Zenon
  <2> QED
    BY <2>1, <2>4, <2>5, SettledKept, Zenon DEF InHand
<1>4. CASE ReleaseExpired
  <2>1. PICK txs \in SUBSET DOMAIN paidAt : Release(txs \intersect tracked)
    BY <1>4, Zenon DEF ReleaseExpired, ReleaseDropped
  <2>2. op' = op /\ body' = body /\ pool' = pool /\ events' = events /\ lost' = lost
    BY <1>4, Zenon DEF ReleaseExpired, poolVars, callVars
  <2>3. \A p \in Send : p \notin txs
    BY PaymentFacts, Zenon DEF Inv, PaidInv
  <2>4. \A p \in Send : (p \in tracked' <=> p \in tracked) /\ history'[p] = history[p]
    BY <2>1, <2>3, ReleaseFacts, PaymentFacts
  <2>5. op.step = "proving" => op.tx \in Send
    BY HeldPayments, Zenon
  <2> QED
    BY <2>2, <2>4, <2>5, SettledKept, Zenon DEF InHand
<1>5. ASSUME NEW e \in Payment, Relay(e) PROVE Settled'
  <2>1. /\ Release({e} \intersect tracked) /\ events' = events \ {e} /\ lost' = lost
        /\ op' = op /\ body' = body /\ pool' = pool
    BY <1>5, Zenon DEF Relay, ReleaseDropped, callVars
  <2>2. /\ \A p \in Send : p \in tracked' <=> p \in tracked /\ p # e
        /\ \A p \in Send : history'[p] =
              IF p = e /\ p \in tracked /\ history[p] = "pending" THEN "none" ELSE history[p]
    BY <2>1, ReleaseFacts, PaymentFacts, Zenon
  <2>3. /\ \A p \in Send : body[p] = NoBody => p \notin tracked /\ history[p] = "none"
        /\ op.step = "proving" => op.tx \notin tracked /\ history[op.tx] = "none"
        /\ \A p \in Send : p \in tracked <=> history[p] = "pending"
        /\ \A p \in Send : p \in tracked => InHand(p)
    BY SettledFacts, Zenon
  <2>4. op.step = "proving" => op.tx \in Send
    BY HeldPayments, Zenon
  <2>5. \A p \in Send : body'[p] = NoBody => p \notin tracked' /\ history'[p] = "none"
    BY <2>1, <2>2, <2>3, Zenon
  <2>6. op'.step = "proving" => op'.tx \notin tracked' /\ history'[op'.tx] = "none"
    BY <2>1, <2>2, <2>3, <2>4, Zenon
  <2>7. \A p \in Send : p \in tracked' <=> history'[p] = "pending"
    BY <2>2, <2>3, Zenon
  <2>8. \A p \in Send : p \in tracked' => InHand(p)'
    BY <2>1, <2>2, <2>3, Zenon DEF InHand
  <2> QED
    BY <2>5, <2>6, <2>7, <2>8, Zenon DEF Settled
<1>6. ASSUME NEW e \in Payment, Regossip(e) PROVE Settled'
  <2>1. /\ op' = op /\ tracked' = tracked /\ history' = history /\ body' = body
        /\ pool' = pool \union {e} /\ events' = events /\ lost' = lost \ {e}
    BY <1>6, Zenon DEF Regossip, walletVars, bookVars, callVars
  <2>2. op.step = "proving" => op.tx \in Send
    BY HeldPayments, Zenon
  <2> QED
    BY <2>1, <2>2, SettledKept, Zenon DEF InHand
<1>7. CASE Lag
  <2>1. /\ op' = op /\ tracked' = tracked /\ history' = history /\ body' = body
        /\ pool' = pool /\ events' \union lost' = events \union lost
    BY <1>7, Zenon DEF Lag, walletVars, bookVars, callVars
  <2>2. op.step = "proving" => op.tx \in Send
    BY HeldPayments, Zenon
  <2>3. \A p \in Send \intersect tracked : InHand(p) => InHand(p)'
    BY <2>1 DEF InHand
  <2> QED
    BY <2>1, <2>2, <2>3, SettledKept, Zenon DEF InHand
<1> QED
  BY <1>1, <1>2, <1>3, <1>4, <1>5, <1>6, <1>7, Zenon DEF ClientStep

\* What a block does to the record of the payments: those in it are mined if they
\* spend a coin the cache shows or were pending, the others keep what they had.
LEMMA BlockRecords ==
    ASSUME Inv, NEW b, UpdateForBlock(b)
    PROVE  /\ \A p \in Payment : p \in tracked' <=>
                 p \in tracked /\ ~ (p \in b.txs /\ history[p] = "pending")
           /\ \A p \in Payment : history'[p] =
                 IF p \in b.txs /\ (history[p] = "pending"
                       \/ (history[p] = "none" /\ InSlots(p) \intersect DOMAIN utxos # {}))
                 THEN "mined" ELSE history[p]
<1> DEFINE ours == {p \in b.txs : InSlots(p) \intersect DOMAIN utxos # {}}
           noted == [p \in Payment |->
                        IF p \in ours /\ history[p] = "none" THEN "mined" ELSE history[p]]
<1>1. Confirm(b.txs, noted)
  BY Zenon DEF UpdateForBlock
<1>2. \A p \in Payment : noted[p] =
         IF p \in b.txs /\ history[p] = "none" /\ InSlots(p) \intersect DOMAIN utxos # {}
         THEN "mined" ELSE history[p]
  BY Zenon
<1> HIDE DEF noted
<1>3. /\ tracked' = tracked \ {p \in b.txs : noted[p] = "pending"}
      /\ \A p \in Payment : history'[p] =
            IF p \in b.txs /\ noted[p] = "pending" THEN "mined" ELSE noted[p]
  BY <1>1, Zenon DEF Confirm
<1>4. \A p \in Payment : noted[p] = "pending" <=> history[p] = "pending"
  BY <1>2, Zenon
<1>5. ASSUME NEW p \in Payment
      PROVE  p \in tracked' <=> p \in tracked /\ ~ (p \in b.txs /\ history[p] = "pending")
  BY <1>3, <1>4, Zenon
<1>6. ASSUME NEW p \in Payment
      PROVE  history'[p] =
                 IF p \in b.txs /\ (history[p] = "pending"
                       \/ (history[p] = "none" /\ InSlots(p) \intersect DOMAIN utxos # {}))
                 THEN "mined" ELSE history[p]
  BY <1>2, <1>3, Zenon
<1> QED
  BY <1>5, <1>6, Zenon

\* Blocks and jumps settle the sends they confirm; what they take out of the pool
\* is announced.
LEMMA ChainSettled ==
    ASSUME Inv, Undisturbed, AcceptBlock \/ Jump
    PROVE  Settled'
<1>1. /\ \A p \in Send : body[p] = NoBody => p \notin tracked /\ history[p] = "none"
      /\ \A p \in Send : p \in tracked <=> history[p] = "pending"
      /\ \A p \in Send : p \in tracked => InHand(p)
  BY SettledFacts, Zenon
<1>2. op.step = "idle" /\ op' = op /\ body' = body
  BY Zenon DEF AcceptBlock, Jump, GateFree, callVars
<1>3. op.tx = NoPayment /\ op.tx \notin Send
  BY <1>2, HeldPayments, PaymentFacts, Zenon
<1>4. ASSUME NEW confirmed, NEW blocks, PoolFollows(confirmed, blocks), NEW p,
             p \in pool \union events \union lost, p \notin confirmed
      PROVE  p \in pool' \union events' \union lost'
  BY <1>4, Zenon DEF PoolFollows
<1>5. CASE AcceptBlock
  <2>1. PICK b \in BlocksOver(Image, Height + 1) : UpdateForBlock(b) /\ PoolFollows(b.txs, chain')
    BY <1>5, Zenon DEF AcceptBlock
  <2>2. b.txs \subseteq issued
    <3>1. Height + 1 \in Nat
      BY HeightFacts DEF Inv
    <3> QED
      BY <2>1, <3>1, BlocksFit, Zenon DEF Fits
  <2>3. \A p \in b.txs : body[p] # NoBody
    BY <2>2, Zenon DEF Inv, BodyInv
  <2>4. /\ \A p \in Send : p \in tracked' <=>
              p \in tracked /\ ~ (p \in b.txs /\ history[p] = "pending")
        /\ \A p \in Send : history'[p] = history[p] \/ (p \in b.txs /\ history'[p] = "mined")
        /\ \A p \in Send : p \in b.txs /\ history[p] = "pending" => history'[p] = "mined"
    BY <2>1, BlockRecords, PaymentFacts, Zenon
  <2>5. \A p \in Send : body'[p] = NoBody => p \notin tracked' /\ history'[p] = "none"
    BY <1>1, <1>2, <2>3, <2>4, Zenon
  <2>6. \A p \in Send : p \in tracked' <=> history'[p] = "pending"
    BY <1>1, <2>4, Zenon
  <2>7. \A p \in Send : p \in tracked' => InHand(p)'
    <3>1. SUFFICES ASSUME NEW p \in Send, p \in tracked'
                   PROVE  p \in pool' \union events' \union lost'
      BY Zenon DEF InHand
    <3>2. p \notin b.txs /\ p \in pool \union events \union lost
      BY <1>1, <1>3, <2>4, <3>1, Zenon DEF InHand
    <3> QED
      BY <1>4, <2>1, <3>2, Zenon
  <2> QED
    BY <1>2, <2>5, <2>6, <2>7, Zenon DEF Settled
<1>6. CASE Jump
  <2>1. tracked' = tracked /\ history' = history /\ PoolFollows({}, chain')
    BY <1>6, Zenon DEF Jump, bookVars
  <2>2. \A p \in Send \intersect tracked :
           InHand(p) => InHand(p)'
    <3>1. SUFFICES ASSUME NEW p \in Send \intersect tracked, InHand(p)
                   PROVE  p \in pool' \union events' \union lost'
      BY Zenon DEF InHand
    <3>2. p \in pool \union events \union lost /\ p \notin {}
      BY <1>3, <3>1, Zenon DEF InHand
    <3> QED
      BY <1>4, <2>1, <3>2
  <2> QED
    BY <1>2, <2>1, <2>2, SettledKept, Zenon DEF InHand
<1> QED
  BY <1>5, <1>6, Zenon

\* A call never takes back that an issued payment was mined, nor makes it pending.
LEMMA CallHistory ==
    ASSUME Inv, CallStep, NEW p \in issued
    PROVE  history'[p] = history[p] \/ (history[p] = "pending" /\ history'[p] = "none")
<1>0. p \in Payment
  BY Zenon DEF Inv, BodyInv
<1>1. ASSUME NEW txs, Release(txs)
      PROVE  history'[p] = history[p] \/ (history[p] = "pending" /\ history'[p] = "none")
  BY <1>0, <1>1, ReleaseFacts, Zenon
<1>2. ASSUME NEW q \in Payment, q \notin issued, ReserveInMemory(q)
      PROVE  history'[p] = history[p]
  BY <1>0, <1>2, Zenon DEF ReserveInMemory, Inv, BookInv, BookTypes, Records
<1>3. CASE Scan \/ SendBegin \/ (\E q \in Send : SendSelect(q)) \/ SendAdmit
           \/ (\E q \in Client : ClientSelect(q)) \/ ClientTrack \/ ClientDropped
  <2>1. history' = history
    BY <1>3, Zenon DEF Scan, SendBegin, SendSelect, SendAdmit, ClientSelect, ClientTrack,
                       ClientDropped, walletVars, bookVars
  <2> QED
    BY <2>1, Zenon
<1>4. CASE SendReserve \/ SendReserveFails
  <2>1. op.step = "proving" /\ ReserveInMemory(op.tx)
    BY <1>4, Zenon DEF SendReserve, SendReserveFails, Reserve
  <2> QED
    BY <1>2, <2>1, HeldPayments, PaymentFacts, Zenon
<1>5. CASE ClientReserve \/ ClientReserveFails
  <2>1. build.step = "proving" /\ ReserveInMemory(build.tx)
    BY <1>5, Zenon DEF ClientReserve, ClientReserveFails, Reserve
  <2> QED
    BY <1>2, <2>1, HeldPayments, PaymentFacts, Zenon
<1>6. CASE SendRefused \/ SendDropped \/ ReleaseExpired
           \/ (\E q \in Payment : Relay(q) \/ Regossip(q)) \/ Lag
  <2>1. (\E txs : Release(txs)) \/ history' = history
    BY <1>6, Zenon DEF SendRefused, SendDropped, ReleaseExpired, Relay, Regossip, Lag,
                       ReleaseDropped, walletVars, bookVars
  <2> QED
    BY <1>1, <2>1, Zenon
<1> QED
  BY <1>3, <1>4, <1>5, <1>6, Zenon DEF CallStep, SendStep, ClientStep

\* Calls keep the record of the chain's payments.
LEMMA CallRecordInv ==
    ASSUME Inv, CallStep
    PROVE  RecordInv'
<1>1. /\ chain' = chain
      /\ CountsCall
  BY CallKeepsChain, Zenon
<1>2. /\ used'.reorgs = used.reorgs /\ used'.jumps = used.jumps
      /\ used'.restarts = used.restarts /\ used'.reads = used.reads
  BY <1>1, Zenon DEF Inv, ChainInv, CountsCall
<1>3. SUFFICES ASSUME used'.reorgs = 0, used'.jumps = 0
               PROVE  /\ used'.reads = 0
                      /\ \A i \in 1 .. Len(chain') : \A p \in chain'[i].txs :
                            \/ history'[p] = "mined"
                            \/ used'.restarts > 0 /\ (p \in Consolidation \/ history'[p] = "none")
  BY Zenon DEF RecordInv
<1>4. /\ used.reads = 0
      /\ \A i \in 1 .. Len(chain) : \A p \in chain[i].txs :
            \/ history[p] = "mined"
            \/ used.restarts > 0 /\ (p \in Consolidation \/ history[p] = "none")
  BY <1>2, <1>3, Zenon DEF Inv, RecordInv
<1>5. ASSUME NEW i \in 1 .. Len(chain), NEW p \in chain[i].txs
      PROVE  \/ history'[p] = "mined"
             \/ used'.restarts > 0 /\ (p \in Consolidation \/ history'[p] = "none")
  <2>1. p \in issued
    BY Zenon DEF Inv, ChainInv
  <2>2. history'[p] = history[p] \/ (history[p] = "pending" /\ history'[p] = "none")
    BY <2>1, CallHistory, Zenon
  <2> QED
    BY <1>2, <1>4, <1>5, <2>2, Zenon
<1> QED
  BY <1>1, <1>2, <1>4, <1>5, Zenon

\* The payments of a block are recorded when the cache is that of the tip: each
\* spends a coin the cache shows.
LEMMA BlockRecorded ==
    ASSUME Inv, used.reads = 0, NEW b \in BlocksOver(Image, Height + 1), UpdateForBlock(b),
           NEW p \in b.txs
    PROVE  p \in Payment /\ history'[p] = "mined"
<1>1. Height + 1 \in Nat /\ Image \in [Slot -> Contents]
  BY HeightFacts DEF Inv
<1>2. p \in issued /\ Includable(p, Image, Height + 1)
  BY <1>1, BlocksFit, Zenon DEF Fits
<1>3. p \in Payment /\ body[p] # NoBody
  BY <1>2, Zenon DEF Inv, BodyInv
<1>4. Built(body[p])
  BY <1>3, Zenon DEF Inv, BodyInv
<1>5. PICK s \in InSlots(p) : s \in Slot /\ Owned(body[p].ins[s])
  BY <1>4, Zenon DEF Built, InSlots
<1>6. Image[s] = body[p].ins[s]
  BY <1>2, <1>5, Zenon DEF Includable
<1>7. s \in DOMAIN utxos
  <2>1. utxos = OwnedCoins(Image)
    BY Zenon DEF Inv, CacheInv
  <2>2. DOMAIN utxos = {x \in DOMAIN Image : Owned(Image[x])}
    BY <2>1, OwnedFacts, Zenon
  <2> QED
    BY <1>1, <1>5, <1>6, <2>2, Zenon
<1>8. InSlots(p) \intersect DOMAIN utxos # {}
  BY <1>5, <1>7, Zenon
<1>9. history[p] \in {"none", "pending", "mined"}
  BY <1>3, Zenon DEF Inv, BookInv, BookTypes, Records
<1> QED
  BY <1>3, <1>8, <1>9, BlockRecords, Zenon

\* Blocks are recorded, and a restart reads the retained blocks again.
LEMMA ChainRecordInv ==
    ASSUME Inv, AcceptBlock \/ Reorg \/ Jump \/ Restart, setup' = setup
    PROVE  RecordInv'
<1>0. used \in [reorgs : Nat, jumps : Nat, restarts : Nat, saves : Nat, reads : Nat, lags : Nat]
  BY Zenon DEF Inv, ChainInv
<1>1. SUFFICES ASSUME used'.reorgs = 0, used'.jumps = 0
               PROVE  /\ used'.reads = 0
                      /\ \A i \in 1 .. Len(chain') : \A p \in chain'[i].txs :
                            \/ history'[p] = "mined"
                            \/ used'.restarts > 0 /\ (p \in Consolidation \/ history'[p] = "none")
  BY Zenon DEF RecordInv
<1>2. ~ Reorg
  <2>1. SUFFICES ASSUME Reorg PROVE FALSE
    BY Zenon
  <2>2. used' = [used EXCEPT !.reorgs = @ + 1, !.reads = IF loaded' THEN @ ELSE @ + 1]
    BY <2>1, Zenon DEF Reorg
  <2>3. used'.reorgs = used.reorgs + 1 /\ used.reorgs \in Nat
    BY <1>0, <2>2, Zenon
  <2> QED
    BY <1>1, <2>3
<1>3. ~ Jump
  <2>1. SUFFICES ASSUME Jump PROVE FALSE
    BY Zenon
  <2>2. used' = [used EXCEPT !.jumps = @ + 1, !.reads = IF loaded' THEN @ ELSE @ + 1]
    BY <2>1, Zenon DEF Jump
  <2>3. used'.jumps = used.jumps + 1 /\ used.jumps \in Nat
    BY <1>0, <2>2, Zenon
  <2> QED
    BY <1>1, <2>3
<1>4. CASE AcceptBlock
  <2>1. used' = used /\ issued' = issued /\ body' = body /\ Height < setup.height
    BY <1>4, Zenon DEF AcceptBlock, callVars
  <2>2. /\ used.reads = 0
        /\ \A i \in 1 .. Len(chain) : \A p \in chain[i].txs :
              \/ history[p] = "mined"
              \/ used.restarts > 0 /\ (p \in Consolidation \/ history[p] = "none")
    BY <1>1, <2>1, Zenon DEF Inv, RecordInv
  <2>3. PICK b \in BlocksOver(Image, Height + 1) : chain' = Appended(chain, b) /\ UpdateForBlock(b)
    BY <1>4, Zenon DEF AcceptBlock
  <2>4. /\ Len(chain') = Len(chain) + 1 /\ chain'[Len(chain')].txs = b.txs
        /\ \A i \in 1 .. Len(chain) : chain'[i] = chain[i]
    BY <2>1, <2>3, ChainGrows, Zenon
  <2>5. ASSUME NEW i \in 1 .. Len(chain'), NEW p \in chain'[i].txs
        PROVE  \/ history'[p] = "mined"
               \/ used'.restarts > 0 /\ (p \in Consolidation \/ history'[p] = "none")
    <3>1. Len(chain) \in Nat
      BY DEF Inv, ChainInv
    <3>2. CASE i = Len(chain')
      <4>1. p \in b.txs
        BY <2>4, <2>5, <3>2, Zenon
      <4> QED
        BY <2>2, <2>3, <4>1, BlockRecorded, Zenon
    <3>3. CASE i # Len(chain')
      <4>1. i \in 1 .. Len(chain) /\ p \in chain[i].txs
        BY <2>4, <2>5, <3>1, <3>3
      <4>2. p \in Payment
        BY <4>1, Zenon DEF Inv, ChainInv, BodyInv
      <4>3. history'[p] = history[p] \/ history'[p] = "mined"
        BY <2>3, <4>2, BlockRecords, Zenon
      <4> QED
        BY <2>1, <2>2, <4>1, <4>3, Zenon
    <3> QED
      BY <3>2, <3>3, Zenon
  <2> QED
    BY <2>1, <2>2, <2>5, Zenon
<1>5. CASE Restart
  <2>1. used' = [used EXCEPT !.restarts = @ + 1] /\ history' = Reconciled(chain')
    BY <1>5, Zenon DEF Restart
  <2>2. /\ used'.restarts > 0 /\ used'.reads = used.reads
        /\ used.reorgs = 0 /\ used.jumps = 0
    BY <1>0, <1>1, <2>1
  <2>3. used.reads = 0
    BY <2>2, Zenon DEF Inv, RecordInv
  <2>4. /\ chain' \in Seq(Link') /\ \A i \in 1 .. Len(chain') : chain'[i].txs \subseteq issued'
        /\ issued' = issued
    BY <1>5, ChainChanges, Zenon DEF ChainInv
  <2>5. ASSUME NEW i \in 1 .. Len(chain'), NEW p \in chain'[i].txs
        PROVE  history'[p] = "mined" \/ p \in Consolidation \/ history'[p] = "none"
    <3>1. p \in Payment
      BY <2>4, <2>5, Zenon DEF Inv, BodyInv
    <3>2. i \in DOMAIN chain'
      BY <2>4, <2>5
    <3>3. p \in OnChain(chain')
      BY <2>5, <3>2, Zenon DEF OnChain
    <3>4. disk[p] \in {"none", "pending", "mined"}
      BY <3>1, Zenon DEF Inv, BookInv, BookTypes, Records
    <3> QED
      BY <2>1, <3>1, <3>3, <3>4, Zenon DEF Reconciled
  <2> QED
    BY <2>2, <2>3, <2>5, Zenon
<1> QED
  BY <1>2, <1>3, <1>4, <1>5, Zenon

-----------------------------------------------------------------------------
(* Client payments, and all steps together. *)

\* Nothing the wallet waits for is forgotten while bodies are only added.
LEMMA PaidKept ==
    ASSUME Inv, DOMAIN paidAt' \subseteq DOMAIN paidAt,
           \A p \in DOMAIN paidAt' : paidAt'[p] = paidAt[p],
           \A q \in Payment : body[q] # NoBody => body'[q] = body[q]
    PROVE  PaidInv'
<1>1. /\ DOMAIN paidAt \subseteq Client
      /\ \A p \in DOMAIN paidAt :
            paidAt[p] \in Nat /\ body[p] # NoBody /\ body[p].at <= paidAt[p]
  BY Zenon DEF Inv, PaidInv
<1>2. \A p \in DOMAIN paidAt : body'[p] = body[p]
  BY <1>1, PaymentFacts, Zenon
<1> QED
  BY <1>1, <1>2, Zenon DEF PaidInv

\* Every step keeps what is known of the client payments.
LEMMA NextPaidInv ==
    ASSUME Inv, Next
    PROVE  PaidInv'
<1>1. CASE paidAt' = paidAt /\ body' = body
  BY <1>1, PaidKept, Zenon
<1>2. CASE AcceptBlock \/ Reorg \/ Jump
  BY <1>1, <1>2, Zenon DEF AcceptBlock, Reorg, Jump, callVars
<1>3. CASE Restart
  <2>1. paidAt' = <<>>
    BY <1>3, Zenon DEF Restart
  <2>2. DOMAIN paidAt' = {}
    BY <2>1
  <2> QED
    BY <2>2, Zenon DEF PaidInv
<1>4. CASE ClientTrack
  <2>1. /\ build.step = "reserved" /\ body' = body
        /\ paidAt' = Over([p \in {build.tx} |-> Height], paidAt)
    BY <1>4, Zenon DEF ClientTrack
  <2>2. build.tx \in Client /\ body[build.tx] # NoBody
    BY <2>1, HeldPayments, Zenon
  <2>3. Height \in Nat
    BY HeightFacts, Zenon DEF Inv
  <2>4. Built(body[build.tx])
    BY <2>2, PaymentFacts, Zenon DEF Inv, BodyInv
  <2>5. body[build.tx].at <= Height
    BY <2>4, Zenon DEF Built
  <2>6. /\ DOMAIN paidAt \subseteq Client
        /\ \A p \in DOMAIN paidAt :
              paidAt[p] \in Nat /\ body[p] # NoBody /\ body[p].at <= paidAt[p]
    BY Zenon DEF Inv, PaidInv
  <2>7. /\ DOMAIN paidAt' = DOMAIN paidAt \union {build.tx}
        /\ \A p \in DOMAIN paidAt' : paidAt'[p] = IF p = build.tx THEN Height ELSE paidAt[p]
    BY <2>1, Zenon DEF Over
  <2> QED
    BY <2>1, <2>2, <2>3, <2>5, <2>6, <2>7, Zenon DEF PaidInv
<1>5. CASE ReleaseExpired
  <2>1. PICK S \in SUBSET DOMAIN paidAt : paidAt' = Restrict(paidAt, S)
    BY <1>5, Zenon DEF ReleaseExpired
  <2>2. body' = body
    BY <1>5, Zenon DEF ReleaseExpired, callVars
  <2>3. DOMAIN paidAt' \subseteq DOMAIN paidAt /\ \A p \in DOMAIN paidAt' : paidAt'[p] = paidAt[p]
    BY <2>1, Zenon DEF Restrict
  <2> QED
    BY <2>2, <2>3, PaidKept, Zenon
<1>6. CASE (\E p \in Send : SendSelect(p)) \/ \E p \in Client : ClientSelect(p)
  <2>1. PICK p \in Payment, coins \in SUBSET DOMAIN utxos, s \in Slot : Selects(p, coins, s)
    BY <1>6, PaymentFacts, Zenon DEF SendSelect, ClientSelect
  <2>2. \A q \in Payment : body[q] # NoBody => body'[q] = body[q]
    BY <2>1, SelectsOne, Zenon
  <2>3. paidAt' = paidAt
    BY <1>6, Zenon DEF SendSelect, ClientSelect, walletVars
  <2> QED
    BY <2>2, <2>3, PaidKept, Zenon
<1>7. CASE Scan \/ SendBegin \/ SendReserve \/ SendReserveFails \/ SendAdmit
           \/ SendRefused \/ SendDropped
  BY <1>1, <1>7, Zenon DEF Scan, SendBegin, SendReserve, SendReserveFails, SendAdmit,
                           SendRefused, SendDropped, walletVars, callVars
<1>8. CASE ClientReserve \/ ClientReserveFails \/ ClientDropped
           \/ (\E p \in Payment : Relay(p) \/ Regossip(p)) \/ Lag
  BY <1>1, <1>8, Zenon DEF ClientReserve, ClientReserveFails, ClientDropped, Relay, Regossip, Lag,
                           walletVars, callVars
<1> QED
  BY <1>2, <1>3, <1>4, <1>5, <1>6, <1>7, <1>8, Zenon DEF Next, SendStep, ClientStep

\* A step keeps the book settled.
LEMMA NextSettled ==
    ASSUME Inv, Next
    PROVE  Settled'
<1>1. CASE ~ Undisturbed'
  BY <1>1, Zenon DEF Settled
<1>2. CASE Undisturbed'
  <2>1. Undisturbed /\ ~ Restart /\ ~ Reorg /\ ~ SendReserveFails /\ ~ ClientReserveFails
    BY <1>2, StaysUndisturbed, Zenon
  <2> QED
    BY <2>1, SendSettled, OtherSettled, ChainSettled, Zenon DEF Next
<1> QED
  BY <1>1, <1>2, Zenon

\* The invariant is inductive.
LEMMA InvNext ==
    ASSUME Inv, Next
    PROVE  Inv'
<1>1. setup' = setup
  BY Zenon DEF Next
<1>2. PaidInv' /\ Settled'
  BY NextPaidInv, NextSettled, Zenon
<1>3. CASE CallStep
  BY <1>1, <1>2, <1>3, CallChainInv, CallBodyInv, CallCallInv, CallCacheInv, CallBookTypes,
     CallRecordInv, Zenon DEF Inv, BookInv
<1>4. CASE AcceptBlock \/ Reorg \/ Jump \/ Restart
  BY <1>1, <1>2, <1>4, ChainChanges, ChainBodyInv, ChainCallInv, ChainCacheInv, ChainBookTypes,
     ChainRecordInv, Zenon DEF Inv, BookInv
<1> QED
  BY <1>3, <1>4, Zenon DEF Next, CallStep

\* The wallet as it is first opened.
LEMMA InvInit ==
    ASSUME Init
    PROVE  Inv
<1> DEFINE img == [s \in Slot |-> FirstContent(s)]
           link == [txs |-> {}, image |-> img]
<1>1. setup \in SetupType /\ setup.height \in Nat
  <2>1. setup \in SetupType
    BY WalletConstants, Zenon DEF Init, WalletConstants
  <2> QED
    BY <2>1, Zenon DEF SetupType
<1>2. ASSUME NEW s \in Slot PROVE FirstContent(s) \in Contents
  <2>1. 0 \in 0 .. setup.height
    BY <1>1
  <2> QED
    BY <2>1, Zenon DEF FirstContent, Content, Empty, Contents, Minters
<1>3. img \in [Slot -> Contents]
  BY <1>2, Zenon
<1> HIDE DEF img
<1>4. link \in Link /\ link.txs = {} /\ link.image = img
  BY <1>3, Zenon DEF Link
<1> HIDE DEF link
<1>5. chain = <<link>>
  BY Zenon DEF Init, link, img
<1>6. /\ chain \in Seq(Link) /\ Len(chain) = 1 /\ Last(chain) = link /\ chain[1] = link
  BY <1>4, <1>5 DEF Last
<1>7. Height = 0 /\ Image = img
  BY <1>4, <1>6 DEF Height, Image
<1>8. used = [reorgs |-> 0, jumps |-> 0, restarts |-> 0, saves |-> 0, reads |-> 0, lags |-> 0]
  BY Zenon DEF Init
<1>9. ChainInv
  BY <1>1, <1>4, <1>6, <1>7, <1>8 DEF ChainInv
<1>10. BodyInv
  BY Zenon DEF BodyInv, Init
<1>11. CallInv
  BY PaymentFacts, Zenon DEF CallInv, OpInv, BuildInv, Init, Idle
<1>12. CacheInv
  <2>1. utxos = OwnedCoins(Image) /\ loaded = TRUE
    BY Zenon DEF Init
  <2>2. DOMAIN Image = Slot
    BY <1>3, <1>7, Zenon
  <2> QED
    BY <2>1, <2>2, OwnedFacts, ZenonT(30) DEF CacheInv
<1>13. BookTypes
  BY Zenon DEF BookTypes, Init, Records
<1>14. Settled
  BY PaymentFacts, Zenon DEF Settled, Init, Idle
<1>15. RecordInv
  BY <1>4, <1>6, <1>8 DEF RecordInv
<1>16. PaidInv
  <2>1. DOMAIN paidAt = {}
    BY DEF Init
  <2> QED
    BY <2>1, Zenon DEF PaidInv
<1> QED
  BY <1>9, <1>10, <1>11, <1>12, <1>13, <1>14, <1>15, <1>16, Zenon DEF Inv, BookInv

\* A step that changes nothing keeps the invariant.
LEMMA InvStutter ==
    ASSUME Inv, UNCHANGED vars
    PROVE  Inv'
<1>1. /\ setup' = setup /\ chain' = chain /\ issued' = issued
      /\ pool' = pool /\ events' = events /\ lost' = lost
      /\ utxos' = utxos /\ loaded' = loaded /\ pendingIn' = pendingIn /\ pendingOut' = pendingOut
      /\ tracked' = tracked /\ history' = history /\ disk' = disk /\ paidAt' = paidAt
      /\ op' = op /\ build' = build /\ body' = body /\ used' = used
  BY Zenon DEF vars, chainVars, poolVars, walletVars, cacheVars, slotVars, bookVars, callVars
<1>2. ChainInv'
  BY <1>1, Zenon DEF Inv, ChainInv, Height, Link, Contents
<1>3. BodyInv'
  BY <1>1, Zenon DEF Inv, BodyInv, Built, Height
<1>4. CallInv'
  BY <1>1, Zenon DEF Inv, CallInv, OpInv, BuildInv, InSlots, Image
<1>5. CacheInv'
  BY <1>1, Zenon DEF Inv, CacheInv, Image
<1>6. BookInv'
  BY <1>1, Zenon DEF Inv, BookInv, BookTypes, Settled, Undisturbed, InHand, Records
<1>7. RecordInv'
  BY <1>1, Zenon DEF Inv, RecordInv
<1>8. PaidInv'
  BY <1>1, Zenon DEF Inv, PaidInv
<1> QED
  BY <1>2, <1>3, <1>4, <1>5, <1>6, <1>7, <1>8, Zenon DEF Inv

\* Every reachable state satisfies the invariant.
LEMMA AlwaysInv == Spec => []Inv
<1>1. Init => Inv
  BY InvInit, Zenon
<1>2. Inv /\ [Next]_vars => Inv'
  BY InvNext, InvStutter, Zenon
<1> QED
  BY <1>1, <1>2, PTL DEF Spec

-----------------------------------------------------------------------------
(* The results. *)

\* The types that the invariant gives.
LEMMA InvTypes ==
    ASSUME Inv
    PROVE  TypeOK
<1>1. \A i \in DOMAIN chain : chain[i].txs \subseteq issued /\ chain[i].image \in [Slot -> Contents]
  <2>1. chain \in Seq(Link) /\ DOMAIN chain = 1 .. Len(chain)
    BY DEF Inv, ChainInv
  <2>2. \A i \in DOMAIN chain : chain[i] \in Link
    BY <2>1
  <2> QED
    BY <2>1, <2>2, Zenon DEF Inv, ChainInv, Link
<1>2. /\ pool \subseteq Send /\ events \subseteq Send /\ lost \subseteq Send
      /\ issued \subseteq Payment
  BY Zenon DEF Inv, BodyInv
<1>3. ASSUME NEW p \in Payment PROVE Bodies(p)
  <2>1. Height \in Nat /\ Height <= setup.height /\ setup.height \in Nat
    BY HeightFacts, Zenon DEF Inv
  <2>2. CASE body[p] # NoBody
    <3>1. Built(body[p])
      BY <2>2, Zenon DEF Inv, BodyInv
    <3>2. body[p].at \in 0 .. setup.height
      BY <2>1, <3>1 DEF Built
    <3> QED
      BY <3>1, <3>2, Zenon DEF Bodies, Built, InSlots
  <2> QED
    BY <2>2, Zenon DEF Bodies
<1>4. DOMAIN utxos \subseteq Slot /\ loaded \in BOOLEAN
  BY Zenon DEF Inv, CacheInv
<1>5. /\ pendingIn \subseteq Slot /\ pendingOut \subseteq Slot /\ tracked \subseteq Payment
      /\ history \in Records /\ disk \in Records
  BY Zenon DEF Inv, BookInv, BookTypes
<1>6. DOMAIN paidAt \subseteq Client
  BY Zenon DEF Inv, PaidInv
<1>7. op.tx \in Send \union {NoPayment} /\ build.tx \in Client \union {NoPayment}
  BY Zenon DEF Inv, CallInv, OpInv, BuildInv
<1> QED
  BY <1>1, <1>2, <1>3, <1>4, <1>5, <1>6, <1>7, Zenon DEF TypeOK

\* The coins the wallet shows are those of the tip, whether they come from block
\* deltas, a reorganisation or a reload, as long as the owner index can be read; and
\* the coins of a send under way stay live until the pool answers.
THEOREM CoinsAlwaysSound == Spec => []CoinsSound
<1>1. ASSUME Inv PROVE CoinsSound
  <2>1. TypeOK
    BY <1>1, InvTypes, Zenon
  <2>2. CacheIsChain
    BY <1>1, WithoutFacts, Zenon DEF CacheIsChain, Inv, CacheInv
  <2>3. SpendsLiveCoins
    BY <1>1, Zenon DEF SpendsLiveCoins, Inv, CallInv, OpInv
  <2> QED
    BY <2>1, <2>2, <2>3, Zenon DEF CoinsSound
<1> QED
  BY <1>1, AlwaysInv, PTL

\* What the wallet holds reserved or shows as pending it can still settle, short of
\* a failed write, a restart or a reorganisation: however calls are dropped, the
\* send is being submitted, in the pool, or announced as dropped, unless the relay
\* task fell behind and lost the announcement.
THEOREM NothingEverStranded == Spec => []NothingStranded
<1>1. ASSUME Inv PROVE NothingStranded
  <2>1. SUFFICES ASSUME Undisturbed, NEW p \in Send, p \in tracked \/ history[p] = "pending"
                 PROVE  InHand(p)
    BY WithoutFacts, Zenon DEF NothingStranded, Undisturbed, InHand
  <2>2. p \in tracked
    BY <1>1, <2>1, SettledFacts, Zenon
  <2> QED
    BY <1>1, <2>1, <2>2, SettledFacts, Zenon
<1> QED
  BY <1>1, AlwaysInv, PTL

\* Short of reorganisations and jumps, a payment of the wallet that is in the chain
\* is recorded as mined; a restart between commit and update excepts only
\* consolidations and records already given up.
THEOREM MinedAlwaysRecorded == Spec => []MinedRecorded
<1>1. ASSUME Inv PROVE MinedRecorded
  <2>1. DOMAIN chain = 1 .. Len(chain)
    BY <1>1 DEF Inv, ChainInv
  <2>2. SUFFICES ASSUME used.reorgs = 0, used.jumps = 0, NEW p \in OnChain(chain)
                 PROVE  \/ history[p] = "mined"
                        \/ used.restarts > 0 /\ (p \in Consolidation \/ history[p] = "none")
    BY WithoutFacts, Zenon DEF MinedRecorded
  <2>3. PICK i \in 1 .. Len(chain) : p \in chain[i].txs
    BY <2>1, <2>2, Zenon DEF OnChain
  <2> QED
    BY <1>1, <2>2, <2>3, Zenon DEF Inv, RecordInv
<1> QED
  BY <1>1, AlwaysInv, PTL

\* A client payment is forgotten by a restart or because it expired.
LEMMA Forgotten ==
    ASSUME Inv, Next, NEW p \in DOMAIN paidAt, p \notin DOMAIN paidAt', used' = used
    PROVE  ReleaseExpired
<1>1. CASE paidAt' = paidAt
  BY <1>1, Zenon
<1>2. CASE AcceptBlock \/ Reorg \/ Jump
  BY <1>1, <1>2, Zenon DEF AcceptBlock, Reorg, Jump
<1>3. CASE Restart
  <2>1. used' = [used EXCEPT !.restarts = @ + 1] /\ used.restarts \in Nat
    BY <1>3, UsedFacts, Zenon DEF Restart
  <2>2. used'.restarts = used.restarts + 1
    BY <2>1, Zenon DEF Inv, ChainInv
  <2> QED
    BY <2>1, <2>2
<1>4. CASE ClientTrack
  <2>1. paidAt' = Over([q \in {build.tx} |-> Height], paidAt)
    BY <1>4, Zenon DEF ClientTrack
  <2>2. DOMAIN paidAt \subseteq DOMAIN paidAt'
    BY <2>1, Zenon DEF Over
  <2> QED
    BY <2>2, Zenon
<1>5. CASE Scan \/ SendBegin \/ SendReserve \/ SendReserveFails \/ SendAdmit
           \/ SendRefused \/ SendDropped \/ \E q \in Send : SendSelect(q)
  BY <1>1, <1>5, Zenon DEF Scan, SendBegin, SendReserve, SendReserveFails, SendAdmit,
                           SendRefused, SendDropped, SendSelect, walletVars
<1>6. CASE ClientReserve \/ ClientReserveFails \/ ClientDropped
           \/ (\E q \in Client : ClientSelect(q))
           \/ (\E q \in Payment : Relay(q) \/ Regossip(q)) \/ Lag
  BY <1>1, <1>6, Zenon DEF ClientReserve, ClientReserveFails, ClientDropped, ClientSelect,
                           Relay, Regossip, Lag, walletVars
<1> QED
  BY <1>2, <1>3, <1>4, <1>5, <1>6, Zenon DEF Next, SendStep, ClientStep

\* The coins of a client payment are given back only when no block can include the
\* payment any more: its anchor is no higher than the tip it was handed out at, and
\* the lifetime counted from there is longer than the window of an anchor.
THEOREM OnlyDeadPaymentsExpire == Spec => ExpiryIsFinal
<1> DEFINE Final == \A p \in DOMAIN paidAt \ DOMAIN paidAt' :
                       used' = used => ~ Includable(p, Image, Height + 1)
<1>1. ASSUME Inv, Next PROVE Final
  <2>1. SUFFICES ASSUME NEW p \in DOMAIN paidAt, p \notin DOMAIN paidAt', used' = used
                 PROVE  ~ Includable(p, Image, Height + 1)
    BY Zenon
  <2>2. ReleaseExpired
    BY <1>1, <2>1, Forgotten, Zenon
  <2> DEFINE expired == {q \in DOMAIN paidAt : Height >= paidAt[q] + ClientLifetime}
  <2>3. paidAt' = Restrict(paidAt, DOMAIN paidAt \ expired)
    BY <2>2, Zenon DEF ReleaseExpired
  <2>4. p \in expired
    BY <2>1, <2>3, Zenon DEF Restrict
  <2>5. Height \in Nat /\ setup.window \in Nat
    BY <1>1, HeightFacts, Zenon DEF Inv
  <2>6. paidAt[p] \in Nat /\ body[p] # NoBody /\ body[p].at <= paidAt[p] /\ p \in Payment
    BY <1>1, <2>1, PaymentFacts, Zenon DEF Inv, PaidInv
  <2>7. body[p].at \in Nat
    BY <1>1, <2>6, Zenon DEF Inv, BodyInv, Built
  <2>8. Height >= paidAt[p] + (setup.window + 2)
    BY <2>4, Zenon DEF ClientLifetime
  <2>9. ~ (Height + 1 <= body[p].at + setup.window)
    BY <2>5, <2>6, <2>7, <2>8
  <2> QED
    BY <2>9, Zenon DEF Includable
<1>2. UNCHANGED vars => [Final]_vars
  BY Zenon
<1>3. Inv /\ [Next]_vars => [Final]_vars
  BY <1>1, <1>2, Zenon
<1> QED
  BY <1>3, AlwaysInv, PTL DEF Spec, ExpiryIsFinal
=============================================================================
