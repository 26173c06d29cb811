----------------------------- MODULE SyncProofs -----------------------------
(***************************************************************************)
(* The fetch of a suffix (SuffixSync).  For any claims, peers, failure     *)
(* domains, encodings and limits: excluded sources stay out of a plan,     *)
(* hedges stay independent, and every lease has the request that can end   *)
(* it.                                                                     *)
(***************************************************************************)
EXTENDS SuffixSync, WellFoundedInduction, TLAPS

(* A job of claim c: its legs are sources, and an excluded peer is neither *)
(* a source nor late.                                                      *)
Shape(c, j) ==
    /\ j \in Job
    /\ j.state = "inflight" <=> j.primary # None
    /\ j.hedge # None => /\ j.primary # None /\ c \in Terminal
                         /\ Domain[j.hedge] # Domain[j.primary]
    /\ j.primary # None => j.selected # None
    /\ Legs(j) \subseteq Sources(j)
    /\ j.unavailable \cap (Sources(j) \cup Late(j)) = {}

(* A peer that is not excluded has failed less often than the limit.       *)
Below(j) == \A p \in Peer \ j.unavailable : j.fails[p] < setup.limit

JobSound(c, j) == Shape(c, j) /\ Below(j)

(* k is j after the peers P have lost their leases, and no other.          *)
Without(j, k, P) ==
    /\ Legs(k) = Legs(j) \ P
    /\ Legs(k) # {} => k.selected = j.selected
    /\ j.unavailable \subseteq k.unavailable

LEMMA LimitType == ASSUME setup \in Setup PROVE setup.limit \in Nat \ {0}
BY SuffixConstants, Zenon DEF SetupType

LEMMA PlannedClaims ==
    ASSUME setup \in Setup PROVE Planned \subseteq Claim /\ Planned \subseteq Nat
<1>1. setup.claims \in SUBSET Claim BY SuffixConstants, Zenon DEF SetupType
<1> QED BY <1>1, SuffixConstants, Zenon DEF Planned

LEMMA NoneIsNoPeer == None \notin Peer /\ None \notin Encoding
BY SuffixConstants DEF None

LEMMA JobFields ==
    ASSUME NEW j \in Job
    PROVE  /\ j.state \in {"wanted", "inflight", "verified"}
           /\ j.primary \in Peer \cup {None} /\ j.hedge \in Peer \cup {None}
           /\ j.selected \in Encoding \cup {None}
           /\ j.source \in [Peer -> Encoding \cup {None}]
           /\ j.fails \in [Peer -> 0..setup.limit]
           /\ j.parked \in SUBSET Peer
           /\ j.late \in [Peer -> Encoding \cup {None}]
           /\ j.unavailable \in SUBSET Peer
BY Zenon DEF Job

LEMMA NatLeast ==
    ASSUME NEW T, T \subseteq Nat, T # {}
    PROVE  \E x \in T : \A y \in T : x <= y
<1> DEFINE R == {ss \in Nat \X Nat : ss[1] < ss[2]}
<1>1. IsWellFoundedOn(R, Nat) BY NatLessThanWellFounded DEF OpToRel
<1>2. PICK x \in T : \A y \in T : ~(<<y, x>> \in R)
  <2> HIDE DEF R
  <2> QED BY <1>1, WFMin, Zenon
<1>3. \A y \in T : ~(y < x) BY <1>2, Zenon
<1> QED BY <1>3

-----------------------------------------------------------------------------
(* choose_source returns one of the sources it may choose from.            *)
LEMMA Chosen ==
    ASSUME NEW j \in Job, setup \in Setup, NEW S, S \subseteq Peer, S # {}
    PROVE  ChooseSource(j, S) \in S
<1>1. \A p \in S : j.fails[p] \in Nat BY JobFields, LimitType
<1> DEFINE F == {j.fails[p] : p \in S}
<1>2. F \subseteq Nat /\ F # {} BY <1>1
<1> HIDE DEF F
<1>3. PICK f \in F : \A g \in F : f <= g BY <1>2, NatLeast, Zenon
<1>4. PICK p \in S : j.fails[p] = f BY <1>3 DEF F
<1> DEFINE T == {q \in S : \A r \in S : j.fails[q] <= j.fails[r]}
<1>5. p \in T BY <1>3, <1>4 DEF F
<1>6. T \subseteq Nat BY SuffixConstants, Zenon
<1>7. PICK m \in T : \A n \in T : m <= n BY <1>5, <1>6, NatLeast, Zenon
<1>8. Min(T) \in T BY <1>7 DEF Min
<1> QED BY <1>8, Zenon DEF ChooseSource

LEMMA WithoutTwice ==
    ASSUME NEW j, NEW m, NEW k, NEW P, NEW Q, NEW R, Without(j, m, P), Without(m, k, Q),
           R = P \cup Q
    PROVE  Without(j, k, R)
<1>1. Legs(k) = Legs(j) \ R BY DEF Without
<1>2. Legs(k) # {} => k.selected = j.selected BY DEF Without
<1>3. j.unavailable \subseteq k.unavailable BY DEF Without
<1> QED BY <1>1, <1>2, <1>3 DEF Without

(* The end of a lease.                                                     *)
LEMMA DropLeaseFacts ==
    ASSUME NEW c, NEW j, Shape(c, j), NEW p \in Peer, NEW k, k = DropLease(j, p)
    PROVE  /\ Shape(c, k)
           /\ Without(j, k, {p})
           /\ k.source = j.source /\ k.late = j.late /\ k.fails = j.fails
           /\ k.parked = j.parked /\ k.unavailable = j.unavailable
<1>1. j \in Job BY DEF Shape
<1>2. p # None BY NoneIsNoPeer
<1>3. j.hedge # None => j.hedge # j.primary BY DEF Shape
<1>4. CASE j.primary = p /\ j.hedge # None
  <2>1. k = [j EXCEPT !.primary = j.hedge, !.hedge = None] BY <1>2, <1>4 DEF DropLease
  <2>2. k \in Job BY <2>1, <1>1, Zenon DEF Job
  <2>3. /\ k.primary = j.hedge /\ k.hedge = None /\ k.state = j.state
        /\ k.selected = j.selected /\ k.source = j.source /\ k.late = j.late
        /\ k.fails = j.fails /\ k.parked = j.parked /\ k.unavailable = j.unavailable
    BY <2>1, <1>1 DEF Job
  <2> QED BY <2>2, <2>3, <1>2, <1>3, <1>4 DEF Shape, Without, Legs, Sources, Late
<1>5. CASE j.hedge = p
  <2>0. j.primary # p BY <1>2, <1>3, <1>5
  <2>1. k = [j EXCEPT !.hedge = None] BY <1>5, <2>0 DEF DropLease
  <2>2. k \in Job BY <2>1, <1>1, Zenon DEF Job
  <2>3. /\ k.primary = j.primary /\ k.hedge = None /\ k.state = j.state
        /\ k.selected = j.selected /\ k.source = j.source /\ k.late = j.late
        /\ k.fails = j.fails /\ k.parked = j.parked /\ k.unavailable = j.unavailable
    BY <2>1, <1>1 DEF Job
  <2> QED BY <2>2, <2>3, <1>2, <1>5, <2>0 DEF Shape, Without, Legs, Sources, Late
<1>6. CASE j.primary = p /\ j.hedge = None
  <2>1. k = [j EXCEPT !.primary = None, !.state = "wanted"] BY <1>2, <1>6 DEF DropLease
  <2>2. k \in Job BY <2>1, <1>1, Zenon DEF Job
  <2>3. /\ k.primary = None /\ k.hedge = None /\ k.state = "wanted"
        /\ k.selected = j.selected /\ k.source = j.source /\ k.late = j.late
        /\ k.fails = j.fails /\ k.parked = j.parked /\ k.unavailable = j.unavailable
    BY <2>1, <1>1, <1>6 DEF Job
  <2> QED BY <2>2, <2>3, <1>2, <1>6 DEF Shape, Without, Legs, Sources, Late
<1>7. CASE j.primary # p /\ j.hedge # p
  <2>1. k = j BY <1>7 DEF DropLease
  <2> QED BY <2>1, <1>7 DEF Without, Legs
<1> QED BY <1>4, <1>5, <1>6, <1>7

(* The pinned encoding is released.                                        *)
LEMMA ReleaseFacts ==
    ASSUME NEW c, NEW j, Shape(c, j), NEW k, k = Release(j)
    PROVE  /\ Shape(c, k)
           /\ Without(j, k, {})
           /\ k.state = j.state /\ k.primary = j.primary /\ k.hedge = j.hedge
           /\ k.source = j.source /\ k.late = j.late /\ k.fails = j.fails
           /\ k.unavailable = j.unavailable
<1>1. j \in Job BY DEF Shape
<1>2. CASE k = j BY <1>2 DEF Without
<1>3. CASE j.state = "wanted" /\ k = [j EXCEPT !.selected = None]
  <2>1. k \in Job BY <1>3, <1>1, Zenon DEF Job
  <2>2. /\ k.primary = j.primary /\ k.hedge = j.hedge /\ k.state = j.state
        /\ k.source = j.source /\ k.late = j.late
        /\ k.fails = j.fails /\ k.parked = j.parked /\ k.unavailable = j.unavailable
    BY <1>3, <1>1 DEF Job
  <2>3. j.primary = None BY <1>3 DEF Shape
  <2> QED BY <2>1, <2>2, <2>3 DEF Shape, Without, Legs, Sources, Late
<1> QED BY <1>2, <1>3, Zenon DEF Release

(* A source without a lease is excluded.                                   *)
LEMMA RemoveSourceFacts ==
    ASSUME NEW c, NEW j, Shape(c, j), NEW p \in Peer, p \notin Legs(j),
           NEW k, k = RemoveSource(j, p)
    PROVE  /\ Shape(c, k)
           /\ Without(j, k, {p})
           /\ k.fails = j.fails /\ k.unavailable = j.unavailable \cup {p}
<1> DEFINE m == [j EXCEPT !.late[p] = None, !.source[p] = None,
                          !.unavailable = @ \cup {p}]
<1>1. j \in Job BY DEF Shape
<1>2. /\ m.state = j.state /\ m.primary = j.primary /\ m.hedge = j.hedge
      /\ m.selected = j.selected /\ m.fails = j.fails /\ m.parked = j.parked
      /\ m.source = [j.source EXCEPT ![p] = None]
      /\ m.late = [j.late EXCEPT ![p] = None]
      /\ m.unavailable = j.unavailable \cup {p}
  BY <1>1 DEF Job
<1>3. m \in Job
  <2>1. /\ [j.source EXCEPT ![p] = None] \in [Peer -> Encoding \cup {None}]
        /\ [j.late EXCEPT ![p] = None] \in [Peer -> Encoding \cup {None}]
        /\ j.unavailable \cup {p} \in SUBSET Peer
    BY <1>1, JobFields
  <2> QED BY <1>1, <2>1, Zenon DEF Job
<1> HIDE DEF m
<1>4. /\ m.source = [q \in Peer |-> IF q = p THEN None ELSE j.source[q]]
      /\ m.late = [q \in Peer |-> IF q = p THEN None ELSE j.late[q]]
  BY <1>1, <1>2, JobFields
<1>5. /\ Sources(m) = Sources(j) \ {p} /\ Late(m) = Late(j) \ {p}
      /\ Legs(m) = Legs(j)
  BY <1>2, <1>4 DEF Sources, Late, Legs
<1>6. Shape(c, m) /\ Without(j, m, {p})
  BY <1>2, <1>3, <1>5 DEF Shape, Without
<1>7. k = Release(m) BY DEF RemoveSource, m
<1>8. Shape(c, k) /\ Without(m, k, {}) /\ k.fails = m.fails /\ k.unavailable = m.unavailable
  BY <1>6, <1>7, ReleaseFacts
<1> QED BY <1>2, <1>6, <1>8, WithoutTwice

(* A transport failure.                                                    *)
LEMMA FailSourceFacts ==
    ASSUME NEW c, NEW j, JobSound(c, j), setup \in Setup, NEW p \in Peer,
           NEW k, k = FailSource(j, p)
    PROVE  JobSound(c, k) /\ Without(j, k, {p})
<1>0. j \in Job /\ Shape(c, j) /\ Below(j) BY DEF JobSound, Shape
<1>1. CASE p \notin Sources(j)
  <2>1. k = DropLease(j, p) BY <1>1 DEF FailSource
  <2> QED BY <2>1, <1>0, DropLeaseFacts DEF JobSound, Below
<1>2. CASE p \in Sources(j)
  <2> DEFINE m == [j EXCEPT !.fails[p] = @ + 1, !.parked = @ \cup {p}]
             d == DropLease(m, p)
  <2>1. p \notin j.unavailable BY <1>0, <1>2 DEF Shape
  <2>2. j.fails[p] \in Nat /\ j.fails[p] + 1 \in 0 .. setup.limit
    BY <2>1, <1>0, JobFields, LimitType DEF Below
  <2>3. /\ m.state = j.state /\ m.primary = j.primary /\ m.hedge = j.hedge
        /\ m.selected = j.selected /\ m.source = j.source /\ m.late = j.late
        /\ m.unavailable = j.unavailable
        /\ m.fails = [j.fails EXCEPT ![p] = @ + 1]
    BY <1>0 DEF Job
  <2>4. m \in Job
    <3>1. /\ [j.fails EXCEPT ![p] = @ + 1] \in [Peer -> 0 .. setup.limit]
          /\ j.parked \cup {p} \in SUBSET Peer
      BY <2>2, <1>0, JobFields
    <3> QED BY <1>0, <3>1, Zenon DEF Job
  <2>5. /\ m.fails[p] = j.fails[p] + 1
        /\ \A q \in Peer \ {p} : m.fails[q] = j.fails[q]
    BY <2>3, <1>0, JobFields
  <2>6. k = IF m.fails[p] >= setup.limit THEN RemoveSource(d, p) ELSE d
    BY <1>2, Zenon DEF FailSource
  <2> HIDE DEF m
  <2>7. Shape(c, m) /\ Without(j, m, {})
    BY <2>3, <2>4, <1>0 DEF Shape, Without, Legs, Sources, Late
  <2>8. /\ Shape(c, d) /\ Without(m, d, {p})
        /\ d.fails = m.fails /\ d.unavailable = m.unavailable
    BY <2>7, DropLeaseFacts
  <2>9. Without(j, d, {p})
    BY <2>7, <2>8, WithoutTwice
  <2>10. p \notin Legs(d) BY <2>8 DEF Without
  <2> HIDE DEF d
  <2>11. \A q \in Peer \ d.unavailable : q # p => d.fails[q] < setup.limit
    BY <2>3, <2>5, <2>8, <1>0, Zenon DEF Below
  <2>12. CASE m.fails[p] >= setup.limit
    <3>1. k = RemoveSource(d, p) BY <2>6, <2>12
    <3>2. /\ Shape(c, k) /\ Without(d, k, {p})
          /\ k.fails = d.fails /\ k.unavailable = d.unavailable \cup {p}
      BY <3>1, <2>8, <2>10, RemoveSourceFacts
    <3>3. Below(k) BY <3>2, <2>11 DEF Below
    <3>4. Without(j, k, {p}) BY <3>2, <2>9, WithoutTwice
    <3> QED BY <3>2, <3>3, <3>4 DEF JobSound
  <2>13. CASE ~(m.fails[p] >= setup.limit)
    <3>1. k = d BY <2>6, <2>13
    <3>2. m.fails[p] < setup.limit BY <2>13, <2>2, <2>5, LimitType
    <3>3. Below(k) BY <3>1, <3>2, <2>8, <2>11 DEF Below
    <3> QED BY <3>1, <3>3, <2>8, <2>9 DEF JobSound
  <2> QED BY <2>12, <2>13
<1> QED BY <1>1, <1>2

(* The peer lacks the object.                                              *)
LEMMA MarkUnavailableFacts ==
    ASSUME NEW c, NEW j, JobSound(c, j), setup \in Setup, NEW p \in Peer,
           NEW k, k = MarkUnavailable(j, p)
    PROVE  JobSound(c, k) /\ Without(j, k, {p}) /\ p \in k.unavailable
<1> DEFINE f == FailSource(j, p)
<1>1. JobSound(c, f) /\ Without(j, f, {p}) BY FailSourceFacts
<1>2. k = RemoveSource(f, p) BY DEF MarkUnavailable
<1> HIDE DEF f
<1>3. p \notin Legs(f) BY <1>1 DEF Without
<1>4. /\ Shape(c, k) /\ Without(f, k, {p})
      /\ k.fails = f.fails /\ k.unavailable = f.unavailable \cup {p}
  BY <1>1, <1>2, <1>3, RemoveSourceFacts DEF JobSound
<1>5. Below(k) BY <1>1, <1>4 DEF JobSound, Below
<1>6. Without(j, k, {p}) BY <1>1, <1>4, WithoutTwice
<1> QED BY <1>4, <1>5, <1>6 DEF JobSound

(* The peer sent what it must not.                                         *)
LEMMA QuarantineFacts ==
    ASSUME NEW c, NEW j, JobSound(c, j), NEW p \in Peer,
           NEW k, k = QuarantineSource(j, p)
    PROVE  JobSound(c, k) /\ Without(j, k, {p}) /\ p \in k.unavailable
<1> DEFINE d == DropLease(j, p)
<1>1. /\ Shape(c, d) /\ Without(j, d, {p})
      /\ d.fails = j.fails /\ d.unavailable = j.unavailable
  BY DropLeaseFacts DEF JobSound
<1>2. k = RemoveSource(d, p) BY DEF QuarantineSource
<1> HIDE DEF d
<1>3. p \notin Legs(d) BY <1>1 DEF Without
<1>4. /\ Shape(c, k) /\ Without(d, k, {p})
      /\ k.fails = d.fails /\ k.unavailable = d.unavailable \cup {p}
  BY <1>1, <1>2, <1>3, RemoveSourceFacts
<1>5. Below(k) BY <1>1, <1>4 DEF JobSound, Below
<1>6. Without(j, k, {p}) BY <1>1, <1>4, WithoutTwice
<1> QED BY <1>4, <1>5, <1>6 DEF JobSound

(* A backoff starts or ends.                                               *)
LEMMA ParkedFacts ==
    ASSUME NEW c, NEW j, JobSound(c, j), NEW X \in SUBSET Peer,
           NEW k, k = [j EXCEPT !.parked = X]
    PROVE  JobSound(c, k) /\ Without(j, k, {})
<1>1. j \in Job BY DEF JobSound, Shape
<1>2. k \in Job BY <1>1, Zenon DEF Job
<1>3. /\ k.state = j.state /\ k.primary = j.primary /\ k.hedge = j.hedge
      /\ k.selected = j.selected /\ k.source = j.source /\ k.late = j.late
      /\ k.fails = j.fails /\ k.unavailable = j.unavailable
  BY <1>1 DEF Job
<1> QED BY <1>2, <1>3 DEF JobSound, Shape, Below, Without, Legs, Sources, Late

LEMMA BusySourceFacts ==
    ASSUME NEW c, NEW j, JobSound(c, j), NEW p \in Peer, NEW k, k = BusySource(j, p)
    PROVE  JobSound(c, k) /\ Without(j, k, {p})
<1> DEFINE m == [j EXCEPT !.parked = @ \cup {p}]
<1>1. j.parked \cup {p} \in SUBSET Peer BY JobFields DEF JobSound, Shape
<1>2. m = [j EXCEPT !.parked = j.parked \cup {p}] BY DEF JobSound, Shape, Job
<1>3. k = DropLease(m, p) BY DEF BusySource
<1> HIDE DEF m
<1>4. JobSound(c, m) /\ Without(j, m, {}) BY <1>1, <1>2, ParkedFacts
<1>5. /\ Shape(c, k) /\ Without(m, k, {p})
      /\ k.fails = m.fails /\ k.unavailable = m.unavailable
  BY <1>3, <1>4, DropLeaseFacts DEF JobSound
<1>6. Without(j, k, {p}) BY <1>4, <1>5, WithoutTwice
<1> QED BY <1>4, <1>5, <1>6 DEF JobSound, Below

(* Late answers that are no longer expected.                               *)
LEMMA ForgetLateFacts ==
    ASSUME NEW c, NEW j, JobSound(c, j), NEW offers, NEW k, k = ForgetLate(j, offers)
    PROVE  JobSound(c, k) /\ Without(j, k, {})
<1> DEFINE late == [p \in Peer |-> IF <<p, j.late[p]>> \in offers THEN None ELSE j.late[p]]
           m == [j EXCEPT !.late = late]
<1>1. j \in Job BY DEF JobSound, Shape
<1>2. late \in [Peer -> Encoding \cup {None}] BY <1>1, JobFields
<1>3. k = IF Late(m) = {} THEN Release(m) ELSE m BY <1>1 DEF ForgetLate, Job
<1>4. \A p \in Peer : late[p] # None => j.late[p] # None OBVIOUS
<1> HIDE DEF late
<1>5. m \in Job BY <1>1, <1>2, Zenon DEF Job
<1>6. /\ m.state = j.state /\ m.primary = j.primary /\ m.hedge = j.hedge
      /\ m.selected = j.selected /\ m.source = j.source /\ m.late = late
      /\ m.fails = j.fails /\ m.unavailable = j.unavailable
  BY <1>1 DEF Job
<1> HIDE DEF m
<1>7. Legs(m) = Legs(j) /\ Sources(m) = Sources(j) /\ Late(m) \subseteq Late(j)
  BY <1>4, <1>6 DEF Legs, Sources, Late
<1>8. Shape(c, m) /\ Below(m) /\ Without(j, m, {})
  BY <1>5, <1>6, <1>7 DEF JobSound, Shape, Below, Without
<1>9. CASE k = m BY <1>8, <1>9 DEF JobSound
<1>10. CASE k = Release(m)
  <2>1. /\ Shape(c, k) /\ Without(m, k, {})
        /\ k.fails = m.fails /\ k.unavailable = m.unavailable
    BY <1>8, <1>10, ReleaseFacts
  <2>2. Without(j, k, {}) BY <2>1, <1>8, WithoutTwice
  <2> QED BY <2>1, <2>2, <1>8 DEF JobSound, Below
<1> QED BY <1>3, <1>9, <1>10

LEMMA DropLeasesFacts ==
    ASSUME NEW c, NEW j, JobSound(c, j), NEW P, P \subseteq Peer,
           NEW k, k = DropLeases(j, P)
    PROVE  JobSound(c, k) /\ Without(j, k, P)
<1> DEFINE m == IF j.hedge \in P THEN DropLease(j, j.hedge) ELSE j
<1>1. k = IF m.primary \in P THEN DropLease(m, m.primary) ELSE m BY Zenon DEF DropLeases
<1>2. /\ Shape(c, m) /\ Without(j, m, {j.hedge} \cap P)
      /\ m.fails = j.fails /\ m.unavailable = j.unavailable
  <2>1. CASE j.hedge \in P
    <3>1. j.hedge \in Peer /\ {j.hedge} \cap P = {j.hedge} BY <2>1
    <3> QED BY <2>1, <3>1, DropLeaseFacts DEF JobSound
  <2>2. CASE j.hedge \notin P BY <2>2 DEF JobSound, Without
  <2> QED BY <2>1, <2>2
<1>3. m.hedge \notin P
  <2>1. CASE j.hedge \in P
    <3>1. Legs(m) = Legs(j) \ {j.hedge} BY <1>2, <2>1 DEF Without
    <3>2. m.hedge = None BY <2>1, NoneIsNoPeer DEF DropLease, JobSound, Shape, Job
    <3> QED BY <3>2, NoneIsNoPeer
  <2> QED BY <2>1
<1> HIDE DEF m
<1>4. /\ Shape(c, k) /\ Without(m, k, {m.primary} \cap P)
      /\ k.fails = m.fails /\ k.unavailable = m.unavailable
  <2>1. CASE m.primary \in P
    <3>1. m.primary \in Peer /\ {m.primary} \cap P = {m.primary} BY <2>1
    <3> QED BY <1>1, <1>2, <2>1, <3>1, DropLeaseFacts
  <2>2. CASE m.primary \notin P BY <1>1, <1>2, <2>2 DEF Without
  <2> QED BY <2>1, <2>2
<1>5. Without(j, k, ({j.hedge} \cap P) \cup ({m.primary} \cap P))
  BY <1>2, <1>4, WithoutTwice
<1>6. Legs(k) \cap P = {} BY <1>3, <1>4 DEF Without, Legs
<1>7. Without(j, k, P) BY <1>5, <1>6 DEF Without
<1> QED BY <1>2, <1>4, <1>7 DEF JobSound, Below

(* The peer's connection is lost: its answer may still come.               *)
LEMMA DisconnectFacts ==
    ASSUME NEW c, NEW j, JobSound(c, j), NEW p \in Peer, NEW k, k = DisconnectJob(j, p)
    PROVE  JobSound(c, k) /\ Without(j, k, {p})
<1> DEFINE m == IF p \in Legs(j) THEN [j EXCEPT !.late[p] = j.selected] ELSE j
           d == DropLease(m, p)
<1>0. k = [d EXCEPT !.source[p] = None] BY Zenon DEF DisconnectJob
<1>1. Shape(c, m) /\ Without(j, m, {}) /\ m.fails = j.fails /\ m.unavailable = j.unavailable
  <2>1. CASE p \notin Legs(j) BY <2>1 DEF JobSound, Without
  <2>2. CASE p \in Legs(j)
    <3>1. j \in Job BY DEF JobSound, Shape
    <3>2. m = [j EXCEPT !.late[p] = j.selected] BY <2>2
    <3> HIDE DEF m
    <3>3. [j.late EXCEPT ![p] = j.selected] \in [Peer -> Encoding \cup {None}]
      BY <3>1, JobFields
    <3>4. m \in Job BY <3>1, <3>2, <3>3, Zenon DEF Job
    <3>5. /\ m.state = j.state /\ m.primary = j.primary /\ m.hedge = j.hedge
          /\ m.selected = j.selected /\ m.source = j.source
          /\ m.late = [j.late EXCEPT ![p] = j.selected]
          /\ m.fails = j.fails /\ m.unavailable = j.unavailable
      BY <3>1, <3>2 DEF Job
    <3>6. /\ Late(m) \subseteq Late(j) \cup {p} /\ Legs(m) = Legs(j)
          /\ Sources(m) = Sources(j)
      BY <3>1, <3>5, JobFields DEF Late, Legs, Sources
    <3>7. p \notin j.unavailable BY <2>2 DEF JobSound, Shape
    <3> QED BY <3>4, <3>5, <3>6, <3>7 DEF JobSound, Shape, Without
  <2> QED BY <2>1, <2>2
<1> HIDE DEF m
<1>2. /\ Shape(c, d) /\ Without(m, d, {p})
      /\ d.fails = m.fails /\ d.unavailable = m.unavailable
  BY <1>1, DropLeaseFacts
<1> HIDE DEF d
<1>3. Without(j, d, {p}) BY <1>1, <1>2, WithoutTwice
<1>4. d \in Job BY <1>2 DEF Shape
<1>5. [d.source EXCEPT ![p] = None] \in [Peer -> Encoding \cup {None}]
  BY <1>4, JobFields
<1>6. k \in Job BY <1>0, <1>4, <1>5, Zenon DEF Job
<1>7. /\ k.state = d.state /\ k.primary = d.primary /\ k.hedge = d.hedge
      /\ k.selected = d.selected /\ k.source = [d.source EXCEPT ![p] = None]
      /\ k.late = d.late /\ k.fails = d.fails /\ k.unavailable = d.unavailable
  BY <1>0, <1>4 DEF Job
<1>8. Sources(k) = Sources(d) \ {p} /\ Legs(k) = Legs(d) /\ Late(k) = Late(d)
  BY <1>4, <1>7, JobFields DEF Sources, Legs, Late
<1>9. p \notin Legs(d) BY <1>2 DEF Without
<1>10. Shape(c, k) BY <1>2, <1>6, <1>7, <1>8, <1>9 DEF Shape
<1>11. Below(k) BY <1>1, <1>2, <1>7 DEF JobSound, Below
<1>12. Without(j, k, {p}) BY <1>3, <1>7, <1>8 DEF Without
<1> QED BY <1>10, <1>11, <1>12 DEF JobSound

(* A peer announces an encoding of the claim.                              *)
LEMMA AdvertiseFacts ==
    ASSUME NEW c, NEW j, JobSound(c, j), NEW p \in Peer, NEW e \in Encoding \cup {None},
           NEW k, k = Advertise(j, p, e)
    PROVE  JobSound(c, k) /\ Without(j, k, {})
<1>1. CASE k = j BY <1>1 DEF Without
<1>2. CASE e # None /\ p \notin j.unavailable /\ k = [j EXCEPT !.source[p] = e]
  <2>1. j \in Job BY DEF JobSound, Shape
  <2>2. [j.source EXCEPT ![p] = e] \in [Peer -> Encoding \cup {None}]
    BY <2>1, JobFields
  <2>3. k \in Job BY <1>2, <2>1, <2>2, Zenon DEF Job
  <2>4. /\ k.state = j.state /\ k.primary = j.primary /\ k.hedge = j.hedge
        /\ k.selected = j.selected /\ k.source = [j.source EXCEPT ![p] = e]
        /\ k.late = j.late /\ k.fails = j.fails /\ k.unavailable = j.unavailable
    BY <1>2, <2>1 DEF Job
  <2>5. Sources(k) = Sources(j) \cup {p} /\ Legs(k) = Legs(j) /\ Late(k) = Late(j)
    BY <1>2, <2>1, <2>4, JobFields DEF Sources, Legs, Late
  <2> QED BY <1>2, <2>3, <2>4, <2>5 DEF JobSound, Shape, Below, Without
<1> QED BY <1>1, <1>2, Zenon DEF Advertise

(* The object has come and is verified.                                    *)
LEMMA FinishReceiveFacts ==
    ASSUME NEW c, NEW j, JobSound(c, j), setup \in Setup, NEW p \in Peer,
           NEW k, k = FinishReceive(j, p)
    PROVE  JobSound(c, k) /\ Without(j, k, Peer)
<1>1. j \in Job BY DEF JobSound, Shape
<1>2. /\ [j.fails EXCEPT ![p] = 0] \in [Peer -> 0 .. setup.limit]
      /\ j.parked \ {p} \in SUBSET Peer
      /\ [q \in Peer |-> None] \in [Peer -> Encoding \cup {None}]
  BY <1>1, JobFields, LimitType
<1>3. k \in Job BY <1>1, <1>2, Zenon DEF FinishReceive, Job
<1>4. /\ k.state = "verified" /\ k.primary = None /\ k.hedge = None
      /\ k.source = j.source /\ k.late = [q \in Peer |-> None]
      /\ k.fails = [j.fails EXCEPT ![p] = 0] /\ k.unavailable = j.unavailable
  BY <1>1 DEF FinishReceive, Job
<1>5. Sources(k) = Sources(j) /\ Legs(k) = {} /\ Late(k) = {}
  BY <1>4 DEF Sources, Legs, Late
<1>6. Shape(c, k) BY <1>3, <1>4, <1>5 DEF JobSound, Shape
<1>7. \A q \in Peer : k.fails[q] = 0 \/ k.fails[q] = j.fails[q]
  BY <1>1, <1>4, JobFields
<1>8. Below(k) BY <1>4, <1>7, LimitType DEF JobSound, Below
<1>9. Legs(j) \subseteq Peer BY DEF JobSound, Shape, Sources
<1> QED BY <1>4, <1>5, <1>6, <1>8, <1>9 DEF JobSound, Without

(* The scheduler gives a wanted claim to a source.                         *)
LEMMA StartPrimaryFacts ==
    ASSUME NEW c, NEW j, JobSound(c, j), setup \in Setup, j.state = "wanted",
           Eligible(j, {}) # {}, NEW k, k = StartPrimary(j)
    PROVE  /\ JobSound(c, k)
           /\ k.primary \in Peer /\ k.hedge = None /\ k.unavailable = j.unavailable
<1> DEFINE S == Eligible(j, {})  p == ChooseSource(j, S)
<1>1. j \in Job BY DEF JobSound, Shape
<1>2. S \subseteq Sources(j) /\ S \subseteq Peer BY Zenon DEF Eligible, Sources
<1>3. p \in S BY <1>1, <1>2, Chosen
<1>4. k = [j EXCEPT !.state = "inflight", !.primary = p, !.selected = j.source[p]]
  BY Zenon DEF StartPrimary
<1> HIDE DEF p, S
<1>5. p \in Peer /\ p \in Sources(j) BY <1>2, <1>3
<1>6. j.source[p] \in Encoding \cup {None} /\ j.source[p] # None
  BY <1>1, <1>5, JobFields DEF Sources
<1>7. k \in Job BY <1>1, <1>4, <1>5, <1>6, Zenon DEF Job
<1>8. /\ k.state = "inflight" /\ k.primary = p /\ k.selected = j.source[p]
      /\ k.hedge = j.hedge /\ k.source = j.source /\ k.late = j.late
      /\ k.fails = j.fails /\ k.unavailable = j.unavailable
  BY <1>1, <1>4 DEF Job
<1>9. j.hedge = None BY DEF JobSound, Shape
<1>10. p # None BY <1>5, NoneIsNoPeer
<1>11. Legs(k) = {p} /\ Sources(k) = Sources(j) /\ Late(k) = Late(j)
  BY <1>8, <1>9, <1>10 DEF Legs, Sources, Late
<1>12. Shape(c, k) BY <1>5, <1>6, <1>7, <1>8, <1>9, <1>10, <1>11 DEF JobSound, Shape
<1> QED BY <1>5, <1>8, <1>9, <1>12 DEF JobSound, Below

(* A slow terminal gets a second source.                                   *)
LEMMA StartHedgeFacts ==
    ASSUME NEW c \in Terminal, NEW j, JobSound(c, j), setup \in Setup,
           j.state = "inflight", j.hedge = None,
           Eligible(j, {Domain[j.primary]}) # {}, NEW k, k = StartHedge(j)
    PROVE  /\ JobSound(c, k)
           /\ k.primary = j.primary /\ k.hedge \in Peer
           /\ k.selected = j.selected /\ k.unavailable = j.unavailable
<1> DEFINE S == Eligible(j, {Domain[j.primary]})  p == ChooseSource(j, S)
<1>1. j \in Job BY DEF JobSound, Shape
<1>2. /\ S \subseteq Sources(j) /\ S \subseteq Peer
      /\ \A q \in S : Domain[q] # Domain[j.primary]
  BY Zenon DEF Eligible, Sources
<1>3. p \in S BY <1>1, <1>2, Chosen
<1>4. k = [j EXCEPT !.hedge = p] BY Zenon DEF StartHedge
<1> HIDE DEF p, S
<1>5. p \in Peer /\ p \in Sources(j) /\ Domain[p] # Domain[j.primary] BY <1>2, <1>3
<1>6. k \in Job BY <1>1, <1>4, <1>5, Zenon DEF Job
<1>7. /\ k.state = j.state /\ k.primary = j.primary /\ k.selected = j.selected
      /\ k.hedge = p /\ k.source = j.source /\ k.late = j.late
      /\ k.fails = j.fails /\ k.unavailable = j.unavailable
  BY <1>1, <1>4 DEF Job
<1>8. j.primary # None BY DEF JobSound, Shape
<1>9. Legs(k) \subseteq Legs(j) \cup {p} /\ Sources(k) = Sources(j) /\ Late(k) = Late(j)
  BY <1>7 DEF Legs, Sources, Late
<1>10. Shape(c, k) BY <1>5, <1>6, <1>7, <1>8, <1>9 DEF JobSound, Shape
<1> QED BY <1>5, <1>7, <1>10 DEF JobSound, Below

(* A slow hedge is replaced by a third source.                             *)
LEMMA RotateHedgeFacts ==
    ASSUME NEW c, NEW j, JobSound(c, j), setup \in Setup, j.hedge # None,
           Eligible(j, {Domain[j.primary], Domain[j.hedge]}) # {},
           NEW k, k = RotateHedge(j)
    PROVE  /\ JobSound(c, k)
           /\ k.primary = j.primary /\ k.hedge \in Peer
           /\ k.selected = j.selected /\ k.unavailable = j.unavailable
<1> DEFINE S == Eligible(j, {Domain[j.primary], Domain[j.hedge]})  p == ChooseSource(j, S)
           h == j.hedge
<1>1. j \in Job BY DEF JobSound, Shape
<1>2. /\ S \subseteq Sources(j) /\ S \subseteq Peer
      /\ \A q \in S : Domain[q] # Domain[j.primary]
  BY Zenon DEF Eligible, Sources
<1>3. p \in S BY <1>1, <1>2, Chosen
<1>4. k = [j EXCEPT !.parked = @ \cup {h}, !.late[h] = j.selected, !.hedge = p]
  BY Zenon DEF RotateHedge
<1>5. h \in Peer /\ h \in Sources(j) /\ h \notin j.unavailable
  BY JobFields, <1>1 DEF JobSound, Shape, Legs
<1> HIDE DEF p, S, h
<1>6. p \in Peer /\ p \in Sources(j) /\ Domain[p] # Domain[j.primary] BY <1>2, <1>3
<1>7. /\ [j.late EXCEPT ![h] = j.selected] \in [Peer -> Encoding \cup {None}]
      /\ j.parked \cup {h} \in SUBSET Peer
  BY <1>1, <1>5, JobFields
<1>8. k \in Job BY <1>1, <1>4, <1>6, <1>7, Zenon DEF Job
<1>9. /\ k.state = j.state /\ k.primary = j.primary /\ k.selected = j.selected
      /\ k.hedge = p /\ k.source = j.source /\ k.late = [j.late EXCEPT ![h] = j.selected]
      /\ k.fails = j.fails /\ k.unavailable = j.unavailable
  BY <1>1, <1>4 DEF Job
<1>10. j.primary # None /\ c \in Terminal BY DEF JobSound, Shape
<1>11. /\ Legs(k) \subseteq Legs(j) \cup {p} /\ Sources(k) = Sources(j)
       /\ Late(k) \subseteq Late(j) \cup {h}
  BY <1>1, <1>9, JobFields DEF Legs, Sources, Late
<1>12. Shape(c, k) BY <1>5, <1>6, <1>8, <1>9, <1>10, <1>11 DEF JobSound, Shape
<1> QED BY <1>6, <1>9, <1>12 DEF JobSound, Below

-----------------------------------------------------------------------------
(* Settling a request. *)

RequestSound(r) ==
    /\ r.peer \in Peer
    /\ DOMAIN r.objs # {} /\ DOMAIN r.objs \subseteq Planned
    /\ DOMAIN r.objs \subseteq Body \/ \E c \in Terminal : DOMAIN r.objs = {c}
    /\ \A c \in DOMAIN r.objs : r.objs[c] \in Encoding

JobsSound(jobs) ==
    jobs = [c \in Planned |-> jobs[c]] /\ \A c \in Planned : JobSound(c, jobs[c])

(* Every claim of the request is leased to its peer, for what it asks.     *)
Current(jobs, r) ==
    \A c \in DOMAIN r.objs : r.peer \in Legs(jobs[c]) /\ jobs[c].selected = r.objs[c]

(* k is what is left of the jobs when the request r is settled.            *)
Settles(jobs, r, k) ==
    /\ JobsSound(k)
    /\ \A c \in Planned : \E P \in SUBSET Peer : Without(jobs[c], k[c], P)
    /\ Current(jobs, r) => \A c \in DOMAIN r.objs : r.peer \notin Legs(k[c])
    /\ \/ \A c \in Planned : c \notin DOMAIN r.objs \/ r.peer \in jobs[c].unavailable
              => Without(jobs[c], k[c], {})
       \/ \A c \in Planned : r.peer \in k[c].unavailable /\ Without(jobs[c], k[c], {r.peer})

LEMMA SameJob == ASSUME NEW j PROVE Without(j, j, {})
BY DEF Without

(* An excluded peer has no lease to lose.                                  *)
LEMMA NoLease ==
    ASSUME NEW c, NEW j, JobSound(c, j), NEW p \in j.unavailable, NEW k, Without(j, k, {p})
    PROVE  Without(j, k, {})
<1>1. p \notin Legs(j) BY DEF JobSound, Shape
<1> QED BY <1>1 DEF Without

(* What may happen to a claim of the request.                              *)
Touched(j, k, p) ==
    \/ k = j
    \/ Without(j, k, {p})
    \/ Without(j, k, Peer) /\ p \notin j.unavailable

LEMMA SettlesEach ==
    ASSUME NEW jobs, JobsSound(jobs), NEW r, RequestSound(r), NEW k,
           k = [c \in Planned |-> k[c]],
           \A c \in Planned \ DOMAIN r.objs : k[c] = jobs[c],
           \A c \in DOMAIN r.objs : JobSound(c, k[c]) /\ Touched(jobs[c], k[c], r.peer),
           Current(jobs, r) => \A c \in DOMAIN r.objs : r.peer \notin Legs(k[c])
    PROVE  Settles(jobs, r, k)
<1>1. \A c \in Planned : JobSound(c, k[c]) BY Zenon DEF JobsSound
<1>2. ASSUME NEW c \in Planned
      PROVE  \E P \in SUBSET Peer : Without(jobs[c], k[c], P)
  <2>1. CASE k[c] = jobs[c]
    <3>1. Without(jobs[c], k[c], {}) BY <2>1, SameJob
    <3> QED BY <3>1
  <2>2. CASE Without(jobs[c], k[c], {r.peer}) BY <2>2 DEF RequestSound
  <2>3. CASE Without(jobs[c], k[c], Peer) BY <2>3
  <2> QED BY <2>1, <2>2, <2>3, Zenon DEF Touched
<1>3. ASSUME NEW c \in Planned, c \notin DOMAIN r.objs \/ r.peer \in jobs[c].unavailable
      PROVE  Without(jobs[c], k[c], {})
  <2>1. CASE k[c] = jobs[c] BY <2>1, SameJob
  <2>2. CASE Without(jobs[c], k[c], {r.peer}) /\ r.peer \in jobs[c].unavailable
    BY <2>2, NoLease DEF JobsSound
  <2> QED BY <2>1, <2>2, <1>3, Zenon DEF Touched
<1> QED BY <1>1, <1>2, <1>3, Zenon DEF Settles, JobsSound

LEMMA FailedSettles ==
    ASSUME NEW jobs, JobsSound(jobs), NEW r, RequestSound(r), setup \in Setup,
           NEW k, k = RequestFailed(jobs, r)
    PROVE  Settles(jobs, r, k)
<1>1. k = [c \in Planned |-> k[c]] BY Zenon DEF RequestFailed, ForEach
<1>2. \A c \in Planned \ DOMAIN r.objs : k[c] = jobs[c] BY Zenon DEF RequestFailed, ForEach
<1>3. ASSUME NEW c \in DOMAIN r.objs
      PROVE  JobSound(c, k[c]) /\ Without(jobs[c], k[c], {r.peer})
  <2> DEFINE f == FailSource(jobs[c], r.peer)
  <2>1. c \in Planned /\ r.peer \in Peer BY DEF RequestSound
  <2>2. k[c] = ForgetLate(f, {<<r.peer, r.objs[c]>>})
    BY <2>1, Zenon DEF RequestFailed, ForEach
  <2>3. JobSound(c, f) /\ Without(jobs[c], f, {r.peer})
    BY <2>1, FailSourceFacts DEF JobsSound
  <2> HIDE DEF f
  <2>4. JobSound(c, k[c]) /\ Without(f, k[c], {}) BY <2>2, <2>3, ForgetLateFacts
  <2> QED BY <2>3, <2>4, WithoutTwice
<1>4. \A c \in DOMAIN r.objs : r.peer \notin Legs(k[c]) BY <1>3, Zenon DEF Without
<1> QED BY <1>1, <1>2, <1>3, <1>4, SettlesEach, Zenon DEF Touched

LEMMA DeferFacts ==
    ASSUME NEW jobs, JobsSound(jobs), NEW reqs, \A r \in reqs : r.peer \in Peer,
           NEW k, k = DeferRequests(jobs, reqs)
    PROVE  /\ JobsSound(k)
           /\ \A c \in Planned : Without(jobs[c], k[c], PeersOf(c, reqs))
           /\ \A c \in Planned : PeersOf(c, reqs) = {} => k[c] = jobs[c]
<1>1. k = [c \in Planned |-> k[c]] BY Zenon DEF DeferRequests
<1>2. ASSUME NEW c \in Planned
      PROVE  /\ JobSound(c, k[c]) /\ Without(jobs[c], k[c], PeersOf(c, reqs))
             /\ PeersOf(c, reqs) = {} => k[c] = jobs[c]
  <2> DEFINE o == RequestsFor(c, reqs)  d == DropLeases(jobs[c], PeersOf(c, reqs))
  <2>1. o = {} <=> PeersOf(c, reqs) = {} BY Zenon DEF PeersOf
  <2>2. k[c] = IF o = {} THEN jobs[c] ELSE ForgetLate(d, OffersOf(c, reqs))
    BY Zenon DEF DeferRequests
  <2>3. PeersOf(c, reqs) \subseteq Peer BY Zenon DEF PeersOf, RequestsFor
  <2> HIDE DEF o
  <2>4. JobSound(c, d) /\ Without(jobs[c], d, PeersOf(c, reqs))
    BY <2>3, DropLeasesFacts DEF JobsSound
  <2> HIDE DEF d
  <2>5. CASE o = {}
    <3>1. PeersOf(c, reqs) = {} /\ k[c] = jobs[c] BY <2>5, <2>1, <2>2
    <3> QED BY <3>1, SameJob DEF JobsSound
  <2>6. CASE o # {}
    <3>1. JobSound(c, k[c]) /\ Without(d, k[c], {}) BY <2>2, <2>4, <2>6, ForgetLateFacts
    <3>2. PeersOf(c, reqs) # {} BY <2>1, <2>6
    <3> QED BY <3>1, <3>2, <2>4, WithoutTwice
  <2> QED BY <2>5, <2>6
<1> QED BY <1>1, <1>2, Zenon DEF JobsSound

LEMMA LocalSettles ==
    ASSUME NEW jobs, JobsSound(jobs), NEW r, RequestSound(r),
           NEW k, k = DeferRequests(jobs, {r})
    PROVE  Settles(jobs, r, k)
<1>1. /\ JobsSound(k)
      /\ \A c \in Planned : Without(jobs[c], k[c], PeersOf(c, {r}))
      /\ \A c \in Planned : PeersOf(c, {r}) = {} => k[c] = jobs[c]
  BY DeferFacts DEF RequestSound
<1>2. \A c \in Planned \ DOMAIN r.objs : PeersOf(c, {r}) = {} BY Zenon DEF PeersOf, RequestsFor
<1>3. \A c \in DOMAIN r.objs : PeersOf(c, {r}) = {r.peer} BY DEF PeersOf, RequestsFor
<1>4. DOMAIN r.objs \subseteq Planned BY Zenon DEF RequestSound
<1>5. ASSUME NEW c \in DOMAIN r.objs PROVE Without(jobs[c], k[c], {r.peer}) /\ JobSound(c, k[c])
  BY <1>1, <1>3, <1>4, Zenon DEF JobsSound
<1>6. \A c \in DOMAIN r.objs : r.peer \notin Legs(k[c]) BY <1>5, Zenon DEF Without
<1> QED BY <1>1, <1>2, <1>5, <1>6, SettlesEach, Zenon DEF Touched, JobsSound

LEMMA InvalidSettles ==
    ASSUME NEW jobs, JobsSound(jobs), NEW r, RequestSound(r),
           NEW k, k = QuarantineProvider(jobs, r.peer)
    PROVE  Settles(jobs, r, k)
<1>1. k = [c \in Planned |-> k[c]] BY Zenon DEF QuarantineProvider
<1>2. ASSUME NEW c \in Planned
      PROVE  /\ JobSound(c, k[c]) /\ Without(jobs[c], k[c], {r.peer})
             /\ r.peer \in k[c].unavailable
  <2>1. k[c] = QuarantineSource(jobs[c], r.peer) BY Zenon DEF QuarantineProvider
  <2> QED BY <2>1, QuarantineFacts DEF JobsSound, RequestSound
<1>3. \A c \in Planned : \E P \in SUBSET Peer : Without(jobs[c], k[c], P)
  BY <1>2 DEF RequestSound
<1>4. \A c \in DOMAIN r.objs : r.peer \notin Legs(k[c])
  BY <1>2 DEF RequestSound, Without
<1> QED BY <1>1, <1>2, <1>3, <1>4, Zenon DEF Settles, JobsSound

LEMMA BusySettles ==
    ASSUME NEW jobs, JobsSound(jobs), NEW r, RequestSound(r),
           NEW k, k = RequestBusy(jobs, r)
    PROVE  Settles(jobs, r, k)
<1> DEFINE Reached(c) ==
        \A d \in DOMAIN r.objs : r.peer \notin Sources(jobs[d]) => c < d
<1>1. k = [c \in Planned |-> k[c]] BY Zenon DEF RequestBusy, UntilError
<1>2. \A c \in Planned \ DOMAIN r.objs : k[c] = jobs[c] BY Zenon DEF RequestBusy, UntilError
<1>3. ASSUME NEW c \in DOMAIN r.objs
      PROVE  /\ JobSound(c, k[c]) /\ Touched(jobs[c], k[c], r.peer)
             /\ Reached(c) => Without(jobs[c], k[c], {r.peer})
  <2> DEFINE b == BusySource(jobs[c], r.peer)
  <2>1. c \in Planned /\ r.peer \in Peer BY DEF RequestSound
  <2>2. k[c] = IF Reached(c) THEN ForgetLate(b, {<<r.peer, r.objs[c]>>}) ELSE jobs[c]
    BY <2>1, Zenon DEF RequestBusy, UntilError
  <2>3. JobSound(c, b) /\ Without(jobs[c], b, {r.peer})
    BY <2>1, BusySourceFacts DEF JobsSound
  <2> HIDE DEF b, Reached
  <2>4. CASE Reached(c)
    <3>1. JobSound(c, k[c]) /\ Without(b, k[c], {}) BY <2>2, <2>3, <2>4, ForgetLateFacts
    <3>2. Without(jobs[c], k[c], {r.peer}) BY <2>3, <3>1, WithoutTwice
    <3> QED BY <3>1, <3>2, Zenon DEF Touched
  <2>5. CASE ~Reached(c) BY <2>1, <2>2, <2>5, Zenon DEF Touched, JobsSound
  <2> QED BY <2>4, <2>5
<1>4. ASSUME Current(jobs, r), NEW c \in DOMAIN r.objs PROVE r.peer \notin Legs(k[c])
  <2>1. Reached(c) BY <1>4, Zenon DEF Current, JobsSound, JobSound, Shape, RequestSound
  <2> QED BY <1>3, <2>1 DEF Without
<1> QED BY <1>1, <1>2, <1>3, <1>4, SettlesEach, Zenon

LEMMA ObjectsSettle ==
    ASSUME NEW jobs, JobsSound(jobs), NEW r, RequestSound(r), setup \in Setup, NEW have,
           NEW k, k = AcceptResponse(jobs, r, have)
    PROVE  Settles(jobs, r, k)
<1> DEFINE Done(c) == jobs[c].state = "verified" /\ jobs[c].selected = r.objs[c]
           Err(c) == c \in have /\ ~Done(c) /\ ReceiveFails(jobs[c], r.peer, r.objs[c])
           Reached(c) == \A d \in DOMAIN r.objs : Err(d) => c < d
<1>1. k = [c \in Planned |-> k[c]] BY Zenon DEF AcceptResponse
<1>2. \A c \in Planned \ DOMAIN r.objs : k[c] = jobs[c]
  BY Zenon DEF AcceptResponse, UntilError
<1>3. \A c \in DOMAIN r.objs :
        /\ ~Reached(c) \/ Done(c) => k[c] = jobs[c]
        /\ Reached(c) /\ ~Done(c) /\ c \in have => k[c] = FinishReceive(jobs[c], r.peer)
        /\ Reached(c) /\ ~Done(c) /\ c \notin have => k[c] = MarkUnavailable(jobs[c], r.peer)
  <2> SUFFICES ASSUME NEW c \in DOMAIN r.objs
        PROVE /\ ~Reached(c) \/ Done(c) => k[c] = jobs[c]
              /\ Reached(c) /\ ~Done(c) /\ c \in have => k[c] = FinishReceive(jobs[c], r.peer)
              /\ Reached(c) /\ ~Done(c) /\ c \notin have
                    => k[c] = MarkUnavailable(jobs[c], r.peer)
    OBVIOUS
  <2>1. c \in Planned BY DEF RequestSound
  <2> QED BY <2>1, Zenon DEF AcceptResponse, UntilError, AlreadyVerified
<1>4. ASSUME NEW c \in DOMAIN r.objs
      PROVE  /\ JobSound(c, k[c]) /\ Touched(jobs[c], k[c], r.peer)
             /\ Reached(c) /\ ~Done(c) => r.peer \notin Legs(k[c])
  <2>1. c \in Planned /\ r.peer \in Peer /\ r.objs[c] \in Encoding /\ c \in Nat
    BY PlannedClaims DEF RequestSound
  <2>2. JobSound(c, jobs[c]) BY <2>1, Zenon DEF JobsSound
  <2>3. CASE ~Reached(c) \/ Done(c) BY <1>3, <2>2, <2>3, Zenon DEF Touched
  <2>4. CASE Reached(c) /\ ~Done(c) /\ c \in have
    <3>1. ~Err(c) BY <2>1, <2>4
    <3>2. ~ReceiveFails(jobs[c], r.peer, r.objs[c]) BY <2>4, <3>1
    <3>3. r.peer \in Legs(jobs[c]) \/ jobs[c].late[r.peer] # None
      BY <3>2, <2>1, NoneIsNoPeer, Zenon DEF ReceiveFails
    <3>4. r.peer \notin jobs[c].unavailable
      BY <3>3, <2>1, <2>2 DEF JobSound, Shape, Late
    <3>5. k[c] = FinishReceive(jobs[c], r.peer) BY <1>3, <2>4
    <3> HIDE DEF Reached, Done
    <3>6. JobSound(c, k[c]) /\ Without(jobs[c], k[c], Peer)
      BY <3>5, <2>1, <2>2, FinishReceiveFacts
    <3> QED BY <3>4, <3>6, <2>1 DEF Touched, Without
  <2>5. CASE Reached(c) /\ ~Done(c) /\ c \notin have
    <3>1. k[c] = MarkUnavailable(jobs[c], r.peer) BY <1>3, <2>5
    <3> HIDE DEF Reached, Done
    <3>2. JobSound(c, k[c]) /\ Without(jobs[c], k[c], {r.peer})
      BY <3>1, <2>1, <2>2, MarkUnavailableFacts
    <3> QED BY <3>2 DEF Touched, Without
  <2> QED BY <2>3, <2>4, <2>5, Zenon
<1>5. ASSUME Current(jobs, r) PROVE \A c \in DOMAIN r.objs : Reached(c) /\ ~Done(c)
  <2>1. ASSUME NEW c \in DOMAIN r.objs PROVE ~Done(c) /\ ~Err(c)
    <3>1. r.peer \in Legs(jobs[c]) /\ jobs[c].selected = r.objs[c] BY <1>5 DEF Current
    <3>2. JobSound(c, jobs[c]) BY DEF JobsSound, RequestSound
    <3>3. jobs[c].state = "inflight" BY <3>1, <3>2 DEF JobSound, Shape, Legs
    <3> QED BY <3>1, <3>3 DEF ReceiveFails
  <2> QED BY <2>1, Zenon
<1> HIDE DEF Reached, Done
<1> QED BY <1>1, <1>2, <1>4, <1>5, SettlesEach, Zenon

LEMMA SettledFacts ==
    ASSUME NEW jobs, JobsSound(jobs), NEW r, RequestSound(r), setup \in Setup, NEW event,
           NEW k, k = Settled(r, jobs, event)
    PROVE  Settles(jobs, r, k)
<1>1. \/ k = AcceptResponse(jobs, r, event.have) \/ k = QuarantineProvider(jobs, r.peer)
      \/ k = RequestBusy(jobs, r) \/ k = DeferRequests(jobs, {r})
      \/ k = RequestFailed(jobs, r)
  BY DEF Settled
<1> QED
  BY <1>1, ObjectsSettle, InvalidSettles, BusySettles, LocalSettles, FailedSettles, Zenon

-----------------------------------------------------------------------------
(* The jobs and the requests together.  all: bodies are looked at too,     *)
(* which is while no connection has been lost.                             *)

Holds(r, p, c, e) == ~r.gone /\ r.peer = p /\ c \in DOMAIN r.objs /\ r.objs[c] = e

(* Each lease has its request, and not one of a lost connection.           *)
Backed(jobs, reqs, all) ==
    \A c \in Planned : \A p \in Legs(jobs[c]) : c \in Terminal \/ all =>
        \E r \in reqs : Holds(r, p, c, jobs[c].selected)

OfBodies(r) == DOMAIN r.objs \subseteq Body
Excluded(jobs, r) == \A c \in DOMAIN r.objs : r.peer \in jobs[c].unavailable

(* A request for bodies is current as a whole, or its peer is excluded     *)
(* from all it asks for; and no body is asked for by two current ones.     *)
Whole(jobs, reqs) == \A r \in reqs : OfBodies(r) => Current(jobs, r) \/ Excluded(jobs, r)
Apart(jobs, reqs) ==
    \A r, s \in reqs : /\ OfBodies(r) /\ OfBodies(s) /\ r # s
                       /\ Current(jobs, r) /\ Current(jobs, s)
                       => DOMAIN r.objs \cap DOMAIN s.objs = {}

InStep(jobs, reqs, all) ==
    /\ JobsSound(jobs)
    /\ \A r \in reqs : RequestSound(r)
    /\ Backed(jobs, reqs, all)
    /\ all => /\ \A r \in reqs : ~r.gone
              /\ Whole(jobs, reqs) /\ Apart(jobs, reqs)

(* A current request stays current where no lease of its peer ends.        *)
LEMMA StaysCurrent ==
    ASSUME NEW jobs, NEW k, NEW s, Current(jobs, s),
           \A c \in DOMAIN s.objs : /\ s.peer \in Legs(k[c])
                                    /\ k[c].selected = jobs[c].selected
    PROVE  Current(k, s)
BY DEF Current

LEMMA WithoutKeeps ==
    ASSUME NEW j, NEW k, NEW P, Without(j, k, P), NEW p \in Legs(j), p \notin P
    PROVE  p \in Legs(k) /\ k.selected = j.selected
BY DEF Without

LEMMA WithoutWas ==
    ASSUME NEW j, NEW k, NEW P, Without(j, k, P), NEW p \in Legs(k)
    PROVE  p \in Legs(j) /\ k.selected = j.selected
BY DEF Without

(* Leases only end: what is current was current, who is excluded stays so. *)
LEMMA WasCurrent ==
    ASSUME NEW jobs, NEW k, NEW s, DOMAIN s.objs \subseteq Planned,
           \A c \in Planned : \E P : Without(jobs[c], k[c], P)
    PROVE  /\ Current(k, s) => Current(jobs, s)
           /\ Excluded(jobs, s) => Excluded(k, s)
<1>1. ASSUME NEW c \in DOMAIN s.objs
      PROVE  /\ s.peer \in Legs(k[c]) => s.peer \in Legs(jobs[c]) /\ k[c].selected = jobs[c].selected
             /\ s.peer \in jobs[c].unavailable => s.peer \in k[c].unavailable
  <2>1. PICK P : Without(jobs[c], k[c], P) OBVIOUS
  <2> QED BY <2>1 DEF Without
<1> QED BY <1>1 DEF Current, Excluded

(* A request is settled.                                                   *)
LEMMA SettledInStep ==
    ASSUME NEW jobs, NEW reqs, NEW all \in BOOLEAN, InStep(jobs, reqs, all),
           NEW r \in reqs, NEW k, Settles(jobs, r, k)
    PROVE  InStep(k, reqs \ {r}, all)
<1>0. /\ RequestSound(r) /\ JobsSound(jobs) /\ JobsSound(k)
      /\ \A s \in reqs : DOMAIN s.objs \subseteq Planned
      /\ \A c \in Planned : \E P : Without(jobs[c], k[c], P)
  BY Zenon DEF InStep, RequestSound, Settles
<1>1. Backed(k, reqs \ {r}, all)
  <2> SUFFICES ASSUME NEW c \in Planned, NEW p \in Legs(k[c]), c \in Terminal \/ all
        PROVE  \E s \in reqs \ {r} : Holds(s, p, c, k[c].selected)
    BY Zenon DEF Backed
  <2>1. PICK P : Without(jobs[c], k[c], P) BY <1>0
  <2>2. p \in Legs(jobs[c]) /\ k[c].selected = jobs[c].selected BY <2>1, WithoutWas
  <2>3. PICK s \in reqs : Holds(s, p, c, jobs[c].selected) BY <2>2, Zenon DEF InStep, Backed
  <2>4. CASE s = r
    <3>1. r.peer = p /\ c \in DOMAIN r.objs /\ r.objs[c] = jobs[c].selected
      BY <2>3, <2>4 DEF Holds
    <3>2. CASE c \in Terminal
      <4>1. DOMAIN r.objs = {c} BY <1>0, <3>1, <3>2, SuffixConstants DEF RequestSound
      <4>2. Current(jobs, r) BY <4>1, <3>1, <2>2 DEF Current
      <4> QED BY <4>2, <3>1, Zenon DEF Settles
    <3>3. CASE c \notin Terminal
      <4>1. OfBodies(r) BY <1>0, <3>1, <3>3 DEF RequestSound, OfBodies
      <4>2. p \notin jobs[c].unavailable BY <2>2, <1>0 DEF JobsSound, JobSound, Shape
      <4>3. Current(jobs, r) BY <4>1, <4>2, <3>1, <3>3, Zenon DEF InStep, Whole, Excluded
      <4> QED BY <4>3, <3>1, Zenon DEF Settles
    <3> QED BY <3>2, <3>3
  <2> QED BY <2>2, <2>3, <2>4
<1>2. ASSUME all, NEW s \in reqs \ {r}, OfBodies(s), ~Excluded(k, s) PROVE Current(k, s)
  <2>1. Current(jobs, s) BY <1>0, <1>2, WasCurrent, Zenon DEF InStep, Whole
  <2>2. ASSUME NEW c \in DOMAIN s.objs
        PROVE  c \in Planned /\ (c \notin DOMAIN r.objs \/ r.peer \in jobs[c].unavailable)
    <3>1. c \in Body /\ c \in Planned BY <1>2, <1>0 DEF OfBodies
    <3>2. CASE c \in DOMAIN r.objs
      <4>1. OfBodies(r) BY <1>0, <3>1, <3>2, SuffixConstants DEF RequestSound, OfBodies
      <4>2. ~Current(jobs, r) BY <4>1, <2>1, <1>2, <3>2, Zenon DEF InStep, Apart
      <4> QED BY <4>1, <4>2, <1>2, <3>1, <3>2, Zenon DEF InStep, Whole, Excluded
    <3> QED BY <3>1, <3>2
  <2>3. CASE \A c \in Planned : c \notin DOMAIN r.objs \/ r.peer \in jobs[c].unavailable
                => Without(jobs[c], k[c], {})
    <3>1. \A c \in DOMAIN s.objs : s.peer \in Legs(k[c]) /\ k[c].selected = jobs[c].selected
      BY <2>1, <2>2, <2>3, WithoutKeeps DEF Current
    <3> QED BY <2>1, <3>1, StaysCurrent
  <2>4. CASE \A c \in Planned : r.peer \in k[c].unavailable /\ Without(jobs[c], k[c], {r.peer})
    <3>1. s.peer # r.peer BY <1>2, <2>4, <2>2 DEF Excluded
    <3>2. \A c \in DOMAIN s.objs : s.peer \in Legs(k[c]) /\ k[c].selected = jobs[c].selected
      BY <2>1, <2>2, <2>4, <3>1, WithoutKeeps DEF Current
    <3> QED BY <2>1, <3>2, StaysCurrent
  <2> QED BY <2>3, <2>4, Zenon DEF Settles
<1>3. all => Whole(k, reqs \ {r}) BY <1>2, Zenon DEF Whole
<1>4. all => Apart(k, reqs \ {r})
  BY <1>0, WasCurrent, Zenon DEF InStep, Apart
<1> QED BY <1>0, <1>1, <1>3, <1>4, Zenon DEF InStep

-----------------------------------------------------------------------------
(* The dispatch that ends a handler. *)

(* Which leases a dispatch starts, and that it ends none but a rotated one.*)
Schedules(jobs, hedge, ran1, turn, ran2) ==
    /\ JobsSound(ran1) /\ JobsSound(ran2)
    /\ hedge \subseteq Planned \cap Terminal /\ turn \subseteq Planned \cap Terminal
    /\ \A c \in Planned : ran2[c].unavailable = jobs[c].unavailable
    /\ \A c \in Started(jobs) : /\ c \notin hedge /\ c \notin turn
                               /\ Legs(jobs[c]) = {} /\ ran2[c].primary \in Peer
                               /\ Legs(ran2[c]) = {ran2[c].primary}
    /\ \A c \in Planned \ Started(jobs) :
          /\ ran1[c].selected = jobs[c].selected /\ ran2[c].selected = jobs[c].selected
          /\ Legs(ran2[c]) \subseteq Legs(jobs[c]) \cup
                (IF c \in turn THEN {ran2[c].hedge}
                 ELSE IF c \in hedge THEN {ran1[c].hedge} ELSE {})
    /\ \A c \in Planned \ (Started(jobs) \cup hedge \cup turn) : ran2[c] = jobs[c]
    /\ \A c \in hedge : ran1[c].hedge \in Legs(ran1[c])
    /\ \A c \in turn : ran2[c].hedge \in Legs(ran2[c])

LEMMA LeasedFacts ==
    ASSUME setup \in Setup, NEW jobs, JobsSound(jobs), NEW hedge, hedge \subseteq Hedgeable(jobs),
           NEW ran, ran = Leased(jobs, hedge)
    PROVE  /\ JobsSound(ran)
           /\ \A c \in Planned : ran[c].unavailable = jobs[c].unavailable
           /\ \A c \in Started(jobs) : /\ c \in Planned /\ jobs[c].state = "wanted"
                                      /\ ran[c].primary \in Peer /\ ran[c].hedge = None
           /\ \A c \in hedge : /\ c \in Planned \cap Terminal /\ c \notin Started(jobs)
                              /\ ran[c].primary = jobs[c].primary /\ ran[c].hedge \in Peer
                              /\ ran[c].selected = jobs[c].selected
           /\ \A c \in Planned \ (Started(jobs) \cup hedge) : ran[c] = jobs[c]
<1>1. ran = [c \in Planned |-> ran[c]] BY Zenon DEF Leased
<1>2. ASSUME NEW c \in Started(jobs)
      PROVE  /\ c \in Planned /\ jobs[c].state = "wanted" /\ JobSound(c, ran[c])
             /\ ran[c].primary \in Peer /\ ran[c].hedge = None
             /\ ran[c].unavailable = jobs[c].unavailable
  <2>1. c \in Planned /\ jobs[c].state = "wanted" /\ Eligible(jobs[c], {}) # {}
    BY Zenon DEF Started
  <2>2. ran[c] = StartPrimary(jobs[c]) BY <2>1, Zenon DEF Leased
  <2> QED BY <2>1, <2>2, StartPrimaryFacts DEF JobsSound
<1>3. ASSUME NEW c \in hedge
      PROVE  /\ c \in Planned \cap Terminal /\ c \notin Started(jobs) /\ JobSound(c, ran[c])
             /\ ran[c].primary = jobs[c].primary /\ ran[c].hedge \in Peer
             /\ ran[c].selected = jobs[c].selected /\ ran[c].unavailable = jobs[c].unavailable
  <2>1. /\ c \in Planned /\ c \in Terminal
        /\ jobs[c].state = "inflight" /\ jobs[c].hedge = None
        /\ Eligible(jobs[c], {Domain[jobs[c].primary]}) # {}
    BY DEF Hedgeable
  <2>2. c \notin Started(jobs) BY <2>1 DEF Started
  <2>3. ran[c] = StartHedge(jobs[c]) BY <2>1, <2>2, <1>3, Zenon DEF Leased
  <2> QED BY <2>1, <2>2, <2>3, StartHedgeFacts DEF JobsSound
<1>4. \A c \in Planned \ (Started(jobs) \cup hedge) : ran[c] = jobs[c]
  BY Zenon DEF Leased
<1> QED BY <1>1, <1>2, <1>3, <1>4, Zenon DEF JobsSound

LEMMA ScheduleFacts ==
    ASSUME setup \in Setup, NEW jobs, JobsSound(jobs), NEW hedge, hedge \subseteq Hedgeable(jobs),
           NEW reqs, NEW ran1, ran1 = Leased(jobs, hedge),
           NEW turn, turn \subseteq Rotatable(ran1, reqs), NEW ran2, ran2 = Rotated(ran1, turn)
    PROVE  Schedules(jobs, hedge, ran1, turn, ran2)
<1>1. /\ JobsSound(ran1)
      /\ \A c \in Planned : ran1[c].unavailable = jobs[c].unavailable
      /\ \A c \in Started(jobs) : /\ c \in Planned /\ jobs[c].state = "wanted"
                                 /\ ran1[c].primary \in Peer /\ ran1[c].hedge = None
      /\ \A c \in hedge : /\ c \in Planned \cap Terminal /\ c \notin Started(jobs)
                         /\ ran1[c].primary = jobs[c].primary /\ ran1[c].hedge \in Peer
                         /\ ran1[c].selected = jobs[c].selected
      /\ \A c \in Planned \ (Started(jobs) \cup hedge) : ran1[c] = jobs[c]
  BY LeasedFacts
<1>2. ASSUME NEW c \in turn
      PROVE  /\ c \in Planned \cap Terminal /\ c \notin Started(jobs) /\ JobSound(c, ran2[c])
             /\ ran2[c].primary = ran1[c].primary /\ ran2[c].hedge \in Peer
             /\ ran2[c].selected = ran1[c].selected
             /\ ran2[c].unavailable = ran1[c].unavailable
  <2>1. /\ c \in Planned /\ c \in Terminal /\ ran1[c].hedge # None
        /\ Eligible(ran1[c], {Domain[ran1[c].primary], Domain[ran1[c].hedge]}) # {}
    BY Zenon DEF Rotatable
  <2>2. c \notin Started(jobs) BY <1>1, <2>1
  <2>3. ran2[c] = RotateHedge(ran1[c]) BY <2>1, Zenon DEF Rotated
  <2>4. JobSound(c, ran1[c]) BY <1>1, <2>1, Zenon DEF JobsSound
  <2> DEFINE j == ran1[c]  k == ran2[c]
  <2>5. /\ JobSound(c, j) /\ j.hedge # None /\ k = RotateHedge(j)
        /\ Eligible(j, {Domain[j.primary], Domain[j.hedge]}) # {}
    BY <2>1, <2>3, <2>4
  <2> HIDE DEF j, k
  <2>6. /\ JobSound(c, k) /\ k.primary = j.primary /\ k.hedge \in Peer
        /\ k.selected = j.selected /\ k.unavailable = j.unavailable
    BY <2>5, RotateHedgeFacts, Zenon
  <2> QED BY <2>1, <2>2, <2>6 DEF j, k
<1>3. \A c \in Planned \ turn : ran2[c] = ran1[c] BY Zenon DEF Rotated
<1>4. ran2 = [c \in Planned |-> ran2[c]] BY Zenon DEF Rotated
<1>5. JobsSound(ran2) BY <1>1, <1>2, <1>3, <1>4, Zenon DEF JobsSound
<1>6. \A c \in Planned : ran2[c].unavailable = jobs[c].unavailable BY <1>1, <1>2, <1>3, Zenon
<1>7. ASSUME NEW c \in Started(jobs)
      PROVE  /\ c \notin hedge /\ c \notin turn
             /\ Legs(jobs[c]) = {} /\ ran2[c].primary \in Peer
             /\ Legs(ran2[c]) = {ran2[c].primary}
  <2>1. c \notin hedge /\ c \notin turn /\ c \in Planned BY <1>1, <1>2, Zenon
  <2>2. jobs[c].primary = None /\ jobs[c].hedge = None
    BY <1>1, <2>1 DEF JobsSound, JobSound, Shape
  <2>3. ran2[c].primary \in Peer /\ ran2[c].hedge = None BY <1>1, <1>3, <2>1
  <2> QED BY <2>1, <2>2, <2>3, NoneIsNoPeer DEF Legs
<1>8. ASSUME NEW c \in Planned \ Started(jobs)
      PROVE  /\ ran1[c].selected = jobs[c].selected /\ ran2[c].selected = jobs[c].selected
             /\ Legs(ran2[c]) \subseteq Legs(jobs[c]) \cup
                   (IF c \in turn THEN {ran2[c].hedge}
                    ELSE IF c \in hedge THEN {ran1[c].hedge} ELSE {})
  <2>1. ran1[c].selected = jobs[c].selected /\ ran1[c].primary = jobs[c].primary
    BY <1>1, Zenon
  <2>2. ran2[c].selected = ran1[c].selected /\ ran2[c].primary = ran1[c].primary
    BY <1>2, <1>3, Zenon
  <2>3. c \notin turn => ran2[c] = ran1[c] BY <1>3
  <2>4. c \notin hedge => ran1[c] = jobs[c] BY <1>1
  <2> QED BY <2>1, <2>2, <2>3, <2>4 DEF Legs
<1>9. \A c \in Planned \ (Started(jobs) \cup hedge \cup turn) : ran2[c] = jobs[c]
  BY <1>1, <1>3, Zenon
<1>10. /\ \A c \in hedge : ran1[c].hedge \in Legs(ran1[c])
       /\ \A c \in turn : ran2[c].hedge \in Legs(ran2[c])
  BY <1>1, <1>2, NoneIsNoPeer DEF Legs
<1>11. hedge \subseteq Planned \cap Terminal /\ turn \subseteq Planned \cap Terminal
  BY <1>1, <1>2, Zenon
<1> QED BY <1>1, <1>5, <1>6, <1>7, <1>8, <1>9, <1>10, <1>11, Zenon DEF Schedules

LEMMA CoalesceFacts ==
    ASSUME NEW claims
    PROVE  /\ \A S \in Coalesce(claims) : S # {} /\ S \subseteq claims
           /\ \A c \in claims : \E S \in Coalesce(claims) : c \in S
           /\ \A S, T \in Coalesce(claims) : S \cap T # {} => S = T
<1> DEFINE Group(c) == (Cardinality({d \in claims : d < c})) \div MaxObjectsPerRequest
<1>1. Coalesce(claims) = {{d \in claims : Group(d) = Group(c)} : c \in claims}
  BY Zenon DEF Coalesce
<1> HIDE DEF Group
<1>2. ASSUME NEW S \in Coalesce(claims) PROVE S # {} /\ S \subseteq claims
  <2>1. PICK c \in claims : S = {d \in claims : Group(d) = Group(c)} BY <1>1, Zenon
  <2> QED BY <2>1
<1>3. ASSUME NEW c \in claims PROVE \E S \in Coalesce(claims) : c \in S
  <2>1. c \in {d \in claims : Group(d) = Group(c)} OBVIOUS
  <2> QED BY <2>1, <1>1, Zenon
<1>4. ASSUME NEW S \in Coalesce(claims), NEW T \in Coalesce(claims), S \cap T # {}
      PROVE  S = T
  <2>1. PICK b \in claims : S = {d \in claims : Group(d) = Group(b)} BY <1>1, Zenon
  <2>2. PICK c \in claims : T = {d \in claims : Group(d) = Group(c)} BY <1>1, Zenon
  <2>3. Group(b) = Group(c) BY <1>4, <2>1, <2>2, Zenon
  <2> QED BY <2>1, <2>2, <2>3
<1> QED BY <1>2, <1>3, <1>4, Zenon

LEMMA RequestFields ==
    ASSUME NEW jobs, NEW p, NEW S, NEW r, r = Request(jobs, p, S)
    PROVE  /\ r.peer = p /\ ~r.gone /\ DOMAIN r.objs = S
           /\ \A c \in S : r.objs[c] = jobs[c].selected
BY Zenon DEF Request

(* A request for bodies carries the leases of one peer that were started.  *)
LEMMA BodyRequestFacts ==
    ASSUME NEW jobs, NEW started, NEW r \in BodyRequests(jobs, started)
    PROVE  /\ \E S \in Coalesce({c \in started \cap Body : jobs[c].primary = r.peer}) :
                  r = Request(jobs, r.peer, S)
           /\ r.peer \in Peer /\ ~r.gone /\ DOMAIN r.objs # {}
           /\ DOMAIN r.objs \subseteq started \cap Body
           /\ \A c \in DOMAIN r.objs : jobs[c].primary = r.peer /\ r.objs[c] = jobs[c].selected
<1>1. PICK p \in Peer : r \in {Request(jobs, p, S) :
              S \in Coalesce({c \in started \cap Body : jobs[c].primary = p})}
  BY Zenon DEF BodyRequests
<1>2. PICK S \in Coalesce({c \in started \cap Body : jobs[c].primary = p}) :
              r = Request(jobs, p, S)
  BY <1>1
<1>3. /\ r.peer = p /\ ~r.gone /\ DOMAIN r.objs = S
      /\ \A c \in S : r.objs[c] = jobs[c].selected
  BY <1>2, RequestFields
<1>4. S # {} /\ S \subseteq {c \in started \cap Body : jobs[c].primary = p}
  BY CoalesceFacts, Zenon
<1> QED BY <1>2, <1>3, <1>4, Zenon

LEMMA InBodyRequests ==
    ASSUME NEW jobs, NEW started, NEW p \in Peer,
           NEW S \in Coalesce({c \in started \cap Body : jobs[c].primary = p})
    PROVE  Request(jobs, p, S) \in BodyRequests(jobs, started)
<1> DEFINE F(q) == {Request(jobs, q, T) :
                       T \in Coalesce({c \in started \cap Body : jobs[c].primary = q})}
<1>1. Request(jobs, p, S) \in F(p) OBVIOUS
<1>2. BodyRequests(jobs, started) = UNION {F(q) : q \in Peer} BY Zenon DEF BodyRequests
<1> HIDE DEF F
<1> QED BY <1>1, <1>2, Zenon

(* What the requests of a dispatch ask for is what it has leased.          *)
LEMMA NewRequestFacts ==
    ASSUME setup \in Setup, NEW jobs, NEW hedge, NEW ran1, NEW turn, NEW ran2,
           Schedules(jobs, hedge, ran1, turn, ran2),
           NEW r \in NewRequests(Started(jobs), hedge, ran1, turn, ran2)
    PROVE  /\ RequestSound(r) /\ ~r.gone
           /\ OfBodies(r) => /\ r \in BodyRequests(ran2, Started(jobs))
                             /\ DOMAIN r.objs \subseteq Started(jobs) /\ Current(ran2, r)
<1>0. /\ JobsSound(ran1) /\ JobsSound(ran2) /\ Started(jobs) \subseteq Planned
      /\ hedge \subseteq Planned \cap Terminal /\ turn \subseteq Planned \cap Terminal
      /\ \A c \in Started(jobs) : ran2[c].primary \in Legs(ran2[c])
  BY DEF Schedules, Started
<1>1. ASSUME NEW ran, JobsSound(ran), NEW c \in Planned, NEW p \in Legs(ran[c])
      PROVE  p \in Peer /\ ran[c].selected \in Encoding
  <2>1. JobSound(c, ran[c]) BY <1>1, Zenon DEF JobsSound
  <2>2. ran[c].primary # None BY <2>1, <1>1 DEF JobSound, Shape, Legs
  <2> QED BY <2>1, <2>2, <1>1, JobFields DEF JobSound, Shape, Sources
<1>2. CASE r \in BodyRequests(ran2, Started(jobs))
  <2>1. /\ r.peer \in Peer /\ ~r.gone /\ DOMAIN r.objs # {}
        /\ DOMAIN r.objs \subseteq Started(jobs) \cap Body
        /\ \A c \in DOMAIN r.objs : ran2[c].primary = r.peer /\ r.objs[c] = ran2[c].selected
    BY <1>2, BodyRequestFacts
  <2>2. ASSUME NEW c \in DOMAIN r.objs
        PROVE  /\ c \in Planned /\ c \in Body /\ r.peer \in Legs(ran2[c])
               /\ ran2[c].selected = r.objs[c]
    BY <2>1, <1>0, Zenon
  <2>3. \A c \in DOMAIN r.objs : r.objs[c] \in Encoding BY <1>0, <1>1, <2>2
  <2>4. RequestSound(r) BY <2>1, <2>2, <2>3, Zenon DEF RequestSound
  <2> QED BY <1>2, <2>1, <2>2, <2>4, Zenon DEF Current
<1>3. ASSUME NEW ran, JobsSound(ran), NEW c \in Planned \cap Terminal, NEW p \in Legs(ran[c]),
             r = Request(ran, p, {c})
      PROVE  RequestSound(r) /\ ~r.gone /\ ~OfBodies(r)
  <2>1. /\ r.peer = p /\ ~r.gone /\ DOMAIN r.objs = {c} /\ r.objs[c] = ran[c].selected
    BY <1>3, RequestFields
  <2>2. p \in Peer /\ ran[c].selected \in Encoding BY <1>1, <1>3
  <2>3. RequestSound(r) BY <2>1, <2>2 DEF RequestSound
  <2>4. c \notin Body BY SuffixConstants
  <2> QED BY <2>1, <2>3, <2>4 DEF OfBodies
<1>4. CASE r \in {Request(ran2, ran2[c].primary, {c}) : c \in Started(jobs) \cap Terminal}
  <2>1. PICK c \in Started(jobs) \cap Terminal : r = Request(ran2, ran2[c].primary, {c})
    BY <1>4
  <2>2. c \in Planned \cap Terminal /\ ran2[c].primary \in Legs(ran2[c]) BY <1>0
  <2> QED BY <1>0, <1>3, <2>1, <2>2, Zenon
<1>5. CASE r \in {Request(ran1, ran1[c].hedge, {c}) : c \in hedge}
  <2>1. PICK c \in hedge : r = Request(ran1, ran1[c].hedge, {c}) BY <1>5
  <2>2. c \in Planned \cap Terminal /\ ran1[c].hedge \in Legs(ran1[c])
    BY <1>0, Zenon DEF Schedules
  <2> QED BY <1>0, <1>3, <2>1, <2>2, Zenon
<1>6. CASE r \in {Request(ran2, ran2[c].hedge, {c}) : c \in turn}
  <2>1. PICK c \in turn : r = Request(ran2, ran2[c].hedge, {c}) BY <1>6
  <2>2. c \in Planned \cap Terminal /\ ran2[c].hedge \in Legs(ran2[c])
    BY <1>0, Zenon DEF Schedules
  <2> QED BY <1>0, <1>3, <2>1, <2>2, Zenon
<1> QED BY <1>2, <1>4, <1>5, <1>6, Zenon DEF NewRequests

(* Every lease of the schedule has its request, old or new.                *)
LEMMA ScheduledBacked ==
    ASSUME setup \in Setup, NEW jobs, NEW hedge, NEW ran1, NEW turn, NEW ran2,
           Schedules(jobs, hedge, ran1, turn, ran2),
           NEW reqs, NEW all \in BOOLEAN, Backed(jobs, reqs, all)
    PROVE  Backed(ran2, reqs \cup NewRequests(Started(jobs), hedge, ran1, turn, ran2), all)
<1> DEFINE new == NewRequests(Started(jobs), hedge, ran1, turn, ran2)
<1> SUFFICES ASSUME NEW c \in Planned, NEW p \in Legs(ran2[c]), c \in Terminal \/ all
    PROVE  \E r \in reqs \cup new : Holds(r, p, c, ran2[c].selected)
  BY Zenon DEF Backed
<1>1. ASSUME NEW ran, NEW S, c \in S, Request(ran, p, S) \in new,
             ran[c].selected = ran2[c].selected
      PROVE  \E r \in reqs \cup new : Holds(r, p, c, ran2[c].selected)
  <2>1. Holds(Request(ran, p, S), p, c, ran2[c].selected)
    BY <1>1, RequestFields DEF Holds
  <2> QED BY <1>1, <2>1, Zenon
<1>2. CASE c \in Started(jobs)
  <2>1. p = ran2[c].primary /\ p \in Peer BY <1>2 DEF Schedules
  <2>2. CASE c \in Terminal
    <3>1. Request(ran2, p, {c}) \in new BY <1>2, <2>1, <2>2, Zenon DEF NewRequests
    <3> QED BY <1>1, <3>1
  <2>3. CASE c \notin Terminal
    <3> DEFINE mine == {d \in Started(jobs) \cap Body : ran2[d].primary = p}
    <3>1. c \in mine BY <1>2, <2>1, <2>3, PlannedClaims DEF Claim
    <3>2. \A S \in Coalesce(mine) : Request(ran2, p, S) \in BodyRequests(ran2, Started(jobs))
      BY <2>1, InBodyRequests, Zenon
    <3> HIDE DEF mine
    <3>3. PICK S \in Coalesce(mine) : c \in S BY <3>1, CoalesceFacts
    <3>4. Request(ran2, p, S) \in new BY <3>2, Zenon DEF NewRequests
    <3> QED BY <1>1, <3>3, <3>4, Zenon
  <2> QED BY <2>2, <2>3
<1>3. CASE c \notin Started(jobs)
  <2>1. /\ ran1[c].selected = jobs[c].selected /\ ran2[c].selected = jobs[c].selected
        /\ \/ p \in Legs(jobs[c])
           \/ c \in turn /\ p = ran2[c].hedge
           \/ c \in hedge /\ p = ran1[c].hedge
    BY <1>3 DEF Schedules
  <2>2. CASE p \in Legs(jobs[c]) BY <2>1, <2>2, Zenon DEF Backed
  <2>3. CASE c \in turn /\ p = ran2[c].hedge
    <3>1. Request(ran2, p, {c}) \in new BY <2>3, Zenon DEF NewRequests
    <3> QED BY <1>1, <3>1
  <2>4. CASE c \in hedge /\ p = ran1[c].hedge
    <3>1. Request(ran1, p, {c}) \in new BY <2>4, Zenon DEF NewRequests
    <3> QED BY <1>1, <2>1, <3>1, Zenon
  <2> QED BY <2>1, <2>2, <2>3, <2>4
<1> QED BY <1>2, <1>3

(* Two requests for bodies of one dispatch have nothing in common.         *)
LEMMA BodyRequestsApart ==
    ASSUME NEW jobs, NEW started, NEW r \in BodyRequests(jobs, started),
           NEW s \in BodyRequests(jobs, started), DOMAIN r.objs \cap DOMAIN s.objs # {}
    PROVE  r = s
<1> DEFINE mine(p) == {c \in started \cap Body : jobs[c].primary = p}
<1>1. PICK S \in Coalesce(mine(r.peer)) : r = Request(jobs, r.peer, S)
  BY BodyRequestFacts
<1>2. PICK T \in Coalesce(mine(s.peer)) : s = Request(jobs, s.peer, T)
  BY BodyRequestFacts
<1>3. PICK c : c \in DOMAIN r.objs /\ c \in DOMAIN s.objs OBVIOUS
<1>4. r.peer = s.peer BY <1>3, BodyRequestFacts
<1>5. c \in S /\ c \in T BY <1>1, <1>2, <1>3, RequestFields
<1> HIDE DEF mine
<1>6. S = T BY <1>4, <1>5, CoalesceFacts
<1> QED BY <1>1, <1>2, <1>4, <1>6, Zenon

(* What a dispatch leaves behind.                                          *)
LEMMA DispatchInStep ==
    ASSUME setup \in Setup, NEW jobs, NEW reqs, NEW all \in BOOLEAN, InStep(jobs, reqs, all),
           NEW hedge, hedge \subseteq Hedgeable(jobs), NEW rotate,
           Dispatch(jobs, reqs, hedge, rotate)
    PROVE  InStep(job', pending', all)
<1> DEFINE ran1 == Leased(jobs, hedge)
           turn == Rotatable(ran1, reqs) \cap rotate
           ran2 == Rotated(ran1, turn)
           new == NewRequests(Started(jobs), hedge, ran1, turn, ran2)
<1>1. PICK refused \in SUBSET new :
          job' = DeferRequests(ran2, refused) /\ pending' = reqs \cup (new \ refused)
  BY Zenon DEF Dispatch
<1>2. JobsSound(jobs) BY DEF InStep
<1>3. Schedules(jobs, hedge, ran1, turn, ran2)
  <2>1. turn \subseteq Rotatable(ran1, reqs) OBVIOUS
  <2> HIDE DEF turn
  <2> QED BY <1>2, <2>1, ScheduleFacts
<1> HIDE DEF ran1, turn, ran2
<1>4. \A r \in new :
         /\ RequestSound(r) /\ ~r.gone
         /\ OfBodies(r) => /\ r \in BodyRequests(ran2, Started(jobs))
                           /\ DOMAIN r.objs \subseteq Started(jobs) /\ Current(ran2, r)
  BY <1>3, NewRequestFacts
<1>5. Backed(ran2, reqs \cup new, all) BY <1>3, ScheduledBacked DEF InStep
<1> HIDE DEF new
<1>6. /\ JobsSound(job')
      /\ \A c \in Planned : Without(ran2[c], job'[c], PeersOf(c, refused))
      /\ \A c \in Planned : PeersOf(c, refused) = {} => job'[c] = ran2[c]
  <2>1. JobsSound(ran2) /\ \A r \in refused : r.peer \in Peer
    BY <1>3, <1>4, Zenon DEF Schedules, RequestSound
  <2> QED BY <1>1, <2>1, DeferFacts
<1>7. \A r \in pending' : RequestSound(r) BY <1>1, <1>4, Zenon DEF InStep
<1>8. Backed(job', pending', all)
  <2> SUFFICES ASSUME NEW c \in Planned, NEW p \in Legs(job'[c]), c \in Terminal \/ all
      PROVE  \E r \in pending' : Holds(r, p, c, job'[c].selected)
    BY Zenon DEF Backed
  <2>1. p \in Legs(ran2[c]) /\ job'[c].selected = ran2[c].selected /\ p \notin PeersOf(c, refused)
    BY <1>6, Zenon DEF Without
  <2>2. PICK r \in reqs \cup new : Holds(r, p, c, ran2[c].selected)
    BY <1>5, <2>1, Zenon DEF Backed
  <2>3. r \notin refused BY <2>1, <2>2, Zenon DEF Holds, PeersOf, RequestsFor
  <2> QED BY <1>1, <2>1, <2>2, <2>3
<1>9. ASSUME all PROVE \A r \in pending' : ~r.gone
  BY <1>1, <1>4, <1>9, Zenon DEF InStep
<1>10. ASSUME NEW r \in new \ refused, OfBodies(r) PROVE Current(job', r)
  <2>1. ASSUME NEW c \in DOMAIN r.objs PROVE c \in Planned /\ PeersOf(c, refused) = {}
    <3>1. c \in Planned /\ c \in Body BY <1>4, <1>10 DEF RequestSound, OfBodies
    <3>2. ASSUME NEW s \in refused, c \in DOMAIN s.objs PROVE FALSE
      <4>1. s \in new /\ OfBodies(s)
        BY <1>4, <3>1, <3>2, SuffixConstants DEF RequestSound, OfBodies
      <4>2. r = s BY <1>4, <1>10, <4>1, <3>2, BodyRequestsApart
      <4> QED BY <1>10, <3>2, <4>2
    <3> QED BY <3>1, <3>2 DEF PeersOf, RequestsFor
  <2>2. \A c \in DOMAIN r.objs : job'[c] = ran2[c] BY <1>6, <2>1
  <2> QED BY <1>4, <1>10, <2>2, Zenon DEF Current
<1>11. ASSUME NEW c \in Planned \cap Body, c \notin Started(jobs)
       PROVE  job'[c] = jobs[c]
  <2>1. ran2[c] = jobs[c] BY <1>3, <1>11, SuffixConstants, Zenon DEF Schedules
  <2>2. ASSUME NEW s \in refused, c \in DOMAIN s.objs PROVE FALSE
    <3>1. s \in new /\ OfBodies(s)
      BY <1>4, <1>11, <2>2, SuffixConstants DEF RequestSound, OfBodies
    <3> QED BY <1>4, <1>11, <2>2, <3>1
  <2>3. PeersOf(c, refused) = {} BY <2>2 DEF PeersOf, RequestsFor
  <2> QED BY <1>6, <2>1, <2>3
<1>12. ASSUME NEW r \in reqs, OfBodies(r), Current(jobs, r)
       PROVE  DOMAIN r.objs \cap Started(jobs) = {} /\ Current(job', r)
  <2>1. DOMAIN r.objs \cap Started(jobs) = {}
    BY <1>3, <1>12, Zenon DEF Current, Schedules
  <2>2. \A c \in DOMAIN r.objs : job'[c] = jobs[c]
    BY <1>11, <1>12, <2>1, Zenon DEF InStep, RequestSound, OfBodies
  <2> QED BY <1>12, <2>1, <2>2, Zenon DEF Current
<1>13. ASSUME NEW r \in reqs, Excluded(jobs, r)
       PROVE  Excluded(job', r) /\ ~Current(job', r)
  <2>1. ASSUME NEW c \in DOMAIN r.objs
        PROVE  r.peer \in job'[c].unavailable /\ r.peer \notin Legs(job'[c])
    <3>1. c \in Planned BY Zenon DEF InStep, RequestSound
    <3>2. r.peer \in job'[c].unavailable
      BY <1>3, <1>6, <1>13, <3>1, Zenon DEF Excluded, Schedules, Without
    <3> QED BY <1>6, <3>1, <3>2 DEF JobsSound, JobSound, Shape
  <2>2. DOMAIN r.objs # {} BY Zenon DEF InStep, RequestSound
  <2> QED BY <2>1, <2>2 DEF Excluded, Current
<1>14. ASSUME all PROVE Whole(job', pending')
  BY <1>1, <1>10, <1>12, <1>13, <1>14, Zenon DEF InStep, Whole
<1>15. ASSUME all, NEW r \in pending', NEW s \in pending', OfBodies(r), OfBodies(s), r # s,
              Current(job', r), Current(job', s)
       PROVE  DOMAIN r.objs \cap DOMAIN s.objs = {}
  <2>1. ASSUME NEW t \in reqs, OfBodies(t), Current(job', t) PROVE Current(jobs, t)
    BY <1>13, <1>15, <2>1, Zenon DEF InStep, Whole
  <2>2. CASE r \in reqs /\ s \in reqs BY <1>15, <2>1, <2>2, Zenon DEF InStep, Apart
  <2>3. ASSUME NEW t \in reqs, NEW n \in new, OfBodies(t), OfBodies(n), Current(job', t)
        PROVE  DOMAIN t.objs \cap DOMAIN n.objs = {}
    BY <1>4, <1>12, <2>1, <2>3
  <2>4. CASE r \in new /\ s \in new BY <1>4, <1>15, <2>4, BodyRequestsApart
  <2> QED BY <1>1, <1>15, <2>2, <2>3, <2>4
<1>16. ASSUME all PROVE Apart(job', pending') BY <1>15, <1>16, Zenon DEF Apart
<1> QED BY <1>6, <1>7, <1>8, <1>9, <1>14, <1>16, Zenon DEF InStep

-----------------------------------------------------------------------------
(* The handlers. *)

UsedType == [adverts : Nat, flaps : Nat, busy : Nat, local : Nat, holds : Nat]

SyncInv ==
    /\ setup \in Setup
    /\ rotated \in BOOLEAN /\ phase \in {"active", "sealed", "retired"} /\ conn \subseteq Peer
    /\ control \in Seq(Peer)
    /\ used \in UsedType
    /\ used.flaps = 0 => control = <<>>
    /\ InStep(job, pending, used.flaps = 0)

(* The jobs change without a lease being lost, or the requests that go are *)
(* those of lost connections.                                              *)
LEMMA KeptInStep ==
    ASSUME NEW jobs, NEW reqs, NEW all \in BOOLEAN, InStep(jobs, reqs, all),
           NEW k, k = [c \in Planned |-> k[c]],
           \A c \in Planned : JobSound(c, k[c]) /\ Without(jobs[c], k[c], {}),
           NEW rest, rest \subseteq reqs, \A r \in reqs \ rest : r.gone
    PROVE  InStep(k, rest, all)
<1>0. /\ \A c \in Planned : \E P : Without(jobs[c], k[c], P)
      /\ \A r \in reqs : DOMAIN r.objs \subseteq Planned
  BY Zenon DEF InStep, RequestSound
<1>1. JobsSound(k) BY Zenon DEF JobsSound
<1>2. Backed(k, rest, all)
  <2> SUFFICES ASSUME NEW c \in Planned, NEW p \in Legs(k[c]), c \in Terminal \/ all
      PROVE  \E r \in rest : Holds(r, p, c, k[c].selected)
    BY Zenon DEF Backed
  <2>1. p \in Legs(jobs[c]) /\ k[c].selected = jobs[c].selected BY WithoutWas
  <2>2. PICK r \in reqs : Holds(r, p, c, jobs[c].selected) BY <2>1, Zenon DEF InStep, Backed
  <2> QED BY <2>1, <2>2, Zenon DEF Holds
<1>3. ASSUME NEW r \in reqs, Current(jobs, r) PROVE Current(k, r)
  <2>1. \A c \in DOMAIN r.objs : r.peer \in Legs(k[c]) /\ k[c].selected = jobs[c].selected
    BY <1>0, <1>3, WithoutKeeps DEF Current
  <2> QED BY <1>3, <2>1, StaysCurrent
<1>4. ASSUME NEW r \in reqs PROVE /\ Current(k, r) => Current(jobs, r)
                                  /\ Excluded(jobs, r) => Excluded(k, r)
  BY <1>0, WasCurrent, Zenon
<1>5. all => Whole(k, rest) BY <1>3, <1>4, Zenon DEF InStep, Whole
<1>6. all => Apart(k, rest) BY <1>4, Zenon DEF InStep, Apart
<1> QED BY <1>1, <1>2, <1>5, <1>6, Zenon DEF InStep

LEMMA InventoryInStep ==
    ASSUME SyncInv, NEW p \in Peer, NEW inv \in Inventory[p], ReceiveInventory(p, inv)
    PROVE  InStep(job', pending', used.flaps = 0)
<1> DEFINE k == [c \in Planned |-> Advertise(job[c], p, inv[c])]
<1>1. setup \in Setup /\ InStep(job, pending, used.flaps = 0) BY DEF SyncInv
<1>2. Dispatch(k, pending, {}, {}) BY Zenon DEF ReceiveInventory
<1>3. k = [c \in Planned |-> k[c]] BY Zenon
<1>4. ASSUME NEW c \in Planned PROVE JobSound(c, k[c]) /\ Without(job[c], k[c], {})
  <2>1. inv[c] \in Encoding \cup {None} BY <1>1, PlannedClaims, SuffixConstants
  <2>2. JobSound(c, job[c]) BY <1>1, Zenon DEF InStep, JobsSound
  <2>3. k[c] = Advertise(job[c], p, inv[c]) BY Zenon
  <2> HIDE DEF k
  <2> QED BY <2>1, <2>2, <2>3, AdvertiseFacts
<1> HIDE DEF k
<1>5. InStep(k, pending, used.flaps = 0) BY <1>1, <1>3, <1>4, KeptInStep, Zenon
<1> QED BY <1>1, <1>2, <1>5, DispatchInStep, Zenon

LEMMA OutcomeInStep ==
    ASSUME SyncInv, HandleOutcome PROVE InStep(job', pending', used.flaps = 0)
<1> DEFINE event == Head(live)  mine == {r \in pending : r.token = event.token}
<1>1. setup \in Setup /\ InStep(job, pending, used.flaps = 0) BY DEF SyncInv
<1>2. \/ job' = job /\ pending' = pending
      \/ Dispatch(job, pending, {}, {})
      \/ \E r \in mine : Dispatch(Settled(r, job, event), pending \ {r}, {}, {})
  BY Zenon DEF HandleOutcome
<1>3. CASE job' = job /\ pending' = pending BY <1>1, <1>3
<1>4. CASE Dispatch(job, pending, {}, {}) BY <1>1, <1>4, DispatchInStep, Zenon
<1>5. ASSUME NEW r \in mine, Dispatch(Settled(r, job, event), pending \ {r}, {}, {})
      PROVE  InStep(job', pending', used.flaps = 0)
  <2> DEFINE k == Settled(r, job, event)
  <2>1. r \in pending /\ RequestSound(r) /\ JobsSound(job) BY <1>1, Zenon DEF InStep
  <2>2. Settles(job, r, k) BY <1>1, <2>1, SettledFacts
  <2>3. Dispatch(k, pending \ {r}, {}, {}) BY <1>5
  <2> HIDE DEF k
  <2>4. InStep(k, pending \ {r}, used.flaps = 0) BY <1>1, <2>1, <2>2, SettledInStep, Zenon
  <2> QED BY <1>1, <2>3, <2>4, DispatchInStep, Zenon
<1> QED BY <1>2, <1>3, <1>4, <1>5, Zenon

LEMMA DisconnectInStep ==
    ASSUME SyncInv, HandleDisconnect PROVE InStep(job', pending', used.flaps = 0)
<1> DEFINE p == Head(control)
           k == [c \in Planned |-> DisconnectJob(job[c], p)]
           Marked(r) == [token |-> r.token, peer |-> r.peer, objs |-> r.objs,
                         gone |-> r.gone \/ r.peer = p]
           reqs == {Marked(r) : r \in pending}
<1>1. setup \in Setup /\ InStep(job, pending, used.flaps = 0) BY DEF SyncInv
<1>2. used.flaps # 0 /\ p \in Peer BY DEF SyncInv, HandleDisconnect
<1>3. Dispatch(k, reqs, {}, {}) BY Zenon DEF HandleDisconnect
<1>4. k = [c \in Planned |-> k[c]] BY Zenon
<1>5. ASSUME NEW c \in Planned PROVE JobSound(c, k[c]) /\ Without(job[c], k[c], {p})
  <2>1. JobSound(c, job[c]) BY <1>1, Zenon DEF InStep, JobsSound
  <2>2. k[c] = DisconnectJob(job[c], p) BY Zenon
  <2> HIDE DEF k, p
  <2> QED BY <1>2, <2>1, <2>2, DisconnectFacts
<1> HIDE DEF k, p
<1>6. \A r \in pending : /\ Marked(r).peer = r.peer /\ Marked(r).objs = r.objs
                         /\ Marked(r).gone <=> r.gone \/ r.peer = p
  BY Zenon
<1> HIDE DEF Marked
<1>7. \A r \in reqs : RequestSound(r)
  BY <1>1, <1>6, Zenon DEF InStep, RequestSound
<1>8. Backed(k, reqs, FALSE)
  <2> SUFFICES ASSUME NEW c \in Planned, NEW q \in Legs(k[c]), c \in Terminal
      PROVE  \E r \in reqs : Holds(r, q, c, k[c].selected)
    BY Zenon DEF Backed
  <2>1. q \in Legs(job[c]) /\ k[c].selected = job[c].selected /\ q # p
    BY <1>5 DEF Without
  <2>2. PICK r \in pending : Holds(r, q, c, job[c].selected)
    BY <1>1, <2>1, Zenon DEF InStep, Backed
  <2>3. Holds(Marked(r), q, c, k[c].selected) BY <1>6, <2>1, <2>2, Zenon DEF Holds
  <2> QED BY <2>3, Zenon
<1>9. JobsSound(k) BY <1>4, <1>5, Zenon DEF JobsSound
<1>10. InStep(k, reqs, FALSE) BY <1>7, <1>8, <1>9, Zenon DEF InStep
<1>11. (used.flaps = 0) = FALSE BY <1>2
<1> HIDE DEF reqs
<1> QED BY <1>1, <1>3, <1>10, <1>11, DispatchInStep, Zenon

LEMMA HeartbeatInStep ==
    ASSUME SyncInv, Heartbeat PROVE InStep(job', pending', used.flaps = 0)
<1>1. setup \in Setup /\ InStep(job, pending, used.flaps = 0) BY DEF SyncInv
<1>2. PICK expired \in SUBSET {r \in pending : r.gone} :
        \E hedge \in SUBSET Hedgeable(ExpireRequests(job, expired)),
           rotate \in SUBSET (Planned \cap Terminal) :
              Dispatch(ExpireRequests(job, expired), pending \ expired, hedge, rotate)
  BY Zenon DEF Heartbeat
<1> DEFINE k == ExpireRequests(job, expired)
<1>3. k = [c \in Planned |-> k[c]] BY Zenon DEF ExpireRequests
<1>4. ASSUME NEW c \in Planned PROVE JobSound(c, k[c]) /\ Without(job[c], k[c], {})
  <2>1. JobSound(c, job[c]) BY <1>1, Zenon DEF InStep, JobsSound
  <2>2. k[c] = job[c] \/ k[c] = ForgetLate(job[c], OffersOf(c, expired))
    BY Zenon DEF ExpireRequests
  <2> HIDE DEF k
  <2> QED BY <2>1, <2>2, ForgetLateFacts, SameJob
<1> HIDE DEF k
<1>5. InStep(k, pending \ expired, used.flaps = 0) BY <1>1, <1>3, <1>4, KeptInStep, Zenon
<1>6. PICK hedge \in SUBSET Hedgeable(k), rotate \in SUBSET (Planned \cap Terminal) :
        Dispatch(k, pending \ expired, hedge, rotate)
  BY <1>2 DEF k
<1> QED BY <1>1, <1>5, <1>6, DispatchInStep, Zenon

LEMMA BackoffInStep ==
    ASSUME SyncInv, NEW c \in Planned, NEW p \in Peer, BackoffEnds(c, p)
    PROVE  InStep(job', pending', used.flaps = 0)
<1>1. InStep(job, pending, used.flaps = 0) BY DEF SyncInv
<1>2. JobsSound(job) BY <1>1 DEF InStep
<1>3. job' = [job EXCEPT ![c].parked = @ \ {p}] /\ pending' = pending
  BY Zenon DEF BackoffEnds
<1>4. job = [d \in Planned |-> job[d]] BY <1>2 DEF JobsSound
<1>5. /\ job' = [d \in Planned |-> job'[d]]
      /\ \A d \in Planned \ {c} : job'[d] = job[d]
      /\ job'[c] = [job[c] EXCEPT !.parked = @ \ {p}]
  BY <1>3, <1>4
<1>6. ASSUME NEW d \in Planned PROVE JobSound(d, job'[d]) /\ Without(job[d], job'[d], {})
  <2>1. JobSound(d, job[d]) BY <1>2 DEF JobsSound
  <2>2. CASE d # c BY <1>5, <2>1, <2>2, SameJob
  <2>3. CASE d = c
    <3>1. job[c].parked \ {p} \in SUBSET Peer BY <2>1, <2>3, JobFields DEF JobSound, Shape
    <3>2. job'[c] = [job[c] EXCEPT !.parked = job[c].parked \ {p}]
      BY <1>5, <2>1, <2>3 DEF JobSound, Shape, Job
    <3> QED BY <2>1, <2>3, <3>1, <3>2, ParkedFacts
  <2> QED BY <2>2, <2>3
<1> QED BY <1>1, <1>3, <1>5, <1>6, KeptInStep, Zenon

LEMMA InStepPrimed ==
    ASSUME setup' = setup, InStep(job', pending', used.flaps = 0), used'.flaps = 0 => used.flaps = 0
    PROVE  InStep(job, pending, used.flaps = 0)'
<1>1. Planned' = Planned BY DEF Planned
<1>2. Job' = Job BY DEF Job
<1>3. ASSUME NEW c PROVE JobSound(c, job'[c]) => JobSound(c, job[c])'
  BY <1>2, Zenon DEF JobSound, Shape, Below
<1>4. JobsSound(job)'
  BY <1>1, <1>3 DEF InStep, JobsSound
<1>5. (\A r \in pending : RequestSound(r))'
  BY <1>1 DEF InStep, RequestSound
<1>6. Backed(job, pending, used.flaps = 0)'
  BY <1>1 DEF InStep, Backed
<1>7. (used.flaps = 0 => \A r \in pending : ~r.gone)' BY DEF InStep
<1>8. (used.flaps = 0 => Whole(job, pending) /\ Apart(job, pending))'
  BY DEF InStep, Whole, Apart
<1> QED BY <1>4, <1>5, <1>6, <1>7, <1>8 DEF InStep

-----------------------------------------------------------------------------
(* What is left to show of a step.                                         *)
LEMMA SyncFrame ==
    ASSUME SyncInv, setup' = setup, rotated' \in BOOLEAN,
           phase' \in {"active", "sealed", "retired"}, conn' \subseteq Peer,
           control' \in Seq(Peer), used' \in UsedType,
           used'.flaps = 0 => used.flaps = 0 /\ control' = <<>>,
           InStep(job', pending', used.flaps = 0)
    PROVE  SyncInv'
<1>1. InStep(job, pending, used.flaps = 0)' BY InStepPrimed
<1> QED BY <1>1, Zenon DEF SyncInv

LEMMA DispatchRotated ==
    ASSUME NEW jobs, NEW reqs, NEW hedge, NEW rotate, rotated \in BOOLEAN,
           Dispatch(jobs, reqs, hedge, rotate)
    PROVE  rotated' \in BOOLEAN
<1>1. \E t : rotated' = (rotated \/ t # {}) BY Zenon DEF Dispatch
<1> QED BY <1>1

LEMMA SpentFacts ==
    ASSUME used \in UsedType,
           NEW what \in {"adverts", "flaps", "busy", "local", "holds"}, Spent(what)
    PROVE  /\ used' \in UsedType
           /\ used'.flaps = IF what = "flaps" THEN used.flaps + 1 ELSE used.flaps
BY DEF Spent, UsedType

(* Every handler of the node and of the swarm keeps the invariant.         *)
LEMMA SyncStep == ASSUME SyncInv, [Next \/ Ended]_vars PROVE SyncInv'
<1>0. /\ rotated \in BOOLEAN /\ phase \in {"active", "sealed", "retired"} /\ conn \subseteq Peer
      /\ control \in Seq(Peer) /\ used \in UsedType /\ (used.flaps = 0 => control = <<>>)
      /\ setup \in Setup /\ InStep(job, pending, used.flaps = 0)
  BY Zenon DEF SyncInv
<1>1. setup.peers \subseteq Peer BY <1>0, SuffixConstants, Zenon DEF SetupType
<1>2. CASE UNCHANGED vars
  <2>1. /\ setup' = setup /\ rotated' = rotated /\ phase' = phase /\ conn' = conn
        /\ control' = control /\ used' = used /\ job' = job /\ pending' = pending
      BY <1>2, Zenon DEF vars, netVars
  <2>2. InStep(job', pending', used.flaps = 0) BY <1>0, <2>1
  <2> QED BY <1>0, <2>1, <2>2, SyncFrame
<1>3. ASSUME setup' = setup, NEW p \in Peer, NEW inv \in Inventory[p], ReceiveInventory(p, inv)
      PROVE  SyncInv'
  <2>1. InStep(job', pending', used.flaps = 0) BY <1>3, InventoryInStep
  <2>2. rotated' \in BOOLEAN
    <3>1. \E jobs, reqs, hedge, rotate : Dispatch(jobs, reqs, hedge, rotate)
      BY <1>3, Zenon DEF ReceiveInventory
    <3> QED BY <1>0, <3>1, DispatchRotated
  <2>3. used' \in UsedType /\ used'.flaps = used.flaps
    <3>1. Spent("adverts") BY <1>3, Zenon DEF ReceiveInventory
    <3> QED BY <1>0, <3>1, SpentFacts
  <2>4. phase' \in {phase, "sealed"} /\ conn' = conn /\ control' = control
    BY <1>3, Zenon DEF ReceiveInventory, TryStart
  <2> QED BY <1>0, <1>3, <2>1, <2>2, <2>3, <2>4, SyncFrame
<1>4. ASSUME setup' = setup, HandleOutcome PROVE SyncInv'
  <2>1. InStep(job', pending', used.flaps = 0) BY <1>4, OutcomeInStep
  <2>2. rotated' \in BOOLEAN
    <3>1. rotated' = rotated \/ \E jobs, reqs, hedge, rotate : Dispatch(jobs, reqs, hedge, rotate)
      BY <1>4, Zenon DEF HandleOutcome
    <3> QED BY <1>0, <3>1, DispatchRotated
  <2>3. phase' \in {phase, "sealed"} /\ conn' = conn /\ control' = control /\ used' = used
    BY <1>4, Zenon DEF HandleOutcome, TryStart
  <2> QED BY <1>0, <1>4, <2>1, <2>2, <2>3, SyncFrame
<1>5. ASSUME setup' = setup, HandleDisconnect PROVE SyncInv'
  <2>1. InStep(job', pending', used.flaps = 0) BY <1>5, DisconnectInStep
  <2>2. rotated' \in BOOLEAN
    <3>1. \E jobs, reqs, hedge, rotate : Dispatch(jobs, reqs, hedge, rotate)
      BY <1>5, Zenon DEF HandleDisconnect
    <3> QED BY <1>0, <3>1, DispatchRotated
  <2>3. /\ phase' = phase /\ conn' = conn /\ used' = used
        /\ control # <<>> /\ control' = Tail(control)
    BY <1>5, Zenon DEF HandleDisconnect
  <2>4. control' \in Seq(Peer) /\ used.flaps # 0 BY <1>0, <2>3
  <2> QED BY <1>0, <1>5, <2>1, <2>2, <2>3, <2>4, SyncFrame
<1>6. ASSUME setup' = setup, Heartbeat PROVE SyncInv'
  <2>1. InStep(job', pending', used.flaps = 0) BY <1>6, HeartbeatInStep
  <2>2. rotated' \in BOOLEAN
    <3>1. \E jobs, reqs, hedge, rotate : Dispatch(jobs, reqs, hedge, rotate)
      BY <1>6, Zenon DEF Heartbeat
    <3> QED BY <1>0, <3>1, DispatchRotated
  <2>3. phase' = phase /\ conn' = conn /\ control' = control /\ used' = used
    BY <1>6, Zenon DEF Heartbeat
  <2> QED BY <1>0, <1>6, <2>1, <2>2, <2>3, SyncFrame
<1>7. ASSUME setup' = setup, NEW c \in Planned, NEW p \in Peer, BackoffEnds(c, p)
      PROVE  SyncInv'
  <2>1. InStep(job', pending', used.flaps = 0) BY <1>7, BackoffInStep
  <2>2. /\ phase' = phase /\ conn' = conn /\ control' = control /\ used' = used
        /\ rotated' = rotated
    BY <1>7, Zenon DEF BackoffEnds, netVars
  <2> QED BY <1>0, <1>7, <2>1, <2>2, SyncFrame
<1>8. ASSUME setup' = setup,
             Discover \/ Retire \/ Hold \/ (\E wait \in BOOLEAN : HoldEnds(wait)) \/ SomeProbeEnds
      PROVE  SyncInv'
  <2>1. /\ job' = job /\ pending' = pending /\ rotated' = rotated
        /\ conn' = conn /\ control' = control /\ phase' \in {phase, "sealed", "retired"}
        /\ used' = used \/ Spent("holds")
    BY <1>8, Zenon
       DEF Discover, Retire, Hold, HoldEnds, SomeProbeEnds, ProbeEnds, TryStart, netVars
  <2>2. used' \in UsedType /\ used'.flaps = used.flaps
    <3>1. CASE used' = used BY <1>0, <3>1
    <3>2. CASE Spent("holds") BY <1>0, <3>2, SpentFacts
    <3> QED BY <2>1, <3>1, <3>2
  <2>3. InStep(job', pending', used.flaps = 0) BY <1>0, <2>1
  <2> QED BY <1>0, <1>8, <2>1, <2>2, <2>3, SyncFrame
<1>9. ASSUME setup' = setup, NEW r \in wire, SendRequest(r) \/ Settle(r) PROVE SyncInv'
  <2>1. /\ job' = job /\ pending' = pending /\ rotated' = rotated /\ phase' = phase
        /\ conn' = conn /\ control' = control
        /\ used' = used \/ Spent("local") \/ Spent("busy")
    BY <1>9, Zenon DEF SendRequest, Settle
  <2>2. used' \in UsedType /\ used'.flaps = used.flaps
    <3>1. CASE used' = used BY <1>0, <3>1
    <3>2. CASE Spent("local") BY <1>0, <3>2, SpentFacts
    <3>3. CASE Spent("busy") BY <1>0, <3>3, SpentFacts
    <3> QED BY <2>1, <3>1, <3>2, <3>3
  <2>3. InStep(job', pending', used.flaps = 0) BY <1>0, <2>1
  <2> QED BY <1>0, <1>9, <2>1, <2>2, <2>3, SyncFrame
<1>10. ASSUME setup' = setup, NEW p \in Peer, CloseConnection(p) PROVE SyncInv'
  <2>1. /\ job' = job /\ pending' = pending /\ rotated' = rotated /\ phase' = phase
        /\ conn' = conn \ {p} /\ control' = Append(control, p) /\ Spent("flaps")
    BY <1>10, Zenon DEF CloseConnection
  <2>2. used' \in UsedType /\ used'.flaps # 0
    <3>1. used' \in UsedType /\ used'.flaps = used.flaps + 1 BY <1>0, <2>1, SpentFacts
    <3>2. used.flaps \in Nat BY <1>0, Zenon DEF UsedType
    <3> QED BY <3>1, <3>2
  <2>3. control' \in Seq(Peer) BY <1>0, <2>1
  <2>4. conn' \subseteq Peer BY <1>0, <2>1
  <2>5. InStep(job', pending', used.flaps = 0) BY <1>0, <2>1
  <2> QED BY <1>0, <1>10, <2>1, <2>2, <2>3, <2>4, <2>5, SyncFrame
<1>11. ASSUME setup' = setup, NEW p \in Peer, OpenConnection(p) PROVE SyncInv'
  <2>1. /\ job' = job /\ pending' = pending /\ rotated' = rotated /\ phase' = phase
        /\ conn' = conn \cup {p} /\ control' = control /\ used' = used
    BY <1>11, Zenon DEF OpenConnection
  <2>2. InStep(job', pending', used.flaps = 0) BY <1>0, <2>1
  <2>3. conn' \subseteq Peer BY <1>0, <2>1
  <2> QED BY <1>0, <1>11, <2>1, <2>2, <2>3, SyncFrame
<1>12. ASSUME Next PROVE SyncInv'
  <2>1. setup' = setup BY <1>12, Zenon DEF Next
  <2> QED
    BY <2>1, <1>1, <1>3, <1>4, <1>5, <1>6, <1>7, <1>8, <1>9, <1>10, <1>11, <1>12, Zenon
       DEF Next, NodeStep, SwarmStep, SomeBackoffEnds
<1> QED BY <1>2, <1>12, Zenon DEF Ended

LEMMA SyncInit == Init => SyncInv
<1> SUFFICES ASSUME Init PROVE SyncInv OBVIOUS
<1>1. /\ setup \in Setup /\ pending = {} /\ rotated = FALSE /\ phase = "active"
      /\ conn = setup.peers /\ control = <<>>
      /\ used = [adverts |-> 0, flaps |-> 0, busy |-> 0, local |-> 0, holds |-> 0]
  BY Zenon DEF Init
<1>2. PICK offered \in [Planned -> [Peer -> Encoding \cup {None}]] :
          job = [c \in Planned |-> [EmptyJob EXCEPT !.source = offered[c]]]
  BY Zenon DEF Init
<1>3. ASSUME NEW c \in Planned PROVE JobSound(c, job[c]) /\ Legs(job[c]) = {}
  <2> DEFINE j == job[c]
  <2>1. j = [EmptyJob EXCEPT !.source = offered[c]] BY <1>2
  <2>2. offered[c] \in [Peer -> Encoding \cup {None}] BY <1>2
  <2>3. setup.limit \in Nat \ {0} BY <1>1, LimitType
  <2> HIDE DEF j
  <2>4. /\ j.state = "wanted" /\ j.primary = None /\ j.hedge = None /\ j.selected = None
        /\ j.source = offered[c] /\ j.fails = [p \in Peer |-> 0] /\ j.parked = {}
        /\ j.late = [p \in Peer |-> None] /\ j.unavailable = {}
        /\ j = [state |-> "wanted", primary |-> None, hedge |-> None, selected |-> None,
                source |-> offered[c], fails |-> [p \in Peer |-> 0], parked |-> {},
                late |-> [p \in Peer |-> None], unavailable |-> {}]
    BY <2>1, Zenon DEF EmptyJob
  <2>5. [p \in Peer |-> 0] \in [Peer -> 0 .. setup.limit] BY <2>3
  <2>6. j \in Job BY <2>2, <2>4, <2>5, Zenon DEF Job
  <2>7. Legs(j) = {} BY <2>4, Zenon DEF Legs
  <2>8. Below(j) BY <2>3, <2>4 DEF Below
  <2>9. Shape(c, j) BY <2>4, <2>6, <2>7, Zenon DEF Shape
  <2> QED BY <2>7, <2>8, <2>9 DEF JobSound, j
<1>4. InStep(job, pending, used.flaps = 0)
  <2>1. JobsSound(job) BY <1>2, <1>3, Zenon DEF JobsSound
  <2> QED BY <1>1, <1>3, <2>1, Zenon DEF InStep, Backed, Whole, Apart
<1>5. setup.peers \subseteq Peer BY <1>1, SuffixConstants, Zenon DEF SetupType
<1>6. /\ used \in UsedType
      /\ control \in Seq(Peer)
  BY <1>1 DEF UsedType
<1> QED BY <1>1, <1>4, <1>5, <1>6, Zenon DEF SyncInv

LEMMA SyncInvariant == Spec => []SyncInv
BY SyncInit, SyncStep, PTL DEF Spec

(* What the loop keeps beside the plan.                                    *)
LoopTyped ==
    /\ held \in BOOLEAN /\ rejected \subseteq Peer /\ probes \subseteq Peer
    /\ rounds \in 0 .. DiscoveryRounds

LEMMA LoopStep == ASSUME SyncInv, LoopTyped, [Next \/ Ended]_vars PROVE LoopTyped'
<1>0. /\ \A r \in pending : r.peer \in Peer
      /\ conn \subseteq Peer /\ DiscoveryRounds \in Nat
  BY SuffixConstants, Zenon DEF SyncInv, InStep, RequestSound
<1>1. /\ held' \in {held, TRUE, FALSE}
      /\ rejected' = rejected \/ \E r \in pending : rejected' = rejected \cup {r.peer}
      /\ probes' \subseteq probes \cup conn
      /\ rounds' \in {rounds, 0} \/ (rounds < DiscoveryRounds /\ rounds' = rounds + 1)
  <2>1. CASE UNCHANGED vars BY <2>1, Zenon DEF vars, loopVars
  <2>2. CASE UNCHANGED loopVars BY <2>2, Zenon DEF loopVars
  <2>3. ASSUME NEW p, NEW inv, ReceiveInventory(p, inv)
        PROVE  UNCHANGED <<held, rejected>> /\ probes' \subseteq probes /\ rounds' \in {rounds, 0}
    BY <2>3, Zenon DEF ReceiveInventory
  <2>4. CASE HandleOutcome
    BY <2>4, Zenon DEF HandleOutcome
  <2>5. CASE HandleDisconnect \/ Retire \/ Hold
    BY <2>5, Zenon DEF HandleDisconnect, Retire, Hold
  <2>6. CASE Discover
    BY <2>6, Zenon DEF Discover, Askable
  <2>7. CASE SomeProbeEnds \/ \E wait \in BOOLEAN : HoldEnds(wait)
    BY <2>7, Zenon DEF SomeProbeEnds, ProbeEnds, HoldEnds
  <2>8. CASE Heartbeat \/ SwarmStep \/ SomeBackoffEnds
    <3>1. UNCHANGED loopVars
      BY <2>8, Zenon DEF Heartbeat, SwarmStep, SendRequest, Settle, SomeBackoffEnds, BackoffEnds
    <3> QED BY <2>2, <3>1
  <2>9. ASSUME NEW p, CloseConnection(p) \/ OpenConnection(p) PROVE UNCHANGED loopVars
    BY <2>9, Zenon DEF CloseConnection, OpenConnection
  <2> QED BY <2>1, <2>2, <2>3, <2>4, <2>5, <2>6, <2>7, <2>8, <2>9, Zenon DEF Next, NodeStep, Ended
<1>2. held' \in BOOLEAN BY <1>1, Zenon DEF LoopTyped
<1>3. rejected' \subseteq Peer /\ probes' \subseteq Peer BY <1>0, <1>1, Zenon DEF LoopTyped
<1>4. rounds' \in 0 .. DiscoveryRounds
  <2>1. rounds \in 0 .. DiscoveryRounds BY Zenon DEF LoopTyped
  <2> QED BY <1>0, <1>1, <2>1
<1> QED BY <1>2, <1>3, <1>4, Zenon DEF LoopTyped

LEMMA LoopInvariant == Spec => []LoopTyped
<1>1. ASSUME Init PROVE LoopTyped
  <2>1. DiscoveryRounds \in Nat BY SuffixConstants, Zenon
  <2>2. 0 \in 0 .. DiscoveryRounds BY <2>1
  <2> QED BY <1>1, <2>2, Zenon DEF Init, LoopTyped
<1> QED BY <1>1, LoopStep, SyncInvariant, PTL DEF Spec

(* Through failures, Busy answers, disconnects, hedges and rotations a     *)
(* peer that ObjectFetcher has excluded is no source, lease or late        *)
(* responder of the plan again (mark_unavailable, quarantine_source), a    *)
(* claim is in flight exactly when it has a primary lease, and the two     *)
(* legs of a hedge are in different failure domains (start_hedge,          *)
(* rotate_hedge).                                                          *)
THEOREM SourcesAlwaysSound == Spec => []SourcesSound
<1>1. SyncInv /\ LoopTyped => SourcesSound
  <2> SUFFICES ASSUME SyncInv, LoopTyped PROVE SourcesSound OBVIOUS
  <2>1. /\ JobsSound(job) /\ rotated \in BOOLEAN /\ phase \in {"active", "sealed", "retired"}
        /\ conn \subseteq Peer
    BY Zenon DEF SyncInv, InStep
  <2>2. \A c \in Planned : Shape(c, job[c]) BY <2>1, Zenon DEF JobsSound, JobSound
  <2>3. job \in [Planned -> Job]
    <3>1. job = [c \in Planned |-> job[c]] BY <2>1, Zenon DEF JobsSound
    <3>2. \A c \in Planned : job[c] \in Job BY <2>2, Zenon DEF Shape
    <3> QED BY <3>1, <3>2
  <2>4. \A c \in Planned : job[c].state = "inflight" <=> job[c].primary # None
    BY <2>2, Zenon DEF Shape
  <2>5. TypeOK BY <2>1, <2>3, <2>4, Zenon DEF TypeOK, LoopTyped
  <2>6. UnavailableStaysOut BY <2>2, Zenon DEF Shape, UnavailableStaysOut
  <2>7. HedgeIndependent BY <2>2, Zenon DEF Shape, HedgeIndependent
  <2> QED BY <2>5, <2>6, <2>7 DEF SourcesSound
<1> QED BY <1>1, SyncInvariant, LoopInvariant, PTL

(* Every lease of a terminal, and while no connection was lost every lease *)
(* of a body, has a pending request to that peer for the pinned encoding:  *)
(* accept_response and the failure handlers leave no claim in flight that  *)
(* no outcome can end.                                                     *)
THEOREM LeasesHaveRequests == Spec => []LeaseHasRequest
<1>1. SyncInv => LeaseHasRequest
  BY ZenonT(30) DEF SyncInv, InStep, Backed, Holds, LeaseHasRequest
<1> QED BY <1>1, SyncInvariant, PTL
=============================================================================
