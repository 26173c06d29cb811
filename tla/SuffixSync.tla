----------------------------- MODULE SuffixSync -----------------------------
(***************************************************************************)
(* One immutable suffix plan being fetched: the per-claim leases of        *)
(* ObjectFetcher (object_fetcher.rs), the request table of SuffixSync      *)
(* (suffix_sync.rs), the handlers of the node's loop that drive them       *)
(* (main.rs), the request table of the swarm (network.rs) and the two      *)
(* event lanes between the swarm and the loop (event_dispatch.rs).         *)
(*                                                                         *)
(* Claims and peers are positive numbers: a claim's number is its place in *)
(* the plan, a peer's the order of its PeerId bytes; 0 stands for None.    *)
(* An object is one byte encoding of a claim, so a request's objects are a *)
(* function from claims to encodings.  Clocks are abstracted: a source in  *)
(* backoff is "parked" until time passes, and a hedge, a rotation or an    *)
(* expiry may be due at any heartbeat.  finish_receive and mark_verified   *)
(* run in one call, so the state Received is never seen between handlers.  *)
(* A peer's failure domain is the one it had when it became a source; one  *)
(* that changes with a later announcement is not modelled.                 *)
(***************************************************************************)
EXTENDS Integers, Sequences, FiniteSets, FiniteSetsExt

CONSTANTS Body,                 \* claims of block bodies
          Terminal,             \* claims of terminals, fetched one per request
          Peer,
          Domain,               \* [Peer -> failure domain]
          Encoding,             \* byte encodings of a claim
          Inventory,            \* the inventories a header batch of each peer may bring
          MaxObjectsPerRequest, \* MAX_OBJECTS_PER_REQUEST
          DiscoveryRounds,      \* EXACT_PLAN_DISCOVERY_ROUNDS
          Setup                 \* the plans looked at, see SetupType

None == 0
Claim == Body \cup Terminal

SetupType ==
    [claims : SUBSET Claim,   \* the claims of the plan
     peers : SUBSET Peer,     \* the peers that know of it
     limit : Nat \ {0},       \* SOURCE_TRANSPORT_FAILURE_LIMIT
     adverts : Nat,           \* bound: header batches of this plan's headers
     flaps : Nat,             \* bound: connections closed
     busy : Nat,              \* bound: Busy answers
     local : Nat,             \* bound: requests refused for want of a slot
     holds : Nat]             \* bound: times a complete plan has to wait

ASSUME SuffixConstants ==
    /\ Claim \subseteq Nat \ {0}
    /\ Peer \subseteq Nat \ {0}
    /\ Encoding \subseteq Nat \ {0}
    /\ Body \cap Terminal = {}
    /\ Inventory \in [Peer -> SUBSET [Claim -> Encoding \cup {None}]]
    /\ MaxObjectsPerRequest \in Nat \ {0} /\ DiscoveryRounds \in Nat
    /\ Setup \subseteq SetupType

VARIABLES setup,   \* the plan and its surroundings, chosen once
          job,     \* ObjectFetcher.jobs
          pending, \* SuffixSync.pending, the requests not yet settled
          rotated, \* terminal_hedge_rotation_used
          phase,   \* active_suffix_sync: "active", "sealed" or "retired"
          held,    \* a complete plan has to wait: an apply is in flight, the header
                   \* graph is faulted or left the target, or matrices are awaited
          rejected,\* rejected_suffix_object_peers
          probes,  \* suffix_inventory_probe_peers
          rounds,  \* suffix_provider_discovery_rounds, up to DiscoveryRounds
          wire,    \* the swarm's object requests, queued or sent
          conn,    \* peers the swarm has announced
          live,    \* live lane: outcomes of object requests, in order
          control, \* control lane: peers lost, in order
          used     \* the bounded events spent so far

loopVars == <<held, rejected, probes, rounds>>
netVars == <<wire, conn, live, control>>
vars == <<setup, job, pending, rotated, phase, loopVars, netVars, used>>

-----------------------------------------------------------------------------
(* ObjectFetcher: one job.                                                 *)

Planned == setup.claims

EmptyJob ==
    [state |-> "wanted", primary |-> None, hedge |-> None, selected |-> None,
     source |-> [p \in Peer |-> None], fails |-> [p \in Peer |-> 0],
     parked |-> {}, late |-> [p \in Peer |-> None], unavailable |-> {}]

Sources(j) == {p \in Peer : j.source[p] # None}
Late(j) == {p \in Peer : j.late[p] # None}
Legs(j) == {j.primary, j.hedge} \ {None}

(* The lease of p ends: its hedge takes over, or the claim is wanted.      *)
DropLease(j, p) ==
    CASE j.primary = p /\ j.hedge # None ->
            [j EXCEPT !.primary = j.hedge, !.hedge = None]
      [] j.primary = p /\ j.hedge = None ->
            [j EXCEPT !.primary = None, !.state = "wanted"]
      [] j.primary # p /\ j.hedge = p -> [j EXCEPT !.hedge = None]
      [] OTHER -> j

(* The pinned encoding is released once no source advertises it.           *)
Release(j) ==
    IF j.state = "wanted" /\ \A p \in Sources(j) : j.source[p] # j.selected
    THEN [j EXCEPT !.selected = None] ELSE j

RemoveSource(j, p) ==
    Release([j EXCEPT !.late[p] = None, !.source[p] = None,
                      !.unavailable = @ \cup {p}])

(* Wrong: a repeated announcement resurrects an unavailable source.        *)
AdvertiseAnyway(j, p, e) == IF e = None THEN j ELSE [j EXCEPT !.source[p] = e]

(* advertise_new: what is known of an earlier source is kept.              *)
Advertise(j, p, e) ==
    IF e = None \/ p \in j.unavailable THEN j ELSE [j EXCEPT !.source[p] = e]

(* Eligible sources of choose_source, and the one it returns.              *)
Eligible(j, notDomains) ==
    {p \in Sources(j) \ j.parked : /\ Domain[p] \notin notDomains
                                   /\ j.selected \in {None, j.source[p]}}
ChooseSource(j, S) ==
    Min({p \in S : \A q \in S : j.fails[p] <= j.fails[q]})

StartPrimary(j) ==
    LET p == ChooseSource(j, Eligible(j, {}))
    IN  [j EXCEPT !.state = "inflight", !.primary = p, !.selected = j.source[p]]

StartHedge(j) ==
    [j EXCEPT !.hedge = ChooseSource(j, Eligible(j, {Domain[j.primary]}))]

RotateHedge(j) ==
    LET third == Eligible(j, {Domain[j.primary], Domain[j.hedge]})
    IN  [j EXCEPT !.parked = @ \cup {j.hedge}, !.late[j.hedge] = j.selected,
                  !.hedge = ChooseSource(j, third)]

FinishReceive(j, p) ==
    [j EXCEPT !.state = "verified", !.primary = None, !.hedge = None,
              !.fails[p] = 0, !.parked = @ \ {p},
              !.late = [q \in Peer |-> None]]

(* Errors of finish_receive: InactiveSource, ObjectMismatch.               *)
ReceiveFails(j, p, e) ==
    \/ p \notin Legs(j) /\ (j.late[p] # e \/ j.state = "verified")
    \/ j.selected # e

(* fail_source_at: score the source, end its lease, and exclude it for     *)
(* this plan at the limit.                                                 *)
FailSource(j, p) ==
    LET known == p \in Sources(j)
        scored == IF known THEN [j EXCEPT !.fails[p] = @ + 1,
                                          !.parked = @ \cup {p}]
                  ELSE j
        dropped == DropLease(scored, p)
    IN  IF known /\ scored.fails[p] >= setup.limit
        THEN RemoveSource(dropped, p) ELSE dropped

(* Wrong: a busy source keeps its lease.                                   *)
BusyKeepsLease(j, p) == [j EXCEPT !.parked = @ \cup {p}]

BusySource(j, p) == DropLease([j EXCEPT !.parked = @ \cup {p}], p)
MarkUnavailable(j, p) == RemoveSource(FailSource(j, p), p)
QuarantineSource(j, p) == RemoveSource(DropLease(j, p), p)

(* offers are peers, each with an encoding that is no longer expected.     *)
ForgetLate(j, offers) ==
    LET forgot == [j EXCEPT !.late =
                      [p \in Peer |-> IF <<p, @[p]>> \in offers THEN None ELSE @[p]]]
    IN  IF Late(forgot) = {} THEN Release(forgot) ELSE forgot

(* The leases of several peers end, in any order.                          *)
DropLeases(j, P) ==
    LET alone == IF j.hedge \in P THEN DropLease(j, j.hedge) ELSE j
    IN  IF alone.primary \in P THEN DropLease(alone, alone.primary) ELSE alone

DisconnectJob(j, p) ==
    LET kept == IF p \in Legs(j) THEN [j EXCEPT !.late[p] = j.selected] ELSE j
    IN  [DropLease(kept, p) EXCEPT !.source[p] = None]

Extinct(jobs) ==
    /\ \E c \in Planned : jobs[c].state # "verified"
    /\ \A c \in Planned : jobs[c].state = "verified" \/
          (jobs[c].state = "wanted" /\ Sources(jobs[c]) \cup Late(jobs[c]) = {})

Complete(jobs) == \A c \in Planned : jobs[c].state = "verified"
-----------------------------------------------------------------------------
(* SuffixSync: settling one request.  The jobs of a request are handled in *)
(* the plan's order and the first error ends the call (the ? operator), so *)
(* an outcome reaches the claims before the first one it fails on.         *)

ForEach(jobs, req, Op(_, _, _)) ==
    [c \in Planned |-> IF c \in DOMAIN req.objs
                     THEN Op(jobs[c], req.peer, req.objs[c]) ELSE jobs[c]]

UntilError(jobs, req, Err(_, _), Op(_, _, _)) ==
    [c \in Planned |-> IF /\ c \in DOMAIN req.objs
                        /\ \A d \in DOMAIN req.objs :
                              Err(d, jobs[d]) => c < d
                     THEN Op(jobs[c], req.peer, req.objs[c]) ELSE jobs[c]]

(* Wrong: the failure of a coalesced request ends its first lease only.    *)
FailFirstOnly(jobs, req) ==
    LET c == Min(DOMAIN req.objs)
    IN  [jobs EXCEPT ![c] = ForgetLate(FailSource(jobs[c], req.peer),
                                       {<<req.peer, req.objs[c]>>})]

RequestFailed(jobs, req) ==
    LET Op(j, p, e) == ForgetLate(FailSource(j, p), {<<p, e>>})
    IN  ForEach(jobs, req, Op)

(* The requests among reqs for c: their peers, and what they ask of them.  *)
RequestsFor(c, reqs) == {r \in reqs : c \in DOMAIN r.objs}
PeersOf(c, reqs) == {r.peer : r \in RequestsFor(c, reqs)}
OffersOf(c, reqs) == {<<r.peer, r.objs[c]>> : r \in RequestsFor(c, reqs)}

DeferRequests(jobs, reqs) ==
    [c \in Planned |->
        IF RequestsFor(c, reqs) = {} THEN jobs[c]
        ELSE ForgetLate(DropLeases(jobs[c], PeersOf(c, reqs)), OffersOf(c, reqs))]

RequestBusy(jobs, req) ==
    LET Op(j, p, e) == ForgetLate(BusySource(j, p), {<<p, e>>})
        Err(d, j) == req.peer \notin Sources(j)
    IN  UntilError(jobs, req, Err, Op)

QuarantineProvider(jobs, p) == [c \in Planned |-> QuarantineSource(jobs[c], p)]

(* have: the claims whose bytes the response carries.                      *)
AlreadyVerified(j, e) == j.state = "verified" /\ j.selected = e
Accepted(jobs, req, have) ==
    \A d \in have : \/ AlreadyVerified(jobs[d], req.objs[d])
                     \/ ~ReceiveFails(jobs[d], req.peer, req.objs[d])

AcceptResponse(jobs, req, have) ==
    LET Err(d, j) == /\ d \in have
                     /\ ~AlreadyVerified(j, req.objs[d])
                     /\ ReceiveFails(j, req.peer, req.objs[d])
        Got(j, p, e) == IF AlreadyVerified(j, e) THEN j ELSE FinishReceive(j, p)
        Missing(j, p, e) == IF AlreadyVerified(j, e) THEN j ELSE MarkUnavailable(j, p)
        got == UntilError(jobs, req, Err, Got)
        missing == UntilError(jobs, req, Err, Missing)
    IN  [c \in Planned |-> IF c \in have THEN got[c] ELSE missing[c]]

Settled(req, jobs, event) ==
    CASE event.kind = "objects" -> AcceptResponse(jobs, req, event.have)
      [] event.kind = "invalid" -> QuarantineProvider(jobs, req.peer)
      [] event.kind = "busy" -> RequestBusy(jobs, req)
      [] event.kind = "local" -> DeferRequests(jobs, {req})
      [] OTHER -> RequestFailed(jobs, req)
-----------------------------------------------------------------------------
(* schedule: the leases it starts and the requests that carry them.        *)

InUse == {r.token : r \in pending} \cup {r.token : r \in wire}
         \cup {live[i].token : i \in DOMAIN live}

(* A token no event can name: only its freshness matters.                  *)
FreshToken(p, c) ==
    <<p, c, Min({n \in 1..(Cardinality(InUse) + 1) : <<p, c, n>> \notin InUse})>>

Started(jobs) ==
    {c \in Planned : jobs[c].state = "wanted" /\ Eligible(jobs[c], {}) # {}}

Hedgeable(jobs) ==
    {c \in Planned \cap Terminal :
        /\ jobs[c].state = "inflight" /\ jobs[c].hedge = None
        /\ Eligible(jobs[c], {Domain[jobs[c].primary]}) # {}}

Rotatable(jobs, reqs) ==
    {c \in Planned \cap Terminal :
        /\ ~rotated /\ jobs[c].hedge # None
        /\ \E r \in reqs : r.peer = jobs[c].hedge /\ DOMAIN r.objs = {c}
        /\ Eligible(jobs[c], {Domain[jobs[c].primary], Domain[jobs[c].hedge]}) # {}}

(* Body claims given to one peer share a request, in the plan's order.     *)
Coalesce(claims) ==
    LET Group(c) == (Cardinality({d \in claims : d < c})) \div MaxObjectsPerRequest
    IN  {{d \in claims : Group(d) = Group(c)} : c \in claims}

(* The request for the claims S of peer p.                                 *)
Request(jobs, p, S) ==
    [token |-> FreshToken(p, Min(S)), peer |-> p, gone |-> FALSE,
     objs |-> [c \in S |-> jobs[c].selected]]

BodyRequests(jobs, started) ==
    UNION {{Request(jobs, p, S) :
               S \in Coalesce({c \in started \cap Body : jobs[c].primary = p})}
           : p \in Peer}

(* The jobs once the leases are started; hedge: the terminals whose hedge  *)
(* is due.                                                                 *)
Leased(jobs, hedge) ==
    [c \in Planned |-> IF c \in Started(jobs) THEN StartPrimary(jobs[c])
                       ELSE IF c \in hedge THEN StartHedge(jobs[c])
                       ELSE jobs[c]]

Rotated(jobs, turn) ==
    [c \in Planned |-> IF c \in turn THEN RotateHedge(jobs[c]) ELSE jobs[c]]

(* The requests that carry them.                                           *)
NewRequests(started, hedge, ran1, turn, ran2) ==
    BodyRequests(ran2, started)
    \cup {Request(ran2, ran2[c].primary, {c}) : c \in started \cap Terminal}
    \cup {Request(ran1, ran1[c].hedge, {c}) : c \in hedge}
    \cup {Request(ran2, ran2[c].hedge, {c}) : c \in turn}

(* One dispatch: schedule, then hand each request to the swarm's command   *)
(* lane; a request the full lane refuses is deferred at once.  hedge and   *)
(* rotate are the terminals whose timers are due.                          *)
Dispatch(jobs, reqs, hedge, rotate) ==
    LET ran1 == Leased(jobs, hedge)
        turn == Rotatable(ran1, reqs) \cap rotate
        ran2 == Rotated(ran1, turn)
        new == NewRequests(Started(jobs), hedge, ran1, turn, ran2)
    IN  \E refused \in SUBSET new :
            /\ Cardinality(turn) <= 1
            /\ job' = DeferRequests(ran2, refused)
            /\ pending' = reqs \cup (new \ refused)
            /\ wire' = wire \cup {[token |-> r.token, peer |-> r.peer, objs |-> r.objs,
                                   sent |-> FALSE] : r \in new \ refused}
            /\ rotated' = (rotated \/ turn # {})
-----------------------------------------------------------------------------
(* The node's loop.  Every handler ends with a dispatch.  Timers are given *)
(* to the heartbeat alone: a dispatch in which one is due equals one in    *)
(* which it is not, followed at once by the heartbeat.                     *)

Spent(what) == used' = [used EXCEPT ![what] = @ + 1]

(* try_start_exact_suffix_apply: a complete plan is taken and applied.     *)
TryStart(wait) == phase' = IF Complete(job') /\ ~wait THEN "sealed" ELSE phase

(* from_offer and the inventories merged with it: every claim of the plan  *)
(* has a source.                                                           *)
Init ==
    /\ setup \in Setup
    /\ \E offered \in [Planned -> [Peer -> Encoding \cup {None}]] :
          /\ \A p \in setup.peers : \E inv \in Inventory[p] :
                \A c \in Planned : offered[c][p] = inv[c]
          /\ \A p \in Peer \ setup.peers : \A c \in Planned : offered[c][p] = None
          /\ \A c \in Planned : \E p \in Peer : offered[c][p] # None
          /\ job = [c \in Planned |-> [EmptyJob EXCEPT !.source = offered[c]]]
    /\ pending = {} /\ rotated = FALSE /\ phase = "active"
    /\ held = FALSE /\ rejected = {} /\ probes = {} /\ rounds = 0
    /\ wire = {} /\ conn = setup.peers /\ live = <<>> /\ control = <<>>
    /\ used = [adverts |-> 0, flaps |-> 0, busy |-> 0, local |-> 0, holds |-> 0]

(* A header batch whose headers are the plan's: merge_active_suffix_inventory. *)
ReceiveInventory(p, inv) ==
    /\ phase = "active" /\ p \notin rejected /\ used.adverts < setup.adverts
    /\ Spent("adverts")
    /\ Dispatch([c \in Planned |-> Advertise(job[c], p, inv[c])], pending, {}, {})
    /\ probes' = probes \ {p}
    /\ rounds' = IF \E c \in Planned : job[c].source[p] # Advertise(job[c], p, inv[c]).source[p]
                 THEN 0 ELSE rounds
    /\ UNCHANGED <<held, rejected, conn, live, control>>
    /\ TryStart(held)

(* ObjectsResponse, ObjectsRequestFailed and ObjectsRequestBusy: the head  *)
(* of the live lane.  An outcome whose token is not pending changes no job *)
(* and, unless it is Busy, starts no dispatch.                             *)
HandleOutcome ==
    /\ phase = "active" /\ live # <<>>
    /\ live' = Tail(live)
    /\ LET event == Head(live)
           mine == {r \in pending : r.token = event.token}
       IN  \/ /\ mine = {} /\ event.kind # "busy"
              /\ UNCHANGED <<job, pending, rotated, phase, wire, rejected, rounds>>
           \/ /\ mine = {} /\ event.kind = "busy"
              /\ Dispatch(job, pending, {}, {})
              /\ UNCHANGED <<phase, rejected, rounds>>
           \/ \E r \in mine :
                 /\ Dispatch(Settled(r, job, event), pending \ {r}, {}, {})
                 /\ rejected' = IF event.kind = "invalid" THEN rejected \cup {r.peer}
                                ELSE rejected
                 /\ IF event.kind = "objects" /\ Accepted(job, r, event.have)
                    THEN TryStart(held) /\ rounds' = IF event.have = {} THEN rounds ELSE 0
                    ELSE UNCHANGED <<phase, rounds>>
    /\ UNCHANGED <<held, probes, conn, control, used>>

(* PeerDisconnected: the head of the control lane.                         *)
HandleDisconnect ==
    /\ phase = "active" /\ control # <<>>
    /\ control' = Tail(control)
    /\ LET p == Head(control)
       IN  /\ Dispatch([c \in Planned |-> DisconnectJob(job[c], p)],
                       {[token |-> r.token, peer |-> r.peer, objs |-> r.objs,
                         gone |-> r.gone \/ r.peer = p] : r \in pending}, {}, {})
           /\ probes' = probes \ {p}
    /\ UNCHANGED <<phase, held, rejected, rounds, conn, live, used>>

(* The disconnected requests whose grace has passed are forgotten.         *)
ExpireRequests(jobs, reqs) ==
    [c \in Planned |-> IF RequestsFor(c, reqs) = {} THEN jobs[c]
                       ELSE ForgetLate(jobs[c], OffersOf(c, reqs))]

(* The heartbeat's dispatch, with the timers that are due.                 *)
Heartbeat ==
    /\ phase = "active"
    /\ \E expired \in SUBSET {r \in pending : r.gone} :
          LET jobs == ExpireRequests(job, expired)
          IN  \E hedge \in SUBSET Hedgeable(jobs), rotate \in SUBSET (Planned \cap Terminal) :
                 Dispatch(jobs, pending \ expired, hedge, rotate)
    /\ UNCHANGED <<phase, loopVars, conn, live, control, used>>

(* A backoff ends: retry_after_ms has come.                                *)
BackoffEnds(c, p) ==
    /\ p \in job[c].parked
    /\ job' = [job EXCEPT ![c].parked = @ \ {p}]
    /\ UNCHANGED <<pending, rotated, phase, loopVars, used, netVars>>

(* What a complete plan has to wait for begins and ends outside of it; only *)
(* the end of the wait for matrices looks at the plan at once (wait).      *)
Hold ==
    /\ phase = "active" /\ ~held /\ used.holds < setup.holds
    /\ held' = TRUE
    /\ Spent("holds")
    /\ UNCHANGED <<job, pending, rotated, phase, rejected, probes, rounds, netVars>>

HoldEnds(wait) ==
    /\ phase = "active" /\ held
    /\ held' = FALSE
    /\ UNCHANGED <<job, pending, rotated, rejected, probes, rounds, used, netVars>>
    /\ IF wait THEN TryStart(FALSE) ELSE UNCHANGED phase

(* Provider discovery of the heartbeat, whose dispatch has nothing to do    *)
(* for an extinct plan: a round counts when a header request went to some  *)
(* peer that is not rejected.  A probe of an earlier heartbeat could only  *)
(* put Retire off.                                                         *)
Askable == (conn \ rejected) \ probes

Discover ==
    /\ phase = "active" /\ Extinct(job)
    /\ \E asked \in SUBSET Askable :
          /\ asked # {}
          /\ probes' = probes \cup asked
    /\ rounds' = IF rounds < DiscoveryRounds THEN rounds + 1 ELSE rounds
    /\ UNCHANGED <<job, pending, rotated, phase, held, rejected, used, netVars>>

(* A probe fails, times out or brings nothing of this plan.                *)
ProbeEnds(p) ==
    /\ phase = "active" /\ p \in probes
    /\ probes' = probes \ {p}
    /\ UNCHANGED <<job, pending, rotated, phase, held, rejected, rounds, used, netVars>>

(* The heartbeat retires a plan whose extinction provider discovery has    *)
(* confirmed, at the earliest when the no-progress timeout has passed.     *)
Retire ==
    /\ phase = "active" /\ Extinct(job)
    /\ probes = {} /\ rounds >= DiscoveryRounds
    /\ phase' = "retired"
    /\ rounds' = 0
    /\ UNCHANGED <<job, pending, rotated, held, rejected, probes, used, netVars>>
-----------------------------------------------------------------------------
(* The swarm.                                                              *)

Outcome(r, kind, have) == [token |-> r.token, kind |-> kind, have |-> have]

(* FetchObjects: sent, or failed at once when the peer cannot be reached   *)
(* or no request slot is free.                                             *)
SendRequest(r) ==
    /\ r \in wire /\ ~r.sent
    /\ \/ /\ r.peer \in conn
          /\ wire' = (wire \ {r}) \cup {[r EXCEPT !.sent = TRUE]}
          /\ UNCHANGED <<live, used>>
       \/ /\ r.peer \notin conn
          /\ wire' = wire \ {r}
          /\ live' = Append(live, Outcome(r, "failed", {}))
          /\ UNCHANGED used
       \/ /\ r.peer \in conn /\ used.local < setup.local
          /\ wire' = wire \ {r}
          /\ live' = Append(live, Outcome(r, "local", {}))
          /\ Spent("local")
    /\ UNCHANGED <<job, pending, rotated, phase, loopVars, conn, control>>

(* The peer answers, answers Busy, or the request fails or times out.      *)
Settle(r) ==
    /\ r \in wire /\ r.sent
    /\ wire' = wire \ {r}
    /\ \/ /\ \E have \in SUBSET DOMAIN r.objs :
                live' = Append(live, Outcome(r, "objects", have))
          /\ UNCHANGED used
       \/ /\ \E kind \in {"invalid", "failed"} :
                live' = Append(live, Outcome(r, kind, {}))
          /\ UNCHANGED used
       \/ /\ used.busy < setup.busy
          /\ live' = Append(live, Outcome(r, "busy", {}))
          /\ Spent("busy")
    /\ UNCHANGED <<job, pending, rotated, phase, loopVars, conn, control>>

(* The last connection of p closes: its sent requests fail into the live   *)
(* lane in the order of a hash map, then its loss goes into the control    *)
(* lane.                                                                   *)
CloseConnection(p) ==
    /\ p \in conn /\ used.flaps < setup.flaps
    /\ Spent("flaps")
    /\ conn' = conn \ {p}
    /\ LET lost == {r \in wire : r.peer = p /\ r.sent}
       IN  /\ wire' = wire \ lost
           /\ \E order \in [1..Cardinality(lost) -> lost] :
                 /\ {order[i] : i \in DOMAIN order} = lost
                 /\ live' = live \o [i \in DOMAIN order |-> Outcome(order[i], "failed", {})]
    /\ control' = Append(control, p)
    /\ UNCHANGED <<job, pending, rotated, phase, loopVars>>

OpenConnection(p) ==
    /\ p \notin conn
    /\ conn' = conn \cup {p}
    /\ UNCHANGED <<job, pending, rotated, phase, loopVars, wire, live, control, used>>
-----------------------------------------------------------------------------
NodeStep ==
    \/ HandleOutcome
    \/ HandleDisconnect
    \/ Heartbeat
    \/ Discover
    \/ Retire
    \/ Hold \/ \E wait \in BOOLEAN : HoldEnds(wait)

SwarmStep == \E r \in wire : SendRequest(r) \/ Settle(r)

SomeProbeEnds == \E p \in Peer : ProbeEnds(p)
SomeBackoffEnds == \E c \in Planned, p \in Peer : BackoffEnds(c, p)

(* A plan that has been sealed or retired is gone.                         *)
Ended == phase # "active" /\ UNCHANGED vars

Next ==
    /\ phase = "active" /\ UNCHANGED setup
    /\ \/ NodeStep
       \/ SwarmStep
       \/ \E p \in setup.peers : \E inv \in Inventory[p] : ReceiveInventory(p, inv)
       \/ SomeBackoffEnds
       \/ SomeProbeEnds
       \/ \E p \in setup.peers : CloseConnection(p) \/ OpenConnection(p)

Spec == Init /\ [][Next \/ Ended]_vars

Due(condition) == phase = "active" /\ condition

(* Weak fairness, with the enabling conditions written out: the loop       *)
(* drains its lanes and has a heartbeat, the swarm settles every request   *)
(* and every probe by its deadline, and backoffs end.  Nothing makes a     *)
(* complete plan start, or an extinct one retire: what Hold stands for may *)
(* last, and a heartbeat may always find some probe unanswered.            *)
Fairness ==
    /\ []<>~Due(live # <<>>) \/ []<><<HandleOutcome>>_vars
    /\ []<>~Due(control # <<>>) \/ []<><<HandleDisconnect>>_vars
    /\ []<>~Due(Started(job) # {} \/ \E r \in pending : r.gone) \/ []<><<Heartbeat>>_vars
    /\ []<>~Due(Extinct(job) /\ Askable # {}) \/ []<><<Discover>>_vars
    /\ []<>~Due(probes # {}) \/ []<><<SomeProbeEnds>>_vars
    /\ []<>~Due(wire # {}) \/ []<><<SwarmStep>>_vars
    /\ []<>~Due(\E c \in Planned : job[c].parked # {}) \/ []<><<SomeBackoffEnds>>_vars

FairSpec == Spec /\ Fairness
-----------------------------------------------------------------------------
Job ==
    [state : {"wanted", "inflight", "verified"},
     primary : Peer \cup {None}, hedge : Peer \cup {None},
     selected : Encoding \cup {None},
     source : [Peer -> Encoding \cup {None}], fails : [Peer -> 0..setup.limit],
     parked : SUBSET Peer, late : [Peer -> Encoding \cup {None}],
     unavailable : SUBSET Peer]

TypeOK ==
    /\ job \in [Planned -> Job]
    /\ \A c \in Planned : (job[c].state = "inflight") <=> (job[c].primary # None)
    /\ rotated \in BOOLEAN /\ phase \in {"active", "sealed", "retired"}
    /\ conn \subseteq Peer /\ rejected \subseteq Peer /\ probes \subseteq Peer
    /\ held \in BOOLEAN /\ rounds \in 0..DiscoveryRounds

(* A leased claim has a pending request to that peer for the pinned        *)
(* encoding: only such a request can end the lease.  accept_response says  *)
(* it does "not leave the remaining claims stuck in Receiving after the    *)
(* correlation token has been consumed".  Terminals, which are never       *)
(* coalesced, keep it through every order of disconnects, late failures,   *)
(* hedges and expiries; bodies only while no connection is lost, since a   *)
(* late failure of an old request may end one lease of a newer one.        *)
LeaseHasRequest ==
    \A c \in Planned : \A p \in Legs(job[c]) : c \in Terminal \/ used.flaps = 0 =>
        \E r \in pending : /\ r.peer = p /\ c \in DOMAIN r.objs
                           /\ r.objs[c] = job[c].selected

(* A source excluded from this plan is no source, lease or late responder  *)
(* again, whatever it announces and whatever requests it still has.        *)
UnavailableStaysOut ==
    \A c \in Planned :
        job[c].unavailable \cap (Sources(job[c]) \cup Legs(job[c]) \cup Late(job[c])) = {}

(* Through promotions, failures and the rotation, the two legs of a hedged *)
(* terminal never share a failure domain.                                  *)
HedgeIndependent ==
    \A c \in Planned : job[c].hedge # None =>
        Domain[job[c].hedge] # Domain[job[c].primary]

(* The sources of a claim stay sound through promotions, failures and      *)
(* rotations: an excluded one never comes back, and hedges are independent.*)
SourcesSound ==
    /\ TypeOK
    /\ UnavailableStaysOut
    /\ HedgeIndependent

(* The claim waits for an encoding that its sources have replaced.  No     *)
(* connection is lost, so nothing releases it (choose_source,              *)
(* advertise_new).                                                         *)
Outdated(c) ==
    /\ job[c].state = "wanted" /\ job[c].selected # None /\ Sources(job[c]) # {}
    /\ \A p \in Sources(job[c]) : job[c].source[p] # job[c].selected

(* While connections last, every plan is completed, or found extinct in    *)
(* enough rounds of discovery or with no peer left to ask: but for a claim *)
(* pinned to an outdated encoding, hedges, backoffs, Busy answers and      *)
(* exclusions never leave a claim that nothing will move again.            *)
PlanEnds ==
    setup.flaps = 0 =>
        <>[]\/ phase # "active" \/ Complete(job)
            \/ Extinct(job) /\ (rounds = DiscoveryRounds \/ conn \subseteq rejected)
            \/ \E c \in Planned : Outdated(c)
=============================================================================
