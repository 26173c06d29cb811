------------------------------ MODULE MCWallet ------------------------------
(* An instance of Wallet for TLC. *)
EXTENDS Wallet, TLC

CONSTANTS s1, s2, s3, s4, p1, p2, p3, c1

\* No fault, and nobody sends a payment back.
Calm ==
    [coins |-> {s1, s2}, others |-> {}, payments |-> {p1, p2, p3},
     window |-> 1, attempts |-> 3, gossip |-> FALSE, rewards |-> {2}, height |-> 3,
     reorgs |-> 0, jumps |-> 0, restarts |-> 0, saves |-> 0, reads |-> 0,
     lags |-> 0]

\* A client payment next to a send, a reorganisation and a failed write.
WithClient ==
    [Calm EXCEPT !.coins = {s1}, !.others = {s4}, !.payments = {p1, c1}, !.window = 2,
                 !.rewards = {}, !.height = 5, !.reorgs = 1, !.saves = 1]

\* Every fault once, and peers that send payments back.
WithFaults ==
    [Calm EXCEPT !.coins = {s1}, !.others = {s4}, !.payments = {p1, p2}, !.window = 2,
                 !.attempts = 1, !.gossip = TRUE, !.rewards = {1}, !.height = 2,
                 !.reorgs = 1, !.jumps = 1, !.restarts = 1, !.saves = 1, !.reads = 1]

\* A restart, and a relay that falls behind.
WithRestart ==
    [Calm EXCEPT !.payments = {p1, p2}, !.window = 2, !.rewards = {1}, !.height = 2,
                 !.restarts = 1, !.lags = 1]

\* A reorganisation.
WithReorg == [WithRestart EXCEPT !.restarts = 0, !.lags = 0, !.reorgs = 1]

ReorgSetup == {WithReorg}
MCSetup == {Calm, WithClient, WithFaults, WithRestart}
Sends == Permutations({p1, p2})
=============================================================================
