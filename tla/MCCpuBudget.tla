---------------------------- MODULE MCCpuBudget -----------------------------
(***************************************************************************)
(* The callers of the pool: the miner, which never stops, the wallet that  *)
(* proves a payment, and the verifier of payments and inbound blocks; and  *)
(* two configurations that race.                                           *)
(***************************************************************************)
EXTENDS CpuBudget

MCDuty ==
    [miner |-> {"Pow", "HistoryStep"}, send |-> {"WalletProof"},
     check |-> {"WalletVerify", "InboundVerify"}]
MCThread == DOMAIN MCDuty

MCRequest ==
    [main |-> [mode |-> "InternalMiner", threads |-> Unset],
     proofs |-> [mode |-> "ProofOnly", threads |-> Unset]]
MCStarter == DOMAIN MCRequest
=============================================================================
