-------------------------- MODULE MCExternalMining --------------------------
(* An instance of ExternalMining for TLC. *)
EXTENDS ExternalMining

\* Every call of a miner is answered: a nonce handed in early does not wait for
\* ever for its template.  The miners are interchangeable, so that one of them
\* stands for all.
CallsAnswered == CallAnswered(CHOOSE m \in Miner : TRUE)
=============================================================================
