-------------------------- MODULE StreamScenarios ---------------------------
(* Who writes, updates keys and sends other records, for TLC runs of       *)
(* TLSStream.                                                              *)

Does(bytes, updates_, others_) ==
    [bytes |-> bytes, updates |-> updates_, others |-> others_]

Scenario(client, server) == [client |-> client, server |-> server]

(* Safety: writes, key updates and foreign records interact. *)
MCLimits ==
    {Scenario(Does(3, 0, 0), Does(0, 0, 0)), \* a write of two records
     Scenario(Does(1, 1, 0), Does(0, 0, 0)), \* a write and a key update
     Scenario(Does(1, 0, 0), Does(1, 0, 1)), \* both write, one is foreign
     Scenario(Does(0, 0, 0), Does(1, 0, 2)), \* as many as the limits reject
     Scenario(Does(0, 1, 0), Does(0, 1, 0))} \* key updates cross

(* Liveness: smaller ones *)
MCLiveLimits ==
    {Scenario(Does(3, 0, 0), Does(0, 0, 0)),
     Scenario(Does(1, 1, 0), Does(0, 0, 0)),
     Scenario(Does(0, 0, 0), Does(0, 0, 1))}
=============================================================================
