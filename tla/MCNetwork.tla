----------------------------- MODULE MCNetwork -----------------------------
(* Two ports that wake each other's messages, latencies that differ by      *)
(* direction, and a random part as large as the smaller of them.            *)
EXTENDS Network

MCPort == 1 .. 2
MCLatency == [from \in MCPort |-> [to \in MCPort |-> IF from = 1 THEN 2 ELSE 1]]
MCDisperse == [to \in MCPort |-> 1]
=============================================================================
