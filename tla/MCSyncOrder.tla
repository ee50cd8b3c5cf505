---------------------------- MODULE MCSyncOrder ----------------------------
(* SyncLog with a disk that may still fail, or with requests that may still *)
(* be lost and programs that may still end.                                 *)
EXTENDS MCSyncLog

OrderInit == Init /\ (faults = MaxFaults \/ diskFaults = MaxDiskFaults)

OrderSpec == OrderInit /\ [][Next]_vars
=============================================================================
