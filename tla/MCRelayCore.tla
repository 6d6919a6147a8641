----------------------------- MODULE MCRelayCore -----------------------------
(* RelayCore on small instances.  Host and session ids, device ids and codes *)
(* are interchangeable, so TLC may identify states up to permuting them.     *)
EXTENDS RelayCore, TLC

Symmetry == Permutations(Host) \cup Permutations(SessionId)
            \cup Permutations(DeviceId) \cup Permutations(Code)
=============================================================================
