---------------------------- MODULE MCAuditProxy ----------------------------
(* Small instances of AuditProxy.                                          *)
EXTENDS AuditProxy, TLC

CONSTANTS r1, r2

MCRequests == {r1, r2}

OneRequest == {r1}

(* What the cluster sends: verified requests of both paths, and one        *)
(* without a verified identity.                                            *)
MCInbound == { [identity |-> "verified", info |-> "mutating"],
               [identity |-> "verified", info |-> "other"],
               [identity |-> "absent", info |-> "mutating"] }

EveryInbound == [identity : {"verified", "absent", "invalid"},
                 info : {"mutating", "other", "unresolved"}]

Symmetry == Permutations(MCRequests)
=============================================================================
