---------------------------- MODULE MCAuditChain ----------------------------
(* Goroutines emitting into the runs of MCRuns.  One entropy smaller than  *)
(* the other is what it takes for a ULID of the same millisecond to fall   *)
(* before an older one.                                                    *)
EXTENDS AuditChain

MCEntropy == {1, 2}
=============================================================================
