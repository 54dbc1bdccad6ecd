-------------------------- MODULE MCIngestPipeline --------------------------
(* Two workers and two messages, the original and a re-upload, that carry the *)
(* same transaction: with claims by fingerprint, different ones do not meet.  *)
EXTENDS IngestPipeline, TLC

CONSTANTS t1, t2, f1, w1, w2

MCTasks == {t1, t2}
MCFingerprints == {f1}
MCFp == (t1 :> f1) @@ (t2 :> f1)
MCWorkers == {w1, w2}
=============================================================================
