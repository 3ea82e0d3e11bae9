------------------------ MODULE MCLifecycleTransport ------------------------
(* Three identifiers make wraparound and reuse happen after three effects.  *)
EXTENDS LifecycleTransport

MCStartFrom == {"idle", "complete", "failed_without_session"}
MCRefreshFrom == {"pairing", "transferring", "failed_with_session"}
=============================================================================
