---------------------------- MODULE MCLifecycle ----------------------------
(* Lifecycle with four servers, two of them probes.                        *)
EXTENDS Lifecycle

MCProbes == {3, 4}
=============================================================================
