----------------------------- MODULE MCLifecycle -----------------------------
(* Lifecycle with two handlers in each tracker.                              *)
EXTENDS Lifecycle

CONSTANTS h1, h2

MCHandlers == {h1, h2}
=============================================================================
