--------------------------- MODULE MCBrowserWorker ----------------------------
(* A small instance of BrowserWorker for TLC. *)
EXTENDS BrowserWorker

CONSTANTS s1, s2, k1, k2, k3, k4, p1, p2, r1, r2
=============================================================================
