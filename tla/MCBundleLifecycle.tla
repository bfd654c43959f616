---- MODULE MCBundleLifecycle ----
(* An instance of BundleLifecycle for TLC: two threads and two bundles whose activators and
   listeners may start and stop each other. *)
EXTENDS BundleLifecycle
CONSTANTS b1, b2, t1, t2
====
