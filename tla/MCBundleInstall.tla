---- MODULE MCBundleInstall ----
(* Instances of BundleInstall for TLC. *)
EXTENDS BundleInstall
CONSTANTS t1, t2, t3
====
