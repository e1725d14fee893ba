----------------------------- MODULE MCCatalogStore -----------------------------
(* Small instances of CatalogStore for TLC. *)
EXTENDS CatalogStore

CONSTANTS x, y, w1, w2, r1
================================================================================
