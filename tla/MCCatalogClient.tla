---------------------------- MODULE MCCatalogClient ----------------------------
(* Small instances of CatalogClient for TLC. *)
EXTENDS CatalogClient

CONSTANTS q1, q2, q3, c1, c2
===============================================================================
