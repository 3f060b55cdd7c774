---------------------------- MODULE MCCatalogScan -----------------------------
(***************************************************************************)
(* Three images, one of them with a damaged name; a second has two ticks   *)
(* and a minute two seconds.                                               *)
(***************************************************************************)
EXTENDS CatalogScan, TLC

CONSTANTS early, late, damaged

MCMinutes == {-1, 0, 1, 2}
Interchangeable == Permutations({early, late})
=============================================================================
