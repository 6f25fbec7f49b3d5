---------------------------- MODULE MCZoneFilter ----------------------------
(* ZoneFilter for TLC.                                                      *)
EXTENDS ZoneFilter
=============================================================================
