-------------------------- MODULE MC_UrlInspection --------------------------
(* Instances of UrlInspection for TLC.                                      *)
EXTENDS UrlInspection

CONSTANTS u1, u2, u3

\* A site that grows at either end, shrinks to one URL, or is reordered.
SomeSitemaps == {<<u1, u2, u3>>, <<u2, u1>>, <<u3>>}
=============================================================================
