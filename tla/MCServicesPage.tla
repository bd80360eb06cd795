--------------------------- MODULE MCServicesPage ---------------------------
(* Two services, one of them from an image.                                *)
EXTENDS ServicesPage, TLC

CONSTANTS s1, s2

MCLoaded == {[u \in Unit |-> [active |-> u = s1, enabled |-> TRUE]]}
=============================================================================
