----------------------------- MODULE MCDashboard -----------------------------
(* Two of everything that can be confused with another of its kind; the    *)
(* widgets of the registry, and layouts of one to three of them.           *)
EXTENDS Dashboard, TLC

CONSTANTS s1, s2, u1, u2, v1, v2, t1, t2

MCFieldsOf == [s \in Service |-> IF s = FirstService THEN Field ELSE {}]

MCItems == [id : {"cpu", "vpn", "gone"}, span : {1, 2, 3, 4, 6}]

MCLayouts == UNION {[1 .. n -> MCItems] : n \in {0, 1, 2, 3}}
=============================================================================
