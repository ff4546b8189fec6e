----------------------------- MODULE MCPiHandler -----------------------------
(* One package and two leaves, one in an object inside the other's.        *)
EXTENDS PiHandler, TLC

MCOrder == <<"p", "s", "t">>
MCAbove == "p" :> {} @@ "s" :> {"c"} @@ "t" :> {"c", "d"}
MCOutside == "c" :> {} @@ "d" :> {"c"}
M(p, s, t) == "p" :> p @@ "s" :> s @@ "t" :> t
S(val, boxes) == [val |-> val, boxes |-> boxes]
\* Nothing but an empty object; values to adopt and to give up.
MCStarts == {S(M(0, 0, 0), {"c"}), S(M(1, 0, 1), {"c", "d"})}
MCManifests == {M(0, 0, 0), M(1, 1, 1), M(0, 2, 0)}
=============================================================================
