--------------------------- MODULE MCAdjudication ---------------------------
(* Three maps side by side.  On the first, units may follow each other in a  *)
(* circle.  On the second, m and n are the two inner places of a tree: a     *)
(* unit may lose its place while it waits for another to leave, and a        *)
(* support may be cut only because its giver is dislodged.  On the third, an *)
(* army at s may go to d by land, or be convoyed through e or through i; the *)
(* fleet at f can attack e or support an attack on it, as can one at d.  On    *)
(* the fourth, armies at j and l may swap places, one of them by a convoy    *)
(* through o, which fleets at q and r attack while an army is convoyed to r. *)
EXTENDS Adjudication, TLC

CONSTANTS x, a, b, c, d,  m, n, v, h, w, k,  P, Q, R,
          s, t, e, i, f, z,  j, l, o, q, r, y, g

Pairs == {{x, a}, {x, b}, {x, c}, {x, d}, {a, b},
          {m, n}, {m, v}, {v, h}, {n, w}, {n, k},
          {s, e}, {s, i}, {e, t}, {i, t}, {e, f}, {t, f}, {e, z}, {t, z}, {f, z},
          {j, l}, {j, o}, {l, o}, {o, q}, {o, r}, {r, y}, {y, g}}

MCAdjacent == {edge \in Places \X Places : {edge[1], edge[2]} \in Pairs}

Swap == j :> P @@ l :> Q @@ o :> P @@ q :> R @@ r :> R @@ y :> Q @@ g :> Q

MCSituations ==
    {(x :> P @@ a :> Q @@ b :> P @@ c :> Q),
     (x :> P @@ a :> Q @@ b :> R @@ c :> Q),
     (m :> P @@ v :> Q @@ h :> P @@ n :> Q @@ w :> P @@ k :> R),
     (s :> P @@ e :> P @@ i :> P @@ f :> R @@ t :> Q @@ z :> R),
     Swap}

MCOrderTypes == [p \in Places |-> CASE p \in {e, i, o, y} -> {"C", "H"}
                                    [] p \in {s, j, g, q} -> {"-"}
                                    [] p = f -> {"-"}
                                    [] p \in {w, k} -> {"-", "S"}
                                    [] OTHER -> {"H", "-", "S", "C"}]

\* An army is convoyed to t, and two units may stand each other off at f.
MCRetreats == {(s :> P @@ e :> P @@ i :> P @@ t :> Q @@ z :> R)}
MCAllTypes == [p \in Places |-> {"H", "-", "S", "C"}]
=============================================================================
