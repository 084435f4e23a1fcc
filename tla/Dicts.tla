-------------------------------- MODULE Dicts --------------------------------
(* Python dictionaries, as functions whose domain is the set of present keys. *)
(* `k in d` is k \in DOMAIN d, `d[k] = v` is Put(d, k, v), `del d[k]` and      *)
(* `d.pop(k)` are Drop(d, k).                                                  *)

\* Is d a dictionary with keys in K and values in V?
IsDict(d, K, V) == DOMAIN d \subseteq K /\ d \in [DOMAIN d -> V]

\* The empty dictionary.
Empty == [k \in {} |-> k]

\* d after d[k] = v.
Put(d, k, v) == [x \in DOMAIN d \cup {k} |-> IF x = k THEN v ELSE d[x]]

\* d after d.pop(k, None).
Drop(d, k) == [x \in DOMAIN d \ {k} |-> d[x]]
=============================================================================
