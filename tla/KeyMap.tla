------------------------------- MODULE KeyMap -------------------------------
(***************************************************************************)
(* Go maps and the collections agents publish: functions whose domain is   *)
(* the set of keys present.                                                *)
(***************************************************************************)

\* m[k] = x
Put(f, k, x) == [j \in DOMAIN f \cup {k} |-> IF j = k THEN x ELSE f[j]]

\* delete(m, k)
Without(f, k) == [j \in DOMAIN f \ {k} |-> f[j]]
=============================================================================
