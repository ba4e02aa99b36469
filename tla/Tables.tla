------------------------------- MODULE Tables -------------------------------
(***************************************************************************)
(* Updates of tables: functions whose domain is the set of rows that exist *)
(* now.  They say what @@ and :> of module TLC say, in a form the proof    *)
(* system can expand.  Rows are removed with Restrict of Functions.        *)
(***************************************************************************)
EXTENDS Functions

NoEntries == [x \in {} |-> x]

(* f with the entries of g, which win where both have one. *)
Overlay(f, g) ==
  [x \in DOMAIN f \cup DOMAIN g |-> IF x \in DOMAIN g THEN g[x] ELSE f[x]]

Put(f, key, value) == Overlay(f, [x \in {key} |-> value])

Remove(f, keys) == Restrict(f, DOMAIN f \ keys)

=============================================================================
