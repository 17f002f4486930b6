----------------------------- MODULE MCTokenCache -----------------------------
(***************************************************************************)
(* TokenCache on a small instance: a process with the two goroutines that  *)
(* call Token, and another process with one.  The other is of the same     *)
(* account, as when a rollout overlaps; or of one whose user name differs  *)
(* only in what a slug of SlugLimit = 3 characters does not show, with a   *)
(* hash that begins differently (Alike) or, as nothing rules out, equally  *)
(* (Twin); or of one that slugs differently and has the same four bytes    *)
(* (Far).                                                                  *)
(***************************************************************************)
EXTENDS TokenCache

CONSTANTS p1, p2, dial, refresh, other, nobody

MCProcs   == {p1, p2}
MCThreads == {dial, refresh, other}
MCOwner   == [t \in MCThreads |-> IF t = other THEN p2 ELSE p1]
MCMain    == [p \in MCProcs |-> IF p = p1 THEN dial ELSE other]

One   == <<"a", ".", "b">>
Alike == <<"A", "-", "b", "b">>
Twin  == <<"A", ".", "B", "0">>
Far   == <<"b">>

MCSum == [n \in {One, Alike, Twin, Far} |-> IF n = Alike THEN 2 ELSE 1]

MCCrews == {[p \in MCProcs |-> IF p = p1 THEN One ELSE n] : n \in {One, Alike, Twin, Far}}

===============================================================================
