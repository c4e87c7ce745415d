--------------------------- MODULE MCHarborTools ---------------------------
(***************************************************************************)
(* A small instance of every part around the queue for TLC.                *)
(***************************************************************************)
EXTENDS HarborTools

CONSTANTS a, b, c,              \* commits: b and c both descend from a
          origin, other,        \* URLs
          plain, costly,        \* settings; the costly route needs its own key
          profile               \* and one profile file serves both

TwoBranches == {<<x, x>> : x \in Commits} \union {<<b, a>>, <<c, a>>}
OneProfile == [s \in Drafts |-> profile]
=============================================================================
