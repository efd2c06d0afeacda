--------------------------- MODULE MCPublication ---------------------------
\* Two deployments; the first evidence runs out before its manifest, and the
\* second has an unsound manifest.
EXTENDS Publication

Host(n, p) == [name |-> n, plain |-> p]

MCEvidence ==
    {[id |-> "a", host |-> Host("a", FALSE), cert |-> "c", status |-> "reviewed",
      from |-> 0, until |-> 1, not_after |-> 1, sound |-> TRUE],
     [id |-> "b", host |-> Host("b", TRUE), cert |-> "c", status |-> "reviewed",
      from |-> 0, until |-> 2, not_after |-> 2, sound |-> TRUE]}

MCManifest ==
    {[id |-> "a", host |-> Host("a", TRUE), status |-> "approved",
      from |-> 0, until |-> 1, not_after |-> 1, sound |-> TRUE],
     [id |-> "b", host |-> Host("b", TRUE), status |-> "approved",
      from |-> 0, until |-> 2, not_after |-> 2, sound |-> FALSE]}

\* The contract the phase 5 review was written for, and that of phase 2.
Old == [paths |-> 25, sha |-> 1]
New == [paths |-> 36, sha |-> 2]
MCDecision == {[candidate |-> 1, final |-> TRUE, at |-> 0]}
MCSurface == {Old, New}
=============================================================================
