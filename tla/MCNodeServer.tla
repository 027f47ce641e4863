---------------------------- MODULE MCNodeServer ----------------------------
\* Instances of NodeServer for TLC.
EXTENDS NodeServer

Kind(eph, kata, block, xfs) == [eph |-> eph, kata |-> kata, block |-> block, xfs |-> xfs]

\* Persistent and ephemeral volumes, raw block volumes, and the same for Kata
\* Containers; each path with and without xfs once.
AllKinds ==
    {Kind(FALSE, FALSE, FALSE, TRUE), Kind(TRUE, FALSE, FALSE, TRUE), Kind(FALSE, FALSE, TRUE, FALSE),
     Kind(FALSE, TRUE, FALSE, FALSE), Kind(TRUE, TRUE, FALSE, TRUE), Kind(FALSE, TRUE, TRUE, FALSE)}

=============================================================================
