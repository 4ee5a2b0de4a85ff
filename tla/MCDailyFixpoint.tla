-------------------------- MODULE MCDailyFixpoint --------------------------
(* Three symbols of which two are selected, on the last of four sessions.    *)
EXTENDS DailyFixpoint

CONSTANTS p1, p2, operator

World(provided, held) == [provider |-> provided, stored |-> held]

MCWorlds == {
    \* The second symbol has a gap, which hides that the first lacks history.
    World(<<1 .. 4, 1 .. 4, 1 .. 4>>, <<2 .. 4, {1, 2, 4}, 1 .. 4>>),
    \* The provider lacks that history: the third symbol replaces the first, and
    \* lacks history too.
    World(<<2 .. 4, 1 .. 4, 1 .. 4>>, <<2 .. 4, 1 .. 4, 2 .. 4>>),
    \* Two symbols have a hole nobody can fill, one of them a gap besides.
    World(<<{1, 2, 4}, {1, 3, 4}, 1 .. 4>>, <<{1, 2, 4}, {1, 3}, 1 .. 4>>),
    \* One symbol has two gaps.
    World(<<1 .. 4, 1 .. 4, 1 .. 4>>, <<{1, 3}, 1 .. 4, 1 .. 4>>)}

\* Ordinary synchronizations ask for the oldest session, which some lack.
MCRanges == {<<1, 1>>}

=============================================================================
