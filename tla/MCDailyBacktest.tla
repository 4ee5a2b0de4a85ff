-------------------------- MODULE MCDailyBacktest --------------------------
(***************************************************************************)
(* Two symbols of one sector and three sets of rules: a fixed stop and     *)
(* target with a hard maximum, two positions at a time; all the trailing   *)
(* stops with two partial levels, one position in the sector; the rules of *)
(* the close on complete data, one position in all.                        *)
(***************************************************************************)
EXTENDS DailyBacktest

Sector == [s \in Symbols |-> 1]

Fixed == [stop |-> TRUE, target |-> 2, trail |-> None, atr |-> None,
          lock |-> None, partial |-> <<>>, decay |-> FALSE, rotation |-> None,
          hold |-> [days |-> 2, hard |-> TRUE], cooldown |-> 0, strict |-> FALSE,
          max_positions |-> 2, max_sector_positions |-> 2,
          slip |-> 1, distances |-> {2}]

Half == [profit |-> 1, part |-> 2, original |-> FALSE]

Quarter == [profit |-> 2, part |-> 4, original |-> TRUE]

Trailing ==
    [Fixed EXCEPT !.target = 3,
                  !.trail = [activation |-> 1, distance |-> 2],
                  !.atr = [activation |-> 0, multiple |-> 1, bars |-> 1],
                  !.lock = [breakEven |-> 1, oneR |-> 2, locked |-> 1],
                  !.partial = <<Half, Quarter>>,
                  !.hold = [days |-> 2, hard |-> FALSE], !.cooldown = 1,
                  !.max_sector_positions = 1,
                  !.slip = 0, !.distances = {1}]

Scored ==
    [Fixed EXCEPT !.target = None, !.decay = TRUE, !.rotation = 1,
                  !.hold = None, !.cooldown = None, !.strict = TRUE,
                  !.max_positions = 1]

MCRules == {Fixed, Trailing, Scored}

=============================================================================
