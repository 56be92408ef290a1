---------------------------- MODULE MCChessPair ----------------------------
(* ChessPair on three positions: from the start one step leads to a mid    *)
(* position and, on a board that holds more than its hash, elsewhere; from *)
(* there one leads on; a new game leads back from everywhere.              *)
EXTENDS ChessPair

MCStates == {"start", "mid", "end", "desync"}
MCSteps  == {"move", "reset"}
MCOutcomes ==
    [s \in MCStates |-> [v \in MCSteps |->
        IF v = "reset" THEN {"start"}
        ELSE IF s = "start" THEN {"mid", "end"}
        ELSE IF s = "mid" THEN {"end"} ELSE {"refused"}]]

CONSTANTS p1, p2
\* Two steps that race or follow one another, and one call that fails (p2 makes
\* it, the pages being alike); a step with talk before or after it, and two
\* failed calls of either page.
Race   == [steps |-> 2, talk |-> 0, failures |-> 1, flaky |-> {p2}]
Chat   == [steps |-> 1, talk |-> 1, failures |-> 2, flaky |-> {p1, p2}]
RaceOrChat == {Race, Chat}

\* A line missed, noticed at the next one.
Missed == {[steps |-> 1, talk |-> 1, failures |-> 1, flaky |-> {p2}]}
=============================================================================
