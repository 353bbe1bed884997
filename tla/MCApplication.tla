--------------------------- MODULE MCApplication ---------------------------
(* Plans of one and two requests per type, with fixed and with random periods. *)
EXTENDS Application

Once(delay) ==
    [firstDelay |-> delay, period |-> 1, amount |-> 1, contents |-> "a",
     randType |-> {}, randNeedRecalc |-> {}, periods |-> {}, tails |-> {},
     destinations |-> {}]

Every(delay, period, amount, contents) ==
    [Once(delay) EXCEPT !.period = period, !.amount = amount, !.contents = contents]

AtRandom(delay, amount, recalc) ==
    [Every(delay, 1, amount, "a") EXCEPT
        !.randType = {"PERIOD", "DEST"}, !.randNeedRecalc = recalc,
        !.periods = {1, 2}, !.destinations = {"a", "b"}]

\* The tails add up, as they are drawn anew and the period is not.
Drifting(amount) ==
    [Every(0, 2, amount, "b") EXCEPT !.randType = {"PERIOD_TAIL"},
                                     !.randNeedRecalc = {"PERIOD_TAIL"}, !.tails = {1}]

\* A node is started, and reset again later, sends data, and is paused and
\* continued in between.
Lists ==
    [HARD_RESET : {<<Once(0)>>, <<Once(3)>>, <<Once(0), Every(2, 1, 2, "b")>>},
     SINGLE     : {<<AtRandom(1, 3, recalc)>> : recalc \in {{}, {"PERIOD"}, {"DEST"}}}
                      \cup {<<Every(1, 2, 2, "a"), Every(0, 1, 2, "b")>>},
     BROADCAST  : {<<>>, <<Every(2, 1, 3, "b"), AtRandom(1, 2, {"DEST"})>>, <<Drifting(3)>>},
     PAUSE      : {<<>>, <<Once(1)>>, <<Every(2, 2, 2, "a")>>},
     CONTINUE   : {<<>>, <<Once(3)>>, <<Once(1), Once(2)>>}]

Plans == {[t \in SimType |-> IF t \in DOMAIN lists THEN lists[t] ELSE <<>>] : lists \in Lists}
=============================================================================
