------------------------------ MODULE MCWorkspace ------------------------------
(***************************************************************************)
(* The workspace for TLC: the sessions of both peers, smoke runs of one    *)
(* target, a scenario and a rig, and their stops, side by side.            *)
(***************************************************************************)
EXTENDS TmuxRuns

CONSTANTS a, b

Asked(kind, identity) ==
    [kind |-> kind, identity |-> identity, target |-> "t1", force |-> FALSE,
     skip |-> FALSE, join |-> FALSE, keep |-> FALSE]

MCOptions ==
    << {[Asked("start", a) EXCEPT !.force = TRUE], Asked("smoke", None)},
       {[Asked("start", a) EXCEPT !.force = TRUE, !.join = TRUE],
        [Asked("start", b) EXCEPT !.join = TRUE],
        [Asked("smoke", None) EXCEPT !.target = "t2", !.keep = TRUE],
        Asked("smoke", None)},
       {[Asked("start", a) EXCEPT !.force = TRUE], Asked("start", a), Asked("stop", None)} >>

Wanted(kind, identity, target) ==
    [Asked(kind, identity) EXCEPT !.target = target]

MCConsoleOptions ==
    << {[Wanted("scenario", a, "s1") EXCEPT !.force = TRUE], Wanted("rig", None, "s1")},
       {[Wanted("scenario", a, "s1") EXCEPT !.force = TRUE], Wanted("rig", None, "s1"),
        Wanted("scenario stop", a, "s1"), Wanted("rig stop", None, "t1")},
       {Wanted("scenario stop", None, None), Wanted("scenario", a, "s1"),
        Wanted("rig stop", None, None), Wanted("rig", None, "t1")} >>

MCApps == [t \in {"s1"} |-> {a}]

MCLineUps ==
    ({"start", "smoke"} \X {"start", "smoke"} \X {"start", "stop"}) \cup
    {<<"scenario", "scenario", "scenario stop">>,
     <<"start", "scenario", "scenario">>,
     <<"start", "rig", "rig stop">>,
     <<"rig", "rig", "rig stop">>,
     <<"rig", "scenario stop", "rig stop">>,
     <<"smoke", "rig stop", "rig">>}
================================================================================
