---------------------------- MODULE MCHumanTasks ----------------------------
(* Small instances of HumanTasks for TLC. *)
EXTENDS HumanTasks, TLC
CONSTANTS u1, u2, g1, g2, t1
LaneSet == {[kind |-> "owners", group |-> g1, names |-> {u2}, groups |-> {g1}],
            [kind |-> "lane", group |-> g1, names |-> {}, groups |-> {}],
            [kind |-> "initiator", group |-> g1, names |-> {}, groups |-> {}],
            [kind |-> "guest", group |-> g1, names |-> {}, groups |-> {}]}
OneDefinition == [t \in HTasks |-> "d"]
ClaimSets == {[authority |-> FALSE, groups |-> {}], [authority |-> TRUE, groups |-> {}]}
Yaml == {{}, {<<u2, g1>>}, {<<Anybody, g1>>}}
=============================================================================
