SPECIFICATION HumanTasksSpec
CHECK_DEADLOCK FALSE
CONSTANTS
    u1 = u1
    u2 = u2
    g1 = g1
    g2 = g2
    t1 = t1
    Guest = guest
    Users = {u1, u2, guest}
    NoUser = NoUser
    Initiator = u1
    Groups = {g1, g2}
    DefaultGroup = g2
    Anybody = Anybody
    HTasks = {t1}
    NoTask = NoTask
    Definition <- OneDefinition
    Lanes <- LaneSet
    NoLane = NoLane
    Claims <- ClaimSets
    YamlGroups <- Yaml
    MaxChanges = 3
INVARIANT NamedOwnersKept
