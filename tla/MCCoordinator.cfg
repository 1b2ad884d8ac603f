SPECIFICATION FairSpec
CONSTANTS
    Place <- MCPlace
    Region <- MCRegion
    Ancestors <- MCAncestors
    Descendants <- MCDescendants
    Threat <- MCThreat
    Stamp = {1, 2}
    Name = {"given", "other"}
    NoMap = NoMap
    Maps <- MCMaps
INVARIANTS
    TypeOK
    ViewsAreCurrent
    EntitiesAreCurrent
    EventsAreCurrent
PROPERTIES
    StaleIsAnnounced
    TellsEveryChange
