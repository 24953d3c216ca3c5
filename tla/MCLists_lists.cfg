\* Three rows that may tie, pages of one: a walk has up to three pages and an
\* empty one. Two callers of a cell; without a radius a search widens once, from 1
\* to 2, and 1 may also be named.
SPECIFICATION ListsSpec
CONSTANTS
    Ids = {1, 2, 3}
    Ranks = {1, 2}
    Owner <- TwoOwners
    Places = {"west", "east"}
    Home = "west"
    Distance <- Crossed
    Radii = {1}
    DefaultRadius = 1
    RadiusExpansionStep = 1
    MaxRadiusExpansions = 1
    PageSize = 1
    MaxKept = 1
INVARIANT SteadyRowSeenOnce
PROPERTY PagesAreLive
