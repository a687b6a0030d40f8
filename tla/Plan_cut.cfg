\* Every layout of the source within the bounds, empty row groups included.
SPECIFICATION PlanSpec
CONSTANTS
    MaxGroups = 4
    MaxRows = 3
    MaxSplits = 5
INVARIANTS
    IndexIsSourceRow
    PartitionInOrder
    RaisesOnlyWhenEmpty
\* A behaviour ends when the source is cut.
CHECK_DEADLOCK FALSE
