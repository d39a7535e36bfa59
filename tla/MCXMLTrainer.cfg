CONSTANT MaxKey = 4
SPECIFICATION FairSpec
INVARIANTS WatermarksClose ModelCoversSnapshot OnlyLateReportsLost
PROPERTY ReportedIsTrained
CHECK_DEADLOCK FALSE
