SPECIFICATION Spec
CONSTANTS
    Shards = {1, 2, 3}
    Half = 4
    MaxChanges = 3
    MaxDocuments = 4
    IntLimit = 8
    FloatExact = 4
    Setups <- SomeSetups
    TimeOf <- Texts
    NumberOf <- Texts
    ArrayOf <- NoTexts
    ObjectOf <- NoTexts
    FromNested <- convertFromAttributeValue
    ConvertNested <- convertValue
    GetNested <- getNestedValue
    SetNested <- setNestedValue
INVARIANTS TypeOK EachShardOnce SortedByNumber ItemsAreCopied RemovedAreDeleted KeySurvivesResume
CHECK_DEADLOCK FALSE
