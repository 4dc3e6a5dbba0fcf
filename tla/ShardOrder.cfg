\* The stream whose second shard starts with a number that wraps.
SPECIFICATION Spec
CONSTANTS
    Shards = {1, 2, 3}
    Half = 4
    MaxChanges = 3
    MaxDocuments = 4
    IntLimit = 8
    FloatExact = 4
    Setups <- WrappingSetups
    TimeOf <- Texts
    NumberOf <- Texts
    ArrayOf <- NoTexts
    ObjectOf <- NoTexts
    FromNested <- convertFromAttributeValue
    ConvertNested <- convertValue
    GetNested <- getNestedValue
    SetNested <- setNestedValue
INVARIANT Chronological
CHECK_DEADLOCK FALSE
