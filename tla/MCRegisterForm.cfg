SPECIFICATION FormSpec
CONSTANTS
    Keys = {owner, village}
    Read = {owner}
    MaxDocuments = 2
    owner = owner
    village = village
PROPERTY TypedFieldsSurvive
CHECK_DEADLOCK FALSE
