CONSTANTS
    n58 = n58
    n64 = n64
    n65 = n65
    Names = {n58, n64, n65}
    NameLen <- MCNameLen
    FieldLists <- MCFieldLists
    Version = 3
    MaxOpened = 2
SPECIFICATION Spec
PROPERTY NameLengthLimit
