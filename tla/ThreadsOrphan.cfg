\* One reply whose parent the list does not have, and perhaps another message.
SPECIFICATION Spec
CONSTANTS
    Ids = {1, 2, 3}
    Subjects = {"s", "t"}
    Positions = {1, 2}
    Lists <- MCLists
    None = None
INVARIANT EveryMessageShown
