SPECIFICATION Spec
CONSTANTS
    a1 = a1
    a2 = a2
    None = None
    Asked = Asked
    MaxBlock = 3
    MinBorder = 1
    Limit = 1
    Addresses <- MCAddresses
    Touched <- MCTouched
    Amount <- MCAmount
INVARIANT RowsAreCurrent
INVARIANT ListsAreCurrent
