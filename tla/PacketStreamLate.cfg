\* A network that may deliver late: the filter of parse forgets.
SPECIFICATION Spec
CONSTANTS
    IdSpace = 6
    MaxSeq = 3
    MaxPush = 0
    MaxNet = 2
    Reorder = TRUE
INVARIANT OldCodesIgnored
