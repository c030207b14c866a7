SPECIFICATION ParamSpec
CONSTANTS
    NumLines = 3
    LineSize = 5
    Zero = 0
    Data <- MCData
    FirstFiles <- OnlyBlank
    Magic = 9
    Sentinel = 8
    Type = 7
    FormatVersion = 1
    Version = 6
    Keys = {2, 3}
    Default = 0
    Values = {0, 4}
INVARIANT
    NoLineLeftUnwritten
