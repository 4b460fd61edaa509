SPECIFICATION Spec
CONSTANTS
    Size = 3
    Boot = 4
    Pass = 8
    Task = 5
    Delay = 4
    Limit = 20
    Longest = 22
    Race = 1
INVARIANTS AllSent OnlyReadSticks HeardOften
