SPECIFICATION RouteSpec
CONSTANTS
    ann = ann
    Name = {ann}
    NoName = NoName
    d1 = d1
    d2 = d2
    d3 = d3
    Device = {d1, d2, d3}
    Own <- MCOwn
    Send = {s1}
    Jobs <- MCShellJobs
    MaxKeys = 2
INVARIANT
    ShellReaches
