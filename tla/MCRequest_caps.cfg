CONSTANTS
    a = a
    d = d
    key = key
    cust = cust
    team = team
    Absent = Absent
    NoScope = NoScope
    Clients = {a, d}
    Labels = {key}
    Customers = {cust}
    Teams = {team}
    Label <- MCLabel
    Customer <- MCCustomer
    Team <- MCTeam
    Streaming = {a}
    Cap <- MCCap
    MaxFaults = 2
    MaxDays = 1
SPECIFICATION FairSpec
INVARIANTS TypeOK JustRefusal
PROPERTIES CapTakesEffect CapLetsGo
