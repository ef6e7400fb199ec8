------------------------------ MODULE MCRequest ------------------------------
\* Client a uses an API key with a cap, client d a virtual key and a customer
\* tag with caps of a team and a customer.
EXTENDS RequestPipeline, TLC

CONSTANTS a, d, key, cust, team

MCLabel == [c \in Clients |-> IF c = d THEN NoScope ELSE key]
MCCustomer == [c \in Clients |-> IF c = a THEN NoScope ELSE cust]
MCTeam == [c \in Clients |-> IF c = d THEN team ELSE NoScope]
MCCap == key :> 1 @@ cust :> 1 @@ team :> 1
=============================================================================
