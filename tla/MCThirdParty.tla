----------------------------- MODULE MCThirdParty ------------------------------
EXTENDS ThirdParty, TLC

CONSTANTS e1, e2, p1, r1

MCRestaurantOf == [e \in External |-> r1]

MCPlatformOf == [e \in External |-> p1]
================================================================================
