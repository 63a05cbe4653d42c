---------------------------- MODULE MCDemoClients ----------------------------
EXTENDS DemoClients, TLC

CONSTANTS w1, w2, a1, b1, a2

MCIdentityOf == w1 :> a1 @@ w2 :> a2
MCCliIdentity == w1 :> b1 @@ w2 :> a2
=============================================================================
