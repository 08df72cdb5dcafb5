--------------------------- MODULE MCPushDelivery ---------------------------
\* Two requests at a time, two pushes for two users, one browser they share or,
\* with a second endpoint, two.
EXTENDS PushDelivery
=============================================================================
