-------------------------- MODULE MCSubscriptions --------------------------
EXTENDS Subscriptions

CONSTANTS c1, c2
=============================================================================
