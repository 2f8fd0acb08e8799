---------------------------- MODULE MCWebsocket ----------------------------
EXTENDS Websocket

CONSTANTS c1, c2

Singles    == [c \in Clients |-> <<1>>]
BatchOfTwo == [c \in Clients |-> IF c = c1 THEN <<2>> ELSE <<1>>]
=============================================================================
