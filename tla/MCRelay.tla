------------------------------ MODULE MCRelay -------------------------------
EXTENDS Relay, TLC

CONSTANTS h, g
=============================================================================
