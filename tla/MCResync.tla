------------------------------ MODULE MCResync ------------------------------
\* Resync, ready for TLC: its constants need no model values.
EXTENDS Resync
=============================================================================
