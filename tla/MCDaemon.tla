------------------------------ MODULE MCDaemon ------------------------------
\* Model values for Daemon.
EXTENDS Daemon, TLC
=============================================================================
