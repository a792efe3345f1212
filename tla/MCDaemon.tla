------------------------------ MODULE MCDaemon ------------------------------
\* Small instances of Daemon for TLC.
EXTENDS Daemon
=============================================================================
