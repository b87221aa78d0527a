---------------------------- MODULE MCDiskHelper ----------------------------
EXTENDS DiskHelper

MCConnections == 1 .. 2
MCHandles == 1 .. 7
=============================================================================
