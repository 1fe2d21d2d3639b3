------------------------------- MODULE MCSshPool -------------------------------
(* Threads that share one client; t1 may also open ssh_session() blocks.   *)
EXTENDS SshPool, TLC
CONSTANTS t1, t2
SshThreads == {t1, t2}
SshOwners == {t1}
================================================================================
