--------------------------- MODULE KernelFindings ---------------------------
(***************************************************************************)
(* Where the kernel does something else than its comments say: module      *)
(* KernelLib, and one more thing that the system-call interface allows a   *)
(* program to do.                                                          *)
(***************************************************************************)
EXTENDS KernelLib

\* sys_ipc_recv() with an address that it rejects.
BadReceive(c) == SysIpcRecv(c, FALSE) /\ UNCHANGED starting

BadReceiveSpec == LibInit /\ [][LibNext \/ \E c \in Cpus : BadReceive(c)]_libVars

-----------------------------------------------------------------------------
\* kern/syscall.c:322: "The send fails with a return value of -E_IPC_NOT_RECV
\* if the target is not blocked, waiting for an IPC".  A sys_ipc_recv() that
\* has returned -E_INVAL leaves the receiving flag up, and a later send to the
\* environment, which runs, succeeds (sys_ipc_recv, sys_ipc_try_send).
SendNeedsBlockedTarget ==
    [][\A e \in Envs :
          env_ipc_recving[e] /\ ~env_ipc_recving'[e] /\ env_id'[e] = env_id[e]
             => env_status[e] = "NOT_RUNNABLE"]_libVars
=============================================================================
