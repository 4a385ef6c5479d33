------------------------------- MODULE MCIpcMsg -------------------------------
(* Two senders and two receivers on one queue that has room for one of the  *)
(* larger messages, until IPC_SET and IPC_RMID.                             *)
EXTENDS IpcMsg, TLC

CONSTANTS s1, s2, r1, r2

MCOutbox == s1 :> {1, 3} @@ s2 :> {2}
MCType == 1 :> 2 @@ 2 :> 1 @@ 3 :> 3
MCSize == 1 :> 2 @@ 2 :> 1 @@ 3 :> 1

Recv(mode, type, maxsize, nowait) ==
  [mode |-> mode, type |-> type, maxsize |-> maxsize, nowait |-> nowait]
MCRecvReq ==
  r1 :> {Recv("LESSEQUAL", 2, 2, FALSE)}
  @@ r2 :> {Recv("EQUAL", 2, 1, FALSE), Recv("NOTEQUAL", 1, 2, TRUE)}

MCCtlReq ==
  {[cmd |-> "IPC_SET", qbytes |-> 3, perm |-> TRUE],
   [cmd |-> "IPC_SET", qbytes |-> 2, perm |-> FALSE],
   [cmd |-> "IPC_RMID", qbytes |-> 0, perm |-> TRUE]}
=============================================================================
