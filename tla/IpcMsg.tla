-------------------------------- MODULE IpcMsg --------------------------------
(***************************************************************************)
(* A System V message queue, ipc/msg.c, with its lookup, locking and       *)
(* reference counting from ipc/util.c: senders and receivers that sleep on *)
(* the queue, msgctl() calls that change and remove it, receivers that     *)
(* take what they are handed without the queue's lock, and the memory of   *)
(* the queue, freed through RCU.                                           *)
(*                                                                         *)
(* A region under the queue's lock is one step, but for the places where a *)
(* receiver watches its r_msg without the lock and for the reference count *)
(* that freeque() drops without it.                                        *)
(***************************************************************************)
EXTENDS Integers, Sequences, FiniteSets, SequencesExt

CONSTANTS
  Sender, Receiver,
  Ctl,          \* the task in msgctl(), one at a time (msg_ids.sem)
  Outbox,       \* sender -> its messages, positive numbers; each is sent once
  m_type, m_ts, \* a message's type and size
  RecvReq,      \* receiver -> arguments of its msgrcv() calls
  CtlReq,       \* arguments of the msgctl() calls
  QBytes,       \* msg_ctlmnb, the queue's initial limit
  MaxRecv,      \* bound: calls of each receiver
  MaxCtl        \* bound: msgctl() calls

Msg == UNION {Outbox[s] : s \in Sender}
Task == Sender \cup Receiver \cup {Ctl}
SEARCH == {"ANY", "EQUAL", "NOTEQUAL", "LESSEQUAL"}

ASSUME IpcMsgAssumption ==
  /\ IsFiniteSet(Sender) /\ Sender \cap Receiver = {}
  /\ Ctl \notin Sender \cup Receiver /\ "nobody" \notin Task
  /\ Msg \subseteq Nat \ {0} /\ IsFiniteSet(Msg)
  /\ m_type \in [Msg -> Nat \ {0}] /\ m_ts \in [Msg -> Nat]
  /\ RecvReq \in [Receiver -> SUBSET
       [mode : SEARCH, type : Nat, maxsize : Nat, nowait : BOOLEAN]]
  /\ CtlReq \subseteq [cmd : {"IPC_SET", "IPC_RMID"}, qbytes : Nat, perm : BOOLEAN]
  /\ QBytes \in Nat /\ MaxRecv \in Nat /\ MaxCtl \in Nat

(* r_msg holds a message, NULL or an ERR_PTR. *)
NULL == 0
EAGAIN == -11
E2BIG == -7
EIDRM == -43
Nobody == "nobody"

VARIABLES
  q_messages, q_cbytes, q_qnum, q_qbytes,
  q_perm,       \* ipcperms() lets the tasks in
  deleted,      \* q_perm.deleted, and the id's slot is NULL
  q_receivers, q_senders,
  lock,         \* owner of the queue's lock
  refcount,     \* ipc_rcu_hdr
  rcu,          \* tasks inside rcu_read_lock()
  called,       \* call_rcu() has been called for the queue ...
  blockers,     \* ... and waits for these read sections
  pc, req,      \* where each task is, and its call's arguments
  asleep,       \* TASK_INTERRUPTIBLE in schedule()
  sig,          \* signal_pending()
  r_msg,        \* receiver -> msr_d.r_msg
  target,       \* the receiver that a task is waking
  count,        \* a task's copy of refcount, or Ctl's place in q_receivers
  fate,         \* history: what became of each message's msgsnd()
  got,          \* history: how often each message was received
  ncalls        \* calls so far of receivers and of Ctl

queue == <<q_messages, q_cbytes, q_qnum, q_qbytes, q_perm, deleted>>
memory == <<refcount, called, count>>
grace == <<rcu, blockers>>
waiting == <<asleep, sig, r_msg, target>>
history == <<fate, got, ncalls>>
vars == <<queue, q_receivers, q_senders, lock, memory, grace, pc, req, waiting, history>>

None == [m |-> 0]

TypeOK ==
  /\ q_messages \in Seq(Msg) /\ q_cbytes \in Nat /\ q_qnum \in Nat /\ q_qbytes \in Nat
  /\ q_perm \in BOOLEAN /\ deleted \in BOOLEAN
  /\ q_receivers \in Seq(Receiver) /\ q_senders \in Seq(Sender)
  /\ lock \in Task \cup {Nobody} /\ refcount \in Nat
  /\ rcu \in SUBSET Task /\ called \in BOOLEAN /\ blockers \in SUBSET Task
  /\ pc \in [Task -> {"idle", "spin", "sleep", "look", "relock", "put", "again", "send",
                      "wake", "store", "expunge", "free"}]
  /\ asleep \in [Task -> BOOLEAN] /\ sig \in [Task -> BOOLEAN]
  /\ r_msg \in [Receiver -> Msg \cup {NULL, EAGAIN, E2BIG, EIDRM}]
  /\ target \in [Task -> Receiver \cup {Nobody}] /\ count \in [Task -> Nat]
  /\ fate \in [Msg -> {"new", "sending", "accepted", "refused", "purged"}]
  /\ got \in [Msg -> Nat] /\ ncalls \in [Task -> Nat]

Init ==
  /\ q_messages = <<>> /\ q_cbytes = 0 /\ q_qnum = 0 /\ q_qbytes = QBytes
  /\ q_perm = TRUE /\ deleted = FALSE /\ q_receivers = <<>> /\ q_senders = <<>>
  /\ lock = Nobody /\ refcount = 1 /\ rcu = {} /\ called = FALSE /\ blockers = {}
  /\ pc = [t \in Task |-> "idle"] /\ req = [t \in Task |-> None]
  /\ asleep = [t \in Task |-> FALSE] /\ sig = [t \in Task |-> FALSE]
  /\ r_msg = [r \in Receiver |-> EAGAIN] /\ target = [t \in Task |-> Nobody] /\ count = [t \in Task |-> 0]
  /\ fate = [m \in Msg |-> "new"] /\ got = [m \in Msg |-> 0]
  /\ ncalls = [t \in Task |-> 0]

-----------------------------------------------------------------------------
(* ipc/util.c *)

Goto(t, l) == pc' = [pc EXCEPT ![t] = l]

(* ipc_lock() up to its spin_lock(): a call for a removed id returns        *)
(* -EINVAL and changes nothing.                                             *)
ipc_lock(t, r) ==
  /\ pc[t] = "idle" /\ ~deleted
  /\ rcu' = rcu \cup {t}
  /\ req' = [req EXCEPT ![t] = r] /\ Goto(t, "spin")
  /\ UNCHANGED <<queue, q_receivers, q_senders, lock, memory, blockers, waiting>>

(* rcu_read_unlock() *)
rcu_read_unlock(t) == rcu' = rcu \ {t} /\ blockers' = blockers \ {t}

ipc_unlock(t) == lock' = Nobody /\ rcu_read_unlock(t)

(* Task t holds the lock when the step ends, or goes on holding it. *)
ipc_locked(t) ==
  lock' = t /\ rcu' = rcu \cup {t} /\ UNCHANGED blockers

(* Mutant: a sleeping sender has no reference. *)
ipc_rcu_getref_none == UNCHANGED refcount

ipc_rcu_getref == refcount' = refcount + 1

(* Mutant: the memory is freed at once. *)
Grace_none(t) == {}

(* The read sections call_rcu() waits for: those of this moment. *)
Grace(t) == rcu

(* The second half of ipc_rcu_putref(); t has read refcount before. *)
ipc_rcu_putref(t) ==
  /\ refcount' = count[t] - 1 /\ count' = [count EXCEPT ![t] = 0]
  /\ IF count[t] - 1 > 0 THEN UNCHANGED <<called, blockers>>
     ELSE called' = TRUE /\ blockers' = Grace(t)

-----------------------------------------------------------------------------
(* Both lists of sleepers. *)

(* list_del() of the record of x. *)
Without(seq, x) == RemoveFirst(seq, x)

(* Mutant: only the first sender is woken. *)
ss_wakeup_first ==
  asleep' = [t \in Task |-> asleep[t] /\ (q_senders # <<>> => t # Head(q_senders))]

(* All senders on the list; they take themselves off it. *)
ss_wakeup == asleep' = [t \in Task |-> asleep[t] /\ t \notin ToSet(q_senders)]

testmsg(m, type, mode) ==
  CASE mode = "ANY" -> TRUE
    [] mode = "LESSEQUAL" -> m_type[m] <= type
    [] mode = "EQUAL" -> m_type[m] = type
    [] mode = "NOTEQUAL" -> m_type[m] # type

-----------------------------------------------------------------------------
(* sys_msgsnd() *)

Fits(m) == m_ts[m] + q_cbytes <= q_qbytes /\ 1 + q_qnum <= q_qbytes

msgsnd(s, m, nowait) ==
  /\ m \in Outbox[s] /\ fate[m] = "new"
  /\ ipc_lock(s, [m |-> m, nowait |-> nowait])
  /\ fate' = [fate EXCEPT ![m] = "sending"] /\ UNCHANGED <<got, ncalls>>

(* The call fails, frees its message and unlocks. *)
SendFails(s) ==
  /\ ipc_unlock(s) /\ Goto(s, "idle")
  /\ fate' = [fate EXCEPT ![req[s].m] = "refused"]
  /\ req' = [req EXCEPT ![s] = None] /\ sig' = [sig EXCEPT ![s] = FALSE]

(* The body of the loop, under the lock, with the sender off q_senders:     *)
(* -EACCES or -EAGAIN, on to pipelined_send(), or ss_add(),                 *)
(* ipc_rcu_getref() and schedule().                                         *)
SendTry(s, senders) ==
  LET m == req[s].m IN
  \/ /\ ~q_perm \/ (~Fits(m) /\ req[s].nowait)
     /\ SendFails(s)
     /\ q_senders' = senders /\ UNCHANGED <<refcount, asleep>>
  \/ /\ q_perm /\ Fits(m)
     /\ ipc_locked(s) /\ Goto(s, "send")
     /\ q_senders' = senders /\ UNCHANGED <<req, sig, refcount, asleep, fate>>
  \/ /\ q_perm /\ ~Fits(m) /\ ~req[s].nowait
     /\ asleep' = [asleep EXCEPT ![s] = TRUE] /\ ipc_rcu_getref
     /\ ipc_unlock(s) /\ Goto(s, "sleep")
     /\ q_senders' = Append(senders, s) /\ UNCHANGED <<req, sig, fate>>

(* ipc_lock() got the lock. *)
SendLocked(s) ==
  /\ pc[s] = "spin" /\ lock = Nobody
  /\ \/ deleted /\ SendFails(s) /\ UNCHANGED <<q_senders, refcount, asleep>>
     \/ ~deleted /\ SendTry(s, q_senders)
  /\ UNCHANGED <<queue, q_receivers, called, count, r_msg, target, got, ncalls>>

(* Awake: ipc_lock_by_ptr(), then ipc_rcu_putref() reads the count ... *)
SendAwake(s) ==
  /\ pc[s] = "sleep" /\ ~asleep[s] /\ lock = Nobody
  /\ ipc_locked(s) /\ Goto(s, "put")
  /\ count' = [count EXCEPT ![s] = refcount]
  /\ UNCHANGED <<queue, q_receivers, q_senders, refcount, called, req, waiting, history>>

(* ... and writes it, ... *)
SendPuts(s) ==
  /\ pc[s] = "put" /\ ipc_rcu_putref(s) /\ Goto(s, "again")
  /\ UNCHANGED <<queue, q_receivers, q_senders, lock, rcu, req, waiting, history>>

(* ... and the call fails with -EIDRM, or does ss_del() and fails for a     *)
(* signal or goes round its loop.                                           *)
SendAgain(s) ==
  LET senders == Without(q_senders, s) IN
  /\ pc[s] = "again"
  /\ \/ deleted /\ SendFails(s) /\ UNCHANGED <<q_senders, refcount, asleep>>
     \/ /\ ~deleted /\ sig[s] /\ SendFails(s)
        /\ q_senders' = senders /\ UNCHANGED <<refcount, asleep>>
     \/ ~deleted /\ ~sig[s] /\ SendTry(s, senders)
  /\ UNCHANGED <<queue, q_receivers, called, count, r_msg, target, got, ncalls>>

(* Where the linked receivers are whose request matches m. *)
Matching(m) ==
  {i \in DOMAIN q_receivers :
     testmsg(m, req[q_receivers[i]].type, req[q_receivers[i]].mode)}

(* pipelined_send() takes a receiver off the list; those it passed over do  *)
(* not match and those it has handed -E2BIG are off the list.               *)
PipelinedSend(s) ==
  LET m == req[s].m IN
  /\ pc[s] = "send" /\ Matching(m) # {}
  /\ LET r == q_receivers[Min(Matching(m))] IN
     /\ q_receivers' = Without(q_receivers, r)
     /\ r_msg' = [r_msg EXCEPT ![r] = NULL] /\ target' = [target EXCEPT ![s] = r]
  /\ Goto(s, "wake")
  /\ UNCHANGED <<queue, q_senders, lock, memory, grace, req, asleep, sig, history>>

(* wake_up_process(msr->r_tsk), here and in expunge_all() *)
WakeUp(t) ==
  /\ pc[t] = "wake" /\ Goto(t, "store")
  /\ asleep' = [asleep EXCEPT ![target[t]] = FALSE]
  /\ UNCHANGED <<queue, q_receivers, q_senders, lock, memory, grace, req, sig, r_msg,
                 target, history>>

(* The call returns 0. *)
SendDone(s) ==
  /\ ipc_unlock(s) /\ Goto(s, "idle") /\ req' = [req EXCEPT ![s] = None]
  /\ fate' = [fate EXCEPT ![req[s].m] = "accepted"] /\ sig' = [sig EXCEPT ![s] = FALSE]

(* r_msg is the message, or -E2BIG and the walk goes on. *)
PipelinedStore(s) ==
  LET m == req[s].m
      r == target[s] IN
  /\ pc[s] = "store"
  /\ target' = [target EXCEPT ![s] = Nobody]
  /\ IF req[r].maxsize < m_ts[m]
     THEN /\ r_msg' = [r_msg EXCEPT ![r] = E2BIG] /\ Goto(s, "send")
          /\ UNCHANGED <<lock, grace, req, sig, fate>>
     ELSE r_msg' = [r_msg EXCEPT ![r] = m] /\ SendDone(s)
  /\ UNCHANGED <<queue, q_receivers, q_senders, memory, asleep, got, ncalls>>

(* Nobody waits for the message. *)
Enqueue(s) ==
  LET m == req[s].m IN
  /\ pc[s] = "send" /\ Matching(m) = {}
  /\ q_messages' = Append(q_messages, m)
  /\ q_cbytes' = q_cbytes + m_ts[m] /\ q_qnum' = q_qnum + 1
  /\ SendDone(s)
  /\ UNCHANGED <<q_qbytes, q_perm, deleted, q_receivers, q_senders, memory, asleep,
                 r_msg, target, got, ncalls>>

-----------------------------------------------------------------------------
(* sys_msgrcv() *)

(* Mutant: the walk stops at the first match in every mode. *)
Keeps_looking_not(mode, m) == FALSE

(* A smaller type may still follow. *)
KeepsLooking(mode, m) == mode = "LESSEQUAL" /\ m_type[m] # 1

(* Message m in the walk: w is what the walk has found so far, the type it  *)
(* looks for and whether it has stopped.                                    *)
Visit(mode, w, m) ==
  CASE w.stop \/ ~testmsg(m, w.type, mode) -> w
    [] ~w.stop /\ testmsg(m, w.type, mode) ->
         [msg |-> m, type |-> IF KeepsLooking(mode, m) THEN m_type[m] - 1 ELSE w.type,
          stop |-> ~KeepsLooking(mode, m)]

(* What the walk over q_messages finds. *)
Walk(mode, type) ==
  LET walk[i \in 0..Len(q_messages)] ==
        IF i = 0 THEN [msg |-> EAGAIN, type |-> type, stop |-> FALSE]
        ELSE Visit(mode, walk[i - 1], q_messages[i])
  IN  walk[Len(q_messages)].msg

Found(r) == Walk(req[r].mode, req[r].type)

msgrcv(r, a) ==
  /\ a \in RecvReq[r] /\ ncalls[r] < MaxRecv
  /\ ipc_lock(r, a)
  /\ ncalls' = [ncalls EXCEPT ![r] = @ + 1] /\ UNCHANGED <<fate, got>>

(* The call returns what r_msg or the queue gave it. *)
RecvEnds(r, m) ==
  /\ Goto(r, "idle") /\ req' = [req EXCEPT ![r] = None]
  /\ got' = [x \in Msg |-> IF x = m THEN got[x] + 1 ELSE got[x]]
  /\ r_msg' = [r_msg EXCEPT ![r] = EAGAIN] /\ sig' = [sig EXCEPT ![r] = FALSE]

(* The body of the loop, under the lock, with the receiver off q_receivers: *)
(* -EACCES, -E2BIG or -ENOMSG, a message and a wakeup for the senders, or   *)
(* on the list and to sleep.                                                *)
RecvTry(r, receivers) ==
  LET m == Found(r) IN
  \/ /\ \/ ~q_perm
        \/ m # EAGAIN /\ req[r].maxsize < m_ts[m]
        \/ m = EAGAIN /\ req[r].nowait
     /\ RecvEnds(r, EAGAIN) /\ q_receivers' = receivers
     /\ UNCHANGED <<q_messages, q_cbytes, q_qnum, asleep>>
  \/ /\ q_perm /\ m # EAGAIN /\ req[r].maxsize >= m_ts[m]
     /\ q_messages' = Without(q_messages, m)
     /\ q_cbytes' = q_cbytes - m_ts[m] /\ q_qnum' = q_qnum - 1
     /\ ss_wakeup /\ RecvEnds(r, m) /\ q_receivers' = receivers
  \/ /\ q_perm /\ m = EAGAIN /\ ~req[r].nowait
     /\ q_receivers' = Append(receivers, r)
     /\ r_msg' = [r_msg EXCEPT ![r] = EAGAIN]
     /\ asleep' = [asleep EXCEPT ![r] = TRUE] /\ Goto(r, "sleep")
     /\ UNCHANGED <<q_messages, q_cbytes, q_qnum, req, sig, got>>

RecvLocked(r) ==
  /\ pc[r] = "spin" /\ lock = Nobody
  /\ \/ /\ deleted /\ RecvEnds(r, EAGAIN)
        /\ UNCHANGED <<q_messages, q_cbytes, q_qnum, q_receivers, asleep>>
     \/ ~deleted /\ RecvTry(r, q_receivers)
  /\ rcu_read_unlock(r)
  /\ UNCHANGED <<q_qbytes, q_perm, deleted, q_senders, lock, memory, target, fate, ncalls>>

(* Part 1: awake, rcu_read_lock() *)
RecvAwake(r) ==
  /\ pc[r] = "sleep" /\ ~asleep[r]
  /\ rcu' = rcu \cup {r} /\ Goto(r, "look")
  /\ UNCHANGED <<queue, q_receivers, q_senders, lock, memory, blockers, req, waiting,
                 history>>

(* Part 2: while (msg == NULL) *)
Waits(r) == r_msg[r] = NULL

(* Part 3: a message or an error is accepted without the lock; for -EAGAIN  *)
(* the lock is needed, and the queue still there to take it.                *)
RecvLooks(r) ==
  /\ pc[r] = "look" /\ ~Waits(r)
  /\ IF r_msg[r] # EAGAIN THEN RecvEnds(r, r_msg[r]) /\ rcu_read_unlock(r)
     ELSE Goto(r, "relock") /\ UNCHANGED <<req, got, r_msg, sig, grace>>
  /\ UNCHANGED <<queue, q_receivers, q_senders, lock, memory, asleep, target, fate, ncalls>>

(* Mutant: r_msg is not looked at again. *)
Retested_not(r) == EAGAIN

(* Part 4: the test is repeated. *)
Retested(r) == r_msg[r]

(* Under the lock: handed something meanwhile, or off the list and          *)
(* interrupted, or once more round the loop.                                *)
RecvRelocked(r) ==
  LET receivers == Without(q_receivers, r) IN
  /\ pc[r] = "relock" /\ lock = Nobody
  /\ \/ /\ Retested(r) # EAGAIN /\ RecvEnds(r, Retested(r))
        /\ UNCHANGED <<q_messages, q_cbytes, q_qnum, q_receivers, asleep>>
     \/ /\ Retested(r) = EAGAIN /\ sig[r] /\ RecvEnds(r, EAGAIN)
        /\ q_receivers' = receivers
        /\ UNCHANGED <<q_messages, q_cbytes, q_qnum, asleep>>
     \/ Retested(r) = EAGAIN /\ ~sig[r] /\ RecvTry(r, receivers)
  /\ rcu_read_unlock(r)
  /\ UNCHANGED <<q_qbytes, q_perm, deleted, q_senders, lock, memory, target, fate, ncalls>>

(* A signal wakes a sleeper. *)
Signal(t) ==
  /\ pc[t] = "sleep" /\ ~sig[t]
  /\ sig' = [sig EXCEPT ![t] = TRUE] /\ asleep' = [asleep EXCEPT ![t] = FALSE]
  /\ UNCHANGED <<queue, q_receivers, q_senders, lock, memory, grace, pc, req, r_msg,
                 target, history>>

-----------------------------------------------------------------------------
(* sys_msgctl() *)

msgctl(a) ==
  /\ a \in CtlReq /\ ncalls[Ctl] < MaxCtl
  /\ ipc_lock(Ctl, a)
  /\ ncalls' = [ncalls EXCEPT ![Ctl] = @ + 1] /\ UNCHANGED <<fate, got>>

(* Under the lock: IPC_SET stores the new limit and permissions.            *)
CtlLocked ==
  /\ pc[Ctl] = "spin" /\ lock = Nobody
  /\ ipc_locked(Ctl) /\ Goto(Ctl, "expunge")
  /\ IF req[Ctl].cmd = "IPC_SET"
     THEN q_qbytes' = req[Ctl].qbytes /\ q_perm' = req[Ctl].perm
     ELSE UNCHANGED <<q_qbytes, q_perm>>
  /\ UNCHANGED <<q_messages, q_cbytes, q_qnum, deleted, q_receivers, q_senders, memory,
                 req, waiting, history>>

(* Mutant: the walk begins at the second receiver. *)
Expunged_one == 1

(* Receivers expunge_all() starts behind: none. *)
Expunged == 0

(* expunge_all(): the next receiver of the list, which stays on it, ...     *)
ExpungeNull ==
  /\ pc[Ctl] = "expunge" /\ count[Ctl] + Expunged < Len(q_receivers)
  /\ LET r == q_receivers[count[Ctl] + Expunged + 1] IN
     r_msg' = [r_msg EXCEPT ![r] = NULL] /\ target' = [target EXCEPT ![Ctl] = r]
  /\ Goto(Ctl, "wake") /\ count' = [count EXCEPT ![Ctl] = @ + 1]
  /\ UNCHANGED <<queue, q_receivers, q_senders, lock, refcount, called, grace, req,
                 asleep, sig, history>>

(* ... is woken and gets the result. *)
ExpungeStore ==
  /\ pc[Ctl] = "store" /\ Goto(Ctl, "expunge")
  /\ r_msg' = [r_msg EXCEPT ![target[Ctl]] =
                  IF req[Ctl].cmd = "IPC_SET" THEN EAGAIN ELSE EIDRM]
  /\ target' = [target EXCEPT ![Ctl] = Nobody]
  /\ UNCHANGED <<queue, q_receivers, q_senders, lock, memory, grace, req, asleep, sig,
                 history>>

(* The senders are woken; IPC_SET unlocks and returns, freeque() removes    *)
(* the id and unlocks.                                                      *)
CtlUnlock ==
  /\ pc[Ctl] = "expunge" /\ count[Ctl] + Expunged >= Len(q_receivers)
  /\ ss_wakeup /\ ipc_unlock(Ctl) /\ count' = [count EXCEPT ![Ctl] = 0]
  /\ IF req[Ctl].cmd = "IPC_SET"
     THEN Goto(Ctl, "idle") /\ req' = [req EXCEPT ![Ctl] = None] /\ UNCHANGED deleted
     ELSE Goto(Ctl, "free") /\ deleted' = TRUE /\ UNCHANGED req
  /\ UNCHANGED <<q_messages, q_cbytes, q_qnum, q_qbytes, q_perm, q_receivers, q_senders,
                 refcount, called, sig, r_msg, target, history>>

(* freeque() frees the messages and reads the count, without the lock ... *)
FreeMessages ==
  /\ pc[Ctl] = "free" /\ Goto(Ctl, "put")
  /\ q_messages' = <<>>
  /\ fate' = [m \in Msg |-> IF m \in ToSet(q_messages) THEN "purged" ELSE fate[m]]
  /\ count' = [count EXCEPT ![Ctl] = refcount]
  /\ UNCHANGED <<q_cbytes, q_qnum, q_qbytes, q_perm, deleted, q_receivers, q_senders,
                 lock, refcount, called, grace, req, waiting, got, ncalls>>

(* ... and writes it. *)
CtlPuts ==
  /\ pc[Ctl] = "put" /\ ipc_rcu_putref(Ctl) /\ Goto(Ctl, "idle")
  /\ req' = [req EXCEPT ![Ctl] = None]
  /\ UNCHANGED <<queue, q_receivers, q_senders, lock, rcu, waiting, history>>

-----------------------------------------------------------------------------
SendStep(s) ==
  \/ SendLocked(s) \/ SendAwake(s) \/ SendPuts(s) \/ SendAgain(s)
  \/ PipelinedSend(s) \/ WakeUp(s) \/ PipelinedStore(s) \/ Enqueue(s)

RecvStep(r) == RecvLocked(r) \/ RecvAwake(r) \/ RecvLooks(r) \/ RecvRelocked(r)

CtlStep ==
  \/ CtlLocked \/ ExpungeNull \/ WakeUp(Ctl) \/ ExpungeStore \/ CtlUnlock
  \/ FreeMessages \/ CtlPuts

Next ==
  \/ \E s \in Sender : \/ SendStep(s) \/ Signal(s)
                       \/ \E m \in Outbox[s], nowait \in BOOLEAN : msgsnd(s, m, nowait)
  \/ \E r \in Receiver : \/ RecvStep(r) \/ Signal(r)
                         \/ \E a \in RecvReq[r] : msgrcv(r, a)
  \/ CtlStep \/ \E a \in CtlReq : msgctl(a)

(* A running call goes on.  Nothing makes a task begin a call or get a      *)
(* signal.                                                                  *)
Fairness ==
  /\ \A s \in Sender : WF_vars(SendStep(s))
  /\ \A r \in Receiver : WF_vars(RecvStep(r))
  /\ WF_vars(CtlStep)

Spec == Init /\ [][Next]_vars /\ Fairness

-----------------------------------------------------------------------------
(* Properties. *)

(* A message whose msgsnd() succeeded is in one place: queued, handed to    *)
(* one receiver that has yet to return with it, or received, once; or it    *)
(* went with the queue.  A message whose msgsnd() failed is nowhere.  This  *)
(* includes a receiver handed a message while it wakes for a signal.        *)
MessageInOnePlace ==
  \A m \in Msg :
    Cardinality({i \in DOMAIN q_messages : q_messages[i] = m})
    + Cardinality({r \in Receiver : r_msg[r] = m}) + got[m]
    = IF fate[m] = "accepted" THEN 1 ELSE 0

(* No handover is missed: while the lock is free nobody sleeps unwoken for  *)
(* what is there already, a receiver with a queued message it would take or *)
(* one that IPC_SET has excluded, a sender with room for its message.       *)
NoMissedHandover ==
  (lock = Nobody /\ ~deleted) =>
    /\ \A r \in ToSet(q_receivers) :
         /\ r_msg[r] = EAGAIN /\ Found(r) = EAGAIN
         /\ asleep[r] => q_perm
    /\ \A s \in ToSet(q_senders) : asleep[s] => ~Fits(req[s].m)

(* No dead memory is used.  "Thus if r_msg is -EAGAIN, then the queue not   *)
(* yet destroyed": once the read sections call_rcu() waits for have ended   *)
(* nobody is going to touch the queue, neither a task that looked its id up *)
(* before it was removed, nor a sender asleep, nor a receiver about to lock *)
(* it.  And between r_msg = NULL and the final store the receiver stays in  *)
(* its call: the waker writes to a live stack frame, wakes a live task.     *)
NoUseAfterFree ==
  /\ (called /\ blockers = {}) =>
       /\ lock = Nobody
       /\ \A t \in Task : pc[t] \notin {"spin", "relock", "put", "again"}
       /\ \A s \in Sender : pc[s] = "idle"
       /\ \A r \in Receiver : pc[r] = "look" => r_msg[r] # EAGAIN
  /\ \A t \in Task : pc[t] \in {"wake", "store"} =>
       r_msg[target[t]] = NULL /\ pc[target[t]] \in {"sleep", "look", "relock"}

(* The walk over the queue finds the oldest match and, for a negative       *)
(* msgtyp, the oldest among those of the least type.                        *)
WalkFindsOldest ==
  \A mode \in SEARCH, type \in {m_type[m] : m \in Msg} :
    LET match == {i \in DOMAIN q_messages : testmsg(q_messages[i], type, mode)}
        best == {i \in match : mode = "LESSEQUAL" =>
                   \A j \in match : m_type[q_messages[i]] <= m_type[q_messages[j]]}
        m == Walk(mode, type)
    IN  IF match = {} THEN m = EAGAIN
        ELSE \E i \in best : m = q_messages[i] /\ \A j \in best : i <= j

(* Removing the queue gets everybody out of their calls: the sleepers are   *)
(* woken, and neither they nor those who were looking the queue up wait for *)
(* anything that does not come.                                             *)
RemovalEndsCalls == deleted ~> (\A t \in Task : pc[t] = "idle")
=============================================================================
