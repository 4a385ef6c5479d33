----------------------------- MODULE IpcMsgProofs -----------------------------
(***************************************************************************)
(* Proofs about IpcMsg.tla, for any senders and receivers, any messages,   *)
(* any arguments of their calls and any limit of the queue.                *)
(*                                                                         *)
(* First what the walk over the queue finds, for every queue.  Then the    *)
(* inductive invariant, in layers, each proved from the ones before it:    *)
(*                                                                         *)
(*   Calling   where a task is, and with which arguments;                  *)
(*   Kinds     types, with integers for the numbers that are counted down; *)
(*   Control   who is inside of the queue's lock and of RCU;               *)
(*   Listed    a receiver that waits is on the list until it is handed     *)
(*             something, and whoever hands it something finds it waiting; *)
(*   Counted   every reference is counted, though some may be counted      *)
(*             after they are gone;                                        *)
(*   Sending   a message being sent has one sender and is nowhere yet;     *)
(*   Placed    an accepted message is in one place;                        *)
(*   Sized     the totals of the queue are those of its messages;          *)
(*   Handed    nobody who waits is owed a wakeup, but by the lock's owner. *)
(***************************************************************************)
EXTENDS IpcMsg, ListLemmas, FiniteSetTheorems, SequenceTheorems, TLAPS

SendArgs == [m : Msg, nowait : BOOLEAN]
RecvArgs == [mode : SEARCH, type : Nat, maxsize : Nat, nowait : BOOLEAN]
CtlArgs == [cmd : {"IPC_SET", "IPC_RMID"}, qbytes : Nat, perm : BOOLEAN]

(* A receiver is at one of these while its record may be on q_receivers. *)
Within == {"sleep", "look", "relock"}

Code == {NULL, EAGAIN, E2BIG, EIDRM}

Kinds ==
  /\ q_messages \in Seq(Msg) /\ q_cbytes \in Int /\ q_qnum \in Int /\ q_qbytes \in Nat
  /\ q_perm \in BOOLEAN /\ deleted \in BOOLEAN
  /\ q_receivers \in Seq(Receiver) /\ q_senders \in Seq(Sender)
  /\ lock \in Task \cup {Nobody} /\ refcount \in Int
  /\ rcu \in SUBSET Task /\ called \in BOOLEAN /\ blockers \in SUBSET Task
  /\ asleep \in [Task -> BOOLEAN] /\ sig \in [Task -> BOOLEAN]
  /\ r_msg \in [Receiver -> Msg \cup Code]
  /\ target \in [Task -> Receiver \cup {Nobody}] /\ count \in [Task -> Int]
  /\ \A t \in Task : pc[t] \in {"wake", "store"} => target[t] \in Receiver
  /\ pc[Ctl] # "put" => count[Ctl] >= 0
  /\ fate \in [Msg -> {"new", "sending", "accepted", "refused", "purged"}]
  /\ got \in [Msg -> Nat] /\ ncalls \in [Task -> Nat]

Place == {"idle", "spin", "sleep", "look", "relock", "put", "again", "send", "wake",
          "store", "expunge", "free"}

(* Where the tasks are, and the arguments they have there. *)
Calling ==
  /\ pc \in [Task -> Place]
  /\ DOMAIN req = Task
  /\ \A s \in Sender :
       /\ pc[s] \in {"idle", "spin", "sleep", "put", "again", "send", "wake", "store"}
       /\ pc[s] # "idle" => req[s] \in SendArgs
  /\ \A r \in Receiver :
       /\ pc[r] \in {"idle", "spin"} \cup Within
       /\ pc[r] # "idle" => req[r] \in RecvArgs
  /\ pc[Ctl] \in {"idle", "spin", "expunge", "wake", "store", "free", "put"}
  /\ pc[Ctl] # "idle" => req[Ctl] \in CtlArgs

(* Task t is in a section under the queue's lock. *)
InLock(t) ==
  \/ t \in Sender /\ pc[t] \in {"put", "again", "send", "wake", "store"}
  \/ t = Ctl /\ pc[t] \in {"expunge", "wake", "store"}

Control ==
  /\ \A t \in Task : InLock(t) <=> lock = t
  /\ \A t \in Task : t \in rcu <=> InLock(t) \/ pc[t] \in {"spin", "look", "relock"}
  /\ deleted => pc[Ctl] \in {"idle", "free", "put"}
  /\ pc[Ctl] \in {"free", "put"} => deleted
  /\ \A s \in Sender : pc[s] \in {"send", "wake", "store"} => ~deleted

(* msgctl() is in expunge_all(), for IPC_RMID. *)
Expunging == pc[Ctl] \in {"expunge", "wake", "store"}
Removing == Expunging /\ req[Ctl].cmd = "IPC_RMID"

(* The i-th record of the list has been visited. *)
Visited(i) == Expunging /\ i <= count[Ctl]

Marked ==
  /\ pc[Ctl] \in {"idle", "spin", "free"} => count[Ctl] = 0
  /\ Expunging => count[Ctl] \in 0..Len(q_receivers)

Fresh == \A r \in Receiver : pc[r] \in {"idle", "spin"} => r_msg[r] = EAGAIN

(* Whoever is waking a receiver has its record in hand. *)
Waking ==
  \A t \in Task : pc[t] \in {"wake", "store"} =>
    /\ r_msg[target[t]] = NULL /\ pc[target[t]] \in Within
    /\ t \in Sender => target[t] \notin ToSet(q_receivers)
    /\ t = Ctl => count[t] >= 1 /\ target[t] = q_receivers[count[t]]

(* The receiver of a linked record waits for something, and expunge_all()   *)
(* has given it its result.                                                 *)
Entry(i, r) ==
  /\ ~(Removing /\ Visited(i)) => pc[r] \in Within
  /\ ~Visited(i) => r_msg[r] = EAGAIN
  /\ Visited(i) /\ pc[r] \in Within =>
       \/ r_msg[r] = IF Removing THEN EIDRM ELSE EAGAIN
       \/ r_msg[r] = NULL /\ pc[Ctl] \in {"wake", "store"} /\ target[Ctl] = r

(* A receiver that waits with -EAGAIN is linked to a queue that exists. *)
Waited ==
  \A r \in Receiver : pc[r] \in Within /\ r_msg[r] = EAGAIN =>
    ~deleted /\ r \in ToSet(q_receivers)

Listed ==
  /\ Once(q_receivers) /\ Marked /\ Fresh /\ Waking /\ Waited
  /\ ~deleted => \A i \in DOMAIN q_receivers : Entry(i, q_receivers[i])

(* The references: of the senders that sleep, or have yet to drop theirs,   *)
(* and of the id.                                                           *)
Sleepers == {s \in Sender : pc[s] \in {"sleep", "put"}}
Own == IF deleted /\ pc[Ctl] = "idle" THEN 0 ELSE 1
References == Cardinality(Sleepers) + Own

(* Task t is going to use the queue. *)
Uses(t) == InLock(t) \/ pc[t] \in {"spin", "relock"}

(* Two tasks may drop a reference at once, and one is then never dropped:   *)
(* the count can be too large, not too small.                               *)
Counted ==
  /\ refcount >= References
  /\ \A t \in Task : pc[t] = "put" => count[t] >= References
  /\ \A t \in Task \ {Ctl} : count[t] >= 0
  /\ called => References = 0 /\ \A t \in Task : Uses(t) => t \in blockers

(* Every sender has its own message, which is nowhere yet. *)
Sending ==
  /\ \A s \in Sender : pc[s] # "idle" => fate[req[s].m] = "sending"
  /\ \A s, t \in Sender : pc[s] # "idle" /\ pc[t] # "idle" /\ req[s].m = req[t].m => s = t

Queued(m) == m \in ToSet(q_messages)
Held(m) == \E r \in Receiver : r_msg[r] = m

(* The places of a message exclude each other, and an accepted one is at    *)
(* one of them.                                                             *)
Somewhere(m) ==
  /\ got[m] \in {0, 1}
  /\ ~(Queued(m) /\ Held(m)) /\ ~(Queued(m) /\ got[m] = 1) /\ ~(Held(m) /\ got[m] = 1)
  /\ fate[m] = "accepted" <=> (Queued(m) \/ Held(m) \/ got[m] = 1)

Placed ==
  /\ Once(q_messages)
  /\ \A r, q \in Receiver : r_msg[r] \in Msg /\ r_msg[r] = r_msg[q] => r = q
  /\ \A m \in Msg : Somewhere(m)

(* The bytes of a set of messages; there are as many as the sizes add up    *)
(* to.                                                                      *)
BytesOf(m) == {m} \X (0..(m_ts[m] - 1))
Bytes(S) == UNION {BytesOf(m) : m \in S}

Sized ==
  /\ q_qnum >= 0 /\ q_cbytes >= 0
  /\ ~deleted => /\ q_qnum = Cardinality(ToSet(q_messages))
                 /\ q_cbytes = Cardinality(Bytes(ToSet(q_messages)))

(* No queued message matches a receiver that waits. *)
Unmatched ==
  \A r \in ToSet(q_receivers) : pc[r] \in Within =>
    \A m \in ToSet(q_messages) : ~testmsg(m, req[r].type, req[r].mode)

Resting == \A t \in Task : asleep[t] => pc[t] = "sleep"

(* A linked receiver that nobody has woken may read the queue, or           *)
(* expunge_all() has yet to come to it.                                     *)
Permitted ==
  ~deleted => \A i \in DOMAIN q_receivers : asleep[q_receivers[i]] =>
    \/ q_perm
    \/ Expunging /\ (i > count[Ctl] \/ (i = count[Ctl] /\ pc[Ctl] = "wake"))

(* A linked sender that nobody has woken has no room, or msgctl() has yet   *)
(* to wake it.                                                              *)
Full == \A s \in ToSet(q_senders) : asleep[s] => ~Fits(req[s].m) \/ Expunging \/ deleted

Handed == Unmatched /\ Resting /\ Permitted /\ Full

-----------------------------------------------------------------------------
(* The constants. *)

(* What r_msg may be is told apart, and so are the tasks. *)
LEMMA Distinct ==
  /\ Msg \cap Code = {}
  /\ Sender \cap Receiver = {} /\ Ctl \notin Sender /\ Ctl \notin Receiver
  /\ Nobody \notin Task /\ Nobody \notin Sender /\ Nobody \notin Receiver
  /\ Sender \subseteq Task /\ Receiver \subseteq Task /\ Ctl \in Task
  /\ \A t \in Task : t \in Sender \/ t \in Receiver \/ t = Ctl
BY IpcMsgAssumption DEF Task, Nobody, Code, NULL, EAGAIN, E2BIG, EIDRM

-----------------------------------------------------------------------------
(* Sequences. *)

(* Nobody joins a list by list_del(), and of a list without repetitions     *)
(* only x leaves.                                                           *)
LEMMA WithoutSet ==
  ASSUME NEW T, NEW q \in Seq(T), NEW x,
         \A i, j \in DOMAIN q : q[i] = q[j] => i = j
  PROVE  /\ Without(q, x) \in Seq(T)
         /\ ToSet(Without(q, x)) = ToSet(q) \ {x}
         /\ \A i, j \in DOMAIN Without(q, x) :
              Without(q, x)[i] = Without(q, x)[j] => i = j
BY RemoveFirstSet DEF Without

(* The same of any list, as far as it holds there. *)
LEMMA WithoutSub ==
  ASSUME NEW T, NEW q \in Seq(T), NEW x
  PROVE  Without(q, x) \in Seq(T) /\ ToSet(Without(q, x)) \subseteq ToSet(q)
BY RemoveFirstSub DEF Without

-----------------------------------------------------------------------------
(* The walk over the messages. *)

Start(type) == [msg |-> EAGAIN, type |-> type, stop |-> FALSE]

(* f is the walk up to the n-th message. *)
Walks(f, n, mode, type) ==
  f = [i \in 0..n |-> IF i = 0 THEN Start(type) ELSE Visit(mode, f[i - 1], q_messages[i])]

(* The definition of the walk is one by recursion. *)
LEMMA WalkExists ==
  ASSUME NEW mode, NEW type, NEW n \in Nat
  PROVE  \E f : Walks(f, n, mode, type)
<1> DEFINE S == {k \in Nat : ~(\E f : Walks(f, k, mode, type))}
<1>1. SUFFICES ASSUME S # {} PROVE FALSE
  OBVIOUS
<1>2. PICK k \in S : \A j \in S : k <= j
  BY <1>1, Least
<1>3. CASE k = 0
  <2> DEFINE f == [i \in 0..0 |-> Start(type)]
  <2>1. f = [i \in 0..0 |-> IF i = 0 THEN Start(type)
                            ELSE Visit(mode, f[i - 1], q_messages[i])]
    OBVIOUS
  <2> QED
    BY <1>2, <1>3, <2>1 DEF Walks
<1>4. CASE k # 0
  <2>1. k \in Nat /\ k - 1 \in Nat /\ k - 1 \notin S
    BY <1>2, <1>4
  <2>2. PICK f : Walks(f, k - 1, mode, type)
    BY <2>1
  <2>3. \A i \in 0..(k - 1) : f[i] = IF i = 0 THEN Start(type)
                                     ELSE Visit(mode, f[i - 1], q_messages[i])
    BY <2>1, <2>2 DEF Walks
  <2>4. PICK last : last = Visit(mode, f[k - 1], q_messages[k])
    OBVIOUS
  <2>5. PICK g : g = [i \in 0..k |-> IF i < k THEN f[i] ELSE last]
    OBVIOUS
  <2>6. ASSUME NEW i \in 0..k
        PROVE  g[i] = IF i = 0 THEN Start(type) ELSE Visit(mode, g[i - 1], q_messages[i])
    <3>1. CASE i = 0
      BY <1>4, <2>1, <2>3, <2>5, <3>1
    <3>2. CASE i # 0
      <4>1. i - 1 \in 0..k /\ i - 1 < k
        BY <2>1, <3>2
      <4>2. g[i - 1] = f[i - 1]
        BY <2>5, <4>1
      <4>3. CASE i < k
        <5>1. g[i] = f[i] /\ i \in 0..(k - 1)
          BY <2>1, <2>5, <4>3
        <5>2. f[i] = Visit(mode, f[i - 1], q_messages[i])
          BY <2>3, <3>2, <5>1
        <5> QED
          BY <3>2, <4>2, <5>1, <5>2
      <4>4. CASE i = k
        BY <2>1, <2>4, <2>5, <3>2, <4>2, <4>4
      <4> QED
        BY <2>1, <4>3, <4>4
    <3> QED
      BY <3>1, <3>2
  <2>7. Walks(g, k, mode, type)
    BY <2>5, <2>6 DEF Walks
  <2> QED
    BY <1>2, <2>7
<1> QED
  BY <1>2, <1>3, <1>4

(* The walk obeys its definition at every message. *)
LEMMA WalkIsRecursive ==
  ASSUME NEW mode, NEW type, q_messages \in Seq(Msg)
  PROVE  \E f : /\ Walks(f, Len(q_messages), mode, type)
                /\ Walk(mode, type) = f[Len(q_messages)].msg
<1>1. PICK f : Walks(f, Len(q_messages), mode, type)
  BY WalkExists
<1>2. f = [i \in 0..Len(q_messages) |->
             IF i = 0 THEN [msg |-> EAGAIN, type |-> type, stop |-> FALSE]
             ELSE Visit(mode, f[i - 1], q_messages[i])]
  BY <1>1 DEF Walks, Start
<1>3. \E g : /\ g = [i \in 0..Len(q_messages) |->
                      IF i = 0 THEN [msg |-> EAGAIN, type |-> type, stop |-> FALSE]
                      ELSE Visit(mode, g[i - 1], q_messages[i])]
             /\ Walk(mode, type) = g[Len(q_messages)].msg
  BY <1>2 DEF Walk
<1> QED
  BY <1>3 DEF Walks, Start

(* Among the first i messages k is the one a receiver gets: it matches and  *)
(* is the oldest, for a negative msgtyp the oldest of the least type.       *)
Best(k, i, mode, type) ==
  /\ k \in 1..i /\ testmsg(q_messages[k], type, mode)
  /\ \A j \in 1..i : testmsg(q_messages[j], type, mode) =>
       \/ mode = "LESSEQUAL" /\ m_type[q_messages[k]] < m_type[q_messages[j]]
       \/ k <= j /\ (mode = "LESSEQUAL" => m_type[q_messages[k]] = m_type[q_messages[j]])

(* The walk has seen i messages and w is what it knows. *)
Seen(w, i, mode, type) ==
  \/ w = Start(type) /\ \A j \in 1..i : ~testmsg(q_messages[j], type, mode)
  \/ \E k \in 1..i :
       /\ Best(k, i, mode, type) /\ w.msg = q_messages[k]
       /\ w.stop = ~KeepsLooking(mode, q_messages[k])
       /\ ~w.stop => w.type = m_type[q_messages[k]] - 1

(* One more message is taken into account. *)
LEMMA VisitSees ==
  ASSUME NEW mode \in SEARCH, NEW type \in Nat, q_messages \in Seq(Msg),
         NEW i \in Nat, i + 1 \in 1..Len(q_messages), NEW w, Seen(w, i, mode, type)
  PROVE  Seen(Visit(mode, w, q_messages[i + 1]), i + 1, mode, type)
<1>1. PICK m \in Msg : m = q_messages[i + 1]
  OBVIOUS
<1>2. \A j \in 1..(i + 1) : q_messages[j] \in Msg
  OBVIOUS
<1>3. \A j \in 1..(i + 1) : m_type[q_messages[j]] \in Nat \ {0}
  BY <1>2, IpcMsgAssumption
<1>4. m_type[m] \in Nat \ {0}
  BY IpcMsgAssumption
<1>5. \A j \in 1..(i + 1) : j \in 1..i \/ j = i + 1
  OBVIOUS
<1> DEFINE Take == [msg |-> m, stop |-> ~KeepsLooking(mode, m),
                    type |-> IF KeepsLooking(mode, m) THEN m_type[m] - 1 ELSE w.type]
<1> HIDE DEF Take
<1>6. /\ Take.msg = m /\ Take.stop = ~KeepsLooking(mode, m)
      /\ ~Take.stop => Take.type = m_type[m] - 1
  BY DEF Take, KeepsLooking
<1>7. ASSUME Best(i + 1, i + 1, mode, type) PROVE Seen(Take, i + 1, mode, type)
  <2>1. i + 1 \in 1..(i + 1)
    OBVIOUS
  <2> QED
    BY <1>1, <1>6, <1>7, <2>1 DEF Seen
<1>8. CASE w = Start(type) /\ \A j \in 1..i : ~testmsg(q_messages[j], type, mode)
  <2>1. w.type = type /\ w.stop = FALSE
    BY <1>8 DEF Start
  <2>2. CASE ~testmsg(m, type, mode)
    <3>1. Visit(mode, w, m) = w
      BY <2>1, <2>2 DEF Visit
    <3> QED
      BY <1>1, <1>5, <1>8, <2>2, <3>1 DEF Seen
  <2>3. CASE testmsg(m, type, mode)
    <3>1. Visit(mode, w, m) = Take
      BY <2>1, <2>3 DEF Visit, Take
    <3>2. Best(i + 1, i + 1, mode, type)
      BY <1>1, <1>4, <1>5, <1>8, <2>3 DEF Best
    <3> QED
      BY <1>1, <1>7, <3>1, <3>2
  <2> QED
    BY <2>2, <2>3
<1>9. ASSUME NEW k \in 1..i, Best(k, i, mode, type), w.msg = q_messages[k],
             w.stop = ~KeepsLooking(mode, q_messages[k]),
             ~w.stop => w.type = m_type[q_messages[k]] - 1
      PROVE  Seen(Visit(mode, w, m), i + 1, mode, type)
  <2>1. k \in 1..(i + 1) /\ m_type[q_messages[k]] \in Nat \ {0}
    BY <1>3
  <2>2. CASE w.stop
    <3>1. Visit(mode, w, m) = w
      BY <2>2 DEF Visit
    <3>2. mode = "LESSEQUAL" => m_type[q_messages[k]] = 1
      BY <1>9, <2>2 DEF KeepsLooking
    <3>3. Best(k, i + 1, mode, type)
      BY <1>1, <1>4, <1>5, <1>9, <2>1, <3>2 DEF Best
    <3> QED
      BY <1>9, <2>1, <3>1, <3>3 DEF Seen
  <2>3. CASE ~w.stop
    <3>1. mode = "LESSEQUAL" /\ w.type = m_type[q_messages[k]] - 1
      BY <1>9, <2>3 DEF KeepsLooking
    <3>2. testmsg(m, w.type, mode) <=> m_type[m] < m_type[q_messages[k]]
      BY <1>4, <2>1, <3>1 DEF testmsg
    <3>3. CASE m_type[m] < m_type[q_messages[k]]
      <4>1. Visit(mode, w, m) = Take
        BY <2>3, <3>2, <3>3 DEF Visit, Take
      <4>2. m_type[q_messages[k]] <= type
        BY <1>9, <3>1 DEF Best, testmsg
      <4>3. testmsg(m, type, mode)
        BY <1>4, <2>1, <3>1, <3>3, <4>2 DEF testmsg
      <4>4. \A j \in 1..i : testmsg(q_messages[j], type, mode)
                              => m_type[m] < m_type[q_messages[j]]
        BY <1>3, <1>4, <1>9, <2>1, <3>1, <3>3 DEF Best
      <4>5. Best(i + 1, i + 1, mode, type)
        BY <1>1, <1>5, <3>1, <4>3, <4>4 DEF Best
      <4> QED
        BY <1>1, <1>7, <4>1, <4>5
    <3>4. CASE ~(m_type[m] < m_type[q_messages[k]])
      <4>1. Visit(mode, w, m) = w
        BY <2>3, <3>2, <3>4 DEF Visit
      <4>2. Best(k, i + 1, mode, type)
        BY <1>1, <1>4, <1>5, <1>9, <2>1, <3>1, <3>4 DEF Best
      <4> QED
        BY <1>9, <2>1, <4>1, <4>2 DEF Seen
    <3> QED
      BY <3>3, <3>4
  <2> QED
    BY <1>9, <2>2, <2>3 DEF KeepsLooking
<1> QED
  BY <1>1, <1>8, <1>9 DEF Seen

(* What the walk ends with, for every queue. *)
LEMMA WalkSees ==
  ASSUME NEW mode \in SEARCH, NEW type \in Nat, q_messages \in Seq(Msg)
  PROVE  \E w : Walk(mode, type) = w.msg /\ Seen(w, Len(q_messages), mode, type)
<1>1. PICK n \in Nat : n = Len(q_messages)
  OBVIOUS
<1>2. PICK f : Walks(f, n, mode, type) /\ Walk(mode, type) = f[n].msg
  BY <1>1, WalkIsRecursive
<1>3. \A i \in 0..n : f[i] = IF i = 0 THEN Start(type)
                              ELSE Visit(mode, f[i - 1], q_messages[i])
  BY <1>2 DEF Walks
<1> DEFINE S == {i \in 0..n : ~Seen(f[i], i, mode, type)}
<1>4. S = {}
  <2>1. SUFFICES ASSUME S # {} PROVE FALSE
    OBVIOUS
  <2>2. PICK i \in S : \A j \in S : i <= j
    <3>1. S \subseteq Nat
      OBVIOUS
    <3> QED
      BY <2>1, <3>1, Least
  <2>3. i # 0
    BY <1>3, <2>2 DEF Seen
  <2>4. PICK j \in Nat : i = j + 1 /\ j \in 0..n /\ j \notin S
    BY <2>2, <2>3
  <2>5. Seen(f[j], j, mode, type)
    BY <2>4
  <2>6. f[i] = Visit(mode, f[j], q_messages[j + 1])
    BY <1>3, <2>2, <2>3, <2>4
  <2>7. Seen(f[i], j + 1, mode, type)
    BY <1>1, <2>2, <2>4, <2>5, <2>6, VisitSees
  <2> QED
    BY <2>2, <2>4, <2>7
<1> QED
  BY <1>1, <1>2, <1>4

(* -EAGAIN means that no message matches; otherwise it is one of the queue. *)
LEMMA WalkResult ==
  ASSUME NEW mode \in SEARCH, NEW type \in Nat, q_messages \in Seq(Msg)
  PROVE  /\ Walk(mode, type) # EAGAIN =>
              Walk(mode, type) \in ToSet(q_messages) /\ Walk(mode, type) \in Msg
         /\ Walk(mode, type) = EAGAIN <=>
              \A m \in ToSet(q_messages) : ~testmsg(m, type, mode)
<1>1. PICK w : Walk(mode, type) = w.msg /\ Seen(w, Len(q_messages), mode, type)
  BY WalkSees
<1>2. EAGAIN \notin Msg
  BY Distinct DEF Code
<1>3. CASE /\ w = Start(type)
           /\ \A j \in 1..Len(q_messages) : ~testmsg(q_messages[j], type, mode)
  <2>1. Walk(mode, type) = EAGAIN
    BY <1>1, <1>3 DEF Start
  <2>2. \A m \in ToSet(q_messages) : ~testmsg(m, type, mode)
    BY <1>3 DEF ToSet
  <2> QED
    BY <2>1, <2>2
<1>4. CASE \E k \in 1..Len(q_messages) :
             Best(k, Len(q_messages), mode, type) /\ w.msg = q_messages[k]
  <2>1. PICK k \in 1..Len(q_messages) :
             Best(k, Len(q_messages), mode, type) /\ w.msg = q_messages[k]
    BY <1>4
  <2>2. q_messages[k] \in ToSet(q_messages) /\ q_messages[k] \in Msg
    BY DEF ToSet
  <2>3. testmsg(q_messages[k], type, mode)
    BY <2>1 DEF Best
  <2> QED
    BY <1>1, <1>2, <2>1, <2>2, <2>3
<1> QED
  BY <1>1, <1>3, <1>4 DEF Seen

(* Walk() is right about every queue. *)
LEMMA WalkCorrect ==
  ASSUME q_messages \in Seq(Msg)
  PROVE  WalkFindsOldest
<1>1. SUFFICES ASSUME NEW mode \in SEARCH, NEW type \in {m_type[m] : m \in Msg}
      PROVE  LET match == {i \in DOMAIN q_messages : testmsg(q_messages[i], type, mode)}
                 best == {i \in match : mode = "LESSEQUAL" =>
                            \A j \in match : m_type[q_messages[i]] <= m_type[q_messages[j]]}
                 m == Walk(mode, type)
             IN  IF match = {} THEN m = EAGAIN
                 ELSE \E i \in best : m = q_messages[i] /\ \A j \in best : i <= j
  BY DEF WalkFindsOldest
<1>2. type \in Nat
  BY IpcMsgAssumption
<1>3. PICK n \in Nat : n = Len(q_messages) /\ DOMAIN q_messages = 1..n
  OBVIOUS
<1>4. \A i \in 1..n : m_type[q_messages[i]] \in Nat
  BY <1>3, IpcMsgAssumption
<1>5. PICK w : Walk(mode, type) = w.msg /\ Seen(w, n, mode, type)
  BY <1>2, <1>3, WalkSees
<1> DEFINE match == {i \in DOMAIN q_messages : testmsg(q_messages[i], type, mode)}
           best == {i \in match : mode = "LESSEQUAL" =>
                      \A j \in match : m_type[q_messages[i]] <= m_type[q_messages[j]]}
<1>6. CASE w = Start(type) /\ \A j \in 1..n : ~testmsg(q_messages[j], type, mode)
  <2>1. match = {} /\ Walk(mode, type) = EAGAIN
    BY <1>3, <1>5, <1>6 DEF Start
  <2> QED
    BY <2>1
<1>7. ASSUME NEW k \in 1..n, Best(k, n, mode, type), w.msg = q_messages[k]
      PROVE  match # {} /\ k \in best /\ \A j \in best : k <= j
  <2>1. k \in match
    BY <1>3, <1>7 DEF Best
  <2>2. \A j \in match : j \in 1..n /\ testmsg(q_messages[j], type, mode)
    BY <1>3
  <2>3. \A j \in match :
          \/ mode = "LESSEQUAL" /\ m_type[q_messages[k]] < m_type[q_messages[j]]
          \/ k <= j /\ (mode = "LESSEQUAL" => m_type[q_messages[k]] = m_type[q_messages[j]])
    BY <1>7, <2>2 DEF Best
  <2>4. k \in best
    BY <1>4, <2>1, <2>2, <2>3
  <2>5. ASSUME NEW j \in best PROVE k <= j
    <3>1. j \in match /\ (mode = "LESSEQUAL" => m_type[q_messages[j]] <= m_type[q_messages[k]])
      BY <2>1
    <3> QED
      BY <1>4, <2>1, <2>2, <2>3, <3>1
  <2> QED
    BY <2>1, <2>4, <2>5
<1>8. CASE \E k \in 1..n : Best(k, n, mode, type) /\ w.msg = q_messages[k]
  BY <1>5, <1>7, <1>8
<1> QED
  BY <1>5, <1>6, <1>8 DEF Seen

-----------------------------------------------------------------------------
(* The steps, with the outcomes of the two loops told apart. *)

(* The sender is in its loop, and holds the lock or gets it. *)
Tries(s) ==
  /\ pc[s] \in {"spin", "again"} /\ (pc[s] = "spin" => lock = Nobody)
  /\ UNCHANGED <<queue, q_receivers, called, count, r_msg, target, got, ncalls>>

SendRefused(s) ==
  /\ Tries(s) /\ SendFails(s)
  /\ q_senders' \in {q_senders, Without(q_senders, s)} /\ UNCHANGED <<refcount, asleep>>

SendGoesOn(s) ==
  /\ Tries(s) /\ ~deleted /\ q_perm /\ Fits(req[s].m)
  /\ ipc_locked(s) /\ Goto(s, "send")
  /\ q_senders' \in {q_senders, Without(q_senders, s)}
  /\ UNCHANGED <<req, sig, refcount, asleep, fate>>

SendSleeps(s) ==
  /\ Tries(s) /\ ~deleted /\ q_perm /\ ~Fits(req[s].m)
  /\ asleep' = [asleep EXCEPT ![s] = TRUE] /\ refcount' = refcount + 1
  /\ ipc_unlock(s) /\ Goto(s, "sleep")
  /\ \E l \in {q_senders, Without(q_senders, s)} : q_senders' = Append(l, s)
  /\ UNCHANGED <<req, sig, fate>>

(* pipelined_send() gives a receiver -E2BIG and goes on, or the message. *)
StoresError(s) ==
  /\ pc[s] = "store" /\ r_msg' = [r_msg EXCEPT ![target[s]] = E2BIG]
  /\ target' = [target EXCEPT ![s] = Nobody] /\ Goto(s, "send")
  /\ UNCHANGED <<queue, q_receivers, q_senders, lock, memory, grace, req, asleep, sig,
                 history>>

StoresMessage(s) ==
  /\ pc[s] = "store" /\ r_msg' = [r_msg EXCEPT ![target[s]] = req[s].m]
  /\ target' = [target EXCEPT ![s] = Nobody] /\ SendDone(s)
  /\ UNCHANGED <<queue, q_receivers, q_senders, memory, asleep, got, ncalls>>

(* q_receivers without the receiver's record, which is on it when it comes  *)
(* from schedule().                                                         *)
Others(r) == IF pc[r] = "relock" THEN Without(q_receivers, r) ELSE q_receivers

(* The receiver is in its loop, with the lock. *)
Looks(r) ==
  /\ pc[r] \in {"spin", "relock"} /\ lock = Nobody
  /\ pc[r] = "relock" => r_msg[r] = EAGAIN
  /\ rcu_read_unlock(r)
  /\ UNCHANGED <<q_qbytes, q_perm, deleted, q_senders, lock, memory, target, fate, ncalls>>

RecvRefused(r) ==
  /\ Looks(r) /\ RecvEnds(r, EAGAIN)
  /\ q_receivers' = Others(r) \/ (deleted /\ pc[r] = "spin" /\ q_receivers' = q_receivers)
  /\ UNCHANGED <<q_messages, q_cbytes, q_qnum, asleep>>

RecvTakes(r) ==
  /\ Looks(r) /\ (pc[r] = "spin" => ~deleted)
  /\ Found(r) # EAGAIN /\ RecvEnds(r, Found(r))
  /\ q_messages' = Without(q_messages, Found(r))
  /\ q_cbytes' = q_cbytes - m_ts[Found(r)] /\ q_qnum' = q_qnum - 1
  /\ ss_wakeup /\ q_receivers' = Others(r)

RecvSleeps(r) ==
  /\ Looks(r) /\ (pc[r] = "spin" => ~deleted)
  /\ q_perm /\ Found(r) = EAGAIN
  /\ q_receivers' = Append(Others(r), r) /\ r_msg' = [r_msg EXCEPT ![r] = EAGAIN]
  /\ asleep' = [asleep EXCEPT ![r] = TRUE] /\ Goto(r, "sleep")
  /\ UNCHANGED <<q_messages, q_cbytes, q_qnum, req, sig, got>>

(* The receiver has been handed something, and may have seen it without the *)
(* lock.                                                                    *)
RecvHanded(r) ==
  /\ \/ pc[r] = "look" /\ r_msg[r] # NULL
     \/ pc[r] = "relock" /\ lock = Nobody
  /\ r_msg[r] # EAGAIN /\ RecvEnds(r, r_msg[r]) /\ rcu_read_unlock(r)
  /\ UNCHANGED <<queue, q_receivers, q_senders, lock, memory, asleep, target, fate, ncalls>>

RecvRelocks(r) ==
  /\ pc[r] = "look" /\ r_msg[r] = EAGAIN /\ Goto(r, "relock")
  /\ UNCHANGED <<queue, q_receivers, q_senders, lock, memory, grace, req, waiting, history>>

SenderSteps(s) ==
  \/ \E m \in Outbox[s], nowait \in BOOLEAN : msgsnd(s, m, nowait)
  \/ SendRefused(s) \/ SendGoesOn(s) \/ SendSleeps(s) \/ SendAwake(s) \/ SendPuts(s)
  \/ PipelinedSend(s) \/ WakeUp(s) \/ StoresError(s) \/ StoresMessage(s) \/ Enqueue(s)
  \/ Signal(s)

ReceiverSteps(r) ==
  \/ \E a \in RecvReq[r] : msgrcv(r, a)
  \/ RecvRefused(r) \/ RecvTakes(r) \/ RecvSleeps(r) \/ RecvAwake(r) \/ RecvRelocks(r)
  \/ RecvHanded(r) \/ Signal(r)

CtlSteps ==
  \/ \E a \in CtlReq : msgctl(a)
  \/ CtlLocked \/ ExpungeNull \/ WakeUp(Ctl) \/ ExpungeStore \/ CtlUnlock
  \/ FreeMessages \/ CtlPuts

(* The outcomes of the sender's loop. *)
LEMMA SendTryCases ==
  ASSUME NEW s \in Sender, NEW l \in {q_senders, Without(q_senders, s)},
         SendTry(s, l), Tries(s), ~deleted
  PROVE  SendRefused(s) \/ SendGoesOn(s) \/ SendSleeps(s)
BY DEF SendTry, SendRefused, SendGoesOn, SendSleeps, ipc_rcu_getref

(* A sender's steps are those. *)
LEMMA SenderCases ==
  ASSUME NEW s \in Sender, SendStep(s)
  PROVE  SenderSteps(s)
<1>1. CASE SendLocked(s)
  <2>1. Tries(s)
    BY <1>1 DEF SendLocked, Tries
  <2>2. CASE deleted
    BY <1>1, <2>1, <2>2 DEF SendLocked, SendRefused, SenderSteps
  <2>3. CASE ~deleted
    BY <1>1, <2>1, <2>3, SendTryCases DEF SendLocked, SenderSteps
  <2> QED
    BY <2>2, <2>3
<1>2. CASE SendAgain(s)
  <2>1. Tries(s)
    BY <1>2 DEF SendAgain, Tries
  <2>2. CASE deleted \/ sig[s]
    BY <1>2, <2>1, <2>2 DEF SendAgain, SendRefused, SenderSteps
  <2>3. CASE ~deleted /\ ~sig[s]
    BY <1>2, <2>1, <2>3, SendTryCases DEF SendAgain, SenderSteps
  <2> QED
    BY <2>2, <2>3
<1>3. CASE PipelinedStore(s)
  BY <1>3
  DEF PipelinedStore, StoresError, StoresMessage, SenderSteps, memory, grace,
      history
<1> QED
  BY <1>1, <1>2, <1>3 DEF SendStep, SenderSteps

(* The outcomes of the receiver's loop. *)
LEMMA RecvTryCases ==
  ASSUME NEW r \in Receiver, RecvTry(r, Others(r)), Looks(r), pc[r] = "spin" => ~deleted
  PROVE  RecvRefused(r) \/ RecvTakes(r) \/ RecvSleeps(r)
BY DEF RecvTry, RecvRefused, RecvTakes, RecvSleeps

(* A receiver's steps are those. *)
LEMMA ReceiverCases ==
  ASSUME NEW r \in Receiver, RecvStep(r)
  PROVE  ReceiverSteps(r)
<1>1. CASE RecvLocked(r)
  <2>1. Looks(r) /\ Others(r) = q_receivers
    BY <1>1 DEF RecvLocked, Looks, Others
  <2>2. CASE deleted
    BY <1>1, <2>1, <2>2 DEF RecvLocked, RecvRefused, ReceiverSteps
  <2>3. CASE ~deleted
    BY <1>1, <2>1, <2>3, RecvTryCases DEF RecvLocked, ReceiverSteps
  <2> QED
    BY <2>2, <2>3
<1>2. CASE RecvRelocked(r)
  <2>1. CASE r_msg[r] # EAGAIN
    BY <1>2, <2>1
    DEF RecvRelocked, Retested, RecvHanded, ReceiverSteps, queue, memory
  <2>2. CASE r_msg[r] = EAGAIN
    <3>1. Looks(r) /\ Others(r) = Without(q_receivers, r)
      BY <1>2, <2>2 DEF RecvRelocked, Looks, Others
    <3>2. CASE sig[r]
      BY <1>2, <2>2, <3>1, <3>2
      DEF RecvRelocked, Retested, RecvRefused, ReceiverSteps
    <3>3. CASE ~sig[r]
      BY <1>2, <2>2, <3>1, <3>3, RecvTryCases DEF RecvRelocked, Retested, ReceiverSteps
    <3> QED
      BY <3>2, <3>3
  <2> QED
    BY <2>1, <2>2
<1>3. CASE RecvLooks(r)
  BY <1>3
  DEF RecvLooks, Waits, RecvHanded, RecvRelocks, ReceiverSteps, waiting, history, grace
<1> QED
  BY <1>1, <1>2, <1>3 DEF RecvStep, ReceiverSteps

(* Every step is one of a sender, of a receiver or of msgctl(). *)
LEMMA NextCases ==
  ASSUME Next
  PROVE  \/ \E s \in Sender : SenderSteps(s)
         \/ \E r \in Receiver : ReceiverSteps(r)
         \/ CtlSteps
BY SenderCases, ReceiverCases DEF Next, CtlStep, CtlSteps, SenderSteps, ReceiverSteps

-----------------------------------------------------------------------------
(* Types. *)

(* What a call may bring along. *)
LEMMA Arguments ==
  /\ \A s \in Sender : \A m \in Outbox[s] : m \in Msg
  /\ \A s \in Sender : \A m \in Outbox[s] : \A nowait \in BOOLEAN :
       [m |-> m, nowait |-> nowait] \in SendArgs
  /\ \A r \in Receiver : RecvReq[r] \subseteq RecvArgs
  /\ CtlReq \subseteq CtlArgs
BY IpcMsgAssumption DEF SendArgs, RecvArgs, CtlArgs, Msg

(* Places and arguments, for the steps of each kind of task. *)
LEMMA CallsSender ==
  ASSUME NEW s \in Sender, Calling, SenderSteps(s)
  PROVE  Calling'
<1>1. ASSUME NEW m \in Outbox[s], NEW nowait \in BOOLEAN, msgsnd(s, m, nowait)
      PROVE  Calling'
  <2>1. [m |-> m, nowait |-> nowait] \in SendArgs
    BY <1>1, Arguments
  <2> QED
    BY <1>1, <2>1, Distinct
    DEF msgsnd, ipc_lock, Goto, Calling, Place, Within, queue, memory, grace,
        waiting, history
<1>2. ASSUME SendRefused(s) PROVE Calling'
  BY <1>2, Distinct
  DEF SendRefused, Tries, SendFails, ipc_unlock, rcu_read_unlock, Goto,
      Calling, Place, Within, queue, memory, grace, waiting, history
<1>3. ASSUME SendGoesOn(s) PROVE Calling'
  BY <1>3, Distinct
  DEF SendGoesOn, Tries, ipc_locked, Goto, Calling, Place, Within, queue, memory,
      grace, waiting, history
<1>4. ASSUME SendSleeps(s) PROVE Calling'
  BY <1>4, Distinct
  DEF SendSleeps, Tries, ipc_unlock, rcu_read_unlock, Goto, Calling, Place, Within,
      queue, memory, grace, waiting, history
<1>5. ASSUME SendAwake(s) PROVE Calling'
  BY <1>5, Distinct
  DEF SendAwake, ipc_locked, Goto, Calling, Place, Within, queue, memory, grace,
      waiting, history
<1>6. ASSUME SendPuts(s) PROVE Calling'
  BY <1>6, Distinct
  DEF SendPuts, ipc_rcu_putref, Grace, Goto, Calling, Place, Within, queue, memory,
      grace, waiting, history
<1>7. ASSUME PipelinedSend(s) PROVE Calling'
  BY <1>7, Distinct
  DEF PipelinedSend, Goto, Calling, Place, Within, queue, memory, grace, waiting,
      history
<1>8. ASSUME WakeUp(s) PROVE Calling'
  BY <1>8, Distinct
  DEF WakeUp, Goto, Calling, Place, Within, queue, memory, grace, waiting, history
<1>9. ASSUME StoresError(s) PROVE Calling'
  BY <1>9, Distinct
  DEF StoresError, Goto, Calling, Place, Within, queue, memory, grace, waiting,
      history
<1>10. ASSUME StoresMessage(s) PROVE Calling'
  BY <1>10, Distinct
  DEF StoresMessage, SendDone, ipc_unlock, rcu_read_unlock, Goto, Calling, Place,
      Within, queue, memory, grace, waiting, history
<1>11. ASSUME Enqueue(s) PROVE Calling'
  BY <1>11, Distinct
  DEF Enqueue, SendDone, ipc_unlock, rcu_read_unlock, Goto, Calling, Place, Within,
      queue, memory, grace, waiting, history
<1>12. ASSUME Signal(s) PROVE Calling'
  BY <1>12, Distinct
  DEF Signal, Calling, Place, Within, queue, memory, grace, waiting, history
<1> QED
  BY <1>1, <1>2, <1>3, <1>4, <1>5, <1>6, <1>7, <1>8, <1>9, <1>10, <1>11, <1>12
     DEF SenderSteps

(* The same for a receiver. *)
LEMMA CallsReceiver ==
  ASSUME NEW r \in Receiver, Calling, ReceiverSteps(r)
  PROVE  Calling'
<1>1. ASSUME NEW a \in RecvReq[r], msgrcv(r, a) PROVE Calling'
  <2>1. a \in RecvArgs
    BY <1>1, Arguments
  <2> QED
    BY <1>1, <2>1, Distinct
    DEF msgrcv, ipc_lock, Goto, Calling, Place, Within, queue, memory, grace,
        waiting, history
<1>2. ASSUME RecvRefused(r) PROVE Calling'
  BY <1>2, Distinct
  DEF RecvRefused, Looks, RecvEnds, rcu_read_unlock, Goto, Calling, Place, Within,
      queue, memory, grace, waiting, history
<1>3. ASSUME RecvTakes(r) PROVE Calling'
  BY <1>3, Distinct
  DEF RecvTakes, Looks, RecvEnds, rcu_read_unlock, ss_wakeup, Goto, Calling, Place,
      Within, queue, memory, grace, waiting, history
<1>4. ASSUME RecvSleeps(r) PROVE Calling'
  BY <1>4, Distinct
  DEF RecvSleeps, Looks, rcu_read_unlock, Goto, Calling, Place, Within, queue,
      memory, grace, waiting, history
<1>5. ASSUME RecvAwake(r) PROVE Calling'
  BY <1>5, Distinct
  DEF RecvAwake, Goto, Calling, Place, Within, queue, memory, grace, waiting, history
<1>6. ASSUME RecvRelocks(r) PROVE Calling'
  BY <1>6, Distinct
  DEF RecvRelocks, Goto, Calling, Place, Within, queue, memory, grace, waiting,
      history
<1>7. ASSUME RecvHanded(r) PROVE Calling'
  BY <1>7, Distinct
  DEF RecvHanded, RecvEnds, rcu_read_unlock, Goto, Calling, Place, Within, queue,
      memory, grace, waiting, history
<1>8. ASSUME Signal(r) PROVE Calling'
  BY <1>8, Distinct
  DEF Signal, Calling, Place, Within, queue, memory, grace, waiting, history
<1> QED
  BY <1>1, <1>2, <1>3, <1>4, <1>5, <1>6, <1>7, <1>8 DEF ReceiverSteps

(* The same for msgctl(). *)
LEMMA CallsCtl ==
  ASSUME Calling, CtlSteps
  PROVE  Calling'
<1>1. ASSUME NEW a \in CtlReq, msgctl(a) PROVE Calling'
  <2>1. a \in CtlArgs
    BY <1>1, Arguments
  <2> QED
    BY <1>1, <2>1, Distinct
    DEF msgctl, ipc_lock, Goto, Calling, Place, Within, queue, memory, grace,
        waiting, history
<1>2. ASSUME CtlLocked PROVE Calling'
  BY <1>2, Distinct
  DEF CtlLocked, ipc_locked, Goto, Calling, Place, Within, queue, memory, grace,
      waiting, history
<1>3. ASSUME ExpungeNull PROVE Calling'
  BY <1>3, Distinct
  DEF ExpungeNull, Expunged, Goto, Calling, Place, Within, queue, memory, grace,
      waiting, history
<1>4. ASSUME WakeUp(Ctl) PROVE Calling'
  BY <1>4, Distinct
  DEF WakeUp, Goto, Calling, Place, Within, queue, memory, grace, waiting, history
<1>5. ASSUME ExpungeStore PROVE Calling'
  BY <1>5, Distinct
  DEF ExpungeStore, Goto, Calling, Place, Within, queue, memory, grace, waiting,
      history
<1>6. ASSUME CtlUnlock PROVE Calling'
  BY <1>6, Distinct
  DEF CtlUnlock, Expunged, ss_wakeup, ipc_unlock, rcu_read_unlock, Goto,
      Calling, Place, Within, queue, memory, grace, waiting, history
<1>7. ASSUME FreeMessages PROVE Calling'
  BY <1>7, Distinct
  DEF FreeMessages, Goto, Calling, Place, Within, queue, memory, grace, waiting,
      history
<1>8. ASSUME CtlPuts PROVE Calling'
  BY <1>8, Distinct
  DEF CtlPuts, ipc_rcu_putref, Grace, Goto, Calling, Place, Within, queue, memory,
      grace, waiting, history
<1> QED
  BY <1>1, <1>2, <1>3, <1>4, <1>5, <1>6, <1>7, <1>8 DEF CtlSteps

(* Of the places only their type. *)
LEMMA PcType ==
  ASSUME Calling
  PROVE  pc \in [Task -> Place]
BY DEF Calling

(* list_del() and list_add_tail() keep the types of the lists. *)
LEMMA ListTypes ==
  ASSUME Kinds
  PROVE  /\ \A s \in Sender : \A l \in {q_senders, Without(q_senders, s)} :
              l \in Seq(Sender) /\ Append(l, s) \in Seq(Sender)
         /\ \A r \in Receiver :
              /\ Without(q_receivers, r) \in Seq(Receiver) /\ Others(r) \in Seq(Receiver)
              /\ Append(Others(r), r) \in Seq(Receiver)
         /\ \A m \in Msg : /\ Without(q_messages, m) \in Seq(Msg)
                          /\ Append(q_messages, m) \in Seq(Msg)
<1>1. \A s \in Sender : Without(q_senders, s) \in Seq(Sender)
  BY WithoutSub DEF Kinds
<1>2. \A r \in Receiver : Without(q_receivers, r) \in Seq(Receiver)
  BY WithoutSub DEF Kinds
<1>3. \A r \in Receiver : Others(r) \in Seq(Receiver)
  BY <1>2 DEF Others, Kinds
<1>4. \A m \in Msg : Without(q_messages, m) \in Seq(Msg)
  BY WithoutSub DEF Kinds
<1>5. \A s \in Sender : \A l \in {q_senders, Without(q_senders, s)} :
        Append(l, s) \in Seq(Sender)
  BY <1>1, AppendProperties DEF Kinds
<1>6. \A r \in Receiver : Append(Others(r), r) \in Seq(Receiver)
  BY <1>3, AppendProperties
<1>7. \A m \in Msg : Append(q_messages, m) \in Seq(Msg)
  BY AppendProperties DEF Kinds
<1> QED
  BY <1>1, <1>2, <1>3, <1>4, <1>5, <1>6, <1>7 DEF Kinds

(* What a receiver in its loop finds. *)
LEMMA FoundResult ==
  ASSUME Kinds, Calling, NEW r \in Receiver, pc[r] # "idle"
  PROVE  /\ Found(r) # EAGAIN => Found(r) \in ToSet(q_messages) /\ Found(r) \in Msg
         /\ Found(r) = EAGAIN <=>
              \A m \in ToSet(q_messages) : ~testmsg(m, req[r].type, req[r].mode)
<1>1. req[r].mode \in SEARCH /\ req[r].type \in Nat
  BY DEF Calling, RecvArgs
<1> QED
  BY <1>1, WalkResult DEF Found, Kinds

(* The receiver pipelined_send() stops at. *)
LEMMA MatchingMin ==
  ASSUME Kinds, NEW m, Matching(m) # {}
  PROVE  \E k \in DOMAIN q_receivers : k = Min(Matching(m)) /\ q_receivers[k] \in Receiver
<1>1. Matching(m) \subseteq Nat /\ Matching(m) \subseteq DOMAIN q_receivers
  BY DEF Matching, Kinds
<1>2. Min(Matching(m)) \in DOMAIN q_receivers
  BY <1>1, MinIsLeast
<1> QED
  BY <1>2 DEF Kinds

(* The types, for the steps of each kind of task. *)
LEMMA KindsSender ==
  ASSUME NEW s \in Sender, Calling, Kinds, SenderSteps(s)
  PROVE  Kinds'
<1>1. ASSUME NEW m \in Outbox[s], NEW nowait \in BOOLEAN, msgsnd(s, m, nowait)
      PROVE  Kinds'
  <2>1. m \in Msg
    BY Arguments
  <2> QED
    BY <1>1, <2>1, Distinct, PcType
    DEF msgsnd, ipc_lock, Goto, Kinds, Code, queue, memory, grace, waiting, history
<1>2. ASSUME SendRefused(s) PROVE Kinds'
  <2>1. q_senders' \in Seq(Sender) /\ req[s].m \in Msg
    BY <1>2, ListTypes DEF SendRefused, Tries, Calling, SendArgs
  <2> QED
    BY <1>2, <2>1, Distinct, PcType
    DEF SendRefused, Tries, SendFails, ipc_unlock, rcu_read_unlock, Goto, Kinds,
        Code, queue, memory, grace, waiting, history
<1>3. ASSUME SendGoesOn(s) PROVE Kinds'
  <2>1. q_senders' \in Seq(Sender)
    BY <1>3, ListTypes DEF SendGoesOn
  <2> QED
    BY <1>3, <2>1, Distinct, PcType
    DEF SendGoesOn, Tries, ipc_locked, Goto, Kinds, Code, queue, memory, grace,
        waiting, history
<1>4. ASSUME SendSleeps(s) PROVE Kinds'
  <2>1. q_senders' \in Seq(Sender)
    BY <1>4, ListTypes DEF SendSleeps
  <2> QED
    BY <1>4, <2>1, Distinct, PcType
    DEF SendSleeps, Tries, ipc_unlock, rcu_read_unlock, Goto, Kinds, Code, queue,
        memory, grace, waiting, history
<1>5. ASSUME SendAwake(s) PROVE Kinds'
  BY <1>5, Distinct, PcType
  DEF SendAwake, ipc_locked, Goto, Kinds, Code, queue, memory, grace, waiting,
      history
<1>6. ASSUME SendPuts(s) PROVE Kinds'
  <2>1. PICK c \in Int : c = count[s]
    BY Distinct DEF Kinds
  <2>2. refcount' \in Int /\ count' \in [Task -> Int]
    <3>1. c - 1 \in Int
      OBVIOUS
    <3>2. refcount' = c - 1
      BY <1>6, <2>1 DEF SendPuts, ipc_rcu_putref
    <3>3. count' \in [Task -> Int]
      BY <1>6, Distinct DEF SendPuts, ipc_rcu_putref, Kinds
    <3> QED
      BY <3>1, <3>2, <3>3
  <2>3. called' \in BOOLEAN /\ blockers' \in SUBSET Task
    BY <1>6, <2>1 DEF SendPuts, ipc_rcu_putref, Grace, Kinds
  <2>4. \A t \in Task : pc'[t] \in {"wake", "store"} => pc[t] \in {"wake", "store"}
    BY <1>6, PcType DEF SendPuts, Goto
  <2>5. pc'[Ctl] # "put" => count'[Ctl] >= 0
    BY <1>6, Distinct, PcType DEF SendPuts, ipc_rcu_putref, Goto, Kinds
  <2> QED
    BY <1>6, <2>2, <2>3, <2>4, <2>5
    DEF SendPuts, Kinds, Code, queue, memory, grace, waiting, history
<1>7. ASSUME PipelinedSend(s) PROVE Kinds'
  <2>1. PICK k \in DOMAIN q_receivers :
          /\ k = Min(Matching(req[s].m)) /\ q_receivers[k] \in Receiver
          /\ Without(q_receivers, q_receivers[k]) \in Seq(Receiver)
    BY <1>7, MatchingMin, ListTypes DEF PipelinedSend
  <2> QED
    BY <1>7, <2>1, Distinct, PcType
    DEF PipelinedSend, Goto, Kinds, Code, queue, memory, grace, waiting, history
<1>8. ASSUME WakeUp(s) PROVE Kinds'
  BY <1>8, Distinct, PcType
  DEF WakeUp, Goto, Kinds, Code, queue, memory, grace, waiting, history
<1>9. ASSUME StoresError(s) PROVE Kinds'
  BY <1>9, Distinct, PcType
  DEF StoresError, Goto, Kinds, Code, queue, memory, grace, waiting, history
<1>10. ASSUME StoresMessage(s) PROVE Kinds'
  <2>1. req[s].m \in Msg
    BY <1>10 DEF StoresMessage, Calling, SendArgs
  <2> QED
    BY <1>10, <2>1, Distinct, PcType
    DEF StoresMessage, SendDone, ipc_unlock, rcu_read_unlock, Goto, Kinds, Code,
        queue, memory, grace, waiting, history
<1>11. ASSUME Enqueue(s) PROVE Kinds'
  <2>1. /\ req[s].m \in Msg /\ q_cbytes + m_ts[req[s].m] \in Int
        /\ Append(q_messages, req[s].m) \in Seq(Msg)
    BY <1>11, ListTypes, IpcMsgAssumption DEF Enqueue, Calling, SendArgs, Kinds
  <2> QED
    BY <1>11, <2>1, Distinct, PcType, SMTT(60)
    DEF Enqueue, SendDone, ipc_unlock, rcu_read_unlock, Goto, Kinds, Code, queue,
        memory, grace, waiting, history
<1>12. ASSUME Signal(s) PROVE Kinds'
  BY <1>12, Distinct, PcType
  DEF Signal, Kinds, Code, queue, memory, grace, waiting, history
<1> QED
  BY <1>1, <1>2, <1>3, <1>4, <1>5, <1>6, <1>7, <1>8, <1>9, <1>10, <1>11, <1>12
     DEF SenderSteps

(* The same for a receiver. *)
LEMMA KindsReceiver ==
  ASSUME NEW r \in Receiver, Calling, Kinds, ReceiverSteps(r)
  PROVE  Kinds'
<1>1. ASSUME NEW a \in RecvReq[r], msgrcv(r, a) PROVE Kinds'
  BY <1>1, Distinct, PcType
  DEF msgrcv, ipc_lock, Goto, Kinds, Code, queue, memory, grace, waiting,
      history
<1>2. ASSUME RecvRefused(r) PROVE Kinds'
  <2>1. q_receivers' \in Seq(Receiver)
    BY <1>2, ListTypes DEF RecvRefused, Kinds
  <2> QED
    BY <1>2, <2>1, Distinct, PcType
    DEF RecvRefused, Looks, RecvEnds, rcu_read_unlock, Goto, Kinds, Code, queue,
        memory, grace, waiting, history
<1>3. ASSUME RecvTakes(r) PROVE Kinds'
  <2>0. PICK m \in Msg : m = Found(r)
    BY <1>3, FoundResult DEF RecvTakes, Looks
  <2>1. q_receivers' \in Seq(Receiver) /\ q_messages' \in Seq(Msg)
    BY <1>3, <2>0, ListTypes DEF RecvTakes
  <2>2. q_cbytes' \in Int /\ q_qnum' \in Int
    BY <1>3, <2>0, IpcMsgAssumption DEF RecvTakes, Kinds
  <2>3. asleep' \in [Task -> BOOLEAN]
    BY <1>3 DEF RecvTakes, ss_wakeup, Kinds
  <2>4. /\ r_msg' \in [Receiver -> Msg \cup Code] /\ sig' \in [Task -> BOOLEAN]
        /\ got' \in [Msg -> Nat]
    BY <1>3, <2>0, Distinct DEF RecvTakes, RecvEnds, Kinds, Code
  <2>5. \A t \in Task : pc'[t] \in {"wake", "store"} => pc[t] \in {"wake", "store"}
    BY <1>3, PcType DEF RecvTakes, RecvEnds, Goto
  <2>6. pc'[Ctl] # "put" => count'[Ctl] >= 0
    BY <1>3, Distinct, PcType DEF RecvTakes, Looks, RecvEnds, Goto, Kinds, memory
  <2> QED
    BY <1>3, <2>1, <2>2, <2>3, <2>4, <2>5, <2>6
    DEF RecvTakes, Looks, rcu_read_unlock, Kinds, Code, memory
<1>4. ASSUME RecvSleeps(r) PROVE Kinds'
  <2>1. q_receivers' \in Seq(Receiver)
    BY <1>4, ListTypes DEF RecvSleeps
  <2> QED
    BY <1>4, <2>1, Distinct, PcType
    DEF RecvSleeps, Looks, rcu_read_unlock, Goto, Kinds, Code, queue, memory, grace,
        waiting, history
<1>5. ASSUME RecvAwake(r) PROVE Kinds'
  BY <1>5, Distinct, PcType
  DEF RecvAwake, Goto, Kinds, Code, queue, memory, grace, waiting, history
<1>6. ASSUME RecvRelocks(r) PROVE Kinds'
  BY <1>6, Distinct, PcType
  DEF RecvRelocks, Goto, Kinds, Code, queue, memory, grace, waiting, history
<1>7. ASSUME RecvHanded(r) PROVE Kinds'
  BY <1>7, Distinct, PcType
  DEF RecvHanded, RecvEnds, rcu_read_unlock, Goto, Kinds, Code, queue, memory,
      grace, waiting, history
<1>8. ASSUME Signal(r) PROVE Kinds'
  BY <1>8, Distinct, PcType
  DEF Signal, Kinds, Code, queue, memory, grace, waiting, history
<1> QED
  BY <1>1, <1>2, <1>3, <1>4, <1>5, <1>6, <1>7, <1>8 DEF ReceiverSteps

(* The same for msgctl(). *)
LEMMA KindsCtl ==
  ASSUME Calling, Kinds, CtlSteps
  PROVE  Kinds'
<1>1. ASSUME NEW a \in CtlReq, msgctl(a) PROVE Kinds'
  BY <1>1, Distinct, PcType
  DEF msgctl, ipc_lock, Goto, Kinds, Code, queue, memory, grace, waiting,
      history
<1>2. ASSUME CtlLocked PROVE Kinds'
  <2>1. req[Ctl].qbytes \in Nat /\ req[Ctl].perm \in BOOLEAN
    BY <1>2 DEF CtlLocked, Calling, CtlArgs
  <2> QED
    BY <1>2, <2>1, Distinct, PcType
    DEF CtlLocked, ipc_locked, Goto, Kinds, Code, queue, memory, grace, waiting, history
<1>3. ASSUME ExpungeNull PROVE Kinds'
  <2>1. PICK c \in Nat : c = count[Ctl]
    BY <1>3, Distinct DEF ExpungeNull, Kinds
  <2>2. PICK x \in Receiver : x = q_receivers[c + 0 + 1]
    BY <1>3, <2>1, Distinct DEF ExpungeNull, Expunged, Kinds
  <2>3. target' = [target EXCEPT ![Ctl] = x] /\ r_msg' = [r_msg EXCEPT ![x] = NULL]
    BY <1>3, <2>1, <2>2 DEF ExpungeNull, Expunged
  <2>4. count' = [count EXCEPT ![Ctl] = c + 1] /\ c + 1 \in Nat
    BY <1>3, <2>1 DEF ExpungeNull
  <2>5. /\ pc' = [pc EXCEPT ![Ctl] = "wake"]
        /\ UNCHANGED <<queue, q_receivers, q_senders, lock, refcount, called, grace, req,
                       asleep, sig, history>>
    BY <1>3 DEF ExpungeNull, Goto
  <2> QED
    BY <2>2, <2>3, <2>4, <2>5, Distinct, PcType
    DEF Kinds, Code, queue, grace, history
<1>4. ASSUME WakeUp(Ctl) PROVE Kinds'
  BY <1>4, Distinct, PcType
  DEF WakeUp, Goto, Kinds, Code, queue, memory, grace, waiting, history
<1>5. ASSUME ExpungeStore PROVE Kinds'
  BY <1>5, Distinct, PcType
  DEF ExpungeStore, Goto, Kinds, Code, queue, memory, grace, waiting, history
<1>6. ASSUME CtlUnlock PROVE Kinds'
  <2>1. \A t \in Task : pc'[t] \in {"wake", "store"} => pc[t] \in {"wake", "store"}
    BY <1>6, Distinct, PcType DEF CtlUnlock, Goto
  <2>2. asleep' \in [Task -> BOOLEAN] /\ deleted' \in BOOLEAN
    BY <1>6 DEF CtlUnlock, ss_wakeup, Kinds
  <2>3. count' \in [Task -> Int] /\ count'[Ctl] = 0
    BY <1>6, Distinct DEF CtlUnlock, Kinds
  <2> QED
    BY <1>6, <2>1, <2>2, <2>3, Distinct, PcType
  DEF CtlUnlock, Expunged, ss_wakeup, ipc_unlock, rcu_read_unlock, Goto,
      Kinds, Code, queue, memory, grace, waiting, history
<1>7. ASSUME FreeMessages PROVE Kinds'
  BY <1>7, Distinct, PcType
  DEF FreeMessages, Goto, Kinds, Code, queue, memory, grace, waiting, history
<1>8. ASSUME CtlPuts PROVE Kinds'
  <2>1. PICK c \in Int : c = count[Ctl]
    BY Distinct DEF Kinds
  <2>2. refcount' \in Int /\ count' \in [Task -> Int]
    <3>1. c - 1 \in Int
      OBVIOUS
    <3>2. refcount' = c - 1
      BY <1>8, <2>1 DEF CtlPuts, ipc_rcu_putref
    <3>3. count' \in [Task -> Int]
      BY <1>8, Distinct DEF CtlPuts, ipc_rcu_putref, Kinds
    <3> QED
      BY <3>1, <3>2, <3>3
  <2>3. called' \in BOOLEAN /\ blockers' \in SUBSET Task
    BY <1>8, <2>1 DEF CtlPuts, ipc_rcu_putref, Grace, Kinds
  <2>4. \A t \in Task : pc'[t] \in {"wake", "store"} => pc[t] \in {"wake", "store"}
    BY <1>8, PcType DEF CtlPuts, Goto
  <2>5. pc'[Ctl] # "put" => count'[Ctl] >= 0
    BY <1>8, Distinct, PcType DEF CtlPuts, ipc_rcu_putref, Goto, Kinds
  <2> QED
    BY <1>8, <2>2, <2>3, <2>4, <2>5
    DEF CtlPuts, Kinds, Code, queue, memory, grace, waiting, history
<1> QED
  BY <1>1, <1>2, <1>3, <1>4, <1>5, <1>6, <1>7, <1>8 DEF CtlSteps

-----------------------------------------------------------------------------
(* Control. *)

(* Of the types only what these steps depend on. *)
LEMMA Labels ==
  ASSUME Calling, Kinds
  PROVE  /\ pc \in [Task -> Place] /\ lock \in Task \cup {Nobody}
         /\ \A s \in Sender : pc[s] \in {"idle", "spin", "sleep", "put", "again", "send",
                                         "wake", "store"}
         /\ \A r \in Receiver : pc[r] \in {"idle", "spin", "sleep", "look", "relock"}
         /\ pc[Ctl] \in {"idle", "spin", "expunge", "wake", "store", "free", "put"}
BY DEF Calling, Kinds, Within

(* Whoever is in a section under the lock owns it, and only one task is. *)
LEMMA ControlsSender ==
  ASSUME NEW s \in Sender, Calling, Kinds, Control, SenderSteps(s)
  PROVE  Control'
<1>1. ASSUME NEW m \in Outbox[s], NEW nowait \in BOOLEAN, msgsnd(s, m, nowait)
      PROVE  Control'
  BY <1>1, Distinct, Labels
  DEF msgsnd, ipc_lock, Goto, Control, InLock, queue, memory, grace, waiting,
      history
<1>2. ASSUME SendRefused(s) PROVE Control'
  BY <1>2, Distinct, Labels
  DEF SendRefused, Tries, SendFails, ipc_unlock, rcu_read_unlock, Goto,
      Control, InLock, queue, memory, grace, waiting, history
<1>3. ASSUME SendGoesOn(s) PROVE Control'
  BY <1>3, Distinct, Labels
  DEF SendGoesOn, Tries, ipc_locked, Goto, Control, InLock, queue, memory,
      grace, waiting, history
<1>4. ASSUME SendSleeps(s) PROVE Control'
  BY <1>4, Distinct, Labels
  DEF SendSleeps, Tries, ipc_unlock, rcu_read_unlock, Goto, Control, InLock,
      queue, memory, grace, waiting, history
<1>5. ASSUME SendAwake(s) PROVE Control'
  BY <1>5, Distinct, Labels
  DEF SendAwake, ipc_locked, Goto, Control, InLock, queue, memory, grace,
      waiting, history
<1>6. ASSUME SendPuts(s) PROVE Control'
  BY <1>6, Distinct, Labels
  DEF SendPuts, ipc_rcu_putref, Grace, Goto, Control, InLock, queue, memory,
      grace, waiting, history
<1>7. ASSUME PipelinedSend(s) PROVE Control'
  BY <1>7, Distinct, Labels
  DEF PipelinedSend, Goto, Control, InLock, queue, memory, grace, waiting,
      history
<1>8. ASSUME WakeUp(s) PROVE Control'
  BY <1>8, Distinct, Labels
  DEF WakeUp, Goto, Control, InLock, queue, memory, grace, waiting, history
<1>9. ASSUME StoresError(s) PROVE Control'
  BY <1>9, Distinct, Labels
  DEF StoresError, Goto, Control, InLock, queue, memory, grace, waiting,
      history
<1>10. ASSUME StoresMessage(s) PROVE Control'
  BY <1>10, Distinct, Labels
  DEF StoresMessage, SendDone, ipc_unlock, rcu_read_unlock, Goto, Control,
      InLock, queue, memory, grace, waiting, history
<1>11. ASSUME Enqueue(s) PROVE Control'
  BY <1>11, Distinct, Labels
  DEF Enqueue, SendDone, ipc_unlock, rcu_read_unlock, Goto, Control, InLock,
      queue, memory, grace, waiting, history
<1>12. ASSUME Signal(s) PROVE Control'
  BY <1>12, Distinct, Labels
  DEF Signal, Control, InLock, queue, memory, grace, waiting, history
<1> QED
  BY <1>1, <1>2, <1>3, <1>4, <1>5, <1>6, <1>7, <1>8, <1>9, <1>10, <1>11, <1>12
     DEF SenderSteps

(* A receiver keeps the lock for no longer than a step. *)
LEMMA ControlsReceiver ==
  ASSUME NEW r \in Receiver, Calling, Kinds, Control, ReceiverSteps(r)
  PROVE  Control'
<1>1. ASSUME NEW a \in RecvReq[r], msgrcv(r, a) PROVE Control'
  BY <1>1, Distinct, Labels
  DEF msgrcv, ipc_lock, Goto, Control, InLock, queue, memory, grace, waiting,
      history
<1>2. ASSUME RecvRefused(r) PROVE Control'
  BY <1>2, Distinct, Labels
  DEF RecvRefused, Looks, RecvEnds, rcu_read_unlock, Goto, Control, InLock,
      queue, memory, grace, waiting, history
<1>3. ASSUME RecvTakes(r) PROVE Control'
  BY <1>3, Distinct, Labels
  DEF RecvTakes, Looks, RecvEnds, rcu_read_unlock, ss_wakeup, Goto, Control,
      InLock, queue, memory, grace, waiting, history
<1>4. ASSUME RecvSleeps(r) PROVE Control'
  BY <1>4, Distinct, Labels
  DEF RecvSleeps, Looks, rcu_read_unlock, Goto, Control, InLock, queue,
      memory, grace, waiting, history
<1>5. ASSUME RecvAwake(r) PROVE Control'
  BY <1>5, Distinct, Labels
  DEF RecvAwake, Goto, Control, InLock, queue, memory, grace, waiting, history
<1>6. ASSUME RecvRelocks(r) PROVE Control'
  BY <1>6, Distinct, Labels
  DEF RecvRelocks, Goto, Control, InLock, queue, memory, grace, waiting,
      history
<1>7. ASSUME RecvHanded(r) PROVE Control'
  BY <1>7, Distinct, Labels
  DEF RecvHanded, RecvEnds, rcu_read_unlock, Goto, Control, InLock, queue,
      memory, grace, waiting, history
<1>8. ASSUME Signal(r) PROVE Control'
  BY <1>8, Distinct, Labels
  DEF Signal, Control, InLock, queue, memory, grace, waiting, history
<1> QED
  BY <1>1, <1>2, <1>3, <1>4, <1>5, <1>6, <1>7, <1>8 DEF ReceiverSteps

(* msgctl() keeps it until CtlUnlock. *)
LEMMA ControlsCtl ==
  ASSUME Calling, Kinds, Control, CtlSteps
  PROVE  Control'
<1>1. ASSUME NEW a \in CtlReq, msgctl(a) PROVE Control'
  BY <1>1, Distinct, Labels
  DEF msgctl, ipc_lock, Goto, Control, InLock, queue, memory, grace, waiting,
      history
<1>2. ASSUME CtlLocked PROVE Control'
  BY <1>2, Distinct, Labels
  DEF CtlLocked, ipc_locked, Goto, Control, InLock, queue, memory, grace,
      waiting, history
<1>3. ASSUME ExpungeNull PROVE Control'
  BY <1>3, Distinct, Labels
  DEF ExpungeNull, Expunged, Goto, Control, InLock, queue, memory, grace,
      waiting, history
<1>4. ASSUME WakeUp(Ctl) PROVE Control'
  BY <1>4, Distinct, Labels
  DEF WakeUp, Goto, Control, InLock, queue, memory, grace, waiting, history
<1>5. ASSUME ExpungeStore PROVE Control'
  BY <1>5, Distinct, Labels
  DEF ExpungeStore, Goto, Control, InLock, queue, memory, grace, waiting,
      history
<1>6. ASSUME CtlUnlock PROVE Control'
  BY <1>6, Distinct, Labels
  DEF CtlUnlock, Expunged, ss_wakeup, ipc_unlock, rcu_read_unlock, Goto,
      Control, InLock, queue, memory, grace, waiting, history
<1>7. ASSUME FreeMessages PROVE Control'
  BY <1>7, Distinct, Labels
  DEF FreeMessages, Goto, Control, InLock, queue, memory, grace, waiting,
      history
<1>8. ASSUME CtlPuts PROVE Control'
  BY <1>8, Distinct, Labels
  DEF CtlPuts, ipc_rcu_putref, Grace, Goto, Control, InLock, queue, memory,
      grace, waiting, history
<1> QED
  BY <1>1, <1>2, <1>3, <1>4, <1>5, <1>6, <1>7, <1>8 DEF CtlSteps

-----------------------------------------------------------------------------
(* Listed. *)

(* Steps that leave the receivers and their list alone. *)
ListsSame ==
  /\ UNCHANGED <<q_receivers, r_msg, deleted>>
  /\ pc'[Ctl] = pc[Ctl] \/ (pc[Ctl] = "wake" /\ pc'[Ctl] = "store")
  /\ count'[Ctl] = count[Ctl] /\ target'[Ctl] = target[Ctl]
  /\ req'[Ctl] = req[Ctl]
  /\ \A r \in Receiver : (pc'[r] \in Within) <=> (pc[r] \in Within)
  /\ \A r \in Receiver : (pc'[r] \in {"idle", "spin"}) => (pc[r] \in {"idle", "spin"})
  /\ \A t \in Task : pc'[t] \in {"wake", "store"} =>
       pc[t] \in {"wake", "store"} /\ target'[t] = target[t] /\ count'[t] = count[t]

(* They preserve the layer. *)
LEMMA ListsFrame ==
  ASSUME Calling, Kinds, Listed, ListsSame
  PROVE  Listed'
<1>1. Receiver \subseteq Task /\ Ctl \in Task
  BY Distinct
<1>2. (Expunging' <=> Expunging) /\ (Removing' <=> Removing)
  BY <1>1 DEF ListsSame, Expunging, Removing
<1>3. Once(q_receivers)' /\ Marked' /\ Fresh'
  BY <1>1, <1>2 DEF ListsSame, Listed, Once, Marked, Fresh
<1>4. Waking'
  BY <1>1 DEF ListsSame, Listed, Waking, Kinds
<1>5. Waited'
  BY <1>1 DEF ListsSame, Listed, Waited
<1>6. ASSUME ~deleted', NEW i \in DOMAIN q_receivers' PROVE Entry(i, q_receivers[i])'
  <2>1. q_receivers[i] \in Receiver /\ Entry(i, q_receivers[i])
    BY <1>6 DEF ListsSame, Listed, Kinds
  <2> QED
    BY <1>2, <2>1 DEF ListsSame, Entry, Visited
<1> QED
  BY <1>3, <1>4, <1>5, <1>6 DEF Listed

(* While nobody expunges the list, its records are all alike. *)
LEMMA ListsQuiet ==
  ASSUME Calling, Kinds, Control, Listed, ~Expunging, ~deleted
  PROVE  \A r \in ToSet(q_receivers) :
           r \in Receiver /\ pc[r] \in Within /\ r_msg[r] = EAGAIN
<1>1. \A i \in DOMAIN q_receivers : q_receivers[i] \in Receiver
  BY DEF Kinds
<1> QED
  BY <1>1 DEF Listed, Entry, Visited, Removing, ToSet

(* With the lock free nobody is handing anything over. *)
LEMMA Unlocked ==
  ASSUME Calling, Kinds, Control, lock = Nobody
  PROVE  ~Expunging /\ \A t \in Task : pc[t] \notin {"wake", "store"}
BY Distinct, Labels DEF Control, InLock, Expunging

(* The list of a receiver that has the lock. *)
LEMMA OthersSet ==
  ASSUME Calling, Kinds, Control, Listed, NEW r \in Receiver, lock = Nobody,
         pc[r] \in {"spin", "relock"}, pc[r] = "relock" => r_msg[r] = EAGAIN
  PROVE  /\ Others(r) \in Seq(Receiver) /\ Once(Others(r))
         /\ pc[r] = "relock" => ~deleted
         /\ deleted => Others(r) = q_receivers
         /\ ~deleted => ToSet(Others(r)) = ToSet(q_receivers) \ {r}
<1>1. q_receivers \in Seq(Receiver) /\ Once(q_receivers)
  BY DEF Kinds, Listed
<1>2. CASE pc[r] = "spin"
  <2>1. ~deleted => r \notin ToSet(q_receivers)
    BY <1>2, Unlocked, ListsQuiet DEF Within
  <2> QED
    BY <1>1, <1>2, <2>1 DEF Others
<1>3. CASE pc[r] = "relock"
  <2>1. ~deleted
    BY <1>3 DEF Listed, Waited, Within
  <2>2. /\ Without(q_receivers, r) \in Seq(Receiver) /\ Once(Without(q_receivers, r))
        /\ ToSet(Without(q_receivers, r)) = ToSet(q_receivers) \ {r}
    BY <1>1, WithoutSet DEF Once
  <2> QED
    BY <1>3, <2>1, <2>2 DEF Others
<1> QED
  BY <1>2, <1>3

(* With the lock free a receiver leaves its call, or joins the list.  The   *)
(* others stay as they are.                                                 *)
ListsChange(r) ==
  /\ UNCHANGED <<deleted, target>> /\ count'[Ctl] = count[Ctl]
  /\ pc'[r] \in {"idle", "sleep"}
  /\ \A t \in Task \ {r} : pc'[t] = pc[t]
  /\ r_msg' = [r_msg EXCEPT ![r] = EAGAIN]
  /\ Once(q_receivers)'
  /\ pc'[r] = "sleep" => ~deleted
  /\ ~deleted => ToSet(q_receivers)' =
       IF pc'[r] = "sleep" THEN ToSet(q_receivers) \cup {r} ELSE ToSet(q_receivers) \ {r}

(* Such a step preserves the layer. *)
LEMMA ListsChanged ==
  ASSUME Calling, Kinds, Kinds', Control, Listed, NEW r \in Receiver, lock = Nobody,
         ListsChange(r)
  PROVE  Listed'
<1>1. ~Expunging /\ \A t \in Task : pc[t] \notin {"wake", "store"}
  BY Unlocked
<1>2. r \in Task /\ r # Ctl /\ Ctl \in Task /\ Receiver \subseteq Task
  BY Distinct
<1>3. pc'[Ctl] = pc[Ctl] /\ ~Expunging'
  BY <1>1, <1>2 DEF ListsChange, Expunging
<1>4. Marked'
  BY <1>3 DEF ListsChange, Listed, Marked
<1>5. Fresh'
  BY <1>2 DEF ListsChange, Listed, Fresh, Kinds
<1>6. Waking'
  BY <1>1 DEF ListsChange, Waking
<1>7. Waited'
  <2>1. SUFFICES ASSUME NEW x \in Receiver, pc'[x] \in Within, r_msg'[x] = EAGAIN
        PROVE  ~deleted' /\ x \in ToSet(q_receivers)'
    BY DEF Waited
  <2>2. CASE x = r
    BY <2>1, <2>2 DEF ListsChange, Within
  <2>3. CASE x # r
    <3>1. pc[x] \in Within /\ r_msg[x] = EAGAIN
      BY <1>2, <2>1, <2>3 DEF ListsChange, Kinds
    <3> QED
      BY <2>3, <3>1 DEF ListsChange, Listed, Waited
  <2> QED
    BY <2>2, <2>3
<1>8. ASSUME ~deleted', NEW i \in DOMAIN q_receivers' PROVE Entry(i, q_receivers[i])'
  <2>1. PICK x \in Receiver : x = q_receivers'[i] /\ x \in ToSet(q_receivers)'
    BY <1>8 DEF Kinds, ToSet
  <2>2. pc'[x] \in Within /\ r_msg'[x] = EAGAIN
    <3>1. CASE x = r
      BY <1>8, <2>1, <3>1 DEF ListsChange, Within, Kinds
    <3>2. CASE x # r
      <4>1. x \in ToSet(q_receivers)
        BY <1>8, <2>1, <3>2 DEF ListsChange
      <4>2. pc[x] \in Within /\ r_msg[x] = EAGAIN
        BY <1>1, <1>8, <4>1, ListsQuiet DEF ListsChange
      <4> QED
        BY <1>2, <3>2, <4>2 DEF ListsChange, Kinds
    <3> QED
      BY <3>1, <3>2
  <2> QED
    BY <1>3, <2>1, <2>2 DEF Entry, Visited, Removing
<1> QED
  BY <1>4, <1>5, <1>6, <1>7, <1>8 DEF Listed, ListsChange

(* A sender that holds the lock is alone with the lists. *)
LEMMA SenderAlone ==
  ASSUME Calling, Kinds, Control, NEW s \in Sender, pc[s] \in {"send", "wake", "store"}
  PROVE  /\ lock = s /\ ~Expunging /\ ~deleted
         /\ \A t \in Task \ {s} : pc[t] \notin {"wake", "store"}
BY Distinct, Labels DEF Control, InLock, Expunging

(* pipelined_send() takes receiver r off the list or gives it its result v. *)
ListsHand(s, r, v) ==
  /\ UNCHANGED deleted /\ count'[Ctl] = count[Ctl]
  /\ \A t \in Task \ {s} : pc'[t] = pc[t]
  /\ pc[r] \in Within /\ v # EAGAIN /\ r_msg' = [r_msg EXCEPT ![r] = v]
  /\ Once(q_receivers)' /\ ToSet(q_receivers)' = ToSet(q_receivers) \ {r}
  /\ pc'[s] \in {"wake", "store"} => v = NULL /\ target'[s] = r

(* So does this. *)
LEMMA ListsHanded ==
  ASSUME Calling, Kinds, Kinds', Control, Listed, NEW s \in Sender,
         pc[s] \in {"send", "wake", "store"}, NEW r \in Receiver, NEW v, ListsHand(s, r, v)
  PROVE  Listed'
<1>1. ~Expunging /\ ~deleted /\ \A t \in Task \ {s} : pc[t] \notin {"wake", "store"}
  BY SenderAlone
<1>2. /\ s \in Task /\ s # Ctl /\ Ctl \in Task /\ Receiver \subseteq Task
      /\ \A x \in Receiver : x # s
  BY Distinct
<1>3. pc'[Ctl] = pc[Ctl] /\ ~Expunging' /\ \A x \in Receiver : pc'[x] = pc[x]
  BY <1>1, <1>2 DEF ListsHand, Expunging
<1>4. r_msg'[r] = v /\ \A x \in Receiver \ {r} : r_msg'[x] = r_msg[x]
  BY DEF ListsHand, Kinds
<1>5. Marked'
  BY <1>3 DEF ListsHand, Listed, Marked
<1>6. Fresh'
  BY <1>3, <1>4 DEF ListsHand, Listed, Fresh, Within
<1>7. Waking'
  BY <1>1, <1>2, <1>3, <1>4 DEF ListsHand, Waking
<1>8. Waited'
  BY <1>1, <1>3, <1>4 DEF ListsHand, Listed, Waited
<1>9. ASSUME NEW i \in DOMAIN q_receivers' PROVE Entry(i, q_receivers[i])'
  <2>1. PICK x \in Receiver : x = q_receivers'[i] /\ x \in ToSet(q_receivers)'
    BY <1>9 DEF Kinds, ToSet
  <2>2. x # r /\ pc[x] \in Within /\ r_msg[x] = EAGAIN
    BY <1>1, <2>1, ListsQuiet DEF ListsHand
  <2> QED
    BY <1>3, <1>4, <2>1, <2>2 DEF Entry, Visited, Removing
<1> QED
  BY <1>5, <1>6, <1>7, <1>8, <1>9 DEF Listed, ListsHand

(* A sender takes a receiver off the list before it hands it anything. *)
LEMMA ListsSender ==
  ASSUME NEW s \in Sender, Calling, Kinds, Kinds', Control, Listed, SenderSteps(s)
  PROVE  Listed'
<1>1. ASSUME NEW m \in Outbox[s], NEW nowait \in BOOLEAN, msgsnd(s, m, nowait)
      PROVE  Listed'
  <2>1. ListsSame
    BY <1>1, Distinct, Labels
    DEF msgsnd, ipc_lock, Goto, ListsSame, Within, Kinds, Calling, queue, memory,
        grace, waiting, history
  <2> QED
    BY <2>1, ListsFrame
<1>2. ASSUME SendRefused(s) PROVE Listed'
  <2>1. ListsSame
    BY <1>2, Distinct, Labels
    DEF SendRefused, Tries, SendFails, ipc_unlock, rcu_read_unlock, Goto, ListsSame,
        Within, Kinds, Calling, queue, memory, grace, waiting, history
  <2> QED
    BY <2>1, ListsFrame
<1>3. ASSUME SendGoesOn(s) PROVE Listed'
  <2>1. ListsSame
    BY <1>3, Distinct, Labels
    DEF SendGoesOn, Tries, ipc_locked, Goto, ListsSame, Within, Kinds, Calling,
        queue, memory, grace, waiting, history
  <2> QED
    BY <2>1, ListsFrame
<1>4. ASSUME SendSleeps(s) PROVE Listed'
  <2>1. ListsSame
    BY <1>4, Distinct, Labels
    DEF SendSleeps, Tries, ipc_unlock, rcu_read_unlock, Goto, ListsSame, Within,
        Kinds, Calling, queue, memory, grace, waiting, history
  <2> QED
    BY <2>1, ListsFrame
<1>5. ASSUME SendAwake(s) PROVE Listed'
  <2>1. ListsSame
    BY <1>5, Distinct, Labels
    DEF SendAwake, ipc_locked, Goto, ListsSame, Within, Kinds, Calling, queue,
        memory, grace, waiting, history
  <2> QED
    BY <2>1, ListsFrame
<1>6. ASSUME SendPuts(s) PROVE Listed'
  <2>1. ListsSame
    BY <1>6, Distinct, Labels
    DEF SendPuts, ipc_rcu_putref, Grace, Goto, ListsSame, Within, Kinds, Calling,
        queue, memory, grace, waiting, history
  <2> QED
    BY <2>1, ListsFrame
<1>7. ASSUME PipelinedSend(s) PROVE Listed'
  <2>1. PICK k \in DOMAIN q_receivers :
          k = Min(Matching(req[s].m)) /\ q_receivers[k] \in Receiver
    BY <1>7, MatchingMin DEF PipelinedSend
  <2>2. PICK r \in Receiver : r = q_receivers[k] /\ r \in ToSet(q_receivers)
    BY <2>1 DEF ToSet
  <2>3. /\ q_receivers' = Without(q_receivers, r) /\ r_msg' = [r_msg EXCEPT ![r] = NULL]
        /\ target' = [target EXCEPT ![s] = r] /\ pc[s] = "send"
    BY <1>7, <2>1, <2>2 DEF PipelinedSend
  <2>4. Once(q_receivers)' /\ ToSet(q_receivers)' = ToSet(q_receivers) \ {r}
    <3>1. q_receivers \in Seq(Receiver) /\ Once(q_receivers)
      BY DEF Listed, Kinds
    <3>2. /\ Once(Without(q_receivers, r))
          /\ ToSet(Without(q_receivers, r)) = ToSet(q_receivers) \ {r}
      BY <3>1, WithoutSet DEF Once
    <3> QED
      BY <2>3, <3>2
  <2>5. pc[r] \in Within
    BY <2>2, <2>3, SenderAlone, ListsQuiet
  <2>6. NULL # EAGAIN
    BY DEF NULL, EAGAIN
  <2>7. target'[s] = r
    BY <2>3, Distinct DEF Kinds
  <2>8. ListsHand(s, r, NULL)
    BY <1>7, <2>3, <2>4, <2>5, <2>6, <2>7, Distinct, Labels
    DEF PipelinedSend, Goto, ListsHand, queue, memory
  <2> QED
    BY <2>3, <2>8, ListsHanded
<1>8. ASSUME WakeUp(s) PROVE Listed'
  <2>1. ListsSame
    BY <1>8, Distinct, Labels
    DEF WakeUp, Goto, ListsSame, Within, Kinds, Calling, queue, memory, grace,
        waiting, history
  <2> QED
    BY <2>1, ListsFrame
<1>9. ASSUME StoresError(s) PROVE Listed'
  <2>1. pc[s] = "store" /\ s \in Task
    BY <1>9, Distinct DEF StoresError
  <2>2. PICK r \in Receiver : r = target[s]
    BY <2>1 DEF Kinds
  <2>3. pc[r] \in Within /\ r \notin ToSet(q_receivers)
    BY <2>1, <2>2 DEF Listed, Waking
  <2>4. E2BIG # EAGAIN
    BY DEF E2BIG, EAGAIN
  <2>5. ListsHand(s, r, E2BIG)
    BY <1>9, <2>1, <2>2, <2>3, <2>4, Distinct, Labels
    DEF StoresError, Goto, ListsHand, Listed, Once, queue, memory
  <2> QED
    BY <2>1, <2>5, ListsHanded
<1>10. ASSUME StoresMessage(s) PROVE Listed'
  <2>1. pc[s] = "store" /\ s \in Task
    BY <1>10, Distinct DEF StoresMessage
  <2>2. PICK r \in Receiver : r = target[s]
    BY <2>1 DEF Kinds
  <2>3. pc[r] \in Within /\ r \notin ToSet(q_receivers)
    BY <2>1, <2>2 DEF Listed, Waking
  <2>4. req[s].m # EAGAIN
    BY <2>1, Distinct DEF Calling, SendArgs, Code
  <2>5. ListsHand(s, r, req[s].m)
    BY <1>10, <2>1, <2>2, <2>3, <2>4, Distinct, Labels
    DEF StoresMessage, SendDone, Goto, ListsHand, Listed, Once, queue, memory
  <2> QED
    BY <2>1, <2>5, ListsHanded
<1>11. ASSUME Enqueue(s) PROVE Listed'
  <2>1. ListsSame
    BY <1>11, Distinct, Labels
    DEF Enqueue, SendDone, ipc_unlock, rcu_read_unlock, Goto, ListsSame, Within,
        Kinds, Calling, queue, memory, grace, waiting, history
  <2> QED
    BY <2>1, ListsFrame
<1>12. ASSUME Signal(s) PROVE Listed'
  <2>1. ListsSame
    BY <1>12, Distinct, Labels
    DEF Signal, ListsSame, Within, Kinds, Calling, queue, memory, grace, waiting, history
  <2> QED
    BY <2>1, ListsFrame
<1> QED
  BY <1>1, <1>2, <1>3, <1>4, <1>5, <1>6, <1>7, <1>8, <1>9, <1>10, <1>11, <1>12
     DEF SenderSteps

(* A receiver leaves with what it was handed, or under the lock. *)
LEMMA ListsReceiver ==
  ASSUME NEW r \in Receiver, Calling, Kinds, Kinds', Control, Listed, ReceiverSteps(r)
  PROVE  Listed'
<1>1. ASSUME NEW a \in RecvReq[r], msgrcv(r, a) PROVE Listed'
  <2>1. ListsSame
    BY <1>1, Distinct, Labels, SMTT(60)
    DEF msgrcv, ipc_lock, Goto, ListsSame, Within, Kinds, Calling, queue, memory,
        grace, waiting, history
  <2> QED
    BY <2>1, ListsFrame
<1>2. ASSUME RecvRefused(r) PROVE Listed'
  <2>1. /\ Others(r) \in Seq(Receiver) /\ Once(Others(r))
        /\ pc[r] = "relock" => ~deleted
        /\ deleted => Others(r) = q_receivers
        /\ ~deleted => ToSet(Others(r)) = ToSet(q_receivers) \ {r}
    BY <1>2, OthersSet DEF RecvRefused, Looks
  <2>2. Once(q_receivers)' /\ (~deleted => ToSet(q_receivers)' = ToSet(q_receivers) \ {r})
    <3>1. CASE q_receivers' = Others(r)
      BY <2>1, <3>1 DEF Once
    <3>2. CASE deleted /\ q_receivers' = q_receivers
      BY <3>2 DEF Listed, Once
    <3> QED
      BY <1>2, <3>1, <3>2 DEF RecvRefused
  <2>3. ListsChange(r)
    BY <1>2, <2>2, Distinct, Labels
    DEF RecvRefused, Looks, RecvEnds, Goto, ListsChange, Kinds, memory
  <2> QED
    BY <1>2, <2>3, ListsChanged DEF RecvRefused, Looks
<1>3. ASSUME RecvTakes(r) PROVE Listed'
  <2>1. /\ Others(r) \in Seq(Receiver) /\ Once(Others(r))
        /\ pc[r] = "relock" => ~deleted
        /\ deleted => Others(r) = q_receivers
        /\ ~deleted => ToSet(Others(r)) = ToSet(q_receivers) \ {r}
    BY <1>3, OthersSet DEF RecvTakes, Looks
  <2>2. ListsChange(r)
    BY <1>3, <2>1, Distinct, Labels
    DEF RecvTakes, Looks, RecvEnds, rcu_read_unlock, ss_wakeup, Goto, ListsChange,
        Kinds, queue, memory, grace, waiting, history
  <2> QED
    BY <1>3, <2>2, ListsChanged DEF RecvTakes, Looks
<1>4. ASSUME RecvSleeps(r) PROVE Listed'
  <2>1. /\ Others(r) \in Seq(Receiver) /\ Once(Others(r))
        /\ pc[r] = "relock" => ~deleted
        /\ deleted => Others(r) = q_receivers
        /\ ~deleted => ToSet(Others(r)) = ToSet(q_receivers) \ {r}
    BY <1>4, OthersSet DEF RecvSleeps, Looks
  <2>2. /\ Once(Append(Others(r), r))
        /\ ToSet(Append(Others(r), r)) = ToSet(q_receivers) \cup {r}
    <3>1. ~deleted
      BY <1>4, <2>1 DEF RecvSleeps, Looks
    <3>2. r \notin ToSet(Others(r))
      BY <2>1, <3>1
    <3> QED
      BY <2>1, <3>1, <3>2, AppendSet DEF Once
  <2>3. ListsChange(r)
    BY <1>4, <2>1, <2>2, Distinct, Labels, SMTT(60)
    DEF RecvSleeps, Looks, rcu_read_unlock, Goto, ListsChange, Kinds, queue, memory,
        grace, waiting, history
  <2> QED
    BY <1>4, <2>3, ListsChanged DEF RecvSleeps, Looks
<1>5. ASSUME RecvAwake(r) PROVE Listed'
  <2>1. ListsSame
    BY <1>5, Distinct, Labels
    DEF RecvAwake, Goto, ListsSame, Within, Kinds, Calling, queue, memory, grace,
        waiting, history
  <2> QED
    BY <2>1, ListsFrame
<1>6. ASSUME RecvRelocks(r) PROVE Listed'
  <2>1. ListsSame
    BY <1>6, Distinct, Labels
    DEF RecvRelocks, Goto, ListsSame, Within, Kinds, Calling, queue, memory, grace,
        waiting, history
  <2> QED
    BY <2>1, ListsFrame
<1>7. ASSUME RecvHanded(r) PROVE Listed'
  <2>1. /\ r \in Task /\ Ctl \in Task /\ r # Ctl /\ Receiver \subseteq Task
        /\ pc[r] \in Within /\ r_msg[r] # EAGAIN
    BY <1>7, Distinct DEF RecvHanded, Within
  <2>2. \A t \in Task : pc[t] \in {"wake", "store"} => target[t] # r
    <3>1. CASE lock = Nobody
      BY <3>1, Unlocked
    <3>2. CASE r_msg[r] # NULL
      BY <3>2 DEF Listed, Waking
    <3> QED
      BY <1>7, <3>1, <3>2 DEF RecvHanded
  <2>3. ASSUME ~deleted, NEW i \in DOMAIN q_receivers, q_receivers[i] = r
        PROVE  Removing /\ Visited(i)
    <3>1. Entry(i, r)
      BY <2>3 DEF Listed
    <3> QED
      BY <2>1, <2>2, <3>1 DEF Entry
  <2>4. /\ UNCHANGED <<q_receivers, deleted, target, count>>
        /\ pc'[r] = "idle" /\ r_msg'[r] = EAGAIN
        /\ \A t \in Task \ {r} : pc'[t] = pc[t] /\ req'[t] = req[t]
        /\ \A x \in Receiver \ {r} : r_msg'[x] = r_msg[x]
    BY <1>7, <2>1, Labels DEF RecvHanded, RecvEnds, Goto, Kinds, Calling, queue, memory
  <2>5. (Expunging' <=> Expunging) /\ (Removing' <=> Removing)
    BY <2>1, <2>4 DEF Expunging, Removing
  <2>6. Once(q_receivers)' /\ Marked' /\ Fresh'
    BY <2>1, <2>4, <2>5 DEF Listed, Once, Marked, Fresh
  <2>7. Waking'
    BY <2>1, <2>2, <2>4 DEF Listed, Waking, Kinds
  <2>8. Waited'
    BY <2>1, <2>4 DEF Listed, Waited, Within
  <2>9. ASSUME ~deleted', NEW i \in DOMAIN q_receivers' PROVE Entry(i, q_receivers[i])'
    <3>1. q_receivers[i] \in Receiver /\ Entry(i, q_receivers[i])
      BY <2>4, <2>9 DEF Listed, Kinds
    <3>2. CASE q_receivers[i] # r
      BY <2>1, <2>4, <2>5, <3>1, <3>2 DEF Entry, Visited
    <3>3. CASE q_receivers[i] = r
      BY <2>3, <2>4, <2>5, <2>9, <3>3 DEF Entry, Visited, Within
    <3> QED
      BY <3>2, <3>3
  <2> QED
    BY <2>6, <2>7, <2>8, <2>9 DEF Listed
<1>8. ASSUME Signal(r) PROVE Listed'
  <2>1. ListsSame
    BY <1>8, Distinct, Labels
    DEF Signal, ListsSame, Within, Kinds, Calling, queue, memory, grace, waiting, history
  <2> QED
    BY <2>1, ListsFrame
<1> QED
  BY <1>1, <1>2, <1>3, <1>4, <1>5, <1>6, <1>7, <1>8 DEF ReceiverSteps

(* expunge_all() visits the list from its head, and everybody on it. *)
LEMMA ListsCtl ==
  ASSUME Calling, Kinds, Kinds', Control, Listed, CtlSteps
  PROVE  Listed'
<1>1. ASSUME NEW a \in CtlReq, msgctl(a) PROVE Listed'
  BY <1>1, Distinct, Labels, SMTT(60)
  DEF msgctl, ipc_lock, Goto, Control, InLock, Listed, Once, Marked, Fresh,
      Waking, Waited, Entry, Visited, Removing, Expunging, Within, Kinds, Code,
      Others, queue, memory, grace, waiting, history
<1>2. ASSUME CtlLocked PROVE Listed'
  BY <1>2, Distinct, Labels, SMTT(60)
  DEF CtlLocked, ipc_locked, Goto, Control, InLock, Listed, Once, Marked,
      Fresh, Waking, Waited, Entry, Visited, Removing, Expunging, Within, Kinds,
      Code, Others, queue, memory, grace, waiting, history
<1>3. ASSUME ExpungeNull PROVE Listed'
  <2>1. /\ pc[Ctl] = "expunge" /\ Expunging /\ ~deleted
        /\ Ctl \in Task /\ Receiver \subseteq Task
    BY <1>3, Distinct DEF ExpungeNull, Expunging, Control
  <2>2. \A t \in Task : pc[t] \notin {"wake", "store"}
    BY <2>1, Distinct, Labels DEF Control, InLock
  <2>3. PICK c \in Nat : c = count[Ctl] /\ c < Len(q_receivers)
    BY <1>3, <2>1 DEF ExpungeNull, Expunged, Kinds
  <2>4. c + 1 \in DOMAIN q_receivers
    BY <2>3 DEF Kinds
  <2>5. PICK r \in Receiver : r = q_receivers[c + 1]
    BY <2>4 DEF Kinds
  <2>6. pc[r] \in Within /\ r_msg[r] = EAGAIN
    BY <2>1, <2>3, <2>4, <2>5 DEF Listed, Entry, Visited
  <2>7. /\ UNCHANGED <<q_receivers, deleted, req>>
        /\ pc'[Ctl] = "wake" /\ count'[Ctl] = c + 1 /\ target'[Ctl] = r /\ r_msg'[r] = NULL
        /\ \A t \in Task \ {Ctl} : pc'[t] = pc[t] /\ target'[t] = target[t]
        /\ \A x \in Receiver \ {r} : r_msg'[x] = r_msg[x]
    <3>1. q_receivers[count[Ctl] + Expunged + 1] = r /\ count[Ctl] + 1 = c + 1
      BY <2>3, <2>5 DEF Expunged
    <3>2. /\ r_msg' = [r_msg EXCEPT ![r] = NULL] /\ target' = [target EXCEPT ![Ctl] = r]
          /\ count' = [count EXCEPT ![Ctl] = c + 1]
      BY <1>3, <3>1 DEF ExpungeNull
    <3> QED
      BY <1>3, <2>1, <3>2, Labels DEF ExpungeNull, Goto, Kinds, queue
  <2>8. Expunging' /\ (Removing' <=> Removing) /\ \A x \in Receiver : pc'[x] = pc[x]
    BY <2>1, <2>7, Distinct DEF Expunging, Removing
  <2>9. Once(q_receivers)' /\ Marked'
    BY <2>3, <2>4, <2>7, <2>8, SMTT(60) DEF Listed, Once, Marked, Kinds
  <2>10. Fresh'
    BY <2>6, <2>7, <2>8 DEF Listed, Fresh, Within
  <2>11. Waking'
    BY <2>1, <2>2, <2>5, <2>6, <2>7, <2>8, Distinct DEF Waking
  <2>12. Waited'
    BY <2>7, <2>8 DEF Listed, Waited, NULL, EAGAIN
  <2>13. ASSUME NEW i \in DOMAIN q_receivers' PROVE Entry(i, q_receivers[i])'
    <3>1. i \in DOMAIN q_receivers /\ i \in Nat /\ q_receivers[i] \in Receiver
      <4>1. i \in DOMAIN q_receivers
        BY <2>7, <2>13
      <4> QED
        BY <4>1, SMTT(60) DEF Kinds
    <3>2. Entry(i, q_receivers[i]) /\ q_receivers[i] \in Receiver /\ i \in DOMAIN q_receivers
      BY <2>1, <3>1 DEF Listed
    <3>3. CASE i = c + 1
      BY <2>5, <2>6, <2>7, <2>8, <3>3 DEF Entry, Visited
    <3>4. CASE i # c + 1
      <4>1. q_receivers[i] # r
        BY <2>4, <2>5, <3>2, <3>4 DEF Listed, Once
      <4>2. Visited(i)' <=> Visited(i)
        BY <2>1, <2>3, <2>7, <2>8, <3>1, <3>4 DEF Visited
      <4> QED
        BY <2>1, <2>7, <2>8, <3>2, <4>1, <4>2 DEF Entry
    <3> QED
      BY <3>3, <3>4
  <2> QED
    BY <2>9, <2>10, <2>11, <2>12, <2>13 DEF Listed
<1>4. ASSUME WakeUp(Ctl) PROVE Listed'
  <2>1. ListsSame
    BY <1>4, Distinct, Labels
    DEF WakeUp, Goto, ListsSame, Within, Kinds, Calling, queue, memory, grace,
        waiting, history
  <2> QED
    BY <2>1, ListsFrame
<1>5. ASSUME ExpungeStore PROVE Listed'
  <2>1. /\ pc[Ctl] = "store" /\ Expunging /\ ~deleted
        /\ Ctl \in Task /\ Receiver \subseteq Task
    BY <1>5, Distinct DEF ExpungeStore, Expunging, Control
  <2>2. \A t \in Task \ {Ctl} : pc[t] \notin {"wake", "store"}
    BY <2>1, Distinct, Labels DEF Control, InLock
  <2>3. PICK r \in Receiver : r = target[Ctl]
    BY <2>1 DEF Kinds
  <2>4. PICK c \in 1..Len(q_receivers) : c = count[Ctl] /\ r = q_receivers[c]
    <3>1. count[Ctl] \in 0..Len(q_receivers) /\ count[Ctl] >= 1
      BY <2>1 DEF Listed, Waking, Marked
    <3>2. r = q_receivers[count[Ctl]]
      BY <2>1, <2>3 DEF Listed, Waking
    <3> QED
      BY <3>1, <3>2 DEF Kinds
  <2>5. pc[r] \in Within
    BY <2>1, <2>3 DEF Listed, Waking
  <2>6. req[Ctl].cmd \in {"IPC_SET", "IPC_RMID"}
    BY <2>1 DEF Calling, CtlArgs
  <2>7. /\ UNCHANGED <<q_receivers, deleted, req, count>>
        /\ pc'[Ctl] = "expunge" /\ r_msg'[r] = IF Removing THEN EIDRM ELSE EAGAIN
        /\ \A t \in Task \ {Ctl} : pc'[t] = pc[t] /\ target'[t] = target[t]
        /\ \A x \in Receiver \ {r} : r_msg'[x] = r_msg[x]
    <3>1. PICK v : v = IF Removing THEN EIDRM ELSE EAGAIN
      OBVIOUS
    <3>2. v = IF req[Ctl].cmd = "IPC_SET" THEN EAGAIN ELSE EIDRM
      BY <2>1, <2>6, <3>1 DEF Removing
    <3>3. r_msg' = [r_msg EXCEPT ![r] = v]
      BY <1>5, <2>3, <3>2 DEF ExpungeStore
    <3>4. r_msg'[r] = v /\ \A x \in Receiver \ {r} : r_msg'[x] = r_msg[x]
      BY <3>3 DEF Kinds
    <3>5. /\ pc' = [pc EXCEPT ![Ctl] = "expunge"]
          /\ target' = [target EXCEPT ![Ctl] = Nobody]
          /\ UNCHANGED <<q_receivers, deleted, req, count>>
      BY <1>5 DEF ExpungeStore, Goto, queue, memory
    <3>6. /\ pc'[Ctl] = "expunge"
          /\ \A t \in Task \ {Ctl} : pc'[t] = pc[t] /\ target'[t] = target[t]
      <4>1. pc'[Ctl] = "expunge" /\ \A t \in Task \ {Ctl} : pc'[t] = pc[t]
        BY <2>1, <3>5, Labels
      <4>2. target \in [Task -> Receiver \cup {Nobody}]
        BY DEF Kinds
      <4>3. \A t \in Task \ {Ctl} : target'[t] = target[t]
        BY <3>5, <4>2
      <4> QED
        BY <4>1, <4>3
    <3> QED
      BY <3>1, <3>4, <3>5, <3>6
  <2>8. Expunging' /\ (Removing' <=> Removing) /\ \A x \in Receiver : pc'[x] = pc[x]
    BY <2>1, <2>7, Distinct DEF Expunging, Removing
  <2>9. Once(q_receivers)' /\ Marked'
    BY <2>1, <2>7, <2>8 DEF Listed, Once, Marked
  <2>10. Fresh'
    BY <2>5, <2>7, <2>8 DEF Listed, Fresh, Within
  <2>11. Waking'
    BY <2>1, <2>2, <2>7 DEF Waking
  <2>12. Waited'
    <3>1. r \in ToSet(q_receivers)
      BY <2>4 DEF ToSet, Kinds
    <3> QED
      BY <2>1, <2>7, <2>8, <3>1 DEF Listed, Waited
  <2>13. ASSUME NEW i \in DOMAIN q_receivers' PROVE Entry(i, q_receivers[i])'
    <3>1. i \in DOMAIN q_receivers /\ i \in Nat /\ q_receivers[i] \in Receiver
      <4>1. i \in DOMAIN q_receivers
        BY <2>7, <2>13
      <4> QED
        BY <4>1, SMTT(60) DEF Kinds
    <3>2. Entry(i, q_receivers[i]) /\ q_receivers[i] \in Receiver /\ i \in DOMAIN q_receivers
      BY <2>1, <3>1 DEF Listed
    <3>3. CASE i = c
      BY <2>4, <2>5, <2>7, <2>8, <3>3 DEF Entry, Visited
    <3>4. CASE i # c
      <4>1. q_receivers[i] # r
        BY <2>4, <3>2, <3>4 DEF Listed, Once, Kinds
      <4>2. Visited(i)' <=> Visited(i)
        BY <2>1, <2>7, <2>8 DEF Visited
      <4> QED
        BY <2>3, <2>7, <2>8, <3>2, <4>1, <4>2 DEF Entry
    <3> QED
      BY <3>3, <3>4
  <2> QED
    BY <2>9, <2>10, <2>11, <2>12, <2>13 DEF Listed
<1>6. ASSUME CtlUnlock PROVE Listed'
  <2>1. /\ pc[Ctl] = "expunge" /\ Expunging /\ ~deleted
        /\ Ctl \in Task /\ Receiver \subseteq Task
    BY <1>6, Distinct DEF CtlUnlock, Expunging, Control
  <2>2. \A t \in Task : pc[t] \notin {"wake", "store"}
    BY <2>1, Distinct, Labels DEF Control, InLock
  <2>3. req[Ctl].cmd \in {"IPC_SET", "IPC_RMID"}
    BY <2>1 DEF Calling, CtlArgs
  <2>4. /\ UNCHANGED <<q_receivers, r_msg>> /\ count'[Ctl] = 0
        /\ deleted' = Removing /\ pc'[Ctl] = IF Removing THEN "free" ELSE "idle"
        /\ \A t \in Task \ {Ctl} : pc'[t] = pc[t]
    BY <1>6, <2>1, <2>3, Labels, SMTT(60) DEF CtlUnlock, Goto, Kinds, Removing
  <2>5. ~Expunging' /\ \A x \in Receiver : pc'[x] = pc[x]
    BY <2>1, <2>4, Distinct DEF Expunging
  <2>6. ASSUME NEW i \in DOMAIN q_receivers
        PROVE  /\ q_receivers[i] \in Receiver
               /\ pc[q_receivers[i]] \in Within =>
                    r_msg[q_receivers[i]] = IF Removing THEN EIDRM ELSE EAGAIN
               /\ ~Removing => pc[q_receivers[i]] \in Within
    <3>1. Visited(i)
      BY <1>6, <2>1, <2>6 DEF CtlUnlock, Expunged, Visited, Kinds
    <3>2. Entry(i, q_receivers[i]) /\ q_receivers[i] \in Receiver
      BY <2>1, <2>6 DEF Listed, Kinds
    <3> QED
      BY <2>1, <3>1, <3>2 DEF Entry
  <2>7. Once(q_receivers)' /\ Marked' /\ Fresh' /\ Waking'
    BY <2>1, <2>2, <2>4, <2>5 DEF Listed, Once, Marked, Fresh, Waking
  <2>8. Waited'
    <3>1. SUFFICES ASSUME NEW x \in Receiver, pc'[x] \in Within, r_msg'[x] = EAGAIN
          PROVE  ~deleted' /\ x \in ToSet(q_receivers)'
      BY DEF Waited
    <3>2. PICK i \in DOMAIN q_receivers : x = q_receivers[i]
      BY <2>4, <2>5, <3>1 DEF Listed, Waited, ToSet
    <3>3. ~Removing
      BY <2>4, <2>5, <2>6, <3>1, <3>2 DEF EIDRM, EAGAIN
    <3> QED
      BY <2>4, <3>2, <3>3 DEF ToSet
  <2>9. ASSUME ~deleted', NEW i \in DOMAIN q_receivers' PROVE Entry(i, q_receivers[i])'
    BY <2>4, <2>5, <2>6, <2>9 DEF Entry, Visited, Removing
  <2> QED
    BY <2>7, <2>8, <2>9 DEF Listed
<1>7. ASSUME FreeMessages PROVE Listed'
  BY <1>7, Distinct, Labels
  DEF FreeMessages, Goto, Control, InLock, Listed, Once, Marked, Fresh,
      Waking, Waited, Entry, Visited, Removing, Expunging, Within, Kinds, Code,
      Others, queue, memory, grace, waiting, history
<1>8. ASSUME CtlPuts PROVE Listed'
  BY <1>8, Distinct, Labels
  DEF CtlPuts, ipc_rcu_putref, Grace, Goto, Control, InLock, Listed, Once,
      Marked, Fresh, Waking, Waited, Entry, Visited, Removing, Expunging, Within,
      Kinds, Code, Others, queue, memory, grace, waiting, history
<1> QED
  BY <1>1, <1>2, <1>3, <1>4, <1>5, <1>6, <1>7, <1>8 DEF CtlSteps

-----------------------------------------------------------------------------
(* Counted. *)

(* There are as many references as a number says. *)
LEMMA SleepersFinite ==
  IsFiniteSet(Sleepers) /\ Cardinality(Sleepers) \in Nat /\ References \in Nat
<1>1. IsFiniteSet(Sleepers)
  BY IpcMsgAssumption, FS_Subset DEF Sleepers
<1>2. Cardinality(Sleepers) \in Nat
  BY <1>1, FS_CardinalityType
<1> QED
  BY <1>1, <1>2 DEF References, Own

(* While there is a reference nobody has called call_rcu(). *)
LEMMA NotCalled ==
  ASSUME Counted, \/ ~deleted \/ pc[Ctl] # "idle"
                  \/ \E s \in Sender : pc[s] \in {"sleep", "put"}
  PROVE  ~called
<1>1. CASE ~deleted \/ pc[Ctl] # "idle"
  BY <1>1, SleepersFinite DEF Counted, References, Own
<1>2. ASSUME NEW s \in Sender, pc[s] \in {"sleep", "put"} PROVE ~called
  <2>1. Cardinality(Sleepers) # 0
    BY <1>2, SleepersFinite, FS_EmptySet DEF Sleepers
  <2>2. Own \in Nat
    BY DEF Own
  <2> QED
    BY <2>1, <2>2, SleepersFinite DEF Counted, References
<1> QED
  BY <1>1, <1>2

(* Steps that take no reference and drop none. *)
CountsSame ==
  /\ Sleepers' = Sleepers /\ Own' = Own /\ UNCHANGED <<refcount, called>>
  /\ \A t \in Task : pc'[t] = "put" =>
       (pc[t] = "put" /\ count'[t] = count[t]) \/ count'[t] = refcount
  /\ \A t \in Task \ {Ctl} : count'[t] = count[t] \/ count'[t] = refcount
  /\ called => \A t \in Task : Uses(t)' => Uses(t) /\ (t \in blockers => t \in blockers')

(* They preserve the layer. *)
LEMMA CountsFrame ==
  ASSUME Kinds, Counted, CountsSame
  PROVE  Counted'
<1>1. PICK n \in Nat : n = References /\ n = References'
  BY SleepersFinite DEF CountsSame, References
<1>2. PICK k \in Int : k = refcount /\ k = refcount' /\ k >= n
  BY <1>1 DEF CountsSame, Counted, Kinds
<1>3. \A t \in Task : pc'[t] = "put" => count'[t] >= n
  BY <1>1, <1>2 DEF CountsSame, Counted
<1>4. \A t \in Task \ {Ctl} : count'[t] >= 0
  BY <1>1, <1>2 DEF CountsSame, Counted
<1>5. called' => n = 0 /\ \A t \in Task : Uses(t)' => t \in blockers'
  BY <1>1 DEF CountsSame, Counted
<1> QED
  BY <1>1, <1>2, <1>3, <1>4, <1>5 DEF Counted

(* ss_add() with ipc_rcu_getref(), and ipc_rcu_putref() in two steps. *)
LEMMA CountsSender ==
  ASSUME NEW s \in Sender, Calling, Kinds, Control, Listed, Counted, SenderSteps(s)
  PROVE  Counted'
<1>1. ASSUME NEW m \in Outbox[s], NEW nowait \in BOOLEAN, msgsnd(s, m, nowait)
      PROVE  Counted'
  <2>1. CountsSame
    BY <1>1, Distinct, Labels, NotCalled
    DEF msgsnd, ipc_lock, Goto, CountsSame, Sleepers, Own, Uses, InLock,
        Control, Kinds, queue, memory, grace, waiting, history
  <2> QED
    BY <2>1, CountsFrame
<1>2. ASSUME SendRefused(s) PROVE Counted'
  <2>1. CountsSame
    BY <1>2, Distinct, Labels, NotCalled
    DEF SendRefused, Tries, SendFails, ipc_unlock, rcu_read_unlock, Goto,
        CountsSame, Sleepers, Own, Uses, InLock, Control, Kinds, queue, memory,
        grace, waiting, history
  <2> QED
    BY <2>1, CountsFrame
<1>3. ASSUME SendGoesOn(s) PROVE Counted'
  <2>1. CountsSame
    BY <1>3, Distinct, Labels, NotCalled
    DEF SendGoesOn, Tries, ipc_locked, Goto, CountsSame, Sleepers, Own, Uses,
        InLock, Control, Kinds, queue, memory, grace, waiting, history
  <2> QED
    BY <2>1, CountsFrame
<1>4. ASSUME SendSleeps(s) PROVE Counted'
  <2>1. /\ s \in Sender /\ pc[s] \in {"spin", "again"} /\ ~deleted
        /\ \A t \in Task : pc[t] # "put"
    BY <1>4, Distinct, Labels DEF SendSleeps, Tries, Control, InLock
  <2>2. ~called
    BY <2>1, NotCalled
  <2>3. Sleepers' = Sleepers \cup {s} /\ s \notin Sleepers /\ Own' = Own
    BY <1>4, <2>1, Distinct, Labels
    DEF SendSleeps, Tries, Goto, Sleepers, Own, queue
  <2>4. Cardinality(Sleepers') = Cardinality(Sleepers) + 1
    BY <2>3, SleepersFinite, FS_AddElement
  <2>5. PICK n \in Nat, k \in Int : n = References /\ k = refcount /\ k >= n
    BY SleepersFinite DEF Counted, Kinds
  <2>6. PICK c \in Nat, o \in Nat : c = Cardinality(Sleepers) /\ o = Own /\ n = c + o
    BY <2>5, SleepersFinite DEF References, Own
  <2>7. References' = n + 1
    <3>1. Cardinality(Sleepers') = c + 1 /\ Own' = o
      BY <2>3, <2>4, <2>6
    <3> QED
      BY <2>6, <3>1 DEF References
  <2>8. refcount' = k + 1
    BY <1>4, <2>5 DEF SendSleeps
  <2>9. refcount' >= References'
    BY <2>5, <2>7, <2>8
  <2>10. /\ \A t \in Task : pc'[t] # "put"
         /\ UNCHANGED <<count, called>>
    BY <1>4, <2>1, Labels DEF SendSleeps, Tries, Goto
  <2> QED
    BY <2>2, <2>9, <2>10 DEF Counted
<1>5. ASSUME SendAwake(s) PROVE Counted'
  <2>1. CountsSame
    BY <1>5, Distinct, Labels, NotCalled
    DEF SendAwake, ipc_locked, Goto, CountsSame, Sleepers, Own, Uses, InLock,
        Control, Kinds, queue, memory, grace, waiting, history
  <2> QED
    BY <2>1, CountsFrame
<1>6. ASSUME SendPuts(s) PROVE Counted'
  <2>1. PICK n \in Nat, c \in Int : n = References /\ c = count[s] /\ c >= n
    BY <1>6, SleepersFinite, Distinct DEF SendPuts, Counted, Kinds
  <2>2. pc[s] = "put" /\ ~called /\ refcount' = c - 1
    BY <1>6, <2>1, NotCalled DEF SendPuts, ipc_rcu_putref
  <2>3. PICK l \in Nat, o \in Nat : l = Cardinality(Sleepers) /\ o = Own /\ n = l + o
    BY <2>1, SleepersFinite DEF References, Own
  <2>4. Sleepers' = Sleepers \ {s} /\ s \in Sleepers /\ Own' = Own
    BY <1>6, <2>2, Distinct, Labels DEF SendPuts, Goto, Sleepers, Own, queue
  <2>5. Cardinality(Sleepers') = l - 1
    BY <2>3, <2>4, SleepersFinite, FS_RemoveElement
  <2>6. References' = n - 1 /\ n - 1 \in Nat
    <3>1. Cardinality(Sleepers') = l - 1 /\ Own' = o
      BY <2>3, <2>4, <2>5
    <3>2. l - 1 \in Nat
      <4>1. l # 0
        BY <2>3, <2>4, SleepersFinite, FS_EmptySet
      <4> QED
        BY <4>1
    <3> QED
      BY <2>3, <3>1, <3>2 DEF References
  <2>7. /\ \A t \in Task \ {s} : pc'[t] = "put" => pc[t] = "put" /\ count'[t] = count[t]
        /\ pc'[s] # "put"
    BY <1>6, Distinct, Labels DEF SendPuts, ipc_rcu_putref, Goto, Kinds
  <2>8. \A t \in Task : pc'[t] = "put" => count'[t] >= n - 1
    <3>1. SUFFICES ASSUME NEW t \in Task, pc'[t] = "put" PROVE count'[t] >= n - 1
      OBVIOUS
    <3>2. pc[t] = "put" /\ count'[t] = count[t]
      BY <2>7, <3>1
    <3>3. PICK k \in Int : k = count[t] /\ k >= n
      BY <2>1, <3>2 DEF Counted, Kinds
    <3>4. k >= n - 1
      BY <3>3
    <3> QED
      BY <3>2, <3>3, <3>4
  <2>9. \A t \in Task \ {Ctl} : count'[t] >= 0
    BY <1>6, Distinct DEF SendPuts, ipc_rcu_putref, Counted, Kinds
  <2>10. ASSUME called' PROVE References' = 0 /\ \A t \in Task : Uses(t)' => t \in blockers'
    <3>1. ~(c - 1 > 0) /\ blockers' = rcu
      BY <1>6, <2>1, <2>2, <2>10 DEF SendPuts, ipc_rcu_putref, Grace
    <3>2. n - 1 = 0
      BY <2>1, <2>6, <3>1, SleepersFinite
    <3>3. \A t \in Task : Uses(t)' => t \in rcu
      BY <1>6, Distinct, Labels DEF SendPuts, Goto, Uses, InLock, Control
    <3> QED
      BY <2>6, <3>1, <3>2, <3>3
  <2> QED
    BY <2>1, <2>2, <2>6, <2>8, <2>9, <2>10 DEF Counted
<1>7. ASSUME PipelinedSend(s) PROVE Counted'
  <2>1. CountsSame
    BY <1>7, Distinct, Labels, NotCalled
    DEF PipelinedSend, Goto, CountsSame, Sleepers, Own, Uses, InLock, Control,
        Kinds, queue, memory, grace, waiting, history
  <2> QED
    BY <2>1, CountsFrame
<1>8. ASSUME WakeUp(s) PROVE Counted'
  <2>1. CountsSame
    BY <1>8, Distinct, Labels, NotCalled
    DEF WakeUp, Goto, CountsSame, Sleepers, Own, Uses, InLock, Control, Kinds,
        queue, memory, grace, waiting, history
  <2> QED
    BY <2>1, CountsFrame
<1>9. ASSUME StoresError(s) PROVE Counted'
  <2>1. CountsSame
    BY <1>9, Distinct, Labels, NotCalled
    DEF StoresError, Goto, CountsSame, Sleepers, Own, Uses, InLock, Control,
        Kinds, queue, memory, grace, waiting, history
  <2> QED
    BY <2>1, CountsFrame
<1>10. ASSUME StoresMessage(s) PROVE Counted'
  <2>1. CountsSame
    BY <1>10, Distinct, Labels, NotCalled
    DEF StoresMessage, SendDone, ipc_unlock, rcu_read_unlock, Goto,
        CountsSame, Sleepers, Own, Uses, InLock, Control, Kinds, queue, memory,
        grace, waiting, history
  <2> QED
    BY <2>1, CountsFrame
<1>11. ASSUME Enqueue(s) PROVE Counted'
  <2>1. CountsSame
    BY <1>11, Distinct, Labels, NotCalled
    DEF Enqueue, SendDone, ipc_unlock, rcu_read_unlock, Goto, CountsSame,
        Sleepers, Own, Uses, InLock, Control, Kinds, queue, memory, grace,
        waiting, history
  <2> QED
    BY <2>1, CountsFrame
<1>12. ASSUME Signal(s) PROVE Counted'
  <2>1. CountsSame
    BY <1>12, Distinct, Labels, NotCalled
    DEF Signal, CountsSame, Sleepers, Own, Uses, InLock, Control, Kinds,
        queue, memory, grace, waiting, history
  <2> QED
    BY <2>1, CountsFrame
<1> QED
  BY <1>1, <1>2, <1>3, <1>4, <1>5, <1>6, <1>7, <1>8, <1>9, <1>10, <1>11, <1>12
     DEF SenderSteps

(* Receivers take no reference: RCU keeps the queue for them. *)
LEMMA CountsReceiver ==
  ASSUME NEW r \in Receiver, Calling, Kinds, Control, Listed, Counted, ReceiverSteps(r)
  PROVE  Counted'
<1>1. ASSUME NEW a \in RecvReq[r], msgrcv(r, a) PROVE Counted'
  <2>1. CountsSame
    BY <1>1, Distinct, Labels, NotCalled
    DEF msgrcv, ipc_lock, Goto, CountsSame, Sleepers, Own, Uses, InLock,
        Control, Kinds, queue, memory, grace, waiting, history
  <2> QED
    BY <2>1, CountsFrame
<1>2. ASSUME RecvRefused(r) PROVE Counted'
  <2>1. CountsSame
    BY <1>2, Distinct, Labels, NotCalled
    DEF RecvRefused, Looks, RecvEnds, rcu_read_unlock, Goto, CountsSame,
        Sleepers, Own, Uses, InLock, Control, Kinds, queue, memory, grace,
        waiting, history
  <2> QED
    BY <2>1, CountsFrame
<1>3. ASSUME RecvTakes(r) PROVE Counted'
  <2>1. CountsSame
    BY <1>3, Distinct, Labels, NotCalled
    DEF RecvTakes, Looks, RecvEnds, rcu_read_unlock, ss_wakeup, Goto,
        CountsSame, Sleepers, Own, Uses, InLock, Control, Kinds, queue, memory,
        grace, waiting, history
  <2> QED
    BY <2>1, CountsFrame
<1>4. ASSUME RecvSleeps(r) PROVE Counted'
  <2>1. CountsSame
    BY <1>4, Distinct, Labels, NotCalled
    DEF RecvSleeps, Looks, rcu_read_unlock, Goto, CountsSame, Sleepers, Own,
        Uses, InLock, Control, Kinds, queue, memory, grace, waiting, history
  <2> QED
    BY <2>1, CountsFrame
<1>5. ASSUME RecvAwake(r) PROVE Counted'
  <2>1. CountsSame
    BY <1>5, Distinct, Labels, NotCalled, SMTT(60)
    DEF RecvAwake, Goto, CountsSame, Sleepers, Own, Uses, InLock, Control,
        Kinds, queue, memory, grace, waiting, history
  <2> QED
    BY <2>1, CountsFrame
<1>6. ASSUME RecvRelocks(r) PROVE Counted'
  <2>1. CountsSame
    BY <1>6, Distinct, Labels, NotCalled
    DEF RecvRelocks, Goto, Listed, Waited, Within, CountsSame, Sleepers, Own,
        Uses, InLock, Control, Kinds, queue, memory, grace, waiting, history
  <2> QED
    BY <2>1, CountsFrame
<1>7. ASSUME RecvHanded(r) PROVE Counted'
  <2>1. CountsSame
    BY <1>7, Distinct, Labels, NotCalled
    DEF RecvHanded, RecvEnds, rcu_read_unlock, Goto, CountsSame, Sleepers,
        Own, Uses, InLock, Control, Kinds, queue, memory, grace, waiting, history
  <2> QED
    BY <2>1, CountsFrame
<1>8. ASSUME Signal(r) PROVE Counted'
  <2>1. CountsSame
    BY <1>8, Distinct, Labels, NotCalled
    DEF Signal, CountsSame, Sleepers, Own, Uses, InLock, Control, Kinds,
        queue, memory, grace, waiting, history
  <2> QED
    BY <2>1, CountsFrame
<1> QED
  BY <1>1, <1>2, <1>3, <1>4, <1>5, <1>6, <1>7, <1>8 DEF ReceiverSteps

(* freeque() reads the count without the lock and drops the id's reference. *)
LEMMA CountsCtl ==
  ASSUME Calling, Kinds, Control, Listed, Counted, CtlSteps
  PROVE  Counted'
<1>1. ASSUME NEW a \in CtlReq, msgctl(a) PROVE Counted'
  <2>1. CountsSame
    BY <1>1, Distinct, Labels, NotCalled
    DEF msgctl, ipc_lock, Goto, CountsSame, Sleepers, Own, Uses, InLock,
        Control, Kinds, queue, memory, grace, waiting, history
  <2> QED
    BY <2>1, CountsFrame
<1>2. ASSUME CtlLocked PROVE Counted'
  <2>1. CountsSame
    BY <1>2, Distinct, Labels, NotCalled
    DEF CtlLocked, ipc_locked, Goto, CountsSame, Sleepers, Own, Uses, InLock,
        Control, Kinds, queue, memory, grace, waiting, history
  <2> QED
    BY <2>1, CountsFrame
<1>3. ASSUME ExpungeNull PROVE Counted'
  <2>1. CountsSame
    BY <1>3, Distinct, Labels, NotCalled
    DEF ExpungeNull, Expunged, Goto, CountsSame, Sleepers, Own, Uses, InLock,
        Control, Kinds, queue, memory, grace, waiting, history
  <2> QED
    BY <2>1, CountsFrame
<1>4. ASSUME WakeUp(Ctl) PROVE Counted'
  <2>1. CountsSame
    BY <1>4, Distinct, Labels, NotCalled
    DEF WakeUp, Goto, CountsSame, Sleepers, Own, Uses, InLock, Control, Kinds,
        queue, memory, grace, waiting, history
  <2> QED
    BY <2>1, CountsFrame
<1>5. ASSUME ExpungeStore PROVE Counted'
  <2>1. CountsSame
    BY <1>5, Distinct, Labels, NotCalled
    DEF ExpungeStore, Goto, CountsSame, Sleepers, Own, Uses, InLock, Control,
        Kinds, queue, memory, grace, waiting, history
  <2> QED
    BY <2>1, CountsFrame
<1>6. ASSUME CtlUnlock PROVE Counted'
  <2>1. CountsSame
    BY <1>6, Distinct, Labels, NotCalled
    DEF CtlUnlock, Expunged, ss_wakeup, ipc_unlock, rcu_read_unlock, Goto,
        CountsSame, Sleepers, Own, Uses, InLock, Control, Kinds, queue, memory,
        grace, waiting, history
  <2> QED
    BY <2>1, CountsFrame
<1>7. ASSUME FreeMessages PROVE Counted'
  <2>1. CountsSame
    BY <1>7, Distinct, Labels, NotCalled
    DEF FreeMessages, Goto, CountsSame, Sleepers, Own, Uses, InLock, Control,
        Kinds, queue, memory, grace, waiting, history
  <2> QED
    BY <2>1, CountsFrame
<1>8. ASSUME CtlPuts PROVE Counted'
  <2>1. PICK n \in Nat, c \in Int : n = References /\ c = count[Ctl] /\ c >= n
    BY <1>8, SleepersFinite, Distinct DEF CtlPuts, Counted, Kinds
  <2>2. pc[Ctl] = "put" /\ ~called /\ refcount' = c - 1
    BY <1>8, <2>1, NotCalled DEF CtlPuts, ipc_rcu_putref
  <2>3. PICK l \in Nat, o \in Nat : l = Cardinality(Sleepers) /\ o = Own /\ n = l + o
    BY <2>1, SleepersFinite DEF References, Own
  <2>4. Sleepers' = Sleepers
    BY <1>8, <2>2, Distinct, Labels DEF CtlPuts, Goto, Sleepers
  <2>5. Own = 1 /\ Own' = 0
    BY <1>8, <2>2, Distinct, Labels DEF CtlPuts, Goto, Own, Control, queue
  <2>6. References' = n - 1 /\ n - 1 \in Nat
    <3>1. Cardinality(Sleepers') = l /\ o = 1
      BY <2>3, <2>4, <2>5
    <3> QED
      BY <2>3, <2>5, <3>1 DEF References
  <2>7. /\ \A t \in Task \ {Ctl} : pc'[t] = "put" => pc[t] = "put" /\ count'[t] = count[t]
        /\ pc'[Ctl] # "put"
    BY <1>8, Distinct, Labels DEF CtlPuts, ipc_rcu_putref, Goto, Kinds
  <2>8. \A t \in Task : pc'[t] = "put" => count'[t] >= n - 1
    <3>1. SUFFICES ASSUME NEW t \in Task, pc'[t] = "put" PROVE count'[t] >= n - 1
      OBVIOUS
    <3>2. pc[t] = "put" /\ count'[t] = count[t]
      BY <2>7, <3>1
    <3>3. PICK k \in Int : k = count[t] /\ k >= n
      BY <2>1, <3>2 DEF Counted, Kinds
    <3>4. k >= n - 1
      BY <3>3
    <3> QED
      BY <3>2, <3>3, <3>4
  <2>9. \A t \in Task \ {Ctl} : count'[t] >= 0
    BY <1>8, Distinct DEF CtlPuts, ipc_rcu_putref, Counted, Kinds
  <2>10. ASSUME called' PROVE References' = 0 /\ \A t \in Task : Uses(t)' => t \in blockers'
    <3>1. ~(c - 1 > 0) /\ blockers' = rcu
      BY <1>8, <2>1, <2>2, <2>10 DEF CtlPuts, ipc_rcu_putref, Grace
    <3>2. n - 1 = 0
      BY <2>1, <2>6, <3>1, SleepersFinite
    <3>3. \A t \in Task : Uses(t)' => t \in rcu
      BY <1>8, Distinct, Labels DEF CtlPuts, Goto, Uses, InLock, Control
    <3> QED
      BY <2>6, <3>1, <3>2, <3>3
  <2> QED
    BY <2>1, <2>2, <2>6, <2>8, <2>9, <2>10 DEF Counted
<1> QED
  BY <1>1, <1>2, <1>3, <1>4, <1>5, <1>6, <1>7, <1>8 DEF CtlSteps

-----------------------------------------------------------------------------
(* Sending and Placed. *)

(* Steps that leave the senders alone. *)
LEMMA SendsFrame ==
  ASSUME Sending, UNCHANGED fate, \A s \in Sender : pc'[s] = pc[s] /\ req'[s] = req[s]
  PROVE  Sending'
BY DEF Sending

(* A message is sent once, by its sender. *)
LEMMA SendsSender ==
  ASSUME NEW s \in Sender, Calling, Kinds, Sending, Placed, SenderSteps(s)
  PROVE  Sending'
<1>1. ASSUME NEW m \in Outbox[s], NEW nowait \in BOOLEAN, msgsnd(s, m, nowait)
      PROVE  Sending'
  <2>1. m \in Msg /\ fate[m] = "new" /\ s \in Task
    BY <1>1, Distinct DEF msgsnd, Msg
  <2>2. req' = [req EXCEPT ![s] = [m |-> m, nowait |-> nowait]]
    BY <1>1 DEF msgsnd, ipc_lock
  <2>3. req'[s].m = m /\ \A t \in Sender \ {s} : req'[t] = req[t] /\ pc'[t] = pc[t]
    BY <1>1, <2>1, <2>2, Distinct, Labels DEF msgsnd, ipc_lock, Goto, Calling
  <2>4. fate'[m] = "sending" /\ \A x \in Msg \ {m} : fate'[x] = fate[x]
    BY <1>1, <2>1 DEF msgsnd, Kinds
  <2>5. \A t \in Sender \ {s} : pc[t] # "idle" => req[t].m \in Msg \ {m}
    BY <2>1 DEF Sending, Calling, SendArgs
  <2> QED
    BY <2>3, <2>4, <2>5 DEF Sending
<1>2. ASSUME SendRefused(s) PROVE Sending'
  BY <1>2, Distinct, Labels, IpcMsgAssumption
  DEF SendRefused, Tries, SendFails, ipc_unlock, rcu_read_unlock, Goto,
      Sending, SendArgs, Calling, Kinds, queue, history, waiting
<1>3. ASSUME SendGoesOn(s) PROVE Sending'
  BY <1>3, Distinct, Labels, IpcMsgAssumption
  DEF SendGoesOn, Tries, ipc_locked, Goto, Sending, SendArgs, Calling, Kinds,
      queue, history, waiting
<1>4. ASSUME SendSleeps(s) PROVE Sending'
  BY <1>4, Distinct, Labels, IpcMsgAssumption
  DEF SendSleeps, Tries, ipc_unlock, rcu_read_unlock, Goto, Sending, SendArgs,
      Calling, Kinds, queue, history, waiting
<1>5. ASSUME SendAwake(s) PROVE Sending'
  BY <1>5, Distinct, Labels, IpcMsgAssumption
  DEF SendAwake, ipc_locked, Goto, Sending, SendArgs, Calling, Kinds, queue,
      history, waiting
<1>6. ASSUME SendPuts(s) PROVE Sending'
  BY <1>6, Distinct, Labels, IpcMsgAssumption
  DEF SendPuts, ipc_rcu_putref, Grace, Goto, Sending, SendArgs, Calling,
      Kinds, queue, history, waiting
<1>7. ASSUME PipelinedSend(s) PROVE Sending'
  BY <1>7, Distinct, Labels, IpcMsgAssumption
  DEF PipelinedSend, Goto, Sending, SendArgs, Calling, Kinds, queue, history,
      waiting
<1>8. ASSUME WakeUp(s) PROVE Sending'
  BY <1>8, Distinct, Labels, IpcMsgAssumption
  DEF WakeUp, Goto, Sending, SendArgs, Calling, Kinds, queue, history, waiting
<1>9. ASSUME StoresError(s) PROVE Sending'
  BY <1>9, Distinct, Labels, IpcMsgAssumption
  DEF StoresError, Goto, Sending, SendArgs, Calling, Kinds, queue, history,
      waiting
<1>10. ASSUME StoresMessage(s) PROVE Sending'
  BY <1>10, Distinct, Labels, IpcMsgAssumption
  DEF StoresMessage, SendDone, ipc_unlock, rcu_read_unlock, Goto, Sending,
      SendArgs, Calling, Kinds, queue, history, waiting
<1>11. ASSUME Enqueue(s) PROVE Sending'
  BY <1>11, Distinct, Labels, IpcMsgAssumption
  DEF Enqueue, SendDone, ipc_unlock, rcu_read_unlock, Goto, Sending, SendArgs,
      Calling, Kinds, queue, history, waiting
<1>12. ASSUME Signal(s) PROVE Sending'
  BY <1>12, Distinct, Labels, IpcMsgAssumption
  DEF Signal, Sending, SendArgs, Calling, Kinds, queue, history, waiting
<1> QED
  BY <1>1, <1>2, <1>3, <1>4, <1>5, <1>6, <1>7, <1>8, <1>9, <1>10, <1>11, <1>12
     DEF SenderSteps

(* A receiver changes no sender. *)
LEMMA SendsReceiver ==
  ASSUME NEW r \in Receiver, Calling, Kinds, Sending, Placed, ReceiverSteps(r)
  PROVE  Sending'
<1>1. ASSUME NEW a \in RecvReq[r], msgrcv(r, a) PROVE Sending'
  BY <1>1, Distinct, Labels, SendsFrame DEF msgrcv, ipc_lock, Goto, Calling
<1>2. ASSUME RecvRefused(r) PROVE Sending'
  BY <1>2, Distinct, Labels, IpcMsgAssumption
  DEF RecvRefused, Looks, RecvEnds, rcu_read_unlock, Goto, Sending, SendArgs,
      Calling, Kinds, queue, history, waiting
<1>3. ASSUME RecvTakes(r) PROVE Sending'
  BY <1>3, Distinct, Labels, IpcMsgAssumption
  DEF RecvTakes, Looks, RecvEnds, rcu_read_unlock, ss_wakeup, Goto, Sending,
      SendArgs, Calling, Kinds, queue, history, waiting
<1>4. ASSUME RecvSleeps(r) PROVE Sending'
  BY <1>4, Distinct, Labels, IpcMsgAssumption
  DEF RecvSleeps, Looks, rcu_read_unlock, Goto, Sending, SendArgs, Calling,
      Kinds, queue, history, waiting
<1>5. ASSUME RecvAwake(r) PROVE Sending'
  BY <1>5, Distinct, Labels, IpcMsgAssumption
  DEF RecvAwake, Goto, Sending, SendArgs, Calling, Kinds, queue, history,
      waiting
<1>6. ASSUME RecvRelocks(r) PROVE Sending'
  BY <1>6, Distinct, Labels, IpcMsgAssumption
  DEF RecvRelocks, Goto, Sending, SendArgs, Calling, Kinds, queue, history,
      waiting
<1>7. ASSUME RecvHanded(r) PROVE Sending'
  BY <1>7, Distinct, Labels, IpcMsgAssumption
  DEF RecvHanded, RecvEnds, rcu_read_unlock, Goto, Sending, SendArgs, Calling,
      Kinds, queue, history, waiting
<1>8. ASSUME Signal(r) PROVE Sending'
  BY <1>8, Distinct, Labels, IpcMsgAssumption
  DEF Signal, Sending, SendArgs, Calling, Kinds, queue, history, waiting
<1> QED
  BY <1>1, <1>2, <1>3, <1>4, <1>5, <1>6, <1>7, <1>8 DEF ReceiverSteps

(* Nor does msgctl(): what freeque() purges was accepted. *)
LEMMA SendsCtl ==
  ASSUME Calling, Kinds, Sending, Placed, CtlSteps
  PROVE  Sending'
<1>1. ASSUME NEW a \in CtlReq, msgctl(a) PROVE Sending'
  BY <1>1, Distinct, Labels, IpcMsgAssumption, SMTT(60)
  DEF msgctl, ipc_lock, Goto, Sending, SendArgs, Calling, Kinds, queue,
      history, waiting
<1>2. ASSUME CtlLocked PROVE Sending'
  BY <1>2, Distinct, Labels, IpcMsgAssumption
  DEF CtlLocked, ipc_locked, Goto, Sending, SendArgs, Calling, Kinds, queue,
      history, waiting
<1>3. ASSUME ExpungeNull PROVE Sending'
  BY <1>3, Distinct, Labels, IpcMsgAssumption
  DEF ExpungeNull, Expunged, Goto, Sending, SendArgs, Calling, Kinds, queue,
      history, waiting
<1>4. ASSUME WakeUp(Ctl) PROVE Sending'
  BY <1>4, Distinct, Labels, IpcMsgAssumption
  DEF WakeUp, Goto, Sending, SendArgs, Calling, Kinds, queue, history, waiting
<1>5. ASSUME ExpungeStore PROVE Sending'
  BY <1>5, Distinct, Labels, IpcMsgAssumption
  DEF ExpungeStore, Goto, Sending, SendArgs, Calling, Kinds, queue, history,
      waiting
<1>6. ASSUME CtlUnlock PROVE Sending'
  BY <1>6, Distinct, Labels, SendsFrame DEF CtlUnlock, Goto, Calling, history
<1>7. ASSUME FreeMessages PROVE Sending'
  BY <1>7, Distinct, Labels
  DEF FreeMessages, Goto, Sending, SendArgs, Calling, Placed, Somewhere,
      Queued, Kinds
<1>8. ASSUME CtlPuts PROVE Sending'
  BY <1>8, Distinct, Labels, IpcMsgAssumption
  DEF CtlPuts, ipc_rcu_putref, Grace, Goto, Sending, SendArgs, Calling, Kinds,
      queue, history, waiting
<1> QED
  BY <1>1, <1>2, <1>3, <1>4, <1>5, <1>6, <1>7, <1>8 DEF CtlSteps

(* Steps that move no message. *)
PlacesSame ==
  /\ UNCHANGED <<q_messages, got>>
  /\ \A r \in Receiver, m \in Msg : (r_msg'[r] = m) <=> (r_msg[r] = m)
  /\ \A m \in Msg : (fate'[m] = "accepted") <=> (fate[m] = "accepted")

(* They preserve the layer. *)
LEMMA PlacesFrame ==
  ASSUME Kinds, Kinds', Placed, PlacesSame
  PROVE  Placed'
<1>1. \A m \in Msg : (Queued(m)' <=> Queued(m)) /\ (Held(m)' <=> Held(m))
  BY DEF PlacesSame, Queued, Held
<1>2. \A m \in Msg : Somewhere(m)'
  BY <1>1 DEF PlacesSame, Placed, Somewhere
<1>3. \A r, q \in Receiver : r_msg'[r] \in Msg /\ r_msg'[r] = r_msg'[q] => r = q
  BY DEF PlacesSame, Placed
<1> QED
  BY <1>2, <1>3 DEF PlacesSame, Placed, Once

(* A result that is not a message replaces another. *)
LEMMA PlacesCode ==
  ASSUME Kinds, Placed, NEW x \in Receiver, NEW v, v \notin Msg, r_msg[x] \notin Msg,
         r_msg' = [r_msg EXCEPT ![x] = v], UNCHANGED <<q_messages, got>>,
         \A m \in Msg : (fate'[m] = "accepted") <=> (fate[m] = "accepted")
  PROVE  PlacesSame
BY DEF PlacesSame, Kinds

(* NULL and the ERR_PTRs are no messages. *)
LEMMA Codes == Code \cap Msg = {} /\ Code = {NULL, EAGAIN, E2BIG, EIDRM}
BY Distinct DEF Code

(* A message is handed over or queued when its msgsnd() succeeds. *)
LEMMA PlacesSender ==
  ASSUME NEW s \in Sender, Calling, Kinds, Kinds', Control, Listed, Sending, Placed,
         SenderSteps(s)
  PROVE  Placed'
<1>1. ASSUME NEW m \in Outbox[s], NEW nowait \in BOOLEAN, msgsnd(s, m, nowait)
      PROVE  Placed'
  <2>1. PlacesSame
    BY <1>1, Distinct, Labels
    DEF msgsnd, ipc_lock, Goto, PlacesSame, Kinds, Code, NULL, EAGAIN, E2BIG,
        EIDRM, queue, history, waiting
  <2> QED
    BY <2>1, PlacesFrame
<1>2. ASSUME SendRefused(s) PROVE Placed'
  <2>1. PICK m \in Msg : m = req[s].m /\ fate[m] = "sending"
    BY <1>2 DEF SendRefused, Tries, Sending, Calling, SendArgs
  <2>2. fate' = [fate EXCEPT ![m] = "refused"]
    BY <1>2, <2>1 DEF SendRefused, SendFails
  <2>3. \A x \in Msg : (fate'[x] = "accepted") <=> (fate[x] = "accepted")
    BY <2>1, <2>2 DEF Kinds
  <2>4. PlacesSame
    BY <1>2, <2>3 DEF SendRefused, Tries, PlacesSame, queue
  <2> QED
    BY <2>4, PlacesFrame
<1>3. ASSUME SendGoesOn(s) PROVE Placed'
  <2>1. PlacesSame
    BY <1>3, Distinct, Labels
    DEF SendGoesOn, Tries, ipc_locked, Goto, PlacesSame, Kinds, Code, NULL,
        EAGAIN, E2BIG, EIDRM, queue, history, waiting
  <2> QED
    BY <2>1, PlacesFrame
<1>4. ASSUME SendSleeps(s) PROVE Placed'
  <2>1. PlacesSame
    BY <1>4, Distinct, Labels
    DEF SendSleeps, Tries, ipc_unlock, rcu_read_unlock, Goto, PlacesSame,
        Kinds, Code, NULL, EAGAIN, E2BIG, EIDRM, queue, history, waiting
  <2> QED
    BY <2>1, PlacesFrame
<1>5. ASSUME SendAwake(s) PROVE Placed'
  <2>1. PlacesSame
    BY <1>5, Distinct, Labels
    DEF SendAwake, ipc_locked, Goto, PlacesSame, Kinds, Code, NULL, EAGAIN,
        E2BIG, EIDRM, queue, history, waiting
  <2> QED
    BY <2>1, PlacesFrame
<1>6. ASSUME SendPuts(s) PROVE Placed'
  <2>1. PlacesSame
    BY <1>6, Distinct, Labels
    DEF SendPuts, ipc_rcu_putref, Grace, Goto, PlacesSame, Kinds, Code, NULL,
        EAGAIN, E2BIG, EIDRM, queue, history, waiting
  <2> QED
    BY <2>1, PlacesFrame
<1>7. ASSUME PipelinedSend(s) PROVE Placed'
  <2>1. PICK k \in DOMAIN q_receivers :
          k = Min(Matching(req[s].m)) /\ q_receivers[k] \in Receiver
    BY <1>7, MatchingMin DEF PipelinedSend
  <2>2. PICK r \in Receiver : r = q_receivers[k] /\ r \in ToSet(q_receivers)
    BY <2>1 DEF ToSet
  <2>3. r_msg' = [r_msg EXCEPT ![r] = NULL] /\ pc[s] = "send"
    BY <1>7, <2>1, <2>2 DEF PipelinedSend
  <2>4. r_msg[r] = EAGAIN
    BY <2>2, <2>3, SenderAlone, ListsQuiet
  <2>5. PlacesSame
    BY <1>7, <2>3, <2>4, Codes, PlacesCode DEF PipelinedSend, queue, history
  <2> QED
    BY <2>5, PlacesFrame
<1>8. ASSUME WakeUp(s) PROVE Placed'
  <2>1. PlacesSame
    BY <1>8, Distinct, Labels
    DEF WakeUp, Goto, PlacesSame, Kinds, Code, NULL, EAGAIN, E2BIG, EIDRM,
        queue, history, waiting
  <2> QED
    BY <2>1, PlacesFrame
<1>9. ASSUME StoresError(s) PROVE Placed'
  <2>1. PICK r \in Receiver : r = target[s] /\ r_msg[r] = NULL
    BY <1>9, Distinct, SMTT(60) DEF StoresError, Kinds, Listed, Waking
  <2>2. PlacesSame
    BY <1>9, <2>1, Codes, PlacesCode DEF StoresError, queue, history
  <2> QED
    BY <2>2, PlacesFrame
<1>10. ASSUME StoresMessage(s) PROVE Placed'
  <2>1. PICK m \in Msg : m = req[s].m /\ fate[m] = "sending"
    BY <1>10 DEF StoresMessage, Sending, Calling, SendArgs
  <2>2. PICK r \in Receiver : r = target[s] /\ r_msg[r] = NULL
    BY <1>10, Distinct, SMTT(60) DEF StoresMessage, Kinds, Listed, Waking
  <2>3. /\ r_msg' = [r_msg EXCEPT ![r] = m] /\ fate' = [fate EXCEPT ![m] = "accepted"]
        /\ UNCHANGED <<q_messages, got>>
    BY <1>10, <2>1, <2>2 DEF StoresMessage, SendDone, queue
  <2>4. ~Queued(m) /\ ~Held(m) /\ got[m] = 0
    BY <2>1 DEF Placed, Somewhere
  <2>5. /\ r_msg'[r] = m /\ \A x \in Receiver \ {r} : r_msg'[x] = r_msg[x]
        /\ fate'[m] = "accepted" /\ \A x \in Msg \ {m} : fate'[x] = fate[x]
    BY <2>3 DEF Kinds
  <2>6. Held(m)' /\ \A x \in Msg \ {m} : Held(x)' <=> Held(x)
    BY <2>2, <2>5, Codes DEF Held
  <2>7. \A x \in Msg : Somewhere(x)'
    BY <2>3, <2>4, <2>5, <2>6 DEF Placed, Somewhere, Queued
  <2>8. \A x, y \in Receiver : r_msg'[x] \in Msg /\ r_msg'[x] = r_msg'[y] => x = y
    BY <2>4, <2>5 DEF Placed, Held
  <2> QED
    BY <2>3, <2>7, <2>8 DEF Placed, Once
<1>11. ASSUME Enqueue(s) PROVE Placed'
  <2>1. PICK m \in Msg : m = req[s].m /\ fate[m] = "sending"
    BY <1>11 DEF Enqueue, Sending, Calling, SendArgs
  <2>2. /\ q_messages' = Append(q_messages, m) /\ fate' = [fate EXCEPT ![m] = "accepted"]
        /\ UNCHANGED <<r_msg, got>>
    BY <1>11, <2>1 DEF Enqueue, SendDone
  <2>3. ~Queued(m) /\ ~Held(m) /\ got[m] = 0
    BY <2>1 DEF Placed, Somewhere
  <2>4. Once(q_messages)' /\ ToSet(q_messages)' = ToSet(q_messages) \cup {m}
    <3>1. q_messages \in Seq(Msg) /\ Once(q_messages) /\ m \notin ToSet(q_messages)
      BY <2>3 DEF Kinds, Placed, Queued
    <3>2. /\ Once(Append(q_messages, m))
          /\ ToSet(Append(q_messages, m)) = ToSet(q_messages) \cup {m}
      BY <3>1, AppendSet DEF Once
    <3> QED
      BY <2>2, <3>2
  <2>5. fate'[m] = "accepted" /\ \A x \in Msg \ {m} : fate'[x] = fate[x]
    BY <2>2 DEF Kinds
  <2>6. /\ Queued(m)' /\ \A x \in Msg \ {m} : Queued(x)' <=> Queued(x)
        /\ \A x \in Msg : Held(x)' <=> Held(x)
    BY <2>2, <2>4 DEF Queued, Held
  <2>7. \A x \in Msg : Somewhere(x)'
    BY <2>2, <2>3, <2>5, <2>6 DEF Placed, Somewhere
  <2> QED
    BY <2>2, <2>4, <2>7 DEF Placed
<1>12. ASSUME Signal(s) PROVE Placed'
  <2>1. PlacesSame
    BY <1>12, Distinct, Labels
    DEF Signal, PlacesSame, Kinds, Code, NULL, EAGAIN, E2BIG, EIDRM, queue,
        history, waiting
  <2> QED
    BY <2>1, PlacesFrame
<1> QED
  BY <1>1, <1>2, <1>3, <1>4, <1>5, <1>6, <1>7, <1>8, <1>9, <1>10, <1>11, <1>12
     DEF SenderSteps

(* A message leaves the queue, or r_msg, when it is received. *)
LEMMA PlacesReceiver ==
  ASSUME NEW r \in Receiver, Calling, Kinds, Kinds', Control, Listed, Sending, Placed,
         ReceiverSteps(r)
  PROVE  Placed'
<1>1. ASSUME NEW a \in RecvReq[r], msgrcv(r, a) PROVE Placed'
  <2>1. PlacesSame
    BY <1>1, Distinct, Labels
    DEF msgrcv, ipc_lock, Goto, PlacesSame, Kinds, Code, NULL, EAGAIN, E2BIG,
        EIDRM, queue, history, waiting
  <2> QED
    BY <2>1, PlacesFrame
<1>2. ASSUME RecvRefused(r) PROVE Placed'
  <2>1. r_msg[r] = EAGAIN
    BY <1>2 DEF RecvRefused, Looks, Listed, Fresh
  <2>2. r_msg' = [r_msg EXCEPT ![r] = EAGAIN] /\ UNCHANGED <<q_messages, got, fate>>
    <3>1. got' = got
      BY <1>2, Codes DEF RecvRefused, RecvEnds, Kinds
    <3> QED
      BY <1>2, <3>1 DEF RecvRefused, Looks, RecvEnds
  <2>3. PlacesSame
    BY <2>1, <2>2, Codes, PlacesCode
  <2> QED
    BY <2>3, PlacesFrame
<1>3. ASSUME RecvTakes(r) PROVE Placed'
  <2>1. PICK m \in Msg : m = Found(r) /\ Queued(m)
    BY <1>3, FoundResult DEF RecvTakes, Looks, Queued
  <2>2. r_msg[r] = EAGAIN
    BY <1>3 DEF RecvTakes, Looks, Listed, Fresh
  <2>3. /\ q_messages' = Without(q_messages, m) /\ r_msg' = [r_msg EXCEPT ![r] = EAGAIN]
        /\ got' = [x \in Msg |-> IF x = m THEN got[x] + 1 ELSE got[x]] /\ UNCHANGED fate
    BY <1>3, <2>1 DEF RecvTakes, Looks, RecvEnds
  <2>4. UNCHANGED r_msg
    BY <2>2, <2>3 DEF Kinds
  <2>5. Once(q_messages)' /\ ToSet(q_messages)' = ToSet(q_messages) \ {m}
    <3>1. q_messages \in Seq(Msg) /\ Once(q_messages)
      BY DEF Kinds, Placed
    <3>2. /\ Once(Without(q_messages, m))
          /\ ToSet(Without(q_messages, m)) = ToSet(q_messages) \ {m}
      BY <3>1, WithoutSet DEF Once
    <3> QED
      BY <2>3, <3>2
  <2>6. ~Held(m) /\ got[m] = 0 /\ fate[m] = "accepted"
    BY <2>1 DEF Placed, Somewhere
  <2>7. got'[m] = 1 /\ \A x \in Msg \ {m} : got'[x] = got[x]
    BY <2>3, <2>6
  <2>8. /\ ~Queued(m)' /\ \A x \in Msg \ {m} : Queued(x)' <=> Queued(x)
        /\ \A x \in Msg : Held(x)' <=> Held(x)
    BY <2>4, <2>5 DEF Queued, Held
  <2>9. \A x \in Msg : Somewhere(x)'
    BY <2>3, <2>6, <2>7, <2>8 DEF Placed, Somewhere
  <2> QED
    BY <2>4, <2>5, <2>9 DEF Placed
<1>4. ASSUME RecvSleeps(r) PROVE Placed'
  <2>1. r_msg[r] = EAGAIN
    BY <1>4 DEF RecvSleeps, Looks, Listed, Fresh
  <2>2. r_msg' = [r_msg EXCEPT ![r] = EAGAIN] /\ UNCHANGED <<q_messages, got, fate>>
    BY <1>4 DEF RecvSleeps, Looks
  <2>3. PlacesSame
    BY <2>1, <2>2, Codes, PlacesCode
  <2> QED
    BY <2>3, PlacesFrame
<1>5. ASSUME RecvAwake(r) PROVE Placed'
  <2>1. PlacesSame
    BY <1>5, Distinct, Labels
    DEF RecvAwake, Goto, PlacesSame, Kinds, Code, NULL, EAGAIN, E2BIG, EIDRM,
        queue, history, waiting
  <2> QED
    BY <2>1, PlacesFrame
<1>6. ASSUME RecvRelocks(r) PROVE Placed'
  <2>1. PlacesSame
    BY <1>6, Distinct, Labels
    DEF RecvRelocks, Goto, PlacesSame, Kinds, Code, NULL, EAGAIN, E2BIG,
        EIDRM, queue, history, waiting
  <2> QED
    BY <2>1, PlacesFrame
<1>7. ASSUME RecvHanded(r) PROVE Placed'
  <2>1. /\ r_msg' = [r_msg EXCEPT ![r] = EAGAIN] /\ UNCHANGED <<q_messages, fate>>
        /\ got' = [x \in Msg |-> IF x = r_msg[r] THEN got[x] + 1 ELSE got[x]]
    BY <1>7 DEF RecvHanded, RecvEnds, queue
  <2>2. CASE r_msg[r] \notin Msg
    <3>1. got' = got
      BY <2>1, <2>2 DEF Kinds
    <3>2. PlacesSame
      BY <2>1, <2>2, <3>1, Codes, PlacesCode
    <3> QED
      BY <3>2, PlacesFrame
  <2>3. CASE r_msg[r] \in Msg
    <3>1. PICK m \in Msg : m = r_msg[r]
      BY <2>3
    <3>2. Held(m) /\ ~Queued(m) /\ got[m] = 0 /\ fate[m] = "accepted"
      BY <3>1 DEF Placed, Somewhere, Held
    <3>3. got'[m] = 1 /\ \A x \in Msg \ {m} : got'[x] = got[x]
      BY <2>1, <3>1, <3>2
    <3>4. r_msg'[r] = EAGAIN /\ \A x \in Receiver \ {r} : r_msg'[x] = r_msg[x]
      BY <2>1 DEF Kinds
    <3>5. \A x \in Receiver \ {r} : r_msg[x] # m
      BY <3>1 DEF Placed
    <3>6. /\ ~Held(m)' /\ \A x \in Msg \ {m} : Held(x)' <=> Held(x)
          /\ \A x \in Msg : Queued(x)' <=> Queued(x)
      BY <2>1, <3>1, <3>4, <3>5, Codes DEF Held, Queued
    <3>7. \A x \in Msg : Somewhere(x)'
      BY <2>1, <3>2, <3>3, <3>6 DEF Placed, Somewhere
    <3>8. \A x, y \in Receiver : r_msg'[x] \in Msg /\ r_msg'[x] = r_msg'[y] => x = y
      BY <3>4, Codes DEF Placed
    <3> QED
      BY <2>1, <3>7, <3>8 DEF Placed, Once
  <2> QED
    BY <2>2, <2>3
<1>8. ASSUME Signal(r) PROVE Placed'
  <2>1. PlacesSame
    BY <1>8, Distinct, Labels
    DEF Signal, PlacesSame, Kinds, Code, NULL, EAGAIN, E2BIG, EIDRM, queue,
        history, waiting
  <2> QED
    BY <2>1, PlacesFrame
<1> QED
  BY <1>1, <1>2, <1>3, <1>4, <1>5, <1>6, <1>7, <1>8 DEF ReceiverSteps

(* expunge_all() overwrites no message, and freeque() frees those queued. *)
LEMMA PlacesCtl ==
  ASSUME Calling, Kinds, Kinds', Control, Listed, Sending, Placed, CtlSteps
  PROVE  Placed'
<1>1. ASSUME NEW a \in CtlReq, msgctl(a) PROVE Placed'
  <2>1. PlacesSame
    BY <1>1, Distinct, Labels
    DEF msgctl, ipc_lock, Goto, PlacesSame, Kinds, Code, NULL, EAGAIN, E2BIG,
        EIDRM, queue, history, waiting
  <2> QED
    BY <2>1, PlacesFrame
<1>2. ASSUME CtlLocked PROVE Placed'
  <2>1. PlacesSame
    BY <1>2, Distinct, Labels
    DEF CtlLocked, ipc_locked, Goto, PlacesSame, Kinds, Code, NULL, EAGAIN,
        E2BIG, EIDRM, queue, history, waiting
  <2> QED
    BY <2>1, PlacesFrame
<1>3. ASSUME ExpungeNull PROVE Placed'
  <2>1. pc[Ctl] = "expunge" /\ Expunging /\ ~deleted /\ Ctl \in Task
    BY <1>3, Distinct DEF ExpungeNull, Expunging, Control
  <2>2. PICK c \in Nat : c = count[Ctl] /\ c < Len(q_receivers)
    BY <1>3, <2>1 DEF ExpungeNull, Expunged, Kinds
  <2>3. c + 1 \in DOMAIN q_receivers
    BY <2>2 DEF Kinds
  <2>4. PICK r \in Receiver : r = q_receivers[c + 1]
    BY <2>3 DEF Kinds
  <2>5. r_msg[r] = EAGAIN
    BY <2>1, <2>2, <2>3, <2>4 DEF Listed, Entry, Visited
  <2>6. q_receivers[count[Ctl] + Expunged + 1] = r
    BY <2>2, <2>4 DEF Expunged
  <2>7. r_msg' = [r_msg EXCEPT ![r] = NULL] /\ UNCHANGED <<q_messages, got, fate>>
    BY <1>3, <2>6 DEF ExpungeNull, queue, history
  <2>8. PlacesSame
    BY <2>5, <2>7, Codes, PlacesCode
  <2> QED
    BY <2>8, PlacesFrame
<1>4. ASSUME WakeUp(Ctl) PROVE Placed'
  <2>1. PlacesSame
    BY <1>4, Distinct, Labels
    DEF WakeUp, Goto, PlacesSame, Kinds, Code, NULL, EAGAIN, E2BIG, EIDRM,
        queue, history, waiting
  <2> QED
    BY <2>1, PlacesFrame
<1>5. ASSUME ExpungeStore PROVE Placed'
  <2>1. PICK r \in Receiver : r = target[Ctl] /\ r_msg[r] = NULL
    BY <1>5, Distinct DEF ExpungeStore, Kinds, Listed, Waking
  <2>2. PICK v \in Code : v = IF req[Ctl].cmd = "IPC_SET" THEN EAGAIN ELSE EIDRM
    BY DEF Code
  <2>3. r_msg' = [r_msg EXCEPT ![r] = v] /\ UNCHANGED <<q_messages, got, fate>>
    BY <1>5, <2>1, <2>2 DEF ExpungeStore, queue, history
  <2>4. PlacesSame
    BY <2>1, <2>3, Codes, PlacesCode
  <2> QED
    BY <2>4, PlacesFrame
<1>6. ASSUME CtlUnlock PROVE Placed'
  <2>1. PlacesSame
    BY <1>6, Distinct, Labels
    DEF CtlUnlock, Expunged, ss_wakeup, ipc_unlock, rcu_read_unlock, Goto,
        PlacesSame, Kinds, Code, NULL, EAGAIN, E2BIG, EIDRM, queue, history,
        waiting
  <2> QED
    BY <2>1, PlacesFrame
<1>7. ASSUME FreeMessages PROVE Placed'
  <2>1. /\ q_messages' = <<>> /\ UNCHANGED <<got, r_msg>>
        /\ fate' = [m \in Msg |-> IF Queued(m) THEN "purged" ELSE fate[m]]
    BY <1>7 DEF FreeMessages, waiting, Queued
  <2>2. \A m \in Msg : fate'[m] = "accepted" <=> (fate[m] = "accepted" /\ ~Queued(m))
    BY <2>1
  <2>3. \A m \in Msg : ~Queued(m)' /\ (Held(m)' <=> Held(m))
    BY <2>1 DEF Queued, Held, ToSet
  <2>4. \A m \in Msg : Somewhere(m)'
    BY <2>1, <2>2, <2>3 DEF Placed, Somewhere
  <2> QED
    BY <2>1, <2>4 DEF Placed, Once
<1>8. ASSUME CtlPuts PROVE Placed'
  <2>1. PlacesSame
    BY <1>8, Distinct, Labels
    DEF CtlPuts, ipc_rcu_putref, Grace, Goto, PlacesSame, Kinds, Code, NULL,
        EAGAIN, E2BIG, EIDRM, queue, history, waiting
  <2> QED
    BY <2>1, PlacesFrame
<1> QED
  BY <1>1, <1>2, <1>3, <1>4, <1>5, <1>6, <1>7, <1>8 DEF CtlSteps

-----------------------------------------------------------------------------
(* Sized. *)

(* A message has as many bytes as its size says. *)
LEMMA BytesOfCount ==
  ASSUME NEW m \in Msg
  PROVE  IsFiniteSet(BytesOf(m)) /\ Cardinality(BytesOf(m)) = m_ts[m]
<1>1. PICK n \in Nat : n = m_ts[m]
  BY IpcMsgAssumption
<1>2. IsFiniteSet(0..(n - 1)) /\ Cardinality(0..(n - 1)) = n
  BY FS_Interval
<1>3. IsFiniteSet({m}) /\ Cardinality({m}) = 1
  BY FS_Singleton
<1>4. /\ IsFiniteSet({m} \X (0..(n - 1)))
      /\ Cardinality({m} \X (0..(n - 1))) = Cardinality({m}) * Cardinality(0..(n - 1))
  BY <1>2, <1>3, FS_Product
<1>5. Cardinality({m}) * Cardinality(0..(n - 1)) = n
  BY <1>2, <1>3
<1> QED
  BY <1>1, <1>4, <1>5 DEF BytesOf

(* A set of messages has finitely many bytes. *)
LEMMA BytesFinite ==
  ASSUME NEW S \in SUBSET Msg
  PROVE  IsFiniteSet(Bytes(S)) /\ Cardinality(Bytes(S)) \in Nat
<1> DEFINE I == {BytesOf(m) : m \in S}
           f == [m \in S |-> BytesOf(m)]
<1>1. IsFiniteSet(S)
  BY IpcMsgAssumption, FS_Subset
<1>2. f \in Surjection(S, I)
  BY DEF Surjection
<1>3. IsFiniteSet(I)
  BY <1>1, <1>2, FS_Surjection
<1>4. \A T \in I : IsFiniteSet(T)
  BY BytesOfCount
<1>5. IsFiniteSet(UNION I)
  BY <1>3, <1>4, FS_UNION
<1> QED
  BY <1>5, FS_CardinalityType DEF Bytes

(* One more message adds its size. *)
LEMMA BytesAdd ==
  ASSUME NEW S \in SUBSET Msg, NEW m \in Msg, m \notin S
  PROVE  Cardinality(Bytes(S \cup {m})) = Cardinality(Bytes(S)) + m_ts[m]
<1>1. Bytes(S \cup {m}) = Bytes(S) \cup BytesOf(m)
  BY DEF Bytes
<1>2. Bytes(S) \cap BytesOf(m) = {}
  BY DEF Bytes, BytesOf
<1>3. IsFiniteSet(Bytes(S)) /\ Cardinality(Bytes(S)) \in Nat
  BY BytesFinite
<1>4. IsFiniteSet(BytesOf(m)) /\ Cardinality(BytesOf(m)) = m_ts[m] /\ m_ts[m] \in Nat
  BY BytesOfCount, IpcMsgAssumption
<1>5. Cardinality(Bytes(S) \cup BytesOf(m)) =
        Cardinality(Bytes(S)) + Cardinality(BytesOf(m)) - Cardinality({})
  BY <1>2, <1>3, <1>4, FS_Union
<1>6. Cardinality({}) = 0
  BY FS_EmptySet
<1>7. PICK a \in Nat, b \in Nat :
        a = Cardinality(Bytes(S)) /\ b = Cardinality(BytesOf(m))
  BY <1>3, <1>4
<1>8. PICK c : c = Cardinality(Bytes(S) \cup BytesOf(m))
  OBVIOUS
<1>9. c = a + b - 0
  BY <1>5, <1>6, <1>7, <1>8
<1>10. c = a + b
  BY <1>9
<1> QED
  BY <1>1, <1>4, <1>7, <1>8, <1>10

(* One less takes its size off, and what is left is not negative. *)
LEMMA BytesDrop ==
  ASSUME NEW S \in SUBSET Msg, NEW m \in S
  PROVE  /\ Cardinality(Bytes(S \ {m})) = Cardinality(Bytes(S)) - m_ts[m]
         /\ Cardinality(Bytes(S)) - m_ts[m] \in Nat
<1>1. PICK R \in SUBSET Msg : R = S \ {m}
  OBVIOUS
<1>2. m \in Msg /\ m \notin R /\ R \cup {m} = S
  BY <1>1
<1>3. Cardinality(Bytes(S)) = Cardinality(Bytes(R)) + m_ts[m]
  BY <1>2, BytesAdd
<1>4. Cardinality(Bytes(R)) \in Nat /\ m_ts[m] \in Nat
  BY <1>2, BytesFinite, IpcMsgAssumption
<1>5. /\ Cardinality(Bytes(R)) = Cardinality(Bytes(S)) - m_ts[m]
      /\ Cardinality(Bytes(S)) - m_ts[m] \in Nat
  BY <1>3, <1>4
<1> QED
  BY <1>1, <1>5

(* Steps that leave the messages alone, or come after the queue's end. *)
LEMMA SizesFrame ==
  ASSUME Sized, UNCHANGED <<q_qnum, q_cbytes>>,
         ~deleted' => ~deleted /\ UNCHANGED q_messages
  PROVE  Sized'
BY DEF Sized

(* The totals follow the messages. *)
LEMMA SizesSender ==
  ASSUME NEW s \in Sender, Calling, Kinds, Control, Listed, Sending, Placed, Sized,
         SenderSteps(s)
  PROVE  Sized'
<1>1. ASSUME NEW m \in Outbox[s], NEW nowait \in BOOLEAN, msgsnd(s, m, nowait)
      PROVE  Sized'
  BY <1>1, SizesFrame DEF msgsnd, ipc_lock, queue
<1>2. ASSUME SendRefused(s) PROVE Sized'
  BY <1>2, SizesFrame DEF SendRefused, Tries, queue
<1>3. ASSUME SendGoesOn(s) PROVE Sized'
  BY <1>3, SizesFrame DEF SendGoesOn, Tries, queue
<1>4. ASSUME SendSleeps(s) PROVE Sized'
  BY <1>4, SizesFrame DEF SendSleeps, Tries, queue
<1>5. ASSUME SendAwake(s) PROVE Sized'
  BY <1>5, SizesFrame DEF SendAwake, queue
<1>6. ASSUME SendPuts(s) PROVE Sized'
  BY <1>6, SizesFrame DEF SendPuts, queue
<1>7. ASSUME PipelinedSend(s) PROVE Sized'
  BY <1>7, SizesFrame DEF PipelinedSend, queue
<1>8. ASSUME WakeUp(s) PROVE Sized'
  BY <1>8, SizesFrame DEF WakeUp, queue
<1>9. ASSUME StoresError(s) PROVE Sized'
  BY <1>9, SizesFrame DEF StoresError, queue
<1>10. ASSUME StoresMessage(s) PROVE Sized'
  BY <1>10, SizesFrame DEF StoresMessage, queue
<1>11. ASSUME Enqueue(s) PROVE Sized'
  <2>1. PICK m \in Msg : m = req[s].m /\ fate[m] = "sending"
    BY <1>11 DEF Enqueue, Sending, Calling, SendArgs
  <2>2. PICK S \in SUBSET Msg : S = ToSet(q_messages)
    BY ListSet DEF Kinds
  <2>3. m \notin S
    BY <2>1, <2>2 DEF Placed, Somewhere, Queued
  <2>4. ~deleted
    BY <1>11 DEF Enqueue, Control
  <2>5. ToSet(q_messages)' = S \cup {m}
    <3>1. ToSet(Append(q_messages, m)) = S \cup {m}
      BY <2>2, AppendSet DEF Kinds
    <3> QED
      BY <1>11, <2>1, <3>1 DEF Enqueue
  <2>6. PICK n \in Nat, b \in Nat, k \in Nat :
          /\ n = q_qnum /\ n = Cardinality(S) /\ b = q_cbytes /\ b = Cardinality(Bytes(S))
          /\ k = m_ts[m]
    BY <2>2, <2>4, IpcMsgAssumption DEF Sized, Kinds
  <2>7. q_qnum' = n + 1 /\ q_cbytes' = b + k
    BY <1>11, <2>1, <2>6 DEF Enqueue
  <2>8. IsFiniteSet(S)
    BY IpcMsgAssumption, FS_Subset
  <2>9. Cardinality(S \cup {m}) = n + 1
    BY <2>3, <2>6, <2>8, FS_AddElement
  <2>10. Cardinality(Bytes(S \cup {m})) = b + k
    BY <2>3, <2>6, BytesAdd
  <2>11. n + 1 >= 0 /\ b + k >= 0
    OBVIOUS
  <2> QED
    BY <2>5, <2>7, <2>9, <2>10, <2>11 DEF Sized
<1>12. ASSUME Signal(s) PROVE Sized'
  BY <1>12, SizesFrame DEF Signal, queue
<1> QED
  BY <1>1, <1>2, <1>3, <1>4, <1>5, <1>6, <1>7, <1>8, <1>9, <1>10, <1>11, <1>12
     DEF SenderSteps

(* A message that is taken counts no more. *)
LEMMA SizesReceiver ==
  ASSUME NEW r \in Receiver, Calling, Kinds, Control, Listed, Sending, Placed, Sized,
         ReceiverSteps(r)
  PROVE  Sized'
<1>1. ASSUME NEW a \in RecvReq[r], msgrcv(r, a) PROVE Sized'
  BY <1>1, SizesFrame DEF msgrcv, ipc_lock, queue
<1>2. ASSUME RecvRefused(r) PROVE Sized'
  BY <1>2, SizesFrame DEF RecvRefused, Looks, queue
<1>3. ASSUME RecvTakes(r) PROVE Sized'
  <2>1. PICK m \in Msg : m = Found(r) /\ m \in ToSet(q_messages)
    BY <1>3, FoundResult DEF RecvTakes, Looks
  <2>2. PICK S \in SUBSET Msg : S = ToSet(q_messages)
    BY ListSet DEF Kinds
  <2>3. ~deleted
    BY <1>3 DEF RecvTakes, Looks, Listed, Waited, Within
  <2>4. ToSet(q_messages)' = S \ {m}
    <3>1. q_messages \in Seq(Msg) /\ Once(q_messages)
      BY DEF Kinds, Placed
    <3>2. ToSet(Without(q_messages, m)) = S \ {m}
      BY <2>2, <3>1, WithoutSet DEF Once
    <3> QED
      BY <1>3, <2>1, <3>2 DEF RecvTakes
  <2>5. PICK n \in Nat, b \in Nat, k \in Nat :
          /\ n = q_qnum /\ n = Cardinality(S) /\ b = q_cbytes /\ b = Cardinality(Bytes(S))
          /\ k = m_ts[m]
    BY <2>2, <2>3, IpcMsgAssumption DEF Sized, Kinds
  <2>6. q_qnum' = n - 1 /\ q_cbytes' = b - k
    BY <1>3, <2>1, <2>5 DEF RecvTakes
  <2>7. IsFiniteSet(S)
    BY IpcMsgAssumption, FS_Subset
  <2>8. Cardinality(S \ {m}) = n - 1 /\ n # 0
    <3>1. m \in S /\ S # {}
      BY <2>1, <2>2
    <3>2. Cardinality(S \ {m}) = n - 1
      BY <2>5, <2>7, <3>1, FS_RemoveElement, ZenonT(60)
    <3>3. n # 0
      BY <2>5, <2>7, <3>1, FS_EmptySet
    <3> QED
      BY <3>2, <3>3
  <2>9. Cardinality(Bytes(S \ {m})) = b - k /\ b - k \in Nat
    BY <2>1, <2>2, <2>5, BytesDrop
  <2>10. n - 1 >= 0 /\ b - k >= 0
    BY <2>8, <2>9
  <2> QED
    BY <2>4, <2>6, <2>8, <2>9, <2>10 DEF Sized
<1>4. ASSUME RecvSleeps(r) PROVE Sized'
  BY <1>4, SizesFrame DEF RecvSleeps, Looks, queue
<1>5. ASSUME RecvAwake(r) PROVE Sized'
  BY <1>5, SizesFrame DEF RecvAwake, queue
<1>6. ASSUME RecvRelocks(r) PROVE Sized'
  BY <1>6, SizesFrame DEF RecvRelocks, queue
<1>7. ASSUME RecvHanded(r) PROVE Sized'
  BY <1>7, SizesFrame DEF RecvHanded, queue
<1>8. ASSUME Signal(r) PROVE Sized'
  BY <1>8, SizesFrame DEF Signal, queue
<1> QED
  BY <1>1, <1>2, <1>3, <1>4, <1>5, <1>6, <1>7, <1>8 DEF ReceiverSteps

(* After IPC_RMID the totals are left as they were. *)
LEMMA SizesCtl ==
  ASSUME Calling, Kinds, Control, Listed, Sending, Placed, Sized, CtlSteps
  PROVE  Sized'
<1>1. ASSUME NEW a \in CtlReq, msgctl(a) PROVE Sized'
  BY <1>1, SizesFrame DEF msgctl, ipc_lock, queue
<1>2. ASSUME CtlLocked PROVE Sized'
  BY <1>2, SizesFrame DEF CtlLocked, queue
<1>3. ASSUME ExpungeNull PROVE Sized'
  BY <1>3, SizesFrame DEF ExpungeNull, queue
<1>4. ASSUME WakeUp(Ctl) PROVE Sized'
  BY <1>4, SizesFrame DEF WakeUp, queue
<1>5. ASSUME ExpungeStore PROVE Sized'
  BY <1>5, SizesFrame DEF ExpungeStore, queue
<1>6. ASSUME CtlUnlock PROVE Sized'
  BY <1>6, SizesFrame DEF CtlUnlock, Control
<1>7. ASSUME FreeMessages PROVE Sized'
  BY <1>7, SizesFrame DEF FreeMessages, Control
<1>8. ASSUME CtlPuts PROVE Sized'
  BY <1>8, SizesFrame DEF CtlPuts, queue
<1> QED
  BY <1>1, <1>2, <1>3, <1>4, <1>5, <1>6, <1>7, <1>8 DEF CtlSteps

-----------------------------------------------------------------------------
(* Handed. *)

(* Who sleeps is at its schedule(). *)
LEMMA RestsSender ==
  ASSUME NEW s \in Sender, Calling, Kinds, Listed, Resting, SenderSteps(s)
  PROVE  Resting'
<1>1. ASSUME NEW m \in Outbox[s], NEW nowait \in BOOLEAN, msgsnd(s, m, nowait)
      PROVE  Resting'
  BY <1>1, Distinct, Labels
  DEF msgsnd, ipc_lock, Goto, Resting, Kinds, Listed, Waking, waiting
<1>2. ASSUME SendRefused(s) PROVE Resting'
  BY <1>2, Distinct, Labels
  DEF SendRefused, Tries, SendFails, ipc_unlock, rcu_read_unlock, Goto,
      Resting, Kinds, Listed, Waking, waiting
<1>3. ASSUME SendGoesOn(s) PROVE Resting'
  BY <1>3, Distinct, Labels
  DEF SendGoesOn, Tries, ipc_locked, Goto, Resting, Kinds, Listed, Waking,
      waiting
<1>4. ASSUME SendSleeps(s) PROVE Resting'
  BY <1>4, Distinct, Labels
  DEF SendSleeps, Tries, ipc_unlock, rcu_read_unlock, Goto, Resting, Kinds,
      Listed, Waking, waiting
<1>5. ASSUME SendAwake(s) PROVE Resting'
  BY <1>5, Distinct, Labels
  DEF SendAwake, ipc_locked, Goto, Resting, Kinds, Listed, Waking, waiting
<1>6. ASSUME SendPuts(s) PROVE Resting'
  BY <1>6, Distinct, Labels
  DEF SendPuts, ipc_rcu_putref, Grace, Goto, Resting, Kinds, Listed, Waking,
      waiting
<1>7. ASSUME PipelinedSend(s) PROVE Resting'
  BY <1>7, Distinct, Labels
  DEF PipelinedSend, Goto, Resting, Kinds, Listed, Waking, waiting
<1>8. ASSUME WakeUp(s) PROVE Resting'
  BY <1>8, Distinct, Labels
  DEF WakeUp, Goto, Resting, Kinds, Listed, Waking, waiting
<1>9. ASSUME StoresError(s) PROVE Resting'
  BY <1>9, Distinct, Labels
  DEF StoresError, Goto, Resting, Kinds, Listed, Waking, waiting
<1>10. ASSUME StoresMessage(s) PROVE Resting'
  BY <1>10, Distinct, Labels
  DEF StoresMessage, SendDone, ipc_unlock, rcu_read_unlock, Goto, Resting,
      Kinds, Listed, Waking, waiting
<1>11. ASSUME Enqueue(s) PROVE Resting'
  BY <1>11, Distinct, Labels
  DEF Enqueue, SendDone, ipc_unlock, rcu_read_unlock, Goto, Resting, Kinds,
      Listed, Waking, waiting
<1>12. ASSUME Signal(s) PROVE Resting'
  BY <1>12, Distinct, Labels
  DEF Signal, Resting, Kinds, Listed, Waking, waiting
<1> QED
  BY <1>1, <1>2, <1>3, <1>4, <1>5, <1>6, <1>7, <1>8, <1>9, <1>10, <1>11, <1>12
     DEF SenderSteps

(* The same for a receiver. *)
LEMMA RestsReceiver ==
  ASSUME NEW r \in Receiver, Calling, Kinds, Listed, Resting, ReceiverSteps(r)
  PROVE  Resting'
<1>1. ASSUME NEW a \in RecvReq[r], msgrcv(r, a) PROVE Resting'
  BY <1>1, Distinct, Labels
  DEF msgrcv, ipc_lock, Goto, Resting, Kinds, Listed, Waking, waiting
<1>2. ASSUME RecvRefused(r) PROVE Resting'
  BY <1>2, Distinct, Labels
  DEF RecvRefused, Looks, RecvEnds, rcu_read_unlock, Goto, Resting, Kinds,
      Listed, Waking, waiting
<1>3. ASSUME RecvTakes(r) PROVE Resting'
  BY <1>3, Distinct, Labels
  DEF RecvTakes, Looks, RecvEnds, rcu_read_unlock, ss_wakeup, Goto, Resting,
      Kinds, Listed, Waking, waiting
<1>4. ASSUME RecvSleeps(r) PROVE Resting'
  BY <1>4, Distinct, Labels
  DEF RecvSleeps, Looks, rcu_read_unlock, Goto, Resting, Kinds, Listed,
      Waking, waiting
<1>5. ASSUME RecvAwake(r) PROVE Resting'
  BY <1>5, Distinct, Labels
  DEF RecvAwake, Goto, Resting, Kinds, Listed, Waking, waiting
<1>6. ASSUME RecvRelocks(r) PROVE Resting'
  BY <1>6, Distinct, Labels
  DEF RecvRelocks, Goto, Resting, Kinds, Listed, Waking, waiting
<1>7. ASSUME RecvHanded(r) PROVE Resting'
  BY <1>7, Distinct, Labels
  DEF RecvHanded, RecvEnds, rcu_read_unlock, Goto, Resting, Kinds, Listed,
      Waking, waiting
<1>8. ASSUME Signal(r) PROVE Resting'
  BY <1>8, Distinct, Labels
  DEF Signal, Resting, Kinds, Listed, Waking, waiting
<1> QED
  BY <1>1, <1>2, <1>3, <1>4, <1>5, <1>6, <1>7, <1>8 DEF ReceiverSteps

(* The same for msgctl(). *)
LEMMA RestsCtl ==
  ASSUME Calling, Kinds, Listed, Resting, CtlSteps
  PROVE  Resting'
<1>1. ASSUME NEW a \in CtlReq, msgctl(a) PROVE Resting'
  BY <1>1, Distinct, Labels
  DEF msgctl, ipc_lock, Goto, Resting, Kinds, Listed, Waking, waiting
<1>2. ASSUME CtlLocked PROVE Resting'
  BY <1>2, Distinct, Labels
  DEF CtlLocked, ipc_locked, Goto, Resting, Kinds, Listed, Waking, waiting
<1>3. ASSUME ExpungeNull PROVE Resting'
  BY <1>3, Distinct, Labels
  DEF ExpungeNull, Expunged, Goto, Resting, Kinds, Listed, Waking, waiting
<1>4. ASSUME WakeUp(Ctl) PROVE Resting'
  BY <1>4, Distinct, Labels
  DEF WakeUp, Goto, Resting, Kinds, Listed, Waking, waiting
<1>5. ASSUME ExpungeStore PROVE Resting'
  BY <1>5, Distinct, Labels
  DEF ExpungeStore, Goto, Resting, Kinds, Listed, Waking, waiting
<1>6. ASSUME CtlUnlock PROVE Resting'
  BY <1>6, Distinct, Labels
  DEF CtlUnlock, Expunged, ss_wakeup, ipc_unlock, rcu_read_unlock, Goto,
      Resting, Kinds, Listed, Waking, waiting
<1>7. ASSUME FreeMessages PROVE Resting'
  BY <1>7, Distinct, Labels
  DEF FreeMessages, Goto, Resting, Kinds, Listed, Waking, waiting
<1>8. ASSUME CtlPuts PROVE Resting'
  BY <1>8, Distinct, Labels
  DEF CtlPuts, ipc_rcu_putref, Grace, Goto, Resting, Kinds, Listed, Waking,
      waiting
<1> QED
  BY <1>1, <1>2, <1>3, <1>4, <1>5, <1>6, <1>7, <1>8 DEF CtlSteps

(* Steps that add neither a message nor a receiver. *)
LEMMA UnmatchedFrame ==
  ASSUME Unmatched,
         ToSet(q_receivers)' \subseteq ToSet(q_receivers),
         ToSet(q_receivers) \subseteq Receiver,
         ToSet(q_messages)' \subseteq ToSet(q_messages),
         \A r \in Receiver : pc'[r] \in Within => pc[r] \in Within /\ req'[r] = req[r]
  PROVE  Unmatched'
BY DEF Unmatched, testmsg

(* Who and what may be on the lists. *)
LEMMA Listing ==
  ASSUME Kinds
  PROVE  /\ ToSet(q_receivers) \subseteq Receiver /\ ToSet(q_senders) \subseteq Sender
         /\ ToSet(q_messages) \subseteq Msg
BY ListSet DEF Kinds

(* A receiver's list has nobody new. *)
LEMMA OthersSub ==
  ASSUME Kinds, NEW r \in Receiver
  PROVE  Others(r) \in Seq(Receiver) /\ ToSet(Others(r)) \subseteq ToSet(q_receivers)
<1>1. q_receivers \in Seq(Receiver)
  BY DEF Kinds
<1>2. /\ Without(q_receivers, r) \in Seq(Receiver)
      /\ ToSet(Without(q_receivers, r)) \subseteq ToSet(q_receivers)
  BY <1>1, WithoutSub
<1> QED
  BY <1>1, <1>2 DEF Others

(* A message is queued only when no linked receiver matches. *)
LEMMA MatchesSender ==
  ASSUME NEW s \in Sender, Calling, Kinds, Unmatched, SenderSteps(s)
  PROVE  Unmatched'
<1>1. ASSUME NEW m \in Outbox[s], NEW nowait \in BOOLEAN, msgsnd(s, m, nowait)
      PROVE  Unmatched'
  <2>1. /\ ToSet(q_receivers)' \subseteq ToSet(q_receivers)
        /\ ToSet(q_messages)' \subseteq ToSet(q_messages)
    BY <1>1 DEF msgsnd, ipc_lock, queue
  <2>2. \A x \in Receiver : pc'[x] \in Within => pc[x] \in Within /\ req'[x] = req[x]
    BY <1>1, Distinct, Labels DEF msgsnd, ipc_lock, Goto, Within, Calling
  <2> QED
    BY <2>1, <2>2, Listing, UnmatchedFrame
<1>2. ASSUME SendRefused(s) PROVE Unmatched'
  <2>1. /\ ToSet(q_receivers)' \subseteq ToSet(q_receivers)
        /\ ToSet(q_messages)' \subseteq ToSet(q_messages)
    BY <1>2 DEF SendRefused, Tries, queue
  <2>2. \A x \in Receiver : pc'[x] \in Within => pc[x] \in Within /\ req'[x] = req[x]
    BY <1>2, Distinct, Labels DEF SendRefused, Tries, SendFails, Goto, Within, Calling
  <2> QED
    BY <2>1, <2>2, Listing, UnmatchedFrame
<1>3. ASSUME SendGoesOn(s) PROVE Unmatched'
  <2>1. /\ ToSet(q_receivers)' \subseteq ToSet(q_receivers)
        /\ ToSet(q_messages)' \subseteq ToSet(q_messages)
    BY <1>3 DEF SendGoesOn, Tries, queue
  <2>2. \A x \in Receiver : pc'[x] \in Within => pc[x] \in Within /\ req'[x] = req[x]
    BY <1>3, Distinct, Labels DEF SendGoesOn, Tries, Goto, Within, Calling
  <2> QED
    BY <2>1, <2>2, Listing, UnmatchedFrame
<1>4. ASSUME SendSleeps(s) PROVE Unmatched'
  <2>1. /\ ToSet(q_receivers)' \subseteq ToSet(q_receivers)
        /\ ToSet(q_messages)' \subseteq ToSet(q_messages)
    BY <1>4 DEF SendSleeps, Tries, queue
  <2>2. \A x \in Receiver : pc'[x] \in Within => pc[x] \in Within /\ req'[x] = req[x]
    BY <1>4, Distinct, Labels DEF SendSleeps, Tries, Goto, Within, Calling
  <2> QED
    BY <2>1, <2>2, Listing, UnmatchedFrame
<1>5. ASSUME SendAwake(s) PROVE Unmatched'
  <2>1. /\ ToSet(q_receivers)' \subseteq ToSet(q_receivers)
        /\ ToSet(q_messages)' \subseteq ToSet(q_messages)
    BY <1>5 DEF SendAwake, queue
  <2>2. \A x \in Receiver : pc'[x] \in Within => pc[x] \in Within /\ req'[x] = req[x]
    BY <1>5, Distinct, Labels DEF SendAwake, Goto, Within, Calling
  <2> QED
    BY <2>1, <2>2, Listing, UnmatchedFrame
<1>6. ASSUME SendPuts(s) PROVE Unmatched'
  <2>1. /\ ToSet(q_receivers)' \subseteq ToSet(q_receivers)
        /\ ToSet(q_messages)' \subseteq ToSet(q_messages)
    BY <1>6 DEF SendPuts, queue
  <2>2. \A x \in Receiver : pc'[x] \in Within => pc[x] \in Within /\ req'[x] = req[x]
    BY <1>6, Distinct, Labels DEF SendPuts, Goto, Within, Calling
  <2> QED
    BY <2>1, <2>2, Listing, UnmatchedFrame
<1>7. ASSUME PipelinedSend(s) PROVE Unmatched'
  <2>1. /\ ToSet(q_receivers)' \subseteq ToSet(q_receivers)
        /\ ToSet(q_messages)' \subseteq ToSet(q_messages)
    <3>1. q_receivers \in Seq(Receiver)
      BY DEF Kinds
    <3>2. \A x : ToSet(Without(q_receivers, x)) \subseteq ToSet(q_receivers)
      BY <3>1, WithoutSub
    <3> QED
      BY <1>7, <3>2 DEF PipelinedSend, queue
  <2>2. \A x \in Receiver : pc'[x] \in Within => pc[x] \in Within /\ req'[x] = req[x]
    BY <1>7, Distinct, Labels DEF PipelinedSend, Goto, Within, Calling
  <2> QED
    BY <2>1, <2>2, Listing, UnmatchedFrame
<1>8. ASSUME WakeUp(s) PROVE Unmatched'
  <2>1. /\ ToSet(q_receivers)' \subseteq ToSet(q_receivers)
        /\ ToSet(q_messages)' \subseteq ToSet(q_messages)
    BY <1>8 DEF WakeUp, queue
  <2>2. \A x \in Receiver : pc'[x] \in Within => pc[x] \in Within /\ req'[x] = req[x]
    BY <1>8, Distinct, Labels DEF WakeUp, Goto, Within, Calling
  <2> QED
    BY <2>1, <2>2, Listing, UnmatchedFrame
<1>9. ASSUME StoresError(s) PROVE Unmatched'
  <2>1. /\ ToSet(q_receivers)' \subseteq ToSet(q_receivers)
        /\ ToSet(q_messages)' \subseteq ToSet(q_messages)
    BY <1>9 DEF StoresError, queue
  <2>2. \A x \in Receiver : pc'[x] \in Within => pc[x] \in Within /\ req'[x] = req[x]
    BY <1>9, Distinct, Labels DEF StoresError, Goto, Within, Calling
  <2> QED
    BY <2>1, <2>2, Listing, UnmatchedFrame
<1>10. ASSUME StoresMessage(s) PROVE Unmatched'
  <2>1. /\ ToSet(q_receivers)' \subseteq ToSet(q_receivers)
        /\ ToSet(q_messages)' \subseteq ToSet(q_messages)
    BY <1>10 DEF StoresMessage, queue
  <2>2. \A x \in Receiver : pc'[x] \in Within => pc[x] \in Within /\ req'[x] = req[x]
    BY <1>10, Distinct, Labels DEF StoresMessage, SendDone, Goto, Within, Calling
  <2> QED
    BY <2>1, <2>2, Listing, UnmatchedFrame
<1>11. ASSUME Enqueue(s) PROVE Unmatched'
  <2>1. PICK m \in Msg : m = req[s].m
    BY <1>11 DEF Enqueue, Calling, SendArgs
  <2>2. ToSet(q_messages)' = ToSet(q_messages) \cup {m} /\ UNCHANGED q_receivers
    BY <1>11, <2>1, AppendSet DEF Enqueue, Kinds
  <2>3. \A x \in Receiver : pc'[x] = pc[x] /\ req'[x] = req[x]
    BY <1>11, Distinct, Labels DEF Enqueue, SendDone, Goto, Calling
  <2>4. \A x \in ToSet(q_receivers) : ~testmsg(m, req[x].type, req[x].mode)
    BY <1>11, <2>1 DEF Enqueue, Matching, ToSet
  <2>5. SUFFICES ASSUME NEW x \in ToSet(q_receivers)', pc'[x] \in Within,
                        NEW y \in ToSet(q_messages)'
        PROVE  ~testmsg(y, req'[x].type, req'[x].mode)
    BY DEF Unmatched, testmsg
  <2>6. x \in ToSet(q_receivers) /\ pc[x] \in Within /\ req'[x] = req[x]
    BY <2>2, <2>3, <2>5, Listing
  <2>7. ~testmsg(y, req[x].type, req[x].mode)
    BY <2>2, <2>4, <2>6 DEF Unmatched
  <2> QED
    BY <2>6, <2>7
<1>12. ASSUME Signal(s) PROVE Unmatched'
  <2>1. /\ ToSet(q_receivers)' \subseteq ToSet(q_receivers)
        /\ ToSet(q_messages)' \subseteq ToSet(q_messages)
    BY <1>12 DEF Signal, queue
  <2>2. \A x \in Receiver : pc'[x] \in Within => pc[x] \in Within /\ req'[x] = req[x]
    BY <1>12, Distinct, Labels DEF Signal, Within, Calling
  <2> QED
    BY <2>1, <2>2, Listing, UnmatchedFrame
<1> QED
  BY <1>1, <1>2, <1>3, <1>4, <1>5, <1>6, <1>7, <1>8, <1>9, <1>10, <1>11, <1>12
     DEF SenderSteps

(* A receiver is linked only when it has found nothing. *)
LEMMA MatchesReceiver ==
  ASSUME NEW r \in Receiver, Calling, Kinds, Unmatched, ReceiverSteps(r)
  PROVE  Unmatched'
<1>1. ASSUME NEW a \in RecvReq[r], msgrcv(r, a) PROVE Unmatched'
  <2>1. /\ ToSet(q_receivers)' \subseteq ToSet(q_receivers)
        /\ ToSet(q_messages)' \subseteq ToSet(q_messages)
    BY <1>1 DEF msgrcv, ipc_lock, queue
  <2>2. \A x \in Receiver : pc'[x] \in Within => pc[x] \in Within /\ req'[x] = req[x]
    BY <1>1, Distinct, Labels DEF msgrcv, ipc_lock, Goto, Within, Calling
  <2> QED
    BY <2>1, <2>2, Listing, UnmatchedFrame
<1>2. ASSUME RecvRefused(r) PROVE Unmatched'
  <2>1. /\ ToSet(q_receivers)' \subseteq ToSet(q_receivers)
        /\ ToSet(q_messages)' \subseteq ToSet(q_messages)
    BY <1>2, OthersSub DEF RecvRefused
  <2>2. \A x \in Receiver : pc'[x] \in Within => pc[x] \in Within /\ req'[x] = req[x]
    BY <1>2, Distinct, Labels DEF RecvRefused, Looks, RecvEnds, Goto, Within, Calling
  <2> QED
    BY <2>1, <2>2, Listing, UnmatchedFrame
<1>3. ASSUME RecvTakes(r) PROVE Unmatched'
  <2>1. /\ ToSet(q_receivers)' \subseteq ToSet(q_receivers)
        /\ ToSet(q_messages)' \subseteq ToSet(q_messages)
    <3>1. Found(r) # EAGAIN
      BY <1>3 DEF RecvTakes
    <3>2. q_messages \in Seq(Msg)
      BY DEF Kinds
    <3>3. ToSet(Without(q_messages, Found(r))) \subseteq ToSet(q_messages)
      BY <3>2, WithoutSub
    <3> QED
      BY <1>3, <3>3, OthersSub DEF RecvTakes
  <2>2. \A x \in Receiver : pc'[x] \in Within => pc[x] \in Within /\ req'[x] = req[x]
    BY <1>3, Distinct, Labels DEF RecvTakes, Looks, RecvEnds, Goto, Within, Calling
  <2> QED
    BY <2>1, <2>2, Listing, UnmatchedFrame
<1>4. ASSUME RecvSleeps(r) PROVE Unmatched'
  <2>1. ToSet(q_receivers)' \subseteq ToSet(q_receivers) \cup {r}
    <3>1. ToSet(Append(Others(r), r)) = ToSet(Others(r)) \cup {r}
      BY OthersSub, AppendSet
    <3> QED
      BY <1>4, <3>1, OthersSub DEF RecvSleeps
  <2>2. UNCHANGED <<q_messages, req>> /\ \A x \in Receiver \ {r} : pc'[x] = pc[x]
    BY <1>4, Distinct, Labels DEF RecvSleeps, Goto
  <2>3. \A m \in ToSet(q_messages) : ~testmsg(m, req[r].type, req[r].mode)
    BY <1>4, FoundResult DEF RecvSleeps, Looks
  <2> QED
    BY <2>1, <2>2, <2>3, Listing DEF Unmatched, testmsg
<1>5. ASSUME RecvAwake(r) PROVE Unmatched'
  <2>1. /\ ToSet(q_receivers)' \subseteq ToSet(q_receivers)
        /\ ToSet(q_messages)' \subseteq ToSet(q_messages)
    BY <1>5 DEF RecvAwake, queue
  <2>2. \A x \in Receiver : pc'[x] \in Within => pc[x] \in Within /\ req'[x] = req[x]
    BY <1>5, Distinct, Labels DEF RecvAwake, Goto, Within, Calling
  <2> QED
    BY <2>1, <2>2, Listing, UnmatchedFrame
<1>6. ASSUME RecvRelocks(r) PROVE Unmatched'
  <2>1. /\ ToSet(q_receivers)' \subseteq ToSet(q_receivers)
        /\ ToSet(q_messages)' \subseteq ToSet(q_messages)
    BY <1>6 DEF RecvRelocks, queue
  <2>2. \A x \in Receiver : pc'[x] \in Within => pc[x] \in Within /\ req'[x] = req[x]
    BY <1>6, Distinct, Labels DEF RecvRelocks, Goto, Within, Calling
  <2> QED
    BY <2>1, <2>2, Listing, UnmatchedFrame
<1>7. ASSUME RecvHanded(r) PROVE Unmatched'
  <2>1. /\ ToSet(q_receivers)' \subseteq ToSet(q_receivers)
        /\ ToSet(q_messages)' \subseteq ToSet(q_messages)
    BY <1>7 DEF RecvHanded, queue
  <2>2. \A x \in Receiver : pc'[x] \in Within => pc[x] \in Within /\ req'[x] = req[x]
    BY <1>7, Distinct, Labels DEF RecvHanded, RecvEnds, Goto, Within, Calling
  <2> QED
    BY <2>1, <2>2, Listing, UnmatchedFrame
<1>8. ASSUME Signal(r) PROVE Unmatched'
  <2>1. /\ ToSet(q_receivers)' \subseteq ToSet(q_receivers)
        /\ ToSet(q_messages)' \subseteq ToSet(q_messages)
    BY <1>8 DEF Signal, queue
  <2>2. \A x \in Receiver : pc'[x] \in Within => pc[x] \in Within /\ req'[x] = req[x]
    BY <1>8, Distinct, Labels DEF Signal, Within, Calling
  <2> QED
    BY <2>1, <2>2, Listing, UnmatchedFrame
<1> QED
  BY <1>1, <1>2, <1>3, <1>4, <1>5, <1>6, <1>7, <1>8 DEF ReceiverSteps

(* msgctl() adds nothing to either list. *)
LEMMA MatchesCtl ==
  ASSUME Calling, Kinds, Unmatched, CtlSteps
  PROVE  Unmatched'
<1>1. ASSUME NEW a \in CtlReq, msgctl(a) PROVE Unmatched'
  <2>1. /\ ToSet(q_receivers)' \subseteq ToSet(q_receivers)
        /\ ToSet(q_messages)' \subseteq ToSet(q_messages)
    BY <1>1 DEF msgctl, ipc_lock, queue
  <2>2. \A x \in Receiver : pc'[x] \in Within => pc[x] \in Within /\ req'[x] = req[x]
    BY <1>1, Distinct, Labels DEF msgctl, ipc_lock, Goto, Within, Calling
  <2> QED
    BY <2>1, <2>2, Listing, UnmatchedFrame
<1>2. ASSUME CtlLocked PROVE Unmatched'
  <2>1. /\ ToSet(q_receivers)' \subseteq ToSet(q_receivers)
        /\ ToSet(q_messages)' \subseteq ToSet(q_messages)
    BY <1>2 DEF CtlLocked, queue
  <2>2. \A x \in Receiver : pc'[x] \in Within => pc[x] \in Within /\ req'[x] = req[x]
    BY <1>2, Distinct, Labels DEF CtlLocked, Goto, Within, Calling
  <2> QED
    BY <2>1, <2>2, Listing, UnmatchedFrame
<1>3. ASSUME ExpungeNull PROVE Unmatched'
  <2>1. /\ ToSet(q_receivers)' \subseteq ToSet(q_receivers)
        /\ ToSet(q_messages)' \subseteq ToSet(q_messages)
    BY <1>3 DEF ExpungeNull, queue
  <2>2. \A x \in Receiver : pc'[x] \in Within => pc[x] \in Within /\ req'[x] = req[x]
    BY <1>3, Distinct, Labels DEF ExpungeNull, Expunged, Goto, Within, Calling
  <2> QED
    BY <2>1, <2>2, Listing, UnmatchedFrame
<1>4. ASSUME WakeUp(Ctl) PROVE Unmatched'
  <2>1. /\ ToSet(q_receivers)' \subseteq ToSet(q_receivers)
        /\ ToSet(q_messages)' \subseteq ToSet(q_messages)
    BY <1>4 DEF WakeUp, queue
  <2>2. \A x \in Receiver : pc'[x] \in Within => pc[x] \in Within /\ req'[x] = req[x]
    BY <1>4, Distinct, Labels DEF WakeUp, Goto, Within, Calling
  <2> QED
    BY <2>1, <2>2, Listing, UnmatchedFrame
<1>5. ASSUME ExpungeStore PROVE Unmatched'
  <2>1. /\ ToSet(q_receivers)' \subseteq ToSet(q_receivers)
        /\ ToSet(q_messages)' \subseteq ToSet(q_messages)
    BY <1>5 DEF ExpungeStore, queue
  <2>2. \A x \in Receiver : pc'[x] \in Within => pc[x] \in Within /\ req'[x] = req[x]
    BY <1>5, Distinct, Labels DEF ExpungeStore, Goto, Within, Calling
  <2> QED
    BY <2>1, <2>2, Listing, UnmatchedFrame
<1>6. ASSUME CtlUnlock PROVE Unmatched'
  <2>1. /\ ToSet(q_receivers)' \subseteq ToSet(q_receivers)
        /\ ToSet(q_messages)' \subseteq ToSet(q_messages)
    BY <1>6 DEF CtlUnlock, queue
  <2>2. \A x \in Receiver : pc'[x] \in Within => pc[x] \in Within /\ req'[x] = req[x]
    BY <1>6, Distinct, Labels DEF CtlUnlock, Expunged, Goto, Within, Calling
  <2> QED
    BY <2>1, <2>2, Listing, UnmatchedFrame
<1>7. ASSUME FreeMessages PROVE Unmatched'
  <2>1. /\ ToSet(q_receivers)' \subseteq ToSet(q_receivers)
        /\ ToSet(q_messages)' \subseteq ToSet(q_messages)
    BY <1>7 DEF FreeMessages, ToSet
  <2>2. \A x \in Receiver : pc'[x] \in Within => pc[x] \in Within /\ req'[x] = req[x]
    BY <1>7, Distinct, Labels DEF FreeMessages, Goto, Within, Calling
  <2> QED
    BY <2>1, <2>2, Listing, UnmatchedFrame
<1>8. ASSUME CtlPuts PROVE Unmatched'
  <2>1. /\ ToSet(q_receivers)' \subseteq ToSet(q_receivers)
        /\ ToSet(q_messages)' \subseteq ToSet(q_messages)
    BY <1>8 DEF CtlPuts, queue
  <2>2. \A x \in Receiver : pc'[x] \in Within => pc[x] \in Within /\ req'[x] = req[x]
    BY <1>8, Distinct, Labels DEF CtlPuts, Goto, Within, Calling
  <2> QED
    BY <2>1, <2>2, Listing, UnmatchedFrame
<1> QED
  BY <1>1, <1>2, <1>3, <1>4, <1>5, <1>6, <1>7, <1>8 DEF CtlSteps

(* Steps that leave the list and expunge_all() alone. *)
LEMMA PermittedFrame ==
  ASSUME Kinds, Permitted, UNCHANGED <<q_receivers, q_perm>>, ~deleted' => ~deleted,
         pc'[Ctl] = pc[Ctl], count'[Ctl] = count[Ctl],
         \A x \in Receiver : asleep'[x] => asleep[x]
  PROVE  Permitted'
<1>1. \A i \in DOMAIN q_receivers : q_receivers[i] \in Receiver
  BY DEF Kinds
<1> QED
  BY <1>1 DEF Permitted, Expunging

(* While nobody expunges the list. *)
LEMMA PermittedChange ==
  ASSUME Kinds, Permitted, ~Expunging, UNCHANGED <<deleted, q_perm>>,
         \A x \in ToSet(q_receivers)' : asleep'[x] =>
           q_perm \/ (x \in ToSet(q_receivers) /\ asleep[x])
  PROVE  Permitted'
<1>1. ~deleted => \A x \in ToSet(q_receivers) : asleep[x] => q_perm
  BY DEF Permitted, ToSet
<1>2. ~deleted => \A x \in ToSet(q_receivers)' : asleep'[x] => q_perm'
  BY <1>1
<1>3. \A i \in DOMAIN q_receivers' : q_receivers'[i] \in ToSet(q_receivers)'
  BY DEF ToSet
<1> QED
  BY <1>2, <1>3 DEF Permitted

(* A change of permissions is followed by expunge_all(). *)
LEMMA PermitsSender ==
  ASSUME NEW s \in Sender, Calling, Kinds, Control, Listed, Permitted, SenderSteps(s)
  PROVE  Permitted'
<1>1. ASSUME NEW m \in Outbox[s], NEW nowait \in BOOLEAN, msgsnd(s, m, nowait)
      PROVE  Permitted'
  <2>1. /\ UNCHANGED <<q_receivers, q_perm>> /\ (~deleted' => ~deleted)
        /\ pc'[Ctl] = pc[Ctl] /\ count'[Ctl] = count[Ctl]
        /\ \A x \in Receiver : asleep'[x] => asleep[x]
    BY <1>1, Distinct, Labels
    DEF msgsnd, ipc_lock, Goto, Kinds, queue, memory, waiting
  <2> QED
    BY <2>1, PermittedFrame
<1>2. ASSUME SendRefused(s) PROVE Permitted'
  <2>1. /\ UNCHANGED <<q_receivers, q_perm>> /\ (~deleted' => ~deleted)
        /\ pc'[Ctl] = pc[Ctl] /\ count'[Ctl] = count[Ctl]
        /\ \A x \in Receiver : asleep'[x] => asleep[x]
    BY <1>2, Distinct, Labels
    DEF SendRefused, Tries, SendFails, Goto, Kinds, queue, memory, waiting
  <2> QED
    BY <2>1, PermittedFrame
<1>3. ASSUME SendGoesOn(s) PROVE Permitted'
  <2>1. /\ UNCHANGED <<q_receivers, q_perm>> /\ (~deleted' => ~deleted)
        /\ pc'[Ctl] = pc[Ctl] /\ count'[Ctl] = count[Ctl]
        /\ \A x \in Receiver : asleep'[x] => asleep[x]
    BY <1>3, Distinct, Labels
    DEF SendGoesOn, Tries, Goto, Kinds, queue, memory, waiting
  <2> QED
    BY <2>1, PermittedFrame
<1>4. ASSUME SendSleeps(s) PROVE Permitted'
  <2>1. /\ UNCHANGED <<q_receivers, q_perm>> /\ (~deleted' => ~deleted)
        /\ pc'[Ctl] = pc[Ctl] /\ count'[Ctl] = count[Ctl]
        /\ \A x \in Receiver : asleep'[x] => asleep[x]
    BY <1>4, Distinct, Labels
    DEF SendSleeps, Tries, Goto, Kinds, queue, memory, waiting
  <2> QED
    BY <2>1, PermittedFrame
<1>5. ASSUME SendAwake(s) PROVE Permitted'
  <2>1. /\ UNCHANGED <<q_receivers, q_perm>> /\ (~deleted' => ~deleted)
        /\ pc'[Ctl] = pc[Ctl] /\ count'[Ctl] = count[Ctl]
        /\ \A x \in Receiver : asleep'[x] => asleep[x]
    BY <1>5, Distinct, Labels
    DEF SendAwake, Goto, Kinds, queue, memory, waiting
  <2> QED
    BY <2>1, PermittedFrame
<1>6. ASSUME SendPuts(s) PROVE Permitted'
  <2>1. /\ UNCHANGED <<q_receivers, q_perm>> /\ (~deleted' => ~deleted)
        /\ pc'[Ctl] = pc[Ctl] /\ count'[Ctl] = count[Ctl]
        /\ \A x \in Receiver : asleep'[x] => asleep[x]
    BY <1>6, Distinct, Labels
    DEF SendPuts, ipc_rcu_putref, Goto, Kinds, queue, memory, waiting
  <2> QED
    BY <2>1, PermittedFrame
<1>7. ASSUME PipelinedSend(s) PROVE Permitted'
  <2>1. q_receivers \in Seq(Receiver)
    BY DEF Kinds
  <2>2. \A x : ToSet(Without(q_receivers, x)) \subseteq ToSet(q_receivers)
    BY <2>1, WithoutSub
  <2>3. /\ ToSet(q_receivers)' \subseteq ToSet(q_receivers)
        /\ UNCHANGED <<deleted, q_perm, asleep>>
    BY <1>7, <2>2 DEF PipelinedSend, queue
  <2>4. ~Expunging
    BY <1>7, SenderAlone DEF PipelinedSend
  <2> QED
    BY <2>3, <2>4, PermittedChange
<1>8. ASSUME WakeUp(s) PROVE Permitted'
  <2>1. /\ UNCHANGED <<q_receivers, q_perm>> /\ (~deleted' => ~deleted)
        /\ pc'[Ctl] = pc[Ctl] /\ count'[Ctl] = count[Ctl]
        /\ \A x \in Receiver : asleep'[x] => asleep[x]
    BY <1>8, Distinct, Labels
    DEF WakeUp, Goto, Kinds, queue, memory, waiting
  <2> QED
    BY <2>1, PermittedFrame
<1>9. ASSUME StoresError(s) PROVE Permitted'
  <2>1. /\ UNCHANGED <<q_receivers, q_perm>> /\ (~deleted' => ~deleted)
        /\ pc'[Ctl] = pc[Ctl] /\ count'[Ctl] = count[Ctl]
        /\ \A x \in Receiver : asleep'[x] => asleep[x]
    BY <1>9, Distinct, Labels
    DEF StoresError, Goto, Kinds, queue, memory, waiting
  <2> QED
    BY <2>1, PermittedFrame
<1>10. ASSUME StoresMessage(s) PROVE Permitted'
  <2>1. /\ UNCHANGED <<q_receivers, q_perm>> /\ (~deleted' => ~deleted)
        /\ pc'[Ctl] = pc[Ctl] /\ count'[Ctl] = count[Ctl]
        /\ \A x \in Receiver : asleep'[x] => asleep[x]
    BY <1>10, Distinct, Labels
    DEF StoresMessage, SendDone, Goto, Kinds, queue, memory, waiting
  <2> QED
    BY <2>1, PermittedFrame
<1>11. ASSUME Enqueue(s) PROVE Permitted'
  <2>1. /\ UNCHANGED <<q_receivers, q_perm>> /\ (~deleted' => ~deleted)
        /\ pc'[Ctl] = pc[Ctl] /\ count'[Ctl] = count[Ctl]
        /\ \A x \in Receiver : asleep'[x] => asleep[x]
    BY <1>11, Distinct, Labels
    DEF Enqueue, SendDone, Goto, Kinds, queue, memory, waiting
  <2> QED
    BY <2>1, PermittedFrame
<1>12. ASSUME Signal(s) PROVE Permitted'
  <2>1. /\ UNCHANGED <<q_receivers, q_perm>> /\ (~deleted' => ~deleted)
        /\ pc'[Ctl] = pc[Ctl] /\ count'[Ctl] = count[Ctl]
        /\ \A x \in Receiver : asleep'[x] => asleep[x]
    BY <1>12, Distinct, Labels
    DEF Signal, Kinds, queue, memory, waiting
  <2> QED
    BY <2>1, PermittedFrame
<1> QED
  BY <1>1, <1>2, <1>3, <1>4, <1>5, <1>6, <1>7, <1>8, <1>9, <1>10, <1>11, <1>12
     DEF SenderSteps

(* A receiver sleeps only with permission. *)
LEMMA PermitsReceiver ==
  ASSUME NEW r \in Receiver, Calling, Kinds, Control, Listed, Permitted, ReceiverSteps(r)
  PROVE  Permitted'
<1>1. ASSUME NEW a \in RecvReq[r], msgrcv(r, a) PROVE Permitted'
  <2>1. /\ UNCHANGED <<q_receivers, q_perm>> /\ (~deleted' => ~deleted)
        /\ pc'[Ctl] = pc[Ctl] /\ count'[Ctl] = count[Ctl]
        /\ \A x \in Receiver : asleep'[x] => asleep[x]
    BY <1>1, Distinct, Labels
    DEF msgrcv, ipc_lock, Goto, Kinds, queue, memory, waiting
  <2> QED
    BY <2>1, PermittedFrame
<1>2. ASSUME RecvRefused(r) PROVE Permitted'
  <2>1. ToSet(q_receivers)' \subseteq ToSet(q_receivers) /\ UNCHANGED <<deleted, q_perm>>
    BY <1>2, OthersSub DEF RecvRefused, Looks
  <2>2. \A x \in Receiver : asleep'[x] => asleep[x]
    BY <1>2, Distinct DEF RecvRefused
  <2>3. ~Expunging
    BY <1>2, Unlocked DEF RecvRefused, Looks
  <2> QED
    BY <2>1, <2>2, <2>3, Listing, PermittedChange
<1>3. ASSUME RecvTakes(r) PROVE Permitted'
  <2>1. ToSet(q_receivers)' \subseteq ToSet(q_receivers) /\ UNCHANGED <<deleted, q_perm>>
    BY <1>3, OthersSub DEF RecvTakes, Looks
  <2>2. \A x \in Receiver : asleep'[x] => asleep[x]
    BY <1>3, Distinct DEF RecvTakes, ss_wakeup
  <2>3. ~Expunging
    BY <1>3, Unlocked DEF RecvTakes, Looks
  <2> QED
    BY <2>1, <2>2, <2>3, Listing, PermittedChange
<1>4. ASSUME RecvSleeps(r) PROVE Permitted'
  <2>1. ~Expunging /\ q_perm /\ UNCHANGED <<deleted, q_perm>>
    BY <1>4, Unlocked DEF RecvSleeps, Looks
  <2> QED
    BY <2>1, PermittedChange
<1>5. ASSUME RecvAwake(r) PROVE Permitted'
  <2>1. /\ UNCHANGED <<q_receivers, q_perm>> /\ (~deleted' => ~deleted)
        /\ pc'[Ctl] = pc[Ctl] /\ count'[Ctl] = count[Ctl]
        /\ \A x \in Receiver : asleep'[x] => asleep[x]
    BY <1>5, Distinct, Labels
    DEF RecvAwake, Goto, Kinds, queue, memory, waiting
  <2> QED
    BY <2>1, PermittedFrame
<1>6. ASSUME RecvRelocks(r) PROVE Permitted'
  <2>1. /\ UNCHANGED <<q_receivers, q_perm>> /\ (~deleted' => ~deleted)
        /\ pc'[Ctl] = pc[Ctl] /\ count'[Ctl] = count[Ctl]
        /\ \A x \in Receiver : asleep'[x] => asleep[x]
    BY <1>6, Distinct, Labels
    DEF RecvRelocks, Goto, Kinds, queue, memory, waiting
  <2> QED
    BY <2>1, PermittedFrame
<1>7. ASSUME RecvHanded(r) PROVE Permitted'
  <2>1. /\ UNCHANGED <<q_receivers, q_perm>> /\ (~deleted' => ~deleted)
        /\ pc'[Ctl] = pc[Ctl] /\ count'[Ctl] = count[Ctl]
        /\ \A x \in Receiver : asleep'[x] => asleep[x]
    BY <1>7, Distinct, Labels
    DEF RecvHanded, RecvEnds, Goto, Kinds, queue, memory, waiting
  <2> QED
    BY <2>1, PermittedFrame
<1>8. ASSUME Signal(r) PROVE Permitted'
  <2>1. /\ UNCHANGED <<q_receivers, q_perm>> /\ (~deleted' => ~deleted)
        /\ pc'[Ctl] = pc[Ctl] /\ count'[Ctl] = count[Ctl]
        /\ \A x \in Receiver : asleep'[x] => asleep[x]
    BY <1>8, Distinct, Labels
    DEF Signal, Kinds, queue, memory, waiting
  <2> QED
    BY <2>1, PermittedFrame
<1> QED
  BY <1>1, <1>2, <1>3, <1>4, <1>5, <1>6, <1>7, <1>8 DEF ReceiverSteps

(* expunge_all() wakes the whole list before IPC_SET unlocks. *)
LEMMA PermitsCtl ==
  ASSUME Calling, Kinds, Control, Listed, Permitted, CtlSteps
  PROVE  Permitted'
<1>1. ASSUME NEW a \in CtlReq, msgctl(a) PROVE Permitted'
  <2>1. ~Expunging /\ UNCHANGED <<deleted, q_perm, q_receivers, asleep>>
    BY <1>1 DEF msgctl, ipc_lock, Expunging, queue, waiting
  <2> QED
    BY <2>1, PermittedChange
<1>2. ASSUME CtlLocked PROVE Permitted'
  <2>1. pc'[Ctl] = "expunge" /\ count'[Ctl] = 0 /\ UNCHANGED q_receivers
    BY <1>2, Distinct, Labels DEF CtlLocked, Goto, Listed, Marked, memory
  <2>2. \A i \in DOMAIN q_receivers' : i > count'[Ctl]
    BY <2>1 DEF Kinds
  <2> QED
    BY <2>1, <2>2 DEF Permitted, Expunging
<1>3. ASSUME ExpungeNull PROVE Permitted'
  <2>1. pc[Ctl] = "expunge" /\ ~deleted /\ Ctl \in Task
    BY <1>3, Distinct DEF ExpungeNull, Control
  <2>2. PICK c \in Nat : c = count[Ctl]
    BY <2>1 DEF Kinds
  <2>3. count'[Ctl] = c + 1
    <3>1. count' = [count EXCEPT ![Ctl] = c + 1]
      BY <1>3, <2>2 DEF ExpungeNull
    <3> QED
      BY <2>1, <3>1 DEF Kinds
  <2>4. pc'[Ctl] = "wake" /\ UNCHANGED <<q_receivers, q_perm, deleted, asleep>>
    BY <1>3, <2>1, Labels DEF ExpungeNull, Goto, queue
  <2>5. SUFFICES ASSUME NEW i \in DOMAIN q_receivers', asleep'[q_receivers'[i]]
        PROVE  q_perm' \/ i > count'[Ctl] \/ i = count'[Ctl]
    BY <2>4 DEF Permitted, Expunging
  <2>6. i \in DOMAIN q_receivers /\ i \in Nat
    <3>1. i \in DOMAIN q_receivers
      BY <2>4, <2>5
    <3> QED
      BY <3>1 DEF Kinds
  <2>7. q_perm \/ i > c
    BY <2>1, <2>2, <2>4, <2>5, <2>6 DEF Permitted
  <2>8. q_perm \/ i > c + 1 \/ i = c + 1
    BY <2>6, <2>7
  <2> QED
    BY <2>3, <2>4, <2>8
<1>4. ASSUME WakeUp(Ctl) PROVE Permitted'
  <2>1. pc[Ctl] = "wake" /\ ~deleted /\ Ctl \in Task
    BY <1>4, Distinct DEF WakeUp, Control
  <2>2. target[Ctl] \in Receiver /\ target[Ctl] = q_receivers[count[Ctl]]
    BY <2>1 DEF Kinds, Listed, Waking
  <2>3. /\ pc'[Ctl] = "store" /\ UNCHANGED <<q_receivers, q_perm, deleted, count>>
        /\ ~asleep'[target[Ctl]] /\ \A x \in Receiver : asleep'[x] => asleep[x]
    BY <1>4, <2>1, <2>2, Distinct, Labels DEF WakeUp, Goto, Kinds, queue, memory
  <2>4. \A i \in DOMAIN q_receivers : q_receivers[i] \in Receiver
    BY DEF Kinds
  <2> QED
    BY <2>1, <2>2, <2>3, <2>4 DEF Permitted, Expunging
<1>5. ASSUME ExpungeStore PROVE Permitted'
  <2>1. pc[Ctl] = "store" /\ ~deleted /\ Ctl \in Task
    BY <1>5, Distinct DEF ExpungeStore, Control
  <2>2. /\ pc'[Ctl] = "expunge" /\ UNCHANGED <<q_receivers, q_perm, deleted, count, asleep>>
    BY <1>5, <2>1, Labels DEF ExpungeStore, Goto, queue, memory
  <2> QED
    BY <2>1, <2>2 DEF Permitted, Expunging
<1>6. ASSUME CtlUnlock PROVE Permitted'
  <2>1. pc[Ctl] = "expunge" /\ ~deleted /\ Ctl \in Task
    BY <1>6, Distinct DEF CtlUnlock, Control
  <2>2. UNCHANGED <<q_receivers, q_perm>> /\ \A x \in Receiver : asleep'[x] => asleep[x]
    BY <1>6, Distinct DEF CtlUnlock, ss_wakeup
  <2>3. \A i \in DOMAIN q_receivers : i <= count[Ctl] /\ q_receivers[i] \in Receiver
    BY <1>6, <2>1 DEF CtlUnlock, Expunged, Kinds
  <2>4. \A i \in DOMAIN q_receivers : asleep[q_receivers[i]] => q_perm
    BY <2>1, <2>3 DEF Permitted, Kinds
  <2> QED
    BY <2>2, <2>3, <2>4 DEF Permitted
<1>7. ASSUME FreeMessages PROVE Permitted'
  BY <1>7 DEF FreeMessages, Control, Permitted
<1>8. ASSUME CtlPuts PROVE Permitted'
  BY <1>8 DEF CtlPuts, Control, Permitted, queue
<1> QED
  BY <1>1, <1>2, <1>3, <1>4, <1>5, <1>6, <1>7, <1>8 DEF CtlSteps

(* Steps that make no room. *)
LEMMA FullFrame ==
  ASSUME Full, UNCHANGED <<q_qbytes, q_cbytes, q_qnum>>, deleted => deleted',
         Expunging => Expunging' \/ deleted',
         \A x \in ToSet(q_senders)' : asleep'[x] =>
           x \in ToSet(q_senders) /\ asleep[x] /\ req'[x] = req[x]
  PROVE  Full'
BY DEF Full, Fits

(* A sender's steps change the list by its own record. *)
LEMMA SendersChange ==
  ASSUME Kinds, NEW s \in Sender, NEW l \in {q_senders, Without(q_senders, s)}
  PROVE  ToSet(l) \subseteq ToSet(q_senders) /\ ToSet(Append(l, s)) = ToSet(l) \cup {s}
<1>1. q_senders \in Seq(Sender)
  BY DEF Kinds
<1>2. l \in Seq(Sender) /\ ToSet(l) \subseteq ToSet(q_senders)
  BY <1>1, WithoutSub
<1> QED
  BY <1>2, AppendSet

(* A sender sleeps when there is no room, and queueing makes none. *)
LEMMA FillsSender ==
  ASSUME NEW s \in Sender, Calling, Kinds, Control, Listed, Resting, Full, SenderSteps(s)
  PROVE  Full'
<1>1. ASSUME NEW m \in Outbox[s], NEW nowait \in BOOLEAN, msgsnd(s, m, nowait) PROVE Full'
  <2>1. /\ UNCHANGED <<q_qbytes, q_cbytes, q_qnum, deleted, q_senders>>
        /\ Expunging => Expunging'
    BY <1>1, Distinct, Labels DEF msgsnd, ipc_lock, Goto, Expunging, queue
  <2>2. \A x \in Sender : asleep'[x] => asleep[x] /\ req'[x] = req[x]
    BY <1>1, Distinct, Labels DEF msgsnd, ipc_lock, Goto, Resting, Kinds, Calling, waiting
  <2> QED
    BY <2>1, <2>2, Listing, FullFrame
<1>2. ASSUME SendRefused(s) PROVE Full'
  <2>1. /\ UNCHANGED <<q_qbytes, q_cbytes, q_qnum, deleted>>
        /\ Expunging => Expunging'
        /\ ToSet(q_senders)' \subseteq ToSet(q_senders)
    BY <1>2, Distinct, Labels, SendersChange
    DEF SendRefused, Tries, SendFails, Goto, Expunging, queue
  <2>2. \A x \in Sender : asleep'[x] => asleep[x] /\ req'[x] = req[x]
    BY <1>2, Distinct, Labels
    DEF SendRefused, Tries, SendFails, Goto, Resting, Kinds, Calling, waiting
  <2> QED
    BY <2>1, <2>2, Listing, FullFrame
<1>3. ASSUME SendGoesOn(s) PROVE Full'
  <2>1. /\ UNCHANGED <<q_qbytes, q_cbytes, q_qnum, deleted>>
        /\ Expunging => Expunging'
        /\ ToSet(q_senders)' \subseteq ToSet(q_senders)
    BY <1>3, Distinct, Labels, SendersChange DEF SendGoesOn, Tries, Goto, Expunging, queue
  <2>2. \A x \in Sender : asleep'[x] => asleep[x] /\ req'[x] = req[x]
    BY <1>3, Distinct, Labels
    DEF SendGoesOn, Tries, Goto, Resting, Kinds, Calling, waiting
  <2> QED
    BY <2>1, <2>2, Listing, FullFrame
<1>4. ASSUME SendSleeps(s) PROVE Full'
  <2>1. UNCHANGED <<q_qbytes, q_cbytes, q_qnum, deleted, req>> /\ ~Fits(req[s].m)
    BY <1>4 DEF SendSleeps, Tries, queue
  <2>2. ToSet(q_senders)' \subseteq ToSet(q_senders) \cup {s}
    BY <1>4, SendersChange DEF SendSleeps
  <2>3. \A x \in Sender \ {s} : asleep'[x] => asleep[x]
    BY <1>4, Distinct DEF SendSleeps, Kinds
  <2>4. Expunging => Expunging'
    BY <1>4, Distinct, Labels DEF SendSleeps, Goto, Expunging
  <2> QED
    BY <2>1, <2>2, <2>3, <2>4, Listing DEF Full, Fits
<1>5. ASSUME SendAwake(s) PROVE Full'
  <2>1. /\ UNCHANGED <<q_qbytes, q_cbytes, q_qnum, deleted, q_senders>>
        /\ Expunging => Expunging'
    BY <1>5, Distinct, Labels DEF SendAwake, Goto, Expunging, queue
  <2>2. \A x \in Sender : asleep'[x] => asleep[x] /\ req'[x] = req[x]
    BY <1>5, Distinct, Labels DEF SendAwake, Goto, Resting, Kinds, Calling, waiting
  <2> QED
    BY <2>1, <2>2, Listing, FullFrame
<1>6. ASSUME SendPuts(s) PROVE Full'
  <2>1. /\ UNCHANGED <<q_qbytes, q_cbytes, q_qnum, deleted, q_senders>>
        /\ Expunging => Expunging'
    BY <1>6, Distinct, Labels DEF SendPuts, Goto, Expunging, queue
  <2>2. \A x \in Sender : asleep'[x] => asleep[x] /\ req'[x] = req[x]
    BY <1>6, Distinct, Labels DEF SendPuts, Goto, Resting, Kinds, Calling, waiting
  <2> QED
    BY <2>1, <2>2, Listing, FullFrame
<1>7. ASSUME PipelinedSend(s) PROVE Full'
  <2>1. /\ UNCHANGED <<q_qbytes, q_cbytes, q_qnum, deleted, q_senders>>
        /\ Expunging => Expunging'
    BY <1>7, Distinct, Labels DEF PipelinedSend, Goto, Expunging, queue
  <2>2. \A x \in Sender : asleep'[x] => asleep[x] /\ req'[x] = req[x]
    BY <1>7, Distinct, Labels DEF PipelinedSend, Goto, Resting, Kinds, Calling, waiting
  <2> QED
    BY <2>1, <2>2, Listing, FullFrame
<1>8. ASSUME WakeUp(s) PROVE Full'
  <2>1. /\ UNCHANGED <<q_qbytes, q_cbytes, q_qnum, deleted, q_senders>>
        /\ Expunging => Expunging'
    BY <1>8, Distinct, Labels DEF WakeUp, Goto, Expunging, queue
  <2>2. \A x \in Sender : asleep'[x] => asleep[x] /\ req'[x] = req[x]
    BY <1>8, Distinct, Labels DEF WakeUp, Goto, Resting, Kinds, Calling, waiting
  <2> QED
    BY <2>1, <2>2, Listing, FullFrame
<1>9. ASSUME StoresError(s) PROVE Full'
  <2>1. /\ UNCHANGED <<q_qbytes, q_cbytes, q_qnum, deleted, q_senders>>
        /\ Expunging => Expunging'
    BY <1>9, Distinct, Labels DEF StoresError, Goto, Expunging, queue
  <2>2. \A x \in Sender : asleep'[x] => asleep[x] /\ req'[x] = req[x]
    BY <1>9, Distinct, Labels DEF StoresError, Goto, Resting, Kinds, Calling, waiting
  <2> QED
    BY <2>1, <2>2, Listing, FullFrame
<1>10. ASSUME StoresMessage(s) PROVE Full'
  <2>1. /\ UNCHANGED <<q_qbytes, q_cbytes, q_qnum, deleted, q_senders>>
        /\ Expunging => Expunging'
    BY <1>10, Distinct, Labels DEF StoresMessage, SendDone, Goto, Expunging, queue
  <2>2. \A x \in Sender : asleep'[x] => asleep[x] /\ req'[x] = req[x]
    BY <1>10, Distinct, Labels
    DEF StoresMessage, SendDone, Goto, Resting, Kinds, Calling, waiting
  <2> QED
    BY <2>1, <2>2, Listing, FullFrame
<1>11. ASSUME Enqueue(s) PROVE Full'
  <2>1. /\ UNCHANGED <<q_qbytes, deleted, q_senders, asleep>> /\ (Expunging => Expunging')
        /\ \A x \in Sender \ {s} : req'[x] = req[x]
    BY <1>11, Distinct, Labels DEF Enqueue, SendDone, Goto, Expunging, Calling
  <2>2. ~asleep[s]
    BY <1>11, Distinct DEF Enqueue, Resting
  <2>3. PICK k \in Nat : k = m_ts[req[s].m]
    BY <1>11, IpcMsgAssumption DEF Enqueue, Calling, SendArgs
  <2>4. PICK b \in Int, n \in Int, l \in Int : b = q_cbytes /\ n = q_qnum /\ l = q_qbytes
    BY DEF Kinds
  <2>5. q_cbytes' = b + k /\ q_qnum' = n + 1 /\ q_qbytes' = l
    BY <1>11, <2>3, <2>4 DEF Enqueue
  <2>6. SUFFICES ASSUME NEW x \in ToSet(q_senders)', asleep'[x], ~Expunging', ~deleted'
        PROVE  ~Fits(req[x].m)'
    BY DEF Full
  <2>7. x \in Sender /\ x \in ToSet(q_senders) /\ asleep[x] /\ x # s /\ req'[x] = req[x]
    BY <2>1, <2>2, <2>6, Listing
  <2>8. PICK j \in Nat : j = m_ts[req[x].m]
    BY <2>7, Distinct, IpcMsgAssumption DEF Resting, Calling, SendArgs
  <2>9. ~(j + b <= l /\ 1 + n <= l)
    BY <2>1, <2>4, <2>6, <2>7, <2>8 DEF Full, Fits
  <2>10. ~(j + (b + k) <= l /\ 1 + (n + 1) <= l)
    BY <2>9
  <2> QED
    BY <2>5, <2>7, <2>8, <2>10 DEF Fits
<1>12. ASSUME Signal(s) PROVE Full'
  <2>1. /\ UNCHANGED <<q_qbytes, q_cbytes, q_qnum, deleted, q_senders>>
        /\ Expunging => Expunging'
    BY <1>12, Distinct, Labels DEF Signal, Expunging, queue
  <2>2. \A x \in Sender : asleep'[x] => asleep[x] /\ req'[x] = req[x]
    BY <1>12, Distinct, Labels DEF Signal, Resting, Kinds, Calling, waiting
  <2> QED
    BY <2>1, <2>2, Listing, FullFrame
<1> QED
  BY <1>1, <1>2, <1>3, <1>4, <1>5, <1>6, <1>7, <1>8, <1>9, <1>10, <1>11, <1>12
     DEF SenderSteps

(* Who makes room wakes the senders. *)
LEMMA FillsReceiver ==
  ASSUME NEW r \in Receiver, Calling, Kinds, Control, Listed, Resting, Full,
         ReceiverSteps(r)
  PROVE  Full'
<1>1. ASSUME NEW a \in RecvReq[r], msgrcv(r, a) PROVE Full'
  <2>1. /\ UNCHANGED <<q_qbytes, q_cbytes, q_qnum, deleted, q_senders>>
        /\ Expunging => Expunging'
    BY <1>1, Distinct, Labels DEF msgrcv, ipc_lock, Goto, Expunging, queue
  <2>2. \A x \in Sender : asleep'[x] => asleep[x] /\ req'[x] = req[x]
    BY <1>1, Distinct, Labels DEF msgrcv, ipc_lock, Goto, Resting, Kinds, Calling, waiting
  <2> QED
    BY <2>1, <2>2, Listing, FullFrame
<1>2. ASSUME RecvRefused(r) PROVE Full'
  <2>1. /\ UNCHANGED <<q_qbytes, q_cbytes, q_qnum, deleted, q_senders>>
        /\ Expunging => Expunging'
    BY <1>2, Distinct, Labels DEF RecvRefused, Looks, RecvEnds, Goto, Expunging, queue
  <2>2. \A x \in Sender : asleep'[x] => asleep[x] /\ req'[x] = req[x]
    BY <1>2, Distinct, Labels
    DEF RecvRefused, Looks, RecvEnds, Goto, Resting, Kinds, Calling, waiting
  <2> QED
    BY <2>1, <2>2, Listing, FullFrame
<1>3. ASSUME RecvTakes(r) PROVE Full'
  <2>1. UNCHANGED q_senders /\ \A x \in ToSet(q_senders) : ~asleep'[x]
    BY <1>3, Distinct, Listing DEF RecvTakes, Looks, ss_wakeup
  <2> QED
    BY <2>1 DEF Full
<1>4. ASSUME RecvSleeps(r) PROVE Full'
  <2>1. /\ UNCHANGED <<q_qbytes, q_cbytes, q_qnum, deleted, q_senders>>
        /\ Expunging => Expunging'
    BY <1>4, Distinct, Labels DEF RecvSleeps, Looks, Goto, Expunging, queue
  <2>2. \A x \in Sender : asleep'[x] => asleep[x] /\ req'[x] = req[x]
    BY <1>4, Distinct, Labels
    DEF RecvSleeps, Looks, Goto, Resting, Kinds, Calling, waiting
  <2> QED
    BY <2>1, <2>2, Listing, FullFrame
<1>5. ASSUME RecvAwake(r) PROVE Full'
  <2>1. /\ UNCHANGED <<q_qbytes, q_cbytes, q_qnum, deleted, q_senders>>
        /\ Expunging => Expunging'
    BY <1>5, Distinct, Labels DEF RecvAwake, Goto, Expunging, queue
  <2>2. \A x \in Sender : asleep'[x] => asleep[x] /\ req'[x] = req[x]
    BY <1>5, Distinct, Labels DEF RecvAwake, Goto, Resting, Kinds, Calling, waiting
  <2> QED
    BY <2>1, <2>2, Listing, FullFrame
<1>6. ASSUME RecvRelocks(r) PROVE Full'
  <2>1. /\ UNCHANGED <<q_qbytes, q_cbytes, q_qnum, deleted, q_senders>>
        /\ Expunging => Expunging'
    BY <1>6, Distinct, Labels DEF RecvRelocks, Goto, Expunging, queue
  <2>2. \A x \in Sender : asleep'[x] => asleep[x] /\ req'[x] = req[x]
    BY <1>6, Distinct, Labels DEF RecvRelocks, Goto, Resting, Kinds, Calling, waiting
  <2> QED
    BY <2>1, <2>2, Listing, FullFrame
<1>7. ASSUME RecvHanded(r) PROVE Full'
  <2>1. /\ UNCHANGED <<q_qbytes, q_cbytes, q_qnum, deleted, q_senders>>
        /\ Expunging => Expunging'
    BY <1>7, Distinct, Labels DEF RecvHanded, RecvEnds, Goto, Expunging, queue
  <2>2. \A x \in Sender : asleep'[x] => asleep[x] /\ req'[x] = req[x]
    BY <1>7, Distinct, Labels
    DEF RecvHanded, RecvEnds, Goto, Resting, Kinds, Calling, waiting
  <2> QED
    BY <2>1, <2>2, Listing, FullFrame
<1>8. ASSUME Signal(r) PROVE Full'
  <2>1. /\ UNCHANGED <<q_qbytes, q_cbytes, q_qnum, deleted, q_senders>>
        /\ Expunging => Expunging'
    BY <1>8, Distinct, Labels DEF Signal, Expunging, queue
  <2>2. \A x \in Sender : asleep'[x] => asleep[x] /\ req'[x] = req[x]
    BY <1>8, Distinct, Labels DEF Signal, Resting, Kinds, Calling, waiting
  <2> QED
    BY <2>1, <2>2, Listing, FullFrame
<1> QED
  BY <1>1, <1>2, <1>3, <1>4, <1>5, <1>6, <1>7, <1>8 DEF ReceiverSteps

(* IPC_SET wakes them before it unlocks. *)
LEMMA FillsCtl ==
  ASSUME Calling, Kinds, Control, Listed, Resting, Full, CtlSteps
  PROVE  Full'
<1>1. ASSUME NEW a \in CtlReq, msgctl(a) PROVE Full'
  <2>1. /\ UNCHANGED <<q_qbytes, q_cbytes, q_qnum, deleted, q_senders>>
        /\ Expunging => Expunging'
    BY <1>1, Distinct, Labels DEF msgctl, ipc_lock, Goto, Expunging, queue
  <2>2. \A x \in Sender : asleep'[x] => asleep[x] /\ req'[x] = req[x]
    BY <1>1, Distinct, Labels DEF msgctl, ipc_lock, Goto, Resting, Kinds, Calling, waiting
  <2> QED
    BY <2>1, <2>2, Listing, FullFrame
<1>2. ASSUME CtlLocked PROVE Full'
  BY <1>2, Distinct, Labels DEF CtlLocked, Goto, Full, Expunging
<1>3. ASSUME ExpungeNull PROVE Full'
  <2>1. /\ UNCHANGED <<q_qbytes, q_cbytes, q_qnum, deleted, q_senders>>
        /\ Expunging => Expunging'
    BY <1>3, Distinct, Labels DEF ExpungeNull, Expunged, Goto, Expunging, queue
  <2>2. \A x \in Sender : asleep'[x] => asleep[x] /\ req'[x] = req[x]
    BY <1>3, Distinct, Labels
    DEF ExpungeNull, Expunged, Goto, Resting, Kinds, Calling, waiting
  <2> QED
    BY <2>1, <2>2, Listing, FullFrame
<1>4. ASSUME WakeUp(Ctl) PROVE Full'
  <2>1. /\ UNCHANGED <<q_qbytes, q_cbytes, q_qnum, deleted, q_senders>>
        /\ Expunging => Expunging'
    BY <1>4, Distinct, Labels DEF WakeUp, Goto, Expunging, queue
  <2>2. \A x \in Sender : asleep'[x] => asleep[x] /\ req'[x] = req[x]
    BY <1>4, Distinct, Labels DEF WakeUp, Goto, Resting, Kinds, Calling, waiting
  <2> QED
    BY <2>1, <2>2, Listing, FullFrame
<1>5. ASSUME ExpungeStore PROVE Full'
  <2>1. /\ UNCHANGED <<q_qbytes, q_cbytes, q_qnum, deleted, q_senders>>
        /\ Expunging => Expunging'
    BY <1>5, Distinct, Labels DEF ExpungeStore, Goto, Expunging, queue
  <2>2. \A x \in Sender : asleep'[x] => asleep[x] /\ req'[x] = req[x]
    BY <1>5, Distinct, Labels DEF ExpungeStore, Goto, Resting, Kinds, Calling, waiting
  <2> QED
    BY <2>1, <2>2, Listing, FullFrame
<1>6. ASSUME CtlUnlock PROVE Full'
  <2>1. UNCHANGED q_senders /\ \A x \in ToSet(q_senders) : ~asleep'[x]
    BY <1>6, Distinct, Listing DEF CtlUnlock, ss_wakeup
  <2> QED
    BY <2>1 DEF Full
<1>7. ASSUME FreeMessages PROVE Full'
  <2>1. /\ UNCHANGED <<q_qbytes, q_cbytes, q_qnum, deleted, q_senders>>
        /\ Expunging => Expunging'
    BY <1>7, Distinct, Labels DEF FreeMessages, Goto, Expunging, queue
  <2>2. \A x \in Sender : asleep'[x] => asleep[x] /\ req'[x] = req[x]
    BY <1>7, Distinct, Labels DEF FreeMessages, Goto, Resting, Kinds, Calling, waiting
  <2> QED
    BY <2>1, <2>2, Listing, FullFrame
<1>8. ASSUME CtlPuts PROVE Full'
  <2>1. /\ UNCHANGED <<q_qbytes, q_cbytes, q_qnum, deleted, q_senders>>
        /\ Expunging => Expunging'
    BY <1>8, Distinct, Labels DEF CtlPuts, Goto, Expunging, queue
  <2>2. \A x \in Sender : asleep'[x] => asleep[x] /\ req'[x] = req[x]
    BY <1>8, Distinct, Labels DEF CtlPuts, Goto, Resting, Kinds, Calling, waiting
  <2> QED
    BY <2>1, <2>2, Listing, FullFrame
<1> QED
  BY <1>1, <1>2, <1>3, <1>4, <1>5, <1>6, <1>7, <1>8 DEF CtlSteps

-----------------------------------------------------------------------------
(* The inductive invariant. *)

IInv ==
  /\ Calling /\ Kinds /\ Control /\ Listed /\ Counted /\ Sending /\ Placed /\ Sized
  /\ Handed

(* It holds at first, ... *)
LEMMA InitIInv == Init => IInv
<1> SUFFICES ASSUME Init PROVE IInv
  OBVIOUS
<1>1. /\ \A t \in Task : pc[t] = "idle" /\ ~asleep[t] /\ count[t] = 0
      /\ \A r \in Receiver : r_msg[r] = EAGAIN
      /\ \A m \in Msg : fate[m] = "new" /\ got[m] = 0
      /\ q_messages = <<>> /\ q_receivers = <<>> /\ q_senders = <<>>
      /\ ToSet(q_messages) = {} /\ ToSet(q_receivers) = {} /\ ToSet(q_senders) = {}
  BY Distinct DEF Init, ToSet
<1>2. Calling
  BY <1>1, Distinct DEF Init, Calling, Place
<1>3. Kinds
  <2>1. /\ q_messages \in Seq(Msg) /\ q_receivers \in Seq(Receiver)
        /\ q_senders \in Seq(Sender)
    BY <1>1
  <2>2. q_qbytes \in Nat
    BY IpcMsgAssumption DEF Init
  <2>3. r_msg \in [Receiver -> Msg \cup Code]
    BY DEF Init, Code
  <2>4. /\ asleep \in [Task -> BOOLEAN] /\ sig \in [Task -> BOOLEAN]
        /\ target \in [Task -> Receiver \cup {Nobody}] /\ count \in [Task -> Int]
        /\ got \in [Msg -> Nat] /\ ncalls \in [Task -> Nat]
        /\ fate \in [Msg -> {"new", "sending", "accepted", "refused", "purged"}]
    BY DEF Init
  <2> QED
    <3>1. pc[Ctl] = "idle" /\ count[Ctl] = 0 /\ \A t \in Task : pc[t] = "idle"
      BY <1>1, Distinct
    <3>2. /\ q_cbytes = 0 /\ q_qnum = 0 /\ lock = Nobody /\ refcount = 1
          /\ rcu = {} /\ blockers = {} /\ q_perm = TRUE /\ deleted = FALSE /\ called = FALSE
      BY DEF Init
    <3>3. q_perm \in BOOLEAN /\ deleted \in BOOLEAN /\ called \in BOOLEAN
      BY <3>2
    <3>4. /\ q_cbytes \in Int /\ q_qnum \in Int /\ lock \in Task \cup {Nobody}
          /\ refcount \in Int /\ rcu \in SUBSET Task /\ blockers \in SUBSET Task
      BY <3>2
    <3> QED
      BY <2>1, <2>2, <2>3, <2>4, <3>1, <3>3, <3>4 DEF Kinds
<1>4. Control
  BY <1>1, Distinct DEF Init, Control, InLock
<1>5. Listed
  BY <1>1, Distinct
  DEF Init, Listed, Once, Marked, Fresh, Waking, Waited, Entry, Expunging, Within
<1>6. Counted
  <2>1. Sleepers = {} /\ Cardinality(Sleepers) = 0
    BY <1>1, Distinct, FS_EmptySet DEF Sleepers
  <2>2. References = 1
    BY <2>1 DEF Init, References, Own
  <2> QED
    BY <1>1, <2>2, Distinct DEF Init, Counted
<1>7. Sending
  BY <1>1, Distinct DEF Sending
<1>8. Placed
  BY <1>1, Codes DEF Placed, Once, Somewhere, Queued, Held
<1>9. Sized
  <2>1. Bytes({}) = {}
    BY DEF Bytes
  <2>2. Cardinality({}) = 0
    BY FS_EmptySet
  <2>3. /\ Cardinality(ToSet(q_messages)) = 0
        /\ Cardinality(Bytes(ToSet(q_messages))) = 0
    BY <1>1, <2>1, <2>2
  <2>4. q_qnum = 0 /\ q_cbytes = 0
    BY DEF Init
  <2> QED
    BY <2>3, <2>4 DEF Sized
<1>10. Handed
  BY <1>1, Distinct DEF Handed, Unmatched, Resting, Permitted, Full
<1> QED
  BY <1>2, <1>3, <1>4, <1>5, <1>6, <1>7, <1>8, <1>9, <1>10 DEF IInv

(* ... a step that changes nothing preserves it, ... *)
LEMMA StutterIInv ==
  ASSUME IInv, UNCHANGED vars
  PROVE  IInv'
<1> USE DEF vars, queue, memory, grace, waiting, history
<1>1. Calling' /\ Kinds' /\ Control'
  BY DEF IInv, Calling, Kinds, Control, InLock
<1>2. Listed'
  BY
  DEF IInv, Listed, Once, Marked, Fresh, Waking, Waited, Entry, Visited, Removing,
      Expunging
<1>3. Counted'
  <2>1. Sleepers' = Sleepers /\ Own' = Own
    BY DEF Sleepers, Own
  <2> QED
    BY <2>1 DEF IInv, Counted, References, Uses, InLock
<1>4. Sending' /\ Placed' /\ Sized'
  BY DEF IInv, Sending, Placed, Once, Somewhere, Queued, Held, Sized
<1>5. Handed'
  BY DEF IInv, Handed, Unmatched, Resting, Permitted, Full, Fits, Expunging, testmsg
<1> QED
  BY <1>1, <1>2, <1>3, <1>4, <1>5 DEF IInv

(* ... and so does every step. *)
LEMMA NextIInv ==
  ASSUME IInv, [Next]_vars
  PROVE  IInv'
<1>1. ASSUME NEW s \in Sender, SenderSteps(s) PROVE IInv'
  <2>1. Calling' /\ Kinds' /\ Control'
    BY <1>1, CallsSender, KindsSender, ControlsSender DEF IInv
  <2>2. Listed' /\ Counted' /\ Sending' /\ Placed' /\ Sized'
    BY <1>1, <2>1, ListsSender, CountsSender, SendsSender, PlacesSender, SizesSender
    DEF IInv
  <2>3. Handed'
    BY <1>1, RestsSender, MatchesSender, PermitsSender, FillsSender DEF IInv, Handed
  <2> QED
    BY <2>1, <2>2, <2>3 DEF IInv
<1>2. ASSUME NEW r \in Receiver, ReceiverSteps(r) PROVE IInv'
  <2>1. Calling' /\ Kinds' /\ Control'
    BY <1>2, CallsReceiver, KindsReceiver, ControlsReceiver DEF IInv
  <2>2. Listed' /\ Counted' /\ Sending' /\ Placed' /\ Sized'
    BY <1>2, <2>1, ListsReceiver, CountsReceiver, SendsReceiver, PlacesReceiver,
       SizesReceiver
    DEF IInv
  <2>3. Handed'
    BY <1>2, RestsReceiver, MatchesReceiver, PermitsReceiver, FillsReceiver
    DEF IInv, Handed
  <2> QED
    BY <2>1, <2>2, <2>3 DEF IInv
<1>3. ASSUME CtlSteps PROVE IInv'
  <2>1. Calling' /\ Kinds' /\ Control'
    BY <1>3, CallsCtl, KindsCtl, ControlsCtl DEF IInv
  <2>2. Listed' /\ Counted' /\ Sending' /\ Placed' /\ Sized'
    BY <1>3, <2>1, ListsCtl, CountsCtl, SendsCtl, PlacesCtl, SizesCtl DEF IInv
  <2>3. Handed'
    BY <1>3, RestsCtl, MatchesCtl, PermitsCtl, FillsCtl DEF IInv, Handed
  <2> QED
    BY <2>1, <2>2, <2>3 DEF IInv
<1> QED
  BY <1>1, <1>2, <1>3, StutterIInv, NextCases DEF IInv

(* The invariant holds in every behaviour; fairness is not needed for it. *)
THEOREM Invariance == Spec => []IInv
<1>1. IInv /\ [Next]_vars => IInv'
  BY NextIInv
<1> QED
  BY <1>1, InitIInv, PTL DEF Spec

-----------------------------------------------------------------------------
(* What follows. *)

(* The types follow from it. *)
LEMMA TypesFollow ==
  ASSUME IInv
  PROVE  TypeOK
<1>1. PICK n \in Nat : n = References
  BY SleepersFinite
<1>2. refcount \in Nat /\ q_cbytes \in Nat /\ q_qnum \in Nat
  BY <1>1 DEF IInv, Counted, Sized, Kinds
<1>3. \A t \in Task : count[t] \in Nat
  <2>1. \A t \in Task \ {Ctl} : count[t] \in Nat
    BY DEF IInv, Counted, Kinds
  <2>2. count[Ctl] \in Nat
    BY <1>1, Distinct DEF IInv, Counted, Kinds
  <2> QED
    BY <2>1, <2>2
<1>4. count \in [Task -> Nat]
  BY <1>3 DEF IInv, Kinds
<1> QED
  BY <1>2, <1>4 DEF TypeOK, IInv, Kinds, Calling, Place, Code

(* The variables keep their types.  In particular neither the queue's       *)
(* totals nor its reference count ever go below zero.                       *)
THEOREM TypeCorrect == Spec => []TypeOK
BY Invariance, TypesFollow, PTL

(* Memory safety follows: references and read sections cover all use. *)
LEMMA QueueLives ==
  ASSUME IInv
  PROVE  NoUseAfterFree
<1>1. ASSUME called, blockers = {}
      PROVE  /\ lock = Nobody
             /\ \A t \in Task : pc[t] \notin {"spin", "relock", "put", "again"}
             /\ \A s \in Sender : pc[s] = "idle"
             /\ \A r \in Receiver : pc[r] = "look" => r_msg[r] # EAGAIN
  <2>1. deleted /\ pc[Ctl] = "idle" /\ \A s \in Sender : pc[s] \notin {"sleep", "put"}
    BY <1>1, NotCalled DEF IInv
  <2>2. \A t \in Task : ~Uses(t)
    BY <1>1 DEF IInv, Counted
  <2>3. lock = Nobody
    BY <2>2 DEF IInv, Control, Kinds, Uses
  <2>4. \A s \in Sender : pc[s] = "idle"
    BY <2>1, <2>2, Distinct, Labels DEF IInv, Uses, InLock
  <2>5. \A t \in Task : pc[t] \notin {"spin", "relock", "put", "again"}
    BY <2>1, <2>2, <2>4, Distinct, Labels DEF IInv, Uses
  <2>6. \A r \in Receiver : pc[r] = "look" => r_msg[r] # EAGAIN
    BY <2>1 DEF IInv, Listed, Waited, Within
  <2> QED
    BY <2>3, <2>4, <2>5, <2>6
<1>2. \A t \in Task : pc[t] \in {"wake", "store"} =>
        r_msg[target[t]] = NULL /\ pc[target[t]] \in {"sleep", "look", "relock"}
  BY DEF IInv, Listed, Waking, Within
<1> QED
  BY <1>1, <1>2 DEF NoUseAfterFree

(* Once call_rcu()'s grace period is over nobody is going to touch the      *)
(* queue, and a task that wakes a receiver writes to a frame that is there. *)
(* This although two tasks may drop a reference at once, one of them        *)
(* without the lock.                                                        *)
THEOREM DeadQueueUnused == Spec => []NoUseAfterFree
BY Invariance, QueueLives, PTL

(* A set of one element, or of none. *)
LEMMA OneOrNone ==
  ASSUME NEW S, \A x, y \in S : x = y
  PROVE  Cardinality(S) = IF S = {} THEN 0 ELSE 1
<1>1. CASE S = {}
  BY <1>1, FS_EmptySet
<1>2. CASE S # {}
  <2>1. PICK x \in S : S = {x}
    BY <1>2
  <2> QED
    BY <1>2, <2>1, FS_Singleton
<1> QED
  BY <1>1, <1>2

(* The places add up to one. *)
LEMMA MessagesPlaced ==
  ASSUME IInv
  PROVE  MessageInOnePlace
<1>1. SUFFICES ASSUME NEW m \in Msg
      PROVE  Cardinality({i \in DOMAIN q_messages : q_messages[i] = m})
             + Cardinality({r \in Receiver : r_msg[r] = m}) + got[m]
             = IF fate[m] = "accepted" THEN 1 ELSE 0
  BY DEF MessageInOnePlace
<1>2. PICK Q : Q = {i \in DOMAIN q_messages : q_messages[i] = m}
  OBVIOUS
<1>3. PICK H : H = {r \in Receiver : r_msg[r] = m}
  OBVIOUS
<1>4. Cardinality(Q) = IF Q = {} THEN 0 ELSE 1
  <2>1. \A i, j \in Q : i = j
    BY <1>2 DEF IInv, Placed, Once
  <2> QED
    BY <2>1, OneOrNone
<1>5. Cardinality(H) = IF H = {} THEN 0 ELSE 1
  <2>1. \A r, q \in H : r = q
    BY <1>3 DEF IInv, Placed
  <2> QED
    BY <2>1, OneOrNone
<1>6. (Q # {} <=> Queued(m)) /\ (H # {} <=> Held(m))
  BY <1>2, <1>3 DEF Queued, Held, ToSet
<1>7. Somewhere(m)
  BY DEF IInv, Placed
<1>8. PICK a \in {0, 1}, b \in {0, 1}, c \in {0, 1} :
        a = Cardinality(Q) /\ b = Cardinality(H) /\ c = got[m]
  BY <1>4, <1>5, <1>7 DEF Somewhere
<1>9. (a = 1 <=> Queued(m)) /\ (b = 1 <=> Held(m))
  BY <1>4, <1>5, <1>6, <1>8
<1>10. a + b + c = IF fate[m] = "accepted" THEN 1 ELSE 0
  BY <1>7, <1>8, <1>9 DEF Somewhere
<1> QED
  BY <1>2, <1>3, <1>8, <1>10

(* A message whose msgsnd() succeeded is queued, or handed to one receiver, *)
(* or received, once, or went with the queue.                               *)
THEOREM NoMessageLost == Spec => []MessageInOnePlace
BY Invariance, MessagesPlaced, PTL

(* With the lock free nothing is owed. *)
LEMMA HandoversDone ==
  ASSUME IInv
  PROVE  NoMissedHandover
<1>1. SUFFICES ASSUME lock = Nobody, ~deleted
      PROVE  /\ \A r \in ToSet(q_receivers) :
                  /\ r_msg[r] = EAGAIN /\ Found(r) = EAGAIN
                  /\ asleep[r] => q_perm
             /\ \A s \in ToSet(q_senders) : asleep[s] => ~Fits(req[s].m)
  BY DEF NoMissedHandover
<1>2. ~Expunging
  BY <1>1, Unlocked DEF IInv
<1>3. ASSUME NEW r \in ToSet(q_receivers)
      PROVE  r_msg[r] = EAGAIN /\ Found(r) = EAGAIN /\ (asleep[r] => q_perm)
  <2>1. r \in Receiver /\ pc[r] \in Within /\ r_msg[r] = EAGAIN
    BY <1>1, <1>2, <1>3, ListsQuiet DEF IInv
  <2>2. Found(r) = EAGAIN
    <3>1. \A m \in ToSet(q_messages) : ~testmsg(m, req[r].type, req[r].mode)
      BY <1>3, <2>1 DEF IInv, Handed, Unmatched
    <3> QED
      BY <2>1, <3>1, FoundResult DEF IInv, Within
  <2>3. asleep[r] => q_perm
    BY <1>1, <1>2, <1>3 DEF IInv, Handed, Permitted, ToSet
  <2> QED
    BY <2>1, <2>2, <2>3
<1>4. \A s \in ToSet(q_senders) : asleep[s] => ~Fits(req[s].m)
  BY <1>1, <1>2 DEF IInv, Handed, Full
<1> QED
  BY <1>3, <1>4

(* While the lock is free no receiver sleeps for a message that is there or *)
(* for a queue it may no longer read, and no sender for room that is there. *)
THEOREM NoHandoverMissed == Spec => []NoMissedHandover
BY Invariance, HandoversDone, PTL

(* The walk over the queue finds the oldest message of those it should.     *)
THEOREM WalkIsCorrect == Spec => []WalkFindsOldest
<1>1. IInv => WalkFindsOldest
  BY WalkCorrect DEF IInv, Kinds
<1> QED
  BY <1>1, Invariance, PTL
=============================================================================
