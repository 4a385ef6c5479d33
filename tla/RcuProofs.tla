------------------------------ MODULE RcuProofs ------------------------------
(***************************************************************************)
(* Proofs about Rcu.tla, for every set of CPUs and callbacks: types, the   *)
(* grace period guarantee and the registration of batches.                 *)
(*                                                                         *)
(* The inductive invariant has five layers, each proved from the ones      *)
(* before it: types; who is up and what may run there (Presence); the lock *)
(* of rcu_start_batch() and the batch numbers (Numbers); the life of the   *)
(* queued callbacks (Queued); and what every callback still waits for on   *)
(* its way from curlist to its invocation (Covered).                       *)
(***************************************************************************)
EXTENDS Rcu, TLAPS

On(s, b) == \E i \in DOMAIN s : s[i] = b

(* Only a CPU that is up runs the tasklet or reads, the CPU a cpu_down() is *)
(* about is down and the one it runs on is not, and a CPU that is about to  *)
(* come up has no batch.                                                    *)
Presence ==
  /\ online # {}
  /\ \A c \in CPU : pc[c] # "out" => c \in online
  /\ \A c \in CPU : Reading(c) => c \in online
  /\ hp.phase # "none" => hp.cpu \notin online
  /\ hp.phase \in {"dead", "move_cur", "move_nxt"} => hp.on \in online
  /\ hp.phase = "prepared" => rdp[hp.cpu].curlist = <<>>

(* The lock stays taken exactly inside rcu_start_batch(), which runs        *)
(* between grace periods with a mask that no CPU leaves.                    *)
LockHeld ==
  /\ \A c \in CPU : pc[c] \in Owned <=> rsp.lock = c
  /\ rsp.lock # NoCPU =>
       rcp.cur = rcp.completed /\ rsp.cpumask # {} /\ rsp.cpumask \subseteq online
  /\ \A c \in CPU : pc[c] = "cur" => ~rcp.next_pending

(* No CPU is ahead of cur, and a batch is at most one ahead; who reports a  *)
(* quiescent state has passed one.                                          *)
Ahead ==
  /\ \A c \in CPU : rdp[c].quiescbatch <= rcp.cur
  /\ \A c \in CPU : rdp[c].curlist # <<>> => rdp[c].batch <= rcp.cur + 1
  /\ \A c \in CPU : pc[c] = "quiet" => rdp[c].passed_quiesc

Numbers == LockHeld /\ Ahead /\ BatchIsRegistered

Queued ==
  \A c \in CPU : \A b \in Callback :
    On(rdp[c].nxtlist, b) \/ On(rdp[c].curlist, b) \/ On(rdp[c].donelist, b)
      => life[b] # "fresh"

(* CPU d owes the running grace period a quiescent state. *)
Owes(d) ==
  d \in rsp.cpumask /\ ~(rdp[d].quiescbatch = rcp.cur /\ rdp[d].passed_quiesc)

(* A section that blocks a callback is still running. *)
BlockersRead == \A b \in Callback : \A d \in blockers[b] : Reading(d)

(* While rcu_start_batch() runs, its mask has every reader it must wait for. *)
StartSeesReaders ==
  rsp.lock # NoCPU => \A d \in CPU : Reading(d) => d \in rsp.cpumask \/ d \in unseen

(* Callback b of a batch that is over has no blocker left, and the blockers *)
(* of one in the running grace period owe it a quiescent state.             *)
Awaited(c, b) ==
  /\ rdp[c].batch <= rcp.completed => blockers[b] \subseteq unseen
  /\ rdp[c].batch = rcp.cur /\ rcp.cur # rcp.completed =>
       \A d \in blockers[b] : d \in unseen \/ Owes(d)

BatchCovered ==
  \A c \in CPU : \A b \in Callback : On(rdp[c].curlist, b) => Awaited(c, b)

DoneCovered ==
  \A c \in CPU : \A b \in Callback :
    On(rdp[c].donelist, b) => blockers[b] \subseteq unseen

Covered ==
  /\ BlockersRead /\ StartSeesReaders /\ BatchCovered /\ DoneCovered
  /\ GracePeriodCoversReaders

IInv == TypeOK /\ Presence /\ Numbers /\ Queued /\ Covered

-----------------------------------------------------------------------------
(* What the steps do to rdp, field by field. *)

(* Assigning one of the lists of a CPU's data keeps the type. *)
LEMMA SetList ==
  ASSUME NEW r \in [CPU -> Data], NEW c \in CPU, NEW s \in Seq(Callback)
  PROVE  /\ [r EXCEPT ![c].nxtlist = s] \in [CPU -> Data]
         /\ [r EXCEPT ![c].curlist = s] \in [CPU -> Data]
         /\ [r EXCEPT ![c].donelist = s] \in [CPU -> Data]
BY DEF Data

(* Assigning one of its flags keeps the type. *)
LEMMA SetFlag ==
  ASSUME NEW r \in [CPU -> Data], NEW c \in CPU, NEW f \in BOOLEAN
  PROVE  /\ [r EXCEPT ![c].passed_quiesc = f] \in [CPU -> Data]
         /\ [r EXCEPT ![c].qs_pending = f] \in [CPU -> Data]
BY DEF Data

(* The step changes the data of CPU c only. *)
Only(c) ==
  /\ rdp' \in [CPU -> Data]
  /\ \A d \in CPU : d # c => rdp'[d] = rdp[d]

SameBatch(c) == rdp'[c].batch = rdp[c].batch /\ rdp'[c].curlist = rdp[c].curlist
SameQuiet(c) ==
  /\ rdp'[c].quiescbatch = rdp[c].quiescbatch
  /\ rdp'[c].passed_quiesc = rdp[c].passed_quiesc

(* call_rcu() appends to nxtlist. *)
LEMMA CallEffect ==
  ASSUME TypeOK, NEW c \in CPU, NEW b \in Callback, call_rcu(c, b)
  PROVE  /\ Only(c) /\ SameBatch(c) /\ SameQuiet(c)
         /\ rdp'[c].nxtlist = Append(rdp[c].nxtlist, b)
         /\ rdp'[c].donelist = rdp[c].donelist
<1>1. rdp \in [CPU -> Data]
  BY DEF TypeOK
<1>2. Append(rdp[c].nxtlist, b) \in Seq(Callback)
  BY <1>1 DEF Data
<1>3. rdp' = [rdp EXCEPT ![c].nxtlist = Append(@, b)]
  BY DEF call_rcu
<1>8. rdp' \in [CPU -> Data]
  BY <1>1, <1>2, <1>3, SetList
<1> QED
  BY <1>1, <1>2, <1>3, <1>8 DEF Only, SameBatch, SameQuiet, Data

(* A quiescent state sets passed_quiesc and nothing else. *)
PassesQuiescentState(c) ==
  /\ Only(c) /\ SameBatch(c)
  /\ rdp'[c].quiescbatch = rdp[c].quiescbatch /\ rdp'[c].passed_quiesc
  /\ rdp'[c].nxtlist = rdp[c].nxtlist /\ rdp'[c].donelist = rdp[c].donelist

(* rcu_qsctr_inc() in schedule(). *)
LEMMA ScheduleEffect ==
  ASSUME TypeOK, NEW c \in CPU, schedule(c)
  PROVE  PassesQuiescentState(c)
<1>1. rdp \in [CPU -> Data]
  BY DEF TypeOK
<1>2. rdp' = [rdp EXCEPT ![c].passed_quiesc = TRUE]
  BY DEF schedule
<1>8. rdp' \in [CPU -> Data]
  BY <1>1, <1>2, SetFlag
<1> QED
  BY <1>1, <1>2, <1>8 DEF PassesQuiescentState, Only, SameBatch, Data

(* rcu_qsctr_inc() in rcu_check_callbacks(). *)
LEMMA TickEffect ==
  ASSUME TypeOK, NEW c \in CPU, tick(c)
  PROVE  rdp' = rdp \/ (ctx[c] = "quiet" /\ PassesQuiescentState(c))
<1>1. rdp \in [CPU -> Data]
  BY DEF TypeOK
<1>2. CASE TickSeesQuiet(c)
  <2>1. rdp' = [rdp EXCEPT ![c].passed_quiesc = TRUE]
    BY <1>2 DEF tick
  <2>2. rdp' \in [CPU -> Data]
    BY <1>1, <2>1, SetFlag
  <2>3. PassesQuiescentState(c)
    BY <1>1, <2>1, <2>2 DEF PassesQuiescentState, Only, SameBatch, Data
  <2> QED
    BY <1>2, <2>3 DEF TickSeesQuiet
<1> QED
  BY <1>2 DEF tick

(* The tasklet moves a batch whose grace period is over to donelist. *)
LEMMA TaskletEffect ==
  ASSUME TypeOK, NEW c \in CPU, tasklet_run(c)
  PROVE  \/ rdp' = rdp
         \/ /\ Only(c) /\ SameQuiet(c)
            /\ rdp[c].batch <= rcp.completed
            /\ rdp'[c].batch = rdp[c].batch /\ rdp'[c].curlist = <<>>
            /\ rdp'[c].donelist = rdp[c].donelist \o rdp[c].curlist
            /\ rdp'[c].nxtlist = rdp[c].nxtlist
<1>1. rdp \in [CPU -> Data] /\ rdp[c].batch \in Int /\ rcp.completed \in Int
  BY DEF TypeOK, Data
<1>2. rdp[c].donelist \o rdp[c].curlist \in Seq(Callback) /\ <<>> \in Seq(Callback)
  BY <1>1 DEF Data
<1>3. CASE rdp[c].curlist # <<>> /\ ~rcu_batch_before(rcp.completed, rdp[c].batch)
  <2>1. PICK l \in Seq(Callback) : l = rdp[c].donelist \o rdp[c].curlist
    BY <1>2
  <2>2. PICK d : d = [rdp[c] EXCEPT !.donelist = l, !.curlist = <<>>]
    OBVIOUS
  <2>3. rdp' = [rdp EXCEPT ![c] = d]
    BY <1>3, <2>1, <2>2 DEF tasklet_run
  <2>4. rdp[c].batch <= rcp.completed
    BY <1>1, <1>3 DEF rcu_batch_before
  <2>5. /\ d \in Data /\ d.batch = rdp[c].batch /\ d.quiescbatch = rdp[c].quiescbatch
        /\ d.passed_quiesc = rdp[c].passed_quiesc
        /\ d.donelist = l /\ d.curlist = <<>> /\ d.nxtlist = rdp[c].nxtlist
    BY <1>1, <1>2, <2>2 DEF Data
  <2>6. rdp'[c] = d /\ Only(c)
    BY <1>1, <2>3, <2>5 DEF Only
  <2> QED
    BY <2>1, <2>4, <2>5, <2>6 DEF SameQuiet
<1> QED
  BY <1>3 DEF tasklet_run

(* It numbers the new callbacks with the batch after cur. *)
LEMMA NextEffect ==
  ASSUME TypeOK, NEW c \in CPU, process_next(c)
  PROVE  \/ rdp' = rdp /\ pc' = [pc EXCEPT ![c] = "check_qs"]
         \/ /\ pc' = [pc EXCEPT ![c] = "pending"]
            /\ Only(c) /\ SameQuiet(c)
            /\ rdp'[c].batch = rcp.cur + 1
            /\ rdp'[c].curlist = rdp[c].nxtlist /\ rdp'[c].nxtlist = <<>>
            /\ rdp'[c].donelist = rdp[c].donelist
<1>1. rdp \in [CPU -> Data] /\ rcp.cur + 1 \in Int
  BY DEF TypeOK
<1>2. rdp[c].nxtlist \in Seq(Callback) /\ <<>> \in Seq(Callback)
  BY <1>1 DEF Data
<1>3. CASE rdp[c].nxtlist # <<>> /\ rdp[c].curlist = <<>>
  <2>1. PICK n \in Int : n = rcp.cur + 1
    BY <1>1
  <2>2. PICK d : d = [rdp[c] EXCEPT !.curlist = rdp[c].nxtlist, !.nxtlist = <<>>,
                                    !.batch = n]
    OBVIOUS
  <2>3. rdp' = [rdp EXCEPT ![c] = d] /\ pc' = [pc EXCEPT ![c] = "pending"]
    BY <1>3, <2>1, <2>2 DEF process_next, Goto
  <2>4. /\ d \in Data /\ d.batch = n /\ d.quiescbatch = rdp[c].quiescbatch
        /\ d.passed_quiesc = rdp[c].passed_quiesc
        /\ d.curlist = rdp[c].nxtlist /\ d.nxtlist = <<>> /\ d.donelist = rdp[c].donelist
    BY <1>1, <1>2, <2>2 DEF Data
  <2>5. rdp'[c] = d /\ Only(c)
    BY <1>1, <2>3, <2>4 DEF Only
  <2> QED
    BY <2>1, <2>3, <2>4, <2>5 DEF SameQuiet
<1> QED
  BY <1>3 DEF process_next, Goto

(* A CPU notices a new grace period, goes on, or is about to report. *)
LEMMA CheckEffect ==
  ASSUME TypeOK, NEW c \in CPU, rcu_check_quiescent_state(c)
  PROVE  /\ Only(c) /\ SameBatch(c)
         /\ rdp'[c].nxtlist = rdp[c].nxtlist /\ rdp'[c].donelist = rdp[c].donelist
         /\ \/ /\ rdp'[c].quiescbatch = rcp.cur /\ ~rdp'[c].passed_quiesc
               /\ pc' = [pc EXCEPT ![c] = "do_batch"]
            \/ SameQuiet(c) /\ pc' = [pc EXCEPT ![c] = "do_batch"]
            \/ /\ SameQuiet(c) /\ rdp[c].passed_quiesc
               /\ pc' = [pc EXCEPT ![c] = "quiet"]
<1>1. rdp \in [CPU -> Data] /\ rcp.cur \in Int
  BY DEF TypeOK
<1>2. CASE /\ rdp' = [rdp EXCEPT ![c] = [rdp[c] EXCEPT !.qs_pending = TRUE,
                                                     !.passed_quiesc = FALSE,
                                                     !.quiescbatch = rcp.cur]]
           /\ pc' = [pc EXCEPT ![c] = "do_batch"]
  <2>1. PICK d : d = [rdp[c] EXCEPT !.qs_pending = TRUE, !.passed_quiesc = FALSE,
                                    !.quiescbatch = rcp.cur]
    OBVIOUS
  <2>2. rdp' = [rdp EXCEPT ![c] = d]
    BY <1>2, <2>1
  <2>3. /\ d \in Data /\ d.batch = rdp[c].batch /\ d.curlist = rdp[c].curlist
        /\ d.nxtlist = rdp[c].nxtlist /\ d.donelist = rdp[c].donelist
        /\ d.quiescbatch = rcp.cur /\ ~d.passed_quiesc
    BY <1>1, <2>1 DEF Data
  <2>4. rdp'[c] = d /\ Only(c)
    BY <1>1, <2>2, <2>3 DEF Only
  <2> QED
    BY <1>2, <2>3, <2>4 DEF SameBatch
<1>3. CASE rdp' = rdp /\ pc' = [pc EXCEPT ![c] = "do_batch"]
  BY <1>1, <1>3 DEF Only, SameBatch, SameQuiet
<1>4. CASE /\ rdp' = [rdp EXCEPT ![c].qs_pending = FALSE] /\ rdp[c].passed_quiesc
           /\ pc' = [pc EXCEPT ![c] = "quiet"]
  <2>1. rdp' \in [CPU -> Data]
    BY <1>1, <1>4, SetFlag
  <2> QED
    BY <1>1, <1>4, <2>1 DEF Only, SameBatch, SameQuiet, Data
<1> QED
  BY <1>2, <1>3, <1>4 DEF rcu_check_quiescent_state, Goto

(* rcu_do_batch() takes the first callback of donelist. *)
LEMMA InvokeEffect ==
  ASSUME TypeOK, NEW c \in CPU, do_batch_invoke(c)
  PROVE  /\ Only(c) /\ SameBatch(c) /\ SameQuiet(c)
         /\ rdp'[c].nxtlist = rdp[c].nxtlist
         /\ rdp[c].donelist \in Seq(Callback) /\ rdp[c].donelist # <<>>
         /\ rdp'[c].donelist = Tail(rdp[c].donelist)
<1>1. rdp \in [CPU -> Data]
  BY DEF TypeOK
<1>2. rdp[c].donelist \in Seq(Callback) /\ rdp[c].donelist # <<>>
  BY <1>1 DEF do_batch_invoke, Data
<1>3. Tail(rdp[c].donelist) \in Seq(Callback)
  BY <1>2
<1>4. rdp' = [rdp EXCEPT ![c].donelist = Tail(@)]
  BY DEF do_batch_invoke
<1>8. rdp' \in [CPU -> Data]
  BY <1>1, <1>2, <1>3, <1>4, SetList
<1> QED
  BY <1>1, <1>2, <1>3, <1>4, <1>8 DEF Only, SameBatch, SameQuiet, Data

(* rcu_init_percpu_data() *)
LEMMA PrepareEffect ==
  ASSUME TypeOK, NEW c \in CPU, cpu_up_prepare(c)
  PROVE  /\ Only(c)
         /\ rdp'[c].quiescbatch = rcp.completed /\ ~rdp'[c].passed_quiesc
         /\ rdp'[c].nxtlist = <<>> /\ rdp'[c].curlist = <<>> /\ rdp'[c].donelist = <<>>
<1>1. rdp \in [CPU -> Data]
  BY DEF TypeOK
<1>2. FreshData(rcp.completed) \in Data
  BY DEF TypeOK, Data, FreshData
<1>3. rdp' = [rdp EXCEPT ![c] = FreshData(rcp.completed)]
  BY DEF cpu_up_prepare
<1> QED
  BY <1>1, <1>2, <1>3 DEF Only, FreshData

(* stop_machine makes every CPU that is up schedule. *)
LEMMA DownEffect ==
  ASSUME TypeOK, NEW c \in CPU, take_cpu_down(c)
  PROVE  /\ rdp' \in [CPU -> Data]
         /\ \A d \in CPU :
              /\ rdp'[d].quiescbatch = rdp[d].quiescbatch
              /\ SameBatch(d)
              /\ rdp'[d].nxtlist = rdp[d].nxtlist /\ rdp'[d].donelist = rdp[d].donelist
<1>1. rdp \in [CPU -> Data]
  BY DEF TypeOK
<1>2. rdp' = [d \in CPU |-> IF d \in online THEN [rdp[d] EXCEPT !.passed_quiesc = TRUE]
                                            ELSE rdp[d]]
  BY DEF take_cpu_down
<1>3. ASSUME NEW d \in CPU
      PROVE  /\ rdp'[d] \in Data /\ rdp'[d].quiescbatch = rdp[d].quiescbatch
             /\ SameBatch(d)
             /\ rdp'[d].nxtlist = rdp[d].nxtlist /\ rdp'[d].donelist = rdp[d].donelist
  <2>1. CASE d \in online
    <3>1. rdp'[d] = [rdp[d] EXCEPT !.passed_quiesc = TRUE]
      BY <1>2, <2>1
    <3> QED
      BY <1>1, <3>1 DEF Data, SameBatch
  <2>2. CASE d \notin online
    BY <1>1, <1>2, <2>2 DEF SameBatch
  <2> QED
    BY <2>1, <2>2
<1> QED
  BY <1>2, <1>3

(* The dead CPU's callbacks are appended to nxtlist of the survivor. *)
LEMMA MoveEffect ==
  ASSUME TypeOK, offline_move_cur \/ offline_move_nxt
  PROVE  /\ Only(hp.on) /\ SameBatch(hp.on) /\ SameQuiet(hp.on)
         /\ rdp'[hp.on].donelist = rdp[hp.on].donelist
         /\ rdp[hp.on].nxtlist \in Seq(Callback)
         /\ \E s \in {rdp[hp.cpu].curlist, rdp[hp.cpu].nxtlist} :
              s \in Seq(Callback) /\ rdp'[hp.on].nxtlist = rdp[hp.on].nxtlist \o s
<1>1. rdp \in [CPU -> Data] /\ hp.on \in CPU /\ hp.cpu \in CPU
  BY DEF TypeOK
<1>2. PICK s \in {rdp[hp.cpu].curlist, rdp[hp.cpu].nxtlist} :
        rdp' = [rdp EXCEPT ![hp.on].nxtlist = @ \o s]
  BY DEF offline_move_cur, offline_move_nxt
<1>3. rdp[hp.on].nxtlist \in Seq(Callback) /\ s \in Seq(Callback)
  BY <1>1 DEF Data
<1>4. rdp[hp.on].nxtlist \o s \in Seq(Callback)
  BY <1>3
<1>8. rdp' \in [CPU -> Data]
  BY <1>1, <1>2, <1>3, <1>4, SetList
<1> QED
  BY <1>1, <1>2, <1>3, <1>4, <1>8 DEF Only, SameBatch, SameQuiet, Data

(* All but nxtlist is as it was. *)
LEMMA MoveSame ==
  ASSUME TypeOK, offline_move_cur \/ offline_move_nxt, NEW d \in CPU
  PROVE  /\ SameBatch(d) /\ SameQuiet(d)
         /\ rdp'[d].donelist = rdp[d].donelist
<1>1. CASE d = hp.on
  BY <1>1, MoveEffect
<1>2. CASE d # hp.on
  <2>1. rdp'[d] = rdp[d]
    BY <1>2, MoveEffect DEF Only
  <2> QED
    BY <2>1 DEF SameBatch, SameQuiet
<1> QED
  BY <1>1, <1>2

-----------------------------------------------------------------------------
(* What the steps do to the control block. *)

Ctl == [cur : Int, completed : Int, next_pending : BOOLEAN]

(* CPU c runs rcu_start_batch() to its first store and keeps the lock, or   *)
(* leaves it, with the mask it found, for its caller's next step.           *)
Opens(c, ret) ==
  /\ rcp'.next_pending /\ rcp'.completed = rcp'.cur
  /\ rsp' = [lock |-> c, cpumask |-> online]
  /\ after' = ret /\ pc' = [pc EXCEPT ![c] = "clear"]
Leaves(c, mask, ret) ==
  /\ ~(rcp'.next_pending /\ rcp'.completed = rcp'.cur)
  /\ rsp' = [lock |-> NoCPU, cpumask |-> mask]
  /\ after' = after /\ pc' = [pc EXCEPT ![c] = ret]

(* process_start() registers the batch, and starts it if none is running. *)
LEMMA ProcessStartEffect ==
  ASSUME TypeOK, NEW c \in CPU, process_start(c)
  PROVE  /\ rcp' \in Ctl /\ rcp'.next_pending
         /\ rcp'.cur = rcp.cur /\ rcp'.completed = rcp.completed
         /\ Opens(c, "check_qs") \/ Leaves(c, rsp.cpumask, "check_qs")
<1>1. rcp \in Ctl
  BY DEF TypeOK, Ctl
<1>2. rcp' = [rcp EXCEPT !.next_pending = TRUE]
  BY DEF process_start, rcu_start_batch
<1>3. /\ rcp' \in Ctl /\ rcp'.next_pending
      /\ rcp'.cur = rcp.cur /\ rcp'.completed = rcp.completed
  BY <1>1, <1>2 DEF Ctl
<1>4. CASE rcp'.next_pending /\ rcp'.completed = rcp'.cur
  <2>1. Opens(c, "check_qs")
    BY <1>2, <1>4 DEF process_start, rcu_start_batch, Goto, Opens
  <2> QED
    BY <1>3, <2>1
<1>5. CASE ~(rcp'.next_pending /\ rcp'.completed = rcp'.cur)
  <2>1. Leaves(c, rsp.cpumask, "check_qs")
    BY <1>2, <1>5 DEF process_start, rcu_start_batch, Goto, Leaves
  <2> QED
    BY <1>3, <2>1
<1> QED
  BY <1>4, <1>5

(* CPU q is taken off the mask by CPU c; with the last one, the grace       *)
(* period is over.                                                          *)
TakesOff(c, q, ret) ==
  \/ /\ rsp.cpumask \ {q} # {} /\ rcp' = rcp /\ after' = after
     /\ rsp' = [lock |-> rsp.lock, cpumask |-> rsp.cpumask \ {q}]
     /\ pc' = [pc EXCEPT ![c] = ret]
  \/ /\ rsp.cpumask \ {q} = {}
     /\ rcp'.cur = rcp.cur /\ rcp'.completed = rcp.cur
     /\ rcp'.next_pending = rcp.next_pending
     /\ Opens(c, ret) \/ Leaves(c, {}, ret)

(* cpu_quiet() *)
LEMMA QuietEffect ==
  ASSUME TypeOK, NEW c \in CPU, NEW q \in CPU, NEW ret, cpu_quiet(c, q, ret)
  PROVE  rcp' \in Ctl /\ TakesOff(c, q, ret)
<1>1. rcp \in Ctl /\ rsp = [lock |-> rsp.lock, cpumask |-> rsp.cpumask]
  BY DEF TypeOK, Ctl
<1>2. CASE rsp.cpumask \ {q} = {}
  <2>1. rcu_start_batch(c, [rcp EXCEPT !.completed = rcp.cur], {}, ret)
    BY <1>2 DEF cpu_quiet
  <2>2. rcp' = [rcp EXCEPT !.completed = rcp.cur]
    BY <2>1 DEF rcu_start_batch
  <2>3. /\ rcp' \in Ctl /\ rcp'.cur = rcp.cur /\ rcp'.completed = rcp.cur
        /\ rcp'.next_pending = rcp.next_pending
    BY <1>1, <2>2 DEF Ctl
  <2>4. CASE rcp'.next_pending /\ rcp'.completed = rcp'.cur
    <3>1. Opens(c, ret)
      BY <2>1, <2>2, <2>4 DEF rcu_start_batch, Goto, Opens
    <3> QED
      BY <1>2, <2>3, <3>1 DEF TakesOff
  <2>5. CASE ~(rcp'.next_pending /\ rcp'.completed = rcp'.cur)
    <3>1. Leaves(c, {}, ret)
      BY <2>1, <2>2, <2>5 DEF rcu_start_batch, Goto, Leaves
    <3> QED
      BY <1>2, <2>3, <3>1 DEF TakesOff
  <2> QED
    BY <2>4, <2>5
<1>3. CASE rsp.cpumask \ {q} # {}
  <2>1. /\ rcp' = rcp /\ after' = after /\ pc' = [pc EXCEPT ![c] = ret]
        /\ rsp' = [rsp EXCEPT !.cpumask = rsp.cpumask \ {q}]
    BY <1>3 DEF cpu_quiet, Goto
  <2>2. rsp' = [lock |-> rsp.lock, cpumask |-> rsp.cpumask \ {q}]
    BY <1>1, <2>1
  <2> QED
    BY <1>1, <1>3, <2>1, <2>2 DEF TakesOff
<1> QED
  BY <1>2, <1>3

(* A CPU reports its quiescent state, unless the grace period has changed.  *)
LEMMA ReportEffect ==
  ASSUME TypeOK, NEW c \in CPU, report_quiet(c)
  PROVE  \/ /\ rcp' \in Ctl /\ TakesOff(c, c, "do_batch")
            /\ rdp[c].quiescbatch = rcp.cur
         \/ UNCHANGED core /\ pc' = [pc EXCEPT ![c] = "do_batch"]
BY QuietEffect DEF report_quiet, Goto

(* A dead CPU is taken off the mask of a running grace period. *)
LEMMA OfflineQuietEffect ==
  ASSUME TypeOK, offline_quiet
  PROVE  \/ rcp' \in Ctl /\ TakesOff(hp.on, hp.cpu, "out") /\ rcp.cur # rcp.completed
         \/ UNCHANGED core /\ UNCHANGED pc
<1>1. hp.on \in CPU /\ hp.cpu \in CPU
  BY DEF TypeOK
<1> QED
  BY <1>1, QuietEffect DEF offline_quiet

(* The last store of rcu_start_batch(). *)
LEMMA StartCurEffect ==
  ASSUME TypeOK, NEW c \in CPU, start_cur(c)
  PROVE  /\ rcp' \in Ctl /\ rcp'.cur = rcp.cur + 1
         /\ rcp'.completed = rcp.completed /\ rcp'.next_pending = rcp.next_pending
         /\ rsp' = [lock |-> NoCPU, cpumask |-> rsp.cpumask]
         /\ pc' = [pc EXCEPT ![c] = after] /\ after' = after
<1>1. rcp \in Ctl /\ rsp = [lock |-> rsp.lock, cpumask |-> rsp.cpumask]
  BY DEF TypeOK, Ctl
<1>2. rcp' = [rcp EXCEPT !.cur = @ + 1] /\ rsp' = [rsp EXCEPT !.lock = NoCPU]
  BY DEF start_cur
<1>3. /\ rcp' \in Ctl /\ rcp'.cur = rcp.cur + 1
      /\ rcp'.completed = rcp.completed /\ rcp'.next_pending = rcp.next_pending
  BY <1>1, <1>2 DEF Ctl
<1>4. rsp' = [lock |-> NoCPU, cpumask |-> rsp.cpumask]
  BY <1>1, <1>2
<1> QED
  BY <1>3, <1>4 DEF start_cur, Goto

(* The store before it. *)
LEMMA StartClearEffect ==
  ASSUME TypeOK, NEW c \in CPU, start_clear(c)
  PROVE  /\ rcp' \in Ctl /\ rcp'.cur = rcp.cur /\ rcp'.completed = rcp.completed
         /\ ~rcp'.next_pending
         /\ rsp' = rsp /\ after' = after /\ pc' = [pc EXCEPT ![c] = "cur"]
BY DEF TypeOK, Ctl, start_clear, Goto

-----------------------------------------------------------------------------
(* Types. *)

(* rcu_init() leaves a state of the right type. *)
LEMMA TypeInit == Init => TypeOK
BY RcuAssumption DEF Init, TypeOK, Data, FreshData, PC, Owned

(* Every step keeps the types. *)
LEMMA TypeNext == TypeOK /\ [Next]_vars => TypeOK'
<1> SUFFICES ASSUME TypeOK, [Next]_vars PROVE TypeOK'
  OBVIOUS
<1> USE RcuAssumption DEF PC, Owned, Goto, core, cpus, ghosts, Begin, End
<1>0. CASE UNCHANGED vars
  BY <1>0 DEF vars, TypeOK
<1>1. ASSUME NEW c \in CPU, rcu_read_lock(c) PROVE TypeOK'
  BY <1>1 DEF rcu_read_lock, TypeOK
<1>2. ASSUME NEW c \in CPU, rcu_read_unlock(c) PROVE TypeOK'
  BY <1>2 DEF rcu_read_unlock, TypeOK
<1>3. ASSUME NEW c \in CPU, irq_enter(c) PROVE TypeOK'
  BY <1>3 DEF irq_enter, TypeOK
<1>4. ASSUME NEW c \in CPU, irq_exit(c) PROVE TypeOK'
  BY <1>4 DEF irq_exit, TypeOK
<1>5. ASSUME NEW c \in CPU, NEW b \in Callback, call_rcu(c, b) PROVE TypeOK'
  <2>1. rdp' \in [CPU -> Data]
    BY <1>5, CallEffect DEF Only, PassesQuiescentState, TypeOK
  <2> QED
    BY <1>5, <2>1 DEF TypeOK, call_rcu
<1>6. ASSUME NEW c \in CPU, schedule(c) PROVE TypeOK'
  <2>1. rdp' \in [CPU -> Data]
    BY <1>6, ScheduleEffect DEF Only, PassesQuiescentState, TypeOK
  <2> QED
    BY <1>6, <2>1 DEF TypeOK, schedule
<1>7. ASSUME NEW c \in CPU, to_quiet(c) PROVE TypeOK'
  BY <1>7 DEF to_quiet, TypeOK
<1>8. ASSUME NEW c \in CPU, to_kernel(c) PROVE TypeOK'
  BY <1>8 DEF to_kernel, TypeOK
<1>9. ASSUME NEW c \in CPU, tick(c) PROVE TypeOK'
  <2>1. rdp' \in [CPU -> Data]
    BY <1>9, TickEffect DEF Only, PassesQuiescentState, TypeOK
  <2> QED
    BY <1>9, <2>1 DEF TypeOK, tick
<1>10. ASSUME NEW c \in CPU, tasklet_run(c) PROVE TypeOK'
  <2>1. rdp' \in [CPU -> Data]
    BY <1>10, TaskletEffect DEF Only, PassesQuiescentState, TypeOK
  <2> QED
    BY <1>10, <2>1 DEF TypeOK, tasklet_run
<1>11. ASSUME NEW c \in CPU, process_next(c) PROVE TypeOK'
  <2>1. rdp' \in [CPU -> Data]
    BY <1>11, NextEffect DEF Only, PassesQuiescentState, TypeOK
  <2> QED
    BY <1>11, <2>1 DEF TypeOK, process_next
<1>12. ASSUME NEW c \in CPU, process_pending(c) PROVE TypeOK'
  BY <1>12 DEF process_pending, TypeOK
<1>13. ASSUME NEW c \in CPU, process_start(c) PROVE TypeOK'
  <2>1. /\ rcp' \in Ctl /\ rsp' \in [lock : CPU \cup {NoCPU}, cpumask : SUBSET CPU]
        /\ after' \in {"check_qs", "do_batch", "out"} /\ pc' \in [CPU -> PC]
    BY <1>13, ProcessStartEffect DEF TypeOK, TakesOff, Opens, Leaves, Ctl
  <2> QED
    BY <1>13, <2>1 DEF TypeOK, Ctl, process_start
<1>14. ASSUME NEW c \in CPU, start_clear(c) PROVE TypeOK'
  BY <1>14 DEF start_clear, TypeOK
<1>15. ASSUME NEW c \in CPU, start_cur(c) PROVE TypeOK'
  <2>1. /\ rcp' \in Ctl /\ rsp' \in [lock : CPU \cup {NoCPU}, cpumask : SUBSET CPU]
        /\ after' \in {"check_qs", "do_batch", "out"} /\ pc' \in [CPU -> PC]
    BY <1>15, StartCurEffect DEF TypeOK, TakesOff, Opens, Leaves, Ctl
  <2> QED
    BY <1>15, <2>1 DEF TypeOK, Ctl, start_cur
<1>16. ASSUME NEW c \in CPU, rcu_check_quiescent_state(c) PROVE TypeOK'
  <2>1. rdp' \in [CPU -> Data]
    BY <1>16, CheckEffect DEF Only, PassesQuiescentState, TypeOK
  <2> QED
    BY <1>16, <2>1 DEF TypeOK, rcu_check_quiescent_state
<1>17. ASSUME NEW c \in CPU, report_quiet(c) PROVE TypeOK'
  <2>1. /\ rcp' \in Ctl /\ rsp' \in [lock : CPU \cup {NoCPU}, cpumask : SUBSET CPU]
        /\ after' \in {"check_qs", "do_batch", "out"} /\ pc' \in [CPU -> PC]
    BY <1>17, ReportEffect DEF TypeOK, TakesOff, Opens, Leaves, Ctl
  <2> QED
    BY <1>17, <2>1 DEF TypeOK, Ctl, report_quiet
<1>18. ASSUME NEW c \in CPU, do_batch_invoke(c) PROVE TypeOK'
  <2>1. rdp' \in [CPU -> Data] /\ Head(rdp[c].donelist) \in Callback
    BY <1>18, InvokeEffect DEF Only
  <2> QED
    BY <1>18, <2>1 DEF TypeOK, do_batch_invoke
<1>19. ASSUME NEW c \in CPU, do_batch_end(c) PROVE TypeOK'
  BY <1>19 DEF do_batch_end, TypeOK
<1>20. ASSUME NEW c \in CPU, cpu_up_prepare(c) PROVE TypeOK'
  <2>1. rdp' \in [CPU -> Data]
    BY <1>20, PrepareEffect DEF Only
  <2>2. hp' = [hp EXCEPT !.phase = "prepared", !.cpu = c, !.n = @ + 1] /\ hp.n < MaxHotplug
    BY <1>20 DEF cpu_up_prepare
  <2>3. hp' \in [phase : {"none", "prepared", "dead", "move_cur", "move_nxt"},
                cpu : CPU, on : CPU, n : 0..MaxHotplug]
    <3>1. hp.n \in 0..MaxHotplug /\ hp.n + 1 \in 0..MaxHotplug
      BY <2>2 DEF TypeOK
    <3>2. hp \in [phase : {"none", "prepared", "dead", "move_cur", "move_nxt"},
                cpu : CPU, on : CPU, n : 0..MaxHotplug]
      BY DEF TypeOK
    <3> QED
      BY <2>2, <3>1, <3>2
  <2> QED
    BY <1>20, <2>1, <2>3 DEF TypeOK, cpu_up_prepare
<1>21. ASSUME NEW c \in CPU, take_cpu_down(c) PROVE TypeOK'
  <2>1. rdp' \in [CPU -> Data]
    BY <1>21, DownEffect DEF Only, PassesQuiescentState, TypeOK
  <2> QED
    BY <1>21, <2>1 DEF TypeOK, take_cpu_down
<1>22. ASSUME cpu_up_online PROVE TypeOK'
  BY <1>22 DEF cpu_up_online, TypeOK
<1>23. ASSUME offline_quiet PROVE TypeOK'
  <2>1. /\ rcp' \in Ctl /\ rsp' \in [lock : CPU \cup {NoCPU}, cpumask : SUBSET CPU]
        /\ after' \in {"check_qs", "do_batch", "out"} /\ pc' \in [CPU -> PC]
    BY <1>23, OfflineQuietEffect DEF TypeOK, TakesOff, Opens, Leaves, Ctl
  <2> QED
    BY <1>23, <2>1 DEF TypeOK, Ctl, offline_quiet
<1>24. ASSUME offline_move_cur PROVE TypeOK'
  <2>1. rdp' \in [CPU -> Data]
    BY <1>24, MoveEffect DEF Only, PassesQuiescentState, TypeOK
  <2> QED
    BY <1>24, <2>1 DEF TypeOK, offline_move_cur
<1>25. ASSUME offline_move_nxt PROVE TypeOK'
  <2>1. rdp' \in [CPU -> Data]
    BY <1>25, MoveEffect DEF Only, PassesQuiescentState, TypeOK
  <2> QED
    BY <1>25, <2>1 DEF TypeOK, offline_move_nxt
<1> QED
  BY <1>0, <1>1, <1>2, <1>3, <1>4, <1>5, <1>6, <1>7, <1>8, <1>9, <1>10, <1>11,
     <1>12, <1>13, <1>14, <1>15, <1>16, <1>17, <1>18, <1>19, <1>20, <1>21, <1>22,
     <1>23, <1>24, <1>25
  DEF Next, Reader, Tasklet, Offline
-----------------------------------------------------------------------------
(* Who is up. *)

(* Only the boot CPU is up at first, and nothing runs on the others. *)
LEMMA PresenceInit == Init => Presence
BY RcuAssumption DEF Init, Presence, Reading

(* Every step keeps Presence: what starts on a CPU starts on one that is up. *)
LEMMA PresenceNext == TypeOK /\ Presence /\ [Next]_vars => Presence'
<1> SUFFICES ASSUME TypeOK /\ Presence, [Next]_vars PROVE Presence'
  OBVIOUS
<1> USE RcuAssumption DEF PC, Owned, Goto, core, cpus, ghosts, Reading
<1>0. CASE UNCHANGED vars
  BY <1>0 DEF vars, TypeOK, Presence
<1>1. ASSUME NEW c \in CPU, rcu_read_lock(c) PROVE Presence'
  BY <1>1 DEF rcu_read_lock, TypeOK, Presence
<1>2. ASSUME NEW c \in CPU, rcu_read_unlock(c) PROVE Presence'
  BY <1>2 DEF rcu_read_unlock, TypeOK, Presence
<1>3. ASSUME NEW c \in CPU, irq_enter(c) PROVE Presence'
  BY <1>3 DEF irq_enter, TypeOK, Presence
<1>4. ASSUME NEW c \in CPU, irq_exit(c) PROVE Presence'
  BY <1>4 DEF irq_exit, TypeOK, Presence
<1>5. ASSUME NEW c \in CPU, NEW b \in Callback, call_rcu(c, b) PROVE Presence'
  <2>1. \A d \in CPU : rdp'[d].curlist = rdp[d].curlist
    BY <1>5, CallEffect DEF Only, SameBatch
  <2> QED
    BY <1>5, <2>1 DEF call_rcu, HotplugRuns, TypeOK, Presence
<1>6. ASSUME NEW c \in CPU, schedule(c) PROVE Presence'
  <2>1. \A d \in CPU : rdp'[d].curlist = rdp[d].curlist
    BY <1>6, ScheduleEffect DEF Only, SameBatch, PassesQuiescentState
  <2> QED
    BY <1>6, <2>1 DEF schedule, HotplugRuns, TypeOK, Presence
<1>7. ASSUME NEW c \in CPU, to_quiet(c) PROVE Presence'
  BY <1>7 DEF to_quiet, TypeOK, Presence
<1>8. ASSUME NEW c \in CPU, to_kernel(c) PROVE Presence'
  BY <1>8 DEF to_kernel, TypeOK, Presence
<1>9. ASSUME NEW c \in CPU, tick(c) PROVE Presence'
  <2>1. \A d \in CPU : rdp'[d].curlist = rdp[d].curlist
    BY <1>9, TickEffect DEF Only, SameBatch, PassesQuiescentState
  <2> QED
    BY <1>9, <2>1 DEF tick, HotplugRuns, TypeOK, Presence
<1>10. ASSUME NEW c \in CPU, tasklet_run(c) PROVE Presence'
  <2>1. \A d \in CPU : rdp'[d].curlist = rdp[d].curlist \/ d = c
    BY <1>10, TaskletEffect DEF Only, SameBatch
  <2> QED
    BY <1>10, <2>1 DEF tasklet_run, TypeOK, Presence
<1>11. ASSUME NEW c \in CPU, process_next(c) PROVE Presence'
  <2>1. \A d \in CPU : rdp'[d].curlist = rdp[d].curlist \/ d = c
    BY <1>11, NextEffect DEF Only, SameBatch
  <2>2. /\ ctx' = ctx /\ online' = online /\ hp' = hp /\ pc[c] = "next"
        /\ \A d \in CPU : d # c => pc'[d] = pc[d]
    BY <1>11 DEF process_next, TypeOK
  <2> QED
    BY <2>1, <2>2 DEF TypeOK, Presence
<1>12. ASSUME NEW c \in CPU, process_pending(c) PROVE Presence'
  BY <1>12 DEF process_pending, TypeOK, Presence
<1>13. ASSUME NEW c \in CPU, process_start(c) PROVE Presence'
  <2>1. \E l \in PC : pc' = [pc EXCEPT ![c] = l]
    BY <1>13, ProcessStartEffect DEF TakesOff, Opens, Leaves
  <2> QED
    BY <1>13, <2>1 DEF process_start, HotplugRuns, TypeOK, Presence
<1>14. ASSUME NEW c \in CPU, start_clear(c) PROVE Presence'
  BY <1>14 DEF start_clear, TypeOK, Presence
<1>15. ASSUME NEW c \in CPU, start_cur(c) PROVE Presence'
  BY <1>15 DEF start_cur, TypeOK, Presence
<1>16. ASSUME NEW c \in CPU, rcu_check_quiescent_state(c) PROVE Presence'
  <2>1. \A d \in CPU : rdp'[d].curlist = rdp[d].curlist
    BY <1>16, CheckEffect DEF Only, SameBatch
  <2> QED
    BY <1>16, <2>1 DEF rcu_check_quiescent_state, HotplugRuns, TypeOK, Presence
<1>17. ASSUME NEW c \in CPU, report_quiet(c) PROVE Presence'
  <2>1. \E l \in PC : pc' = [pc EXCEPT ![c] = l]
    BY <1>17, ReportEffect DEF TakesOff, Opens, Leaves
  <2> QED
    BY <1>17, <2>1 DEF report_quiet, HotplugRuns, TypeOK, Presence
<1>18. ASSUME NEW c \in CPU, do_batch_invoke(c) PROVE Presence'
  <2>1. \A d \in CPU : rdp'[d].curlist = rdp[d].curlist
    BY <1>18, InvokeEffect DEF Only, SameBatch
  <2> QED
    BY <1>18, <2>1 DEF do_batch_invoke, HotplugRuns, TypeOK, Presence
<1>19. ASSUME NEW c \in CPU, do_batch_end(c) PROVE Presence'
  BY <1>19 DEF do_batch_end, TypeOK, Presence
<1>20. ASSUME NEW c \in CPU, cpu_up_prepare(c) PROVE Presence'
  <2>1. /\ \A d \in CPU : rdp'[d].curlist = rdp[d].curlist \/ d = c
        /\ rdp'[c].curlist = <<>>
    BY <1>20, PrepareEffect DEF Only, SameBatch
  <2> QED
    BY <1>20, <2>1 DEF cpu_up_prepare, TypeOK, Presence
<1>21. ASSUME NEW c \in CPU, take_cpu_down(c) PROVE Presence'
  <2>1. \A d \in CPU : rdp'[d].curlist = rdp[d].curlist
    BY <1>21, DownEffect DEF Only, SameBatch
  <2> QED
    BY <1>21, <2>1 DEF take_cpu_down, HotplugRuns, TypeOK, Presence
<1>22. ASSUME cpu_up_online PROVE Presence'
  <2>1. /\ online' = online \cup {hp.cpu} /\ hp'.phase = "none"
        /\ pc' = pc /\ ctx' = ctx
    BY <1>22 DEF cpu_up_online, TypeOK
  <2> QED
    BY <2>1 DEF Presence
<1>23. ASSUME offline_quiet PROVE Presence'
  <2>1. \E l \in PC : pc' = [pc EXCEPT ![hp.on] = l] \/ pc' = pc
    BY <1>23, OfflineQuietEffect DEF TakesOff, Opens, Leaves
  <2> QED
    BY <1>23, <2>1 DEF offline_quiet, HotplugRuns, TypeOK, Presence
<1>24. ASSUME offline_move_cur PROVE Presence'
  <2>1. \A d \in CPU : rdp'[d].curlist = rdp[d].curlist
    BY <1>24, MoveSame DEF SameBatch
  <2>2. hp' = [hp EXCEPT !.phase = "move_nxt"] /\ hp.phase = "move_cur"
    BY <1>24 DEF offline_move_cur, HotplugRuns
  <2>3. /\ pc' = pc /\ ctx' = ctx /\ online' = online /\ hp.phase = "move_cur"
        /\ hp'.phase = "move_nxt" /\ hp'.cpu = hp.cpu /\ hp'.on = hp.on
    BY <1>24, <2>2 DEF offline_move_cur, TypeOK
  <2> QED
    BY <2>1, <2>3 DEF TypeOK, Presence
<1>25. ASSUME offline_move_nxt PROVE Presence'
  <2>1. \A d \in CPU : rdp'[d].curlist = rdp[d].curlist
    BY <1>25, MoveSame DEF SameBatch
  <2>2. /\ pc' = pc /\ ctx' = ctx /\ online' = online
        /\ hp'.phase = "none" /\ hp.phase = "move_nxt"
    BY <1>25 DEF offline_move_nxt, HotplugRuns, TypeOK
  <2> QED
    BY <2>1, <2>2 DEF TypeOK, Presence
<1> QED
  BY <1>0, <1>1, <1>2, <1>3, <1>4, <1>5, <1>6, <1>7, <1>8, <1>9, <1>10, <1>11,
     <1>12, <1>13, <1>14, <1>15, <1>16, <1>17, <1>18, <1>19, <1>20, <1>21, <1>22,
     <1>23, <1>24, <1>25
  DEF Next, Reader, Tasklet, Offline
-----------------------------------------------------------------------------
(* The lock and the batch numbers. *)

(* The numbers start together, with nobody in rcu_start_batch(). *)
LEMMA NumbersInit == Init => Numbers
BY RcuAssumption
DEF Init, Numbers, LockHeld, Ahead, BatchIsRegistered, FreshData, Owned

(* Only rcu_start_batch() keeps the lock across a step, and no CPU goes down *)
(* meanwhile. *)
LEMMA LockNext == TypeOK /\ Presence /\ LockHeld /\ [Next]_vars => LockHeld'
<1> SUFFICES ASSUME TypeOK /\ Presence /\ LockHeld, [Next]_vars PROVE LockHeld'
  OBVIOUS
<1> USE RcuAssumption DEF PC, Owned, Goto, core, cpus, ghosts
<1>0. CASE UNCHANGED vars
  BY <1>0 DEF vars, TypeOK, Presence, LockHeld
<1>1. ASSUME NEW c \in CPU, rcu_read_lock(c) PROVE LockHeld'
  BY <1>1 DEF rcu_read_lock, TypeOK, Presence, LockHeld
<1>2. ASSUME NEW c \in CPU, rcu_read_unlock(c) PROVE LockHeld'
  BY <1>2 DEF rcu_read_unlock, TypeOK, Presence, LockHeld
<1>3. ASSUME NEW c \in CPU, irq_enter(c) PROVE LockHeld'
  BY <1>3 DEF irq_enter, TypeOK, Presence, LockHeld
<1>4. ASSUME NEW c \in CPU, irq_exit(c) PROVE LockHeld'
  BY <1>4 DEF irq_exit, TypeOK, Presence, LockHeld
<1>5. ASSUME NEW c \in CPU, NEW b \in Callback, call_rcu(c, b) PROVE LockHeld'
  BY <1>5 DEF call_rcu, TypeOK, Presence, LockHeld
<1>6. ASSUME NEW c \in CPU, schedule(c) PROVE LockHeld'
  BY <1>6 DEF schedule, TypeOK, Presence, LockHeld
<1>7. ASSUME NEW c \in CPU, to_quiet(c) PROVE LockHeld'
  BY <1>7 DEF to_quiet, TypeOK, Presence, LockHeld
<1>8. ASSUME NEW c \in CPU, to_kernel(c) PROVE LockHeld'
  BY <1>8 DEF to_kernel, TypeOK, Presence, LockHeld
<1>9. ASSUME NEW c \in CPU, tick(c) PROVE LockHeld'
  BY <1>9 DEF tick, TypeOK, Presence, LockHeld
<1>10. ASSUME NEW c \in CPU, tasklet_run(c) PROVE LockHeld'
  BY <1>10 DEF tasklet_run, TypeOK, Presence, LockHeld
<1>11. ASSUME NEW c \in CPU, process_next(c) PROVE LockHeld'
  BY <1>11 DEF process_next, TypeOK, Presence, LockHeld
<1>12. ASSUME NEW c \in CPU, process_pending(c) PROVE LockHeld'
  BY <1>12 DEF process_pending, TypeOK, Presence, LockHeld
<1>13. ASSUME NEW c \in CPU, process_start(c) PROVE LockHeld'
  <2>1. /\ pc[c] = "start" /\ rsp.lock = NoCPU /\ online' = online
        /\ rcp'.next_pending /\ rcp'.cur = rcp.cur /\ rcp'.completed = rcp.completed
    BY <1>13, ProcessStartEffect DEF process_start
  <2>2. Opens(c, "check_qs") \/ Leaves(c, rsp.cpumask, "check_qs")
    BY <1>13, ProcessStartEffect
  <2>3. CASE Opens(c, "check_qs")
    BY <2>1, <2>3 DEF Opens, TypeOK, Presence, LockHeld
  <2>4. CASE Leaves(c, rsp.cpumask, "check_qs")
    BY <2>1, <2>4 DEF Leaves, TypeOK, Presence, LockHeld
  <2> QED
    BY <2>2, <2>3, <2>4
<1>14. ASSUME NEW c \in CPU, start_clear(c) PROVE LockHeld'
  BY <1>14, StartClearEffect DEF start_clear, TypeOK, Presence, LockHeld
<1>15. ASSUME NEW c \in CPU, start_cur(c) PROVE LockHeld'
  BY <1>15, StartCurEffect DEF start_cur, TypeOK, Presence, LockHeld
<1>16. ASSUME NEW c \in CPU, rcu_check_quiescent_state(c) PROVE LockHeld'
  BY <1>16 DEF rcu_check_quiescent_state, TypeOK, Presence, LockHeld
<1>17. ASSUME NEW c \in CPU, report_quiet(c) PROVE LockHeld'
  BY <1>17, ReportEffect
  DEF report_quiet, TakesOff, Opens, Leaves, TypeOK, Presence, LockHeld
<1>18. ASSUME NEW c \in CPU, do_batch_invoke(c) PROVE LockHeld'
  BY <1>18 DEF do_batch_invoke, TypeOK, Presence, LockHeld
<1>19. ASSUME NEW c \in CPU, do_batch_end(c) PROVE LockHeld'
  BY <1>19 DEF do_batch_end, TypeOK, Presence, LockHeld
<1>20. ASSUME NEW c \in CPU, cpu_up_prepare(c) PROVE LockHeld'
  BY <1>20 DEF cpu_up_prepare, TypeOK, Presence, LockHeld
<1>21. ASSUME NEW c \in CPU, take_cpu_down(c) PROVE LockHeld'
  BY <1>21 DEF take_cpu_down, TypeOK, Presence, LockHeld
<1>22. ASSUME cpu_up_online PROVE LockHeld'
  BY <1>22 DEF cpu_up_online, TypeOK, Presence, LockHeld
<1>23. ASSUME offline_quiet PROVE LockHeld'
  BY <1>23, OfflineQuietEffect
  DEF offline_quiet, HotplugRuns, TakesOff, Opens, Leaves, TypeOK, Presence,
      LockHeld
<1>24. ASSUME offline_move_cur PROVE LockHeld'
  BY <1>24 DEF offline_move_cur, TypeOK, Presence, LockHeld
<1>25. ASSUME offline_move_nxt PROVE LockHeld'
  BY <1>25 DEF offline_move_nxt, TypeOK, Presence, LockHeld
<1> QED
  BY <1>0, <1>1, <1>2, <1>3, <1>4, <1>5, <1>6, <1>7, <1>8, <1>9, <1>10, <1>11,
     <1>12, <1>13, <1>14, <1>15, <1>16, <1>17, <1>18, <1>19, <1>20, <1>21, <1>22,
     <1>23, <1>24, <1>25
  DEF Next, Reader, Tasklet, Offline

(* cur only grows, and the CPUs copy it when they are at most there. *)
LEMMA AheadNext == TypeOK /\ Presence /\ Numbers /\ [Next]_vars => Ahead'
<1> SUFFICES ASSUME TypeOK /\ Presence /\ Numbers, [Next]_vars PROVE Ahead'
  OBVIOUS
<1> USE RcuAssumption DEF PC, Owned, Goto, core, cpus, ghosts
<1>0. CASE UNCHANGED vars
  BY <1>0 DEF vars, TypeOK, Presence, Numbers, Ahead, BatchIsRegistered
<1>1. ASSUME NEW c \in CPU, rcu_read_lock(c) PROVE Ahead'
  BY <1>1 DEF rcu_read_lock, TypeOK, Presence, Numbers, Ahead, BatchIsRegistered
<1>2. ASSUME NEW c \in CPU, rcu_read_unlock(c) PROVE Ahead'
  BY <1>2 DEF rcu_read_unlock, TypeOK, Presence, Numbers, Ahead, BatchIsRegistered
<1>3. ASSUME NEW c \in CPU, irq_enter(c) PROVE Ahead'
  BY <1>3 DEF irq_enter, TypeOK, Presence, Numbers, Ahead, BatchIsRegistered
<1>4. ASSUME NEW c \in CPU, irq_exit(c) PROVE Ahead'
  BY <1>4 DEF irq_exit, TypeOK, Presence, Numbers, Ahead, BatchIsRegistered
<1>5. ASSUME NEW c \in CPU, NEW b \in Callback, call_rcu(c, b) PROVE Ahead'
  <2>1. /\ \A d \in CPU : rdp'[d].curlist = rdp[d].curlist /\ rdp'[d].batch = rdp[d].batch
        /\ \A d \in CPU : rdp'[d].quiescbatch = rdp[d].quiescbatch
        /\ \A d \in CPU : rdp[d].passed_quiesc => rdp'[d].passed_quiesc
    BY <1>5, CallEffect DEF Only, SameBatch, SameQuiet, PassesQuiescentState
  <2> QED
    BY <1>5, <2>1 DEF call_rcu, TypeOK, Presence, Numbers, Ahead, BatchIsRegistered
<1>6. ASSUME NEW c \in CPU, schedule(c) PROVE Ahead'
  <2>1. /\ \A d \in CPU : rdp'[d].curlist = rdp[d].curlist /\ rdp'[d].batch = rdp[d].batch
        /\ \A d \in CPU : rdp'[d].quiescbatch = rdp[d].quiescbatch
        /\ \A d \in CPU : rdp[d].passed_quiesc => rdp'[d].passed_quiesc
    BY <1>6, ScheduleEffect DEF Only, SameBatch, SameQuiet, PassesQuiescentState
  <2> QED
    BY <1>6, <2>1 DEF schedule, TypeOK, Presence, Numbers, Ahead, BatchIsRegistered
<1>7. ASSUME NEW c \in CPU, to_quiet(c) PROVE Ahead'
  BY <1>7 DEF to_quiet, TypeOK, Presence, Numbers, Ahead, BatchIsRegistered
<1>8. ASSUME NEW c \in CPU, to_kernel(c) PROVE Ahead'
  BY <1>8 DEF to_kernel, TypeOK, Presence, Numbers, Ahead, BatchIsRegistered
<1>9. ASSUME NEW c \in CPU, tick(c) PROVE Ahead'
  <2>1. /\ \A d \in CPU : rdp'[d].curlist = rdp[d].curlist /\ rdp'[d].batch = rdp[d].batch
        /\ \A d \in CPU : rdp'[d].quiescbatch = rdp[d].quiescbatch
        /\ \A d \in CPU : rdp[d].passed_quiesc => rdp'[d].passed_quiesc
    BY <1>9, TickEffect DEF Only, SameBatch, SameQuiet, PassesQuiescentState
  <2> QED
    BY <1>9, <2>1 DEF tick, TypeOK, Presence, Numbers, Ahead, BatchIsRegistered
<1>10. ASSUME NEW c \in CPU, tasklet_run(c) PROVE Ahead'
  <2>1. /\ \A d \in CPU : rdp'[d].batch = rdp[d].batch
        /\ \A d \in CPU : rdp'[d].curlist \in {rdp[d].curlist, <<>>}
        /\ \A d \in CPU : /\ rdp'[d].quiescbatch = rdp[d].quiescbatch
                          /\ rdp'[d].passed_quiesc = rdp[d].passed_quiesc
    BY <1>10, TaskletEffect DEF Only, SameBatch, SameQuiet, PassesQuiescentState
  <2> QED
    BY <1>10, <2>1
    DEF tasklet_run, TypeOK, Presence, Numbers, Ahead, BatchIsRegistered
<1>11. ASSUME NEW c \in CPU, process_next(c) PROVE Ahead'
  <2>1. /\ \A d \in CPU : \/ rdp'[d].curlist = rdp[d].curlist /\ rdp'[d].batch = rdp[d].batch
                          \/ rdp'[d].batch = rcp.cur + 1
        /\ \A d \in CPU : /\ rdp'[d].quiescbatch = rdp[d].quiescbatch
                          /\ rdp'[d].passed_quiesc = rdp[d].passed_quiesc
    BY <1>11, NextEffect DEF Only, SameQuiet
  <2>2. /\ rcp' = rcp
        /\ \E l \in {"check_qs", "pending"} : pc' = [pc EXCEPT ![c] = l]
    BY <1>11, NextEffect DEF process_next
  <2>3. \A d \in CPU : rdp'[d].quiescbatch <= rcp'.cur
    BY <2>1, <2>2 DEF Numbers, Ahead, TypeOK
  <2>4. \A d \in CPU : rdp'[d].curlist # <<>> => rdp'[d].batch <= rcp'.cur + 1
    <3> TAKE d \in CPU
    <3>1. PICK k \in Int : rcp'.cur = k /\ rcp.cur = k
      BY <2>2 DEF TypeOK
    <3>2. CASE rdp'[d].batch = rcp.cur + 1
      BY <3>1, <3>2
    <3>3. CASE rdp'[d].curlist = rdp[d].curlist /\ rdp'[d].batch = rdp[d].batch
      BY <3>1, <3>3 DEF Numbers, Ahead
    <3> QED
      BY <2>1, <3>2, <3>3
  <2>5. \A d \in CPU : pc'[d] = "quiet" => rdp'[d].passed_quiesc
    BY <2>1, <2>2 DEF Numbers, Ahead, TypeOK
  <2> QED
    BY <2>3, <2>4, <2>5 DEF Ahead
<1>12. ASSUME NEW c \in CPU, process_pending(c) PROVE Ahead'
  BY <1>12 DEF process_pending, TypeOK, Presence, Numbers, Ahead, BatchIsRegistered
<1>13. ASSUME NEW c \in CPU, process_start(c) PROVE Ahead'
  <2>1. rcp'.cur = rcp.cur /\ (Opens(c, "check_qs") \/ Leaves(c, rsp.cpumask, "check_qs"))
    BY <1>13, ProcessStartEffect
  <2> QED
    BY <1>13, <2>1
    DEF process_start, Opens, Leaves, TypeOK, Presence, Numbers, Ahead,
        BatchIsRegistered
<1>14. ASSUME NEW c \in CPU, start_clear(c) PROVE Ahead'
  BY <1>14, StartClearEffect
  DEF start_clear, TypeOK, Presence, Numbers, Ahead, BatchIsRegistered
<1>15. ASSUME NEW c \in CPU, start_cur(c) PROVE Ahead'
  <2>1. rcp'.cur = rcp.cur + 1 /\ pc' = [pc EXCEPT ![c] = after]
    BY <1>15, StartCurEffect
  <2>2. /\ rcp.cur \in Int /\ after # "quiet" /\ rdp' = rdp
        /\ \A d \in CPU : rdp[d].quiescbatch \in Int /\ rdp[d].batch \in Int
    BY <1>15 DEF TypeOK, Data, start_cur
  <2>3. PICK k \in Int : rcp'.cur = k /\ k = rcp.cur + 1
    BY <2>1, <2>2
  <2> QED
    BY <2>1, <2>2, <2>3 DEF TypeOK, Numbers, Ahead
<1>16. ASSUME NEW c \in CPU, rcu_check_quiescent_state(c) PROVE Ahead'
  <2>1. /\ \A d \in CPU : rdp'[d].curlist = rdp[d].curlist /\ rdp'[d].batch = rdp[d].batch
        /\ \A d \in CPU : rdp'[d].quiescbatch \in {rdp[d].quiescbatch, rcp.cur}
        /\ \A d \in CPU : d # c => rdp'[d].passed_quiesc = rdp[d].passed_quiesc
        /\ \/ pc' = [pc EXCEPT ![c] = "do_batch"]
           \/ pc' = [pc EXCEPT ![c] = "quiet"] /\ rdp'[c].passed_quiesc
    BY <1>16, CheckEffect DEF Only, SameBatch, SameQuiet
  <2>2. rcp' = rcp /\ rcp.cur \in Int
    BY <1>16 DEF rcu_check_quiescent_state, TypeOK
  <2>3. \A d \in CPU : rdp'[d].quiescbatch <= rcp'.cur
    <3> TAKE d \in CPU
    <3>1. PICK k \in Int : rcp'.cur = k /\ rcp.cur = k
      BY <2>2
    <3>2. CASE rdp'[d].quiescbatch = rcp.cur
      BY <3>1, <3>2
    <3>3. CASE rdp'[d].quiescbatch = rdp[d].quiescbatch
      BY <3>1, <3>3 DEF Numbers, Ahead
    <3> QED
      BY <2>1, <3>2, <3>3
  <2>4. \A d \in CPU : rdp'[d].curlist # <<>> => rdp'[d].batch <= rcp'.cur + 1
    BY <2>1, <2>2 DEF Numbers, Ahead, TypeOK
  <2>5. \A d \in CPU : pc'[d] = "quiet" => rdp'[d].passed_quiesc
    <3> TAKE d \in CPU
    <3>1. CASE d = c
      BY <2>1, <3>1 DEF TypeOK
    <3>2. CASE d # c
      BY <2>1, <3>2 DEF Numbers, Ahead, TypeOK
    <3> QED
      BY <3>1, <3>2
  <2> QED
    BY <2>3, <2>4, <2>5 DEF Ahead
<1>17. ASSUME NEW c \in CPU, report_quiet(c) PROVE Ahead'
  BY <1>17, ReportEffect
  DEF report_quiet, TakesOff, Opens, Leaves, TypeOK, Presence, Numbers, Ahead,
      BatchIsRegistered
<1>18. ASSUME NEW c \in CPU, do_batch_invoke(c) PROVE Ahead'
  <2>1. /\ \A d \in CPU : rdp'[d].curlist = rdp[d].curlist /\ rdp'[d].batch = rdp[d].batch
        /\ \A d \in CPU : rdp'[d].quiescbatch = rdp[d].quiescbatch
        /\ \A d \in CPU : rdp[d].passed_quiesc => rdp'[d].passed_quiesc
    BY <1>18, InvokeEffect DEF Only, SameBatch, SameQuiet, PassesQuiescentState
  <2> QED
    BY <1>18, <2>1
    DEF do_batch_invoke, TypeOK, Presence, Numbers, Ahead, BatchIsRegistered
<1>19. ASSUME NEW c \in CPU, do_batch_end(c) PROVE Ahead'
  BY <1>19 DEF do_batch_end, TypeOK, Presence, Numbers, Ahead, BatchIsRegistered
<1>20. ASSUME NEW c \in CPU, cpu_up_prepare(c) PROVE Ahead'
  <2>1. /\ \A d \in CPU : d # c => rdp'[d] = rdp[d]
        /\ rdp'[c].quiescbatch = rcp.completed /\ rdp'[c].curlist = <<>>
    BY <1>20, PrepareEffect DEF Only, SameBatch, SameQuiet, PassesQuiescentState
  <2> QED
    BY <1>20, <2>1
    DEF cpu_up_prepare, TypeOK, Presence, Numbers, Ahead, BatchIsRegistered
<1>21. ASSUME NEW c \in CPU, take_cpu_down(c) PROVE Ahead'
  <2>1. /\ \A d \in CPU : rdp'[d].curlist = rdp[d].curlist /\ rdp'[d].batch = rdp[d].batch
        /\ \A d \in CPU : rdp'[d].quiescbatch = rdp[d].quiescbatch
    BY <1>21, DownEffect DEF Only, SameBatch, SameQuiet, PassesQuiescentState
  <2> QED
    BY <1>21, <2>1
    DEF take_cpu_down, TypeOK, Presence, Numbers, Ahead, BatchIsRegistered
<1>22. ASSUME cpu_up_online PROVE Ahead'
  BY <1>22 DEF cpu_up_online, TypeOK, Presence, Numbers, Ahead, BatchIsRegistered
<1>23. ASSUME offline_quiet PROVE Ahead'
  <2>1. /\ rdp' = rdp /\ rcp'.cur = rcp.cur
        /\ pc' = pc \/ (\E l \in {"out", "clear"} : pc' = [pc EXCEPT ![hp.on] = l])
    BY <1>23, OfflineQuietEffect DEF offline_quiet, TakesOff, Opens, Leaves
  <2> QED
    BY <2>1 DEF TypeOK, Numbers, Ahead
<1>24. ASSUME offline_move_cur PROVE Ahead'
  <2>1. /\ \A d \in CPU : rdp'[d].curlist = rdp[d].curlist /\ rdp'[d].batch = rdp[d].batch
        /\ \A d \in CPU : rdp'[d].quiescbatch = rdp[d].quiescbatch
        /\ \A d \in CPU : rdp[d].passed_quiesc => rdp'[d].passed_quiesc
    BY <1>24, MoveSame DEF SameBatch, SameQuiet
  <2>2. rcp' = rcp /\ pc' = pc
    BY <1>24 DEF offline_move_cur
  <2> QED
    BY <2>1, <2>2 DEF Numbers, Ahead
<1>25. ASSUME offline_move_nxt PROVE Ahead'
  <2>1. /\ \A d \in CPU : rdp'[d].curlist = rdp[d].curlist /\ rdp'[d].batch = rdp[d].batch
        /\ \A d \in CPU : rdp'[d].quiescbatch = rdp[d].quiescbatch
        /\ \A d \in CPU : rdp[d].passed_quiesc => rdp'[d].passed_quiesc
    BY <1>25, MoveSame DEF SameBatch, SameQuiet
  <2>2. rcp' = rcp /\ pc' = pc
    BY <1>25 DEF offline_move_nxt
  <2> QED
    BY <2>1, <2>2 DEF Numbers, Ahead
<1> QED
  BY <1>0, <1>1, <1>2, <1>3, <1>4, <1>5, <1>6, <1>7, <1>8, <1>9, <1>10, <1>11,
     <1>12, <1>13, <1>14, <1>15, <1>16, <1>17, <1>18, <1>19, <1>20, <1>21, <1>22,
     <1>23, <1>24, <1>25
  DEF Next, Reader, Tasklet, Offline

(* The batch of CPU d, past its registration, is known to the control       *)
(* block.                                                                   *)
Has(d) == rdp[d].curlist # <<>> /\ pc[d] \notin {"pending", "start"}
Known(d) ==
  \/ rdp[d].batch <= rcp.cur
  \/ /\ rdp[d].batch = rcp.cur + 1
     /\ rcp.next_pending \/ \E e \in CPU : pc[e] \in Owned

(* BatchIsRegistered in these terms. *)
LEMMA RegisteredParts ==
  BatchIsRegistered <=>
    /\ \A c \in online : Has(c) => Known(c)
    /\ rcp.next_pending /\ rsp.lock = NoCPU => rcp.cur # rcp.completed
    /\ rcp.cur # rcp.completed => rsp.cpumask # {}
    /\ rcp.cur - rcp.completed \in {0, 1}
BY DEF BatchIsRegistered, Has, Known

(* A step that leaves the control block alone keeps BatchIsRegistered if it *)
(* brings no batch past its registration.                                   *)
LEMMA RegisteredKept ==
  ASSUME TypeOK, Numbers, rcp' = rcp, rsp' = rsp,
         \A d \in CPU : pc[d] \in Owned => pc'[d] \in Owned,
         \A d \in online' :
           Has(d)' => d \in online /\ Has(d) /\ rdp'[d].batch = rdp[d].batch
  PROVE  BatchIsRegistered'
<1>1. \A c \in online' : Has(c)' => Known(c)'
  BY RegisteredParts DEF Numbers, Known
<1> QED
  BY <1>1, RegisteredParts DEF Numbers, BatchIsRegistered, Has, Known

(* The end of a grace period starts the pending one, if there is one. *)
LEMMA RegisteredTakesOff ==
  ASSUME TypeOK, Presence, Numbers, NEW c \in CPU, NEW q \in CPU,
         NEW ret \in {"do_batch", "out"}, rsp.lock = NoCPU, pc[c] \in {"quiet", "out"},
         TakesOff(c, q, ret), rdp' = rdp, online' = online
  PROVE  BatchIsRegistered'
<1> USE DEF Owned
<1>1. /\ rcp.cur \in Int /\ rcp'.cur = rcp.cur /\ rcp'.next_pending = rcp.next_pending
      /\ \A d \in CPU : rdp[d].batch \in Int
  BY DEF TakesOff, TypeOK, Data
<1>2. \A d \in CPU : /\ pc[d] \notin Owned
                     /\ pc[d] \in {"pending", "start"} => pc'[d] = pc[d]
  BY RcuAssumption DEF TakesOff, Opens, Leaves, TypeOK, Numbers, LockHeld
<1>3. \A d \in online : Has(d)' => Known(d)'
  <2> SUFFICES ASSUME NEW d \in online, Has(d)' PROVE Known(d)'
    OBVIOUS
  <2>1. d \in CPU /\ Has(d)
    BY <1>2 DEF Has, TypeOK
  <2>2. Known(d)
    BY <2>1, RegisteredParts DEF Numbers
  <2>3. \/ rdp[d].batch <= rcp.cur
        \/ rdp[d].batch = rcp.cur + 1 /\ rcp.next_pending
    BY <1>2, <2>2 DEF Known
  <2> QED
    BY <1>1, <2>3 DEF Known
<1>4. /\ rcp'.next_pending /\ rsp'.lock = NoCPU => rcp'.cur # rcp'.completed
      /\ rcp'.cur # rcp'.completed => rsp'.cpumask # {}
      /\ rcp'.cur - rcp'.completed \in {0, 1}
  BY <1>1, RcuAssumption DEF TakesOff, Opens, Leaves, Numbers, BatchIsRegistered
<1> QED
  BY <1>3, <1>4, RegisteredParts DEF BatchIsRegistered, Has, Known

(* A batch is past its registration only once next_pending was seen or set   *)
(* after cur was read, and nobody clears it without advancing cur.          *)
LEMMA RegisteredNext == TypeOK /\ Presence /\ Numbers /\ [Next]_vars => BatchIsRegistered'
<1> SUFFICES ASSUME TypeOK /\ Presence /\ Numbers, [Next]_vars PROVE BatchIsRegistered'
  OBVIOUS
<1> USE RcuAssumption DEF PC, Owned, Goto, core, cpus, ghosts
<1>0. CASE UNCHANGED vars
  BY <1>0 DEF vars, Numbers, BatchIsRegistered
<1>1. ASSUME NEW c \in CPU, rcu_read_lock(c) PROVE BatchIsRegistered'
  <2>1. \A d \in CPU : rdp'[d].curlist = rdp[d].curlist /\ rdp'[d].batch = rdp[d].batch
    BY <1>1 DEF rcu_read_lock, TypeOK
  <2>2. /\ rcp' = rcp /\ rsp' = rsp /\ online' \subseteq online /\ online \subseteq CPU
        /\ \A d \in CPU : pc[d] \in Owned => pc'[d] \in Owned
        /\ \A d \in CPU : pc[d] \in {"pending", "start"} => pc'[d] = pc[d]
    BY <1>1 DEF rcu_read_lock, TypeOK
  <2> QED
    BY <2>1, <2>2, RegisteredKept DEF Has
<1>2. ASSUME NEW c \in CPU, rcu_read_unlock(c) PROVE BatchIsRegistered'
  <2>1. \A d \in CPU : rdp'[d].curlist = rdp[d].curlist /\ rdp'[d].batch = rdp[d].batch
    BY <1>2 DEF rcu_read_unlock, TypeOK
  <2>2. /\ rcp' = rcp /\ rsp' = rsp /\ online' \subseteq online /\ online \subseteq CPU
        /\ \A d \in CPU : pc[d] \in Owned => pc'[d] \in Owned
        /\ \A d \in CPU : pc[d] \in {"pending", "start"} => pc'[d] = pc[d]
    BY <1>2 DEF rcu_read_unlock, TypeOK
  <2> QED
    BY <2>1, <2>2, RegisteredKept DEF Has
<1>3. ASSUME NEW c \in CPU, irq_enter(c) PROVE BatchIsRegistered'
  <2>1. \A d \in CPU : rdp'[d].curlist = rdp[d].curlist /\ rdp'[d].batch = rdp[d].batch
    BY <1>3 DEF irq_enter, TypeOK
  <2>2. /\ rcp' = rcp /\ rsp' = rsp /\ online' \subseteq online /\ online \subseteq CPU
        /\ \A d \in CPU : pc[d] \in Owned => pc'[d] \in Owned
        /\ \A d \in CPU : pc[d] \in {"pending", "start"} => pc'[d] = pc[d]
    BY <1>3 DEF irq_enter, TypeOK
  <2> QED
    BY <2>1, <2>2, RegisteredKept DEF Has
<1>4. ASSUME NEW c \in CPU, irq_exit(c) PROVE BatchIsRegistered'
  <2>1. \A d \in CPU : rdp'[d].curlist = rdp[d].curlist /\ rdp'[d].batch = rdp[d].batch
    BY <1>4 DEF irq_exit, TypeOK
  <2>2. /\ rcp' = rcp /\ rsp' = rsp /\ online' \subseteq online /\ online \subseteq CPU
        /\ \A d \in CPU : pc[d] \in Owned => pc'[d] \in Owned
        /\ \A d \in CPU : pc[d] \in {"pending", "start"} => pc'[d] = pc[d]
    BY <1>4 DEF irq_exit, TypeOK
  <2> QED
    BY <2>1, <2>2, RegisteredKept DEF Has
<1>5. ASSUME NEW c \in CPU, NEW b \in Callback, call_rcu(c, b) PROVE BatchIsRegistered'
  <2>1. \A d \in CPU : rdp'[d].curlist = rdp[d].curlist /\ rdp'[d].batch = rdp[d].batch
    BY <1>5, CallEffect DEF Only, SameBatch, PassesQuiescentState, TypeOK
  <2>2. /\ rcp' = rcp /\ rsp' = rsp /\ online' \subseteq online /\ online \subseteq CPU
        /\ \A d \in CPU : pc[d] \in Owned => pc'[d] \in Owned
        /\ \A d \in CPU : pc[d] \in {"pending", "start"} => pc'[d] = pc[d]
    BY <1>5 DEF call_rcu, TypeOK
  <2> QED
    BY <2>1, <2>2, RegisteredKept DEF Has
<1>6. ASSUME NEW c \in CPU, schedule(c) PROVE BatchIsRegistered'
  <2>1. \A d \in CPU : rdp'[d].curlist = rdp[d].curlist /\ rdp'[d].batch = rdp[d].batch
    BY <1>6, ScheduleEffect DEF Only, SameBatch, PassesQuiescentState, TypeOK
  <2>2. /\ rcp' = rcp /\ rsp' = rsp /\ online' \subseteq online /\ online \subseteq CPU
        /\ \A d \in CPU : pc[d] \in Owned => pc'[d] \in Owned
        /\ \A d \in CPU : pc[d] \in {"pending", "start"} => pc'[d] = pc[d]
    BY <1>6 DEF schedule, TypeOK
  <2> QED
    BY <2>1, <2>2, RegisteredKept DEF Has
<1>7. ASSUME NEW c \in CPU, to_quiet(c) PROVE BatchIsRegistered'
  <2>1. \A d \in CPU : rdp'[d].curlist = rdp[d].curlist /\ rdp'[d].batch = rdp[d].batch
    BY <1>7 DEF to_quiet, TypeOK
  <2>2. /\ rcp' = rcp /\ rsp' = rsp /\ online' \subseteq online /\ online \subseteq CPU
        /\ \A d \in CPU : pc[d] \in Owned => pc'[d] \in Owned
        /\ \A d \in CPU : pc[d] \in {"pending", "start"} => pc'[d] = pc[d]
    BY <1>7 DEF to_quiet, TypeOK
  <2> QED
    BY <2>1, <2>2, RegisteredKept DEF Has
<1>8. ASSUME NEW c \in CPU, to_kernel(c) PROVE BatchIsRegistered'
  <2>1. \A d \in CPU : rdp'[d].curlist = rdp[d].curlist /\ rdp'[d].batch = rdp[d].batch
    BY <1>8 DEF to_kernel, TypeOK
  <2>2. /\ rcp' = rcp /\ rsp' = rsp /\ online' \subseteq online /\ online \subseteq CPU
        /\ \A d \in CPU : pc[d] \in Owned => pc'[d] \in Owned
        /\ \A d \in CPU : pc[d] \in {"pending", "start"} => pc'[d] = pc[d]
    BY <1>8 DEF to_kernel, TypeOK
  <2> QED
    BY <2>1, <2>2, RegisteredKept DEF Has
<1>9. ASSUME NEW c \in CPU, tick(c) PROVE BatchIsRegistered'
  <2>1. \A d \in CPU : rdp'[d].curlist = rdp[d].curlist /\ rdp'[d].batch = rdp[d].batch
    BY <1>9, TickEffect DEF Only, SameBatch, PassesQuiescentState, TypeOK
  <2>2. /\ rcp' = rcp /\ rsp' = rsp /\ online' \subseteq online /\ online \subseteq CPU
        /\ \A d \in CPU : pc[d] \in Owned => pc'[d] \in Owned
        /\ \A d \in CPU : pc[d] \in {"pending", "start"} => pc'[d] = pc[d]
    BY <1>9 DEF tick, TypeOK
  <2> QED
    BY <2>1, <2>2, RegisteredKept DEF Has
<1>10. ASSUME NEW c \in CPU, tasklet_run(c) PROVE BatchIsRegistered'
  <2>1. \A d \in CPU : rdp'[d].batch = rdp[d].batch /\ rdp'[d].curlist \in {rdp[d].curlist, <<>>}
    BY <1>10, TaskletEffect DEF Only, TypeOK
  <2>2. /\ pc[c] = "out" /\ pc' = [pc EXCEPT ![c] = "next"]
        /\ rcp' = rcp /\ rsp' = rsp /\ online' = online /\ online \subseteq CPU
        /\ \A d \in CPU : pc[d] \in Owned => pc'[d] \in Owned
    BY <1>10 DEF tasklet_run, TypeOK
  <2> QED
    BY <2>1, <2>2, RegisteredKept DEF Has, TypeOK
<1>11. ASSUME NEW c \in CPU, process_next(c) PROVE BatchIsRegistered'
  <2>1. \A d \in CPU : d # c => rdp'[d] = rdp[d]
    BY <1>11, NextEffect DEF Only
  <2>2. \/ rdp' = rdp /\ pc' = [pc EXCEPT ![c] = "check_qs"]
        \/ pc' = [pc EXCEPT ![c] = "pending"]
    BY <1>11, NextEffect
  <2>3. /\ pc[c] = "next"
        /\ rcp' = rcp /\ rsp' = rsp /\ online' = online /\ online \subseteq CPU
        /\ \A d \in CPU : pc[d] \in Owned => pc'[d] \in Owned
    BY <1>11 DEF process_next, TypeOK
  <2> QED
    BY <2>1, <2>2, <2>3, RegisteredKept DEF Has, TypeOK
<1>12. ASSUME NEW c \in CPU, process_pending(c) PROVE BatchIsRegistered'
  <2>1. CASE rcp.next_pending
    <3>1. /\ rdp' = rdp /\ rcp' = rcp /\ rsp' = rsp /\ online' = online /\ online \subseteq CPU
          /\ rcp.cur \in Int /\ \A d \in CPU : rdp[d].batch \in Int
      BY <1>12 DEF process_pending, TypeOK, Data
    <3>2. \A d \in online : Has(d)' => Known(d)'
      BY <2>1, <3>1 DEF Has, Known, Numbers, Ahead
    <3> QED
      BY <3>1, <3>2, RegisteredParts DEF Numbers, BatchIsRegistered, Has, Known
  <2>2. CASE ~rcp.next_pending
    <3>1. /\ pc[c] = "pending" /\ pc' = [pc EXCEPT ![c] = "start"] /\ rdp' = rdp
          /\ rcp' = rcp /\ rsp' = rsp /\ online' = online /\ online \subseteq CPU
          /\ \A d \in CPU : pc[d] \in Owned => pc'[d] \in Owned
      BY <1>12, <2>2 DEF process_pending, TypeOK
    <3> QED
      BY <3>1, RegisteredKept DEF Has, TypeOK
  <2> QED
    BY <2>1, <2>2
<1>13. ASSUME NEW c \in CPU, process_start(c) PROVE BatchIsRegistered'
  <2>1. /\ rcp'.next_pending /\ rcp'.cur = rcp.cur /\ rcp'.completed = rcp.completed
        /\ Opens(c, "check_qs") \/ Leaves(c, rsp.cpumask, "check_qs")
    BY <1>13, ProcessStartEffect
  <2>2. /\ rdp' = rdp /\ online' = online /\ online \subseteq CPU /\ rsp.lock = NoCPU
        /\ rcp.cur \in Int /\ \A d \in CPU : rdp[d].batch \in Int
    BY <1>13 DEF process_start, TypeOK, Data
  <2>3. \A d \in online : Has(d)' => Known(d)'
    BY <2>1, <2>2 DEF Has, Known, Numbers, Ahead
  <2>4. /\ rcp'.next_pending /\ rsp'.lock = NoCPU => rcp'.cur # rcp'.completed
        /\ rcp'.cur # rcp'.completed => rsp'.cpumask # {}
        /\ rcp'.cur - rcp'.completed \in {0, 1}
    BY <2>1, <2>2 DEF Numbers, BatchIsRegistered, Opens, Leaves, Presence
  <2> QED
    BY <2>2, <2>3, <2>4, RegisteredParts DEF BatchIsRegistered, Has, Known
<1>14. ASSUME NEW c \in CPU, start_clear(c) PROVE BatchIsRegistered'
  <2>1. /\ ~rcp'.next_pending /\ rcp'.cur = rcp.cur /\ rcp'.completed = rcp.completed
        /\ rsp' = rsp /\ pc' = [pc EXCEPT ![c] = "cur"]
    BY <1>14, StartClearEffect
  <2>2. /\ rdp' = rdp /\ online' = online /\ online \subseteq CPU /\ pc'[c] = "cur"
        /\ rcp.cur \in Int /\ \A d \in CPU : rdp[d].batch \in Int
    <3>1. rdp' = rdp /\ online' = online
      BY <1>14 DEF start_clear
    <3> QED
      BY <2>1, <3>1 DEF TypeOK, Data
  <2>3. \A d \in online : Has(d)' => Known(d)'
    BY <2>1, <2>2 DEF Has, Known, Numbers, Ahead
  <2>4. /\ rcp'.next_pending /\ rsp'.lock = NoCPU => rcp'.cur # rcp'.completed
        /\ rcp'.cur # rcp'.completed => rsp'.cpumask # {}
        /\ rcp'.cur - rcp'.completed \in {0, 1}
    BY <2>1, <2>2 DEF Numbers, BatchIsRegistered
  <2> QED
    BY <2>2, <2>3, <2>4, RegisteredParts DEF BatchIsRegistered, Has, Known
<1>15. ASSUME NEW c \in CPU, start_cur(c) PROVE BatchIsRegistered'
  <2>1. /\ rcp.cur \in Int /\ rcp.cur = rcp.completed /\ ~rcp.next_pending
        /\ rsp.cpumask # {}
    BY <1>15 DEF start_cur, TypeOK, Numbers, LockHeld
  <2>2. PICK k \in Int : k = rcp.cur + 1 /\ rcp'.cur = k
    BY <1>15, <2>1, StartCurEffect
  <2>3. /\ rcp'.completed = rcp.completed /\ ~rcp'.next_pending
        /\ rsp'.cpumask = rsp.cpumask
    BY <1>15, <2>1, StartCurEffect
  <2>4. /\ rdp' = rdp /\ online' = online /\ online \subseteq CPU
        /\ \A d \in CPU : rdp[d].batch \in Int
    BY <1>15 DEF start_cur, TypeOK, Data
  <2>5. \A d \in online : Has(d)' => Known(d)'
    BY <2>2, <2>4 DEF Has, Known, Numbers, Ahead
  <2>6. /\ rcp'.next_pending /\ rsp'.lock = NoCPU => rcp'.cur # rcp'.completed
        /\ rcp'.cur # rcp'.completed => rsp'.cpumask # {}
        /\ rcp'.cur - rcp'.completed \in {0, 1}
    BY <2>1, <2>2, <2>3
  <2> QED
    BY <2>4, <2>5, <2>6, RegisteredParts DEF BatchIsRegistered, Has, Known
<1>16. ASSUME NEW c \in CPU, rcu_check_quiescent_state(c) PROVE BatchIsRegistered'
  <2>1. \A d \in CPU : rdp'[d].curlist = rdp[d].curlist /\ rdp'[d].batch = rdp[d].batch
    BY <1>16, CheckEffect DEF Only, SameBatch, PassesQuiescentState, TypeOK
  <2>2. /\ rcp' = rcp /\ rsp' = rsp /\ online' \subseteq online /\ online \subseteq CPU
        /\ \A d \in CPU : pc[d] \in Owned => pc'[d] \in Owned
        /\ \A d \in CPU : pc[d] \in {"pending", "start"} => pc'[d] = pc[d]
    <3>1. /\ rcp' = rcp /\ rsp' = rsp /\ online' = online /\ online \subseteq CPU
          /\ pc[c] = "check_qs"
      BY <1>16 DEF rcu_check_quiescent_state, TypeOK
    <3>2. \E l \in PC : pc' = [pc EXCEPT ![c] = l]
      BY <1>16, CheckEffect
    <3> QED
      BY <3>1, <3>2 DEF TypeOK
  <2> QED
    BY <2>1, <2>2, RegisteredKept DEF Has
<1>17. ASSUME NEW c \in CPU, report_quiet(c) PROVE BatchIsRegistered'
  <2>1. CASE TakesOff(c, c, "do_batch")
    <3>1. rdp' = rdp /\ online' = online
      BY <1>17 DEF report_quiet
    <3> QED
      BY <2>1, <3>1, <1>17, RegisteredTakesOff DEF report_quiet, HotplugRuns, TypeOK
  <2>2. CASE UNCHANGED core /\ pc' = [pc EXCEPT ![c] = "do_batch"]
    <3>1. rdp' = rdp /\ online' = online
      BY <1>17 DEF report_quiet
    <3>2. /\ \A d \in CPU : pc[d] \in Owned => pc'[d] \in Owned
          /\ \A d \in CPU : pc[d] \in {"pending", "start"} => pc'[d] = pc[d]
      BY <1>17, <2>2 DEF report_quiet, TypeOK
    <3> QED
      BY <2>2, <3>1, <3>2, RegisteredKept DEF Has, TypeOK
  <2> QED
    BY <1>17, <2>1, <2>2, ReportEffect
<1>18. ASSUME NEW c \in CPU, do_batch_invoke(c) PROVE BatchIsRegistered'
  <2>1. \A d \in CPU : rdp'[d].curlist = rdp[d].curlist /\ rdp'[d].batch = rdp[d].batch
    BY <1>18, InvokeEffect DEF Only, SameBatch, PassesQuiescentState, TypeOK
  <2>2. /\ rcp' = rcp /\ rsp' = rsp /\ online' \subseteq online /\ online \subseteq CPU
        /\ \A d \in CPU : pc[d] \in Owned => pc'[d] \in Owned
        /\ \A d \in CPU : pc[d] \in {"pending", "start"} => pc'[d] = pc[d]
    BY <1>18 DEF do_batch_invoke, TypeOK
  <2> QED
    BY <2>1, <2>2, RegisteredKept DEF Has
<1>19. ASSUME NEW c \in CPU, do_batch_end(c) PROVE BatchIsRegistered'
  <2>1. \A d \in CPU : rdp'[d].curlist = rdp[d].curlist /\ rdp'[d].batch = rdp[d].batch
    BY <1>19 DEF do_batch_end, TypeOK
  <2>2. /\ rcp' = rcp /\ rsp' = rsp /\ online' \subseteq online /\ online \subseteq CPU
        /\ \A d \in CPU : pc[d] \in Owned => pc'[d] \in Owned
        /\ \A d \in CPU : pc[d] \in {"pending", "start"} => pc'[d] = pc[d]
    BY <1>19 DEF do_batch_end, TypeOK
  <2> QED
    BY <2>1, <2>2, RegisteredKept DEF Has
<1>20. ASSUME NEW c \in CPU, cpu_up_prepare(c) PROVE BatchIsRegistered'
  <2>1. \A d \in CPU : d # c => rdp'[d] = rdp[d]
    BY <1>20, PrepareEffect DEF Only
  <2>2. /\ c \notin online /\ pc' = pc
        /\ rcp' = rcp /\ rsp' = rsp /\ online' = online /\ online \subseteq CPU
        /\ \A d \in CPU : pc[d] \in Owned => pc'[d] \in Owned
    BY <1>20 DEF cpu_up_prepare, TypeOK
  <2> QED
    BY <2>1, <2>2, RegisteredKept DEF Has
<1>21. ASSUME NEW c \in CPU, take_cpu_down(c) PROVE BatchIsRegistered'
  <2>1. \A d \in CPU : rdp'[d].curlist = rdp[d].curlist /\ rdp'[d].batch = rdp[d].batch
    BY <1>21, DownEffect DEF Only, SameBatch, PassesQuiescentState, TypeOK
  <2>2. /\ rcp' = rcp /\ rsp' = rsp /\ online' \subseteq online /\ online \subseteq CPU
        /\ \A d \in CPU : pc[d] \in Owned => pc'[d] \in Owned
        /\ \A d \in CPU : pc[d] \in {"pending", "start"} => pc'[d] = pc[d]
    BY <1>21 DEF take_cpu_down, TypeOK
  <2> QED
    BY <2>1, <2>2, RegisteredKept DEF Has
<1>22. ASSUME cpu_up_online PROVE BatchIsRegistered'
  <2>1. /\ rdp' = rdp /\ pc' = pc /\ rcp' = rcp /\ rsp' = rsp
        /\ online' = online \cup {hp.cpu} /\ rdp[hp.cpu].curlist = <<>>
    BY <1>22 DEF cpu_up_online, Presence
  <2> QED
    BY <2>1, RegisteredKept DEF Has
<1>23. ASSUME offline_quiet PROVE BatchIsRegistered'
  <2>1. CASE TakesOff(hp.on, hp.cpu, "out")
    <3>1. rdp' = rdp /\ online' = online
      BY <1>23 DEF offline_quiet
    <3> QED
      BY <2>1, <3>1, <1>23, RegisteredTakesOff DEF offline_quiet, HotplugRuns, TypeOK
  <2>2. CASE UNCHANGED core /\ UNCHANGED pc
    <3>1. rdp' = rdp /\ online' = online
      BY <1>23 DEF offline_quiet
    <3>2. /\ \A d \in CPU : pc[d] \in Owned => pc'[d] \in Owned
          /\ \A d \in CPU : pc[d] \in {"pending", "start"} => pc'[d] = pc[d]
      BY <1>23, <2>2 DEF offline_quiet, TypeOK
    <3> QED
      BY <2>2, <3>1, <3>2, RegisteredKept DEF Has, TypeOK
  <2> QED
    BY <1>23, <2>1, <2>2, OfflineQuietEffect
<1>24. ASSUME offline_move_cur PROVE BatchIsRegistered'
  <2>1. \A d \in CPU : rdp'[d].curlist = rdp[d].curlist /\ rdp'[d].batch = rdp[d].batch
    BY <1>24, MoveSame DEF SameBatch
  <2>2. /\ rcp' = rcp /\ rsp' = rsp /\ online' \subseteq online /\ online \subseteq CPU
        /\ \A d \in CPU : pc[d] \in Owned => pc'[d] \in Owned
        /\ \A d \in CPU : pc[d] \in {"pending", "start"} => pc'[d] = pc[d]
    BY <1>24 DEF offline_move_cur, TypeOK
  <2> QED
    BY <2>1, <2>2, RegisteredKept DEF Has
<1>25. ASSUME offline_move_nxt PROVE BatchIsRegistered'
  <2>1. \A d \in CPU : rdp'[d].curlist = rdp[d].curlist /\ rdp'[d].batch = rdp[d].batch
    BY <1>25, MoveSame DEF SameBatch
  <2>2. /\ rcp' = rcp /\ rsp' = rsp /\ online' \subseteq online /\ online \subseteq CPU
        /\ \A d \in CPU : pc[d] \in Owned => pc'[d] \in Owned
        /\ \A d \in CPU : pc[d] \in {"pending", "start"} => pc'[d] = pc[d]
    BY <1>25 DEF offline_move_nxt, TypeOK
  <2> QED
    BY <2>1, <2>2, RegisteredKept DEF Has
<1> QED
  BY <1>0, <1>1, <1>2, <1>3, <1>4, <1>5, <1>6, <1>7, <1>8, <1>9, <1>10, <1>11,
     <1>12, <1>13, <1>14, <1>15, <1>16, <1>17, <1>18, <1>19, <1>20, <1>21, <1>22,
     <1>23, <1>24, <1>25
  DEF Next, Reader, Tasklet, Offline

(* All of Numbers. *)
LEMMA NumbersNext == TypeOK /\ Presence /\ Numbers /\ [Next]_vars => Numbers'
BY LockNext, AheadNext, RegisteredNext DEF Numbers

-----------------------------------------------------------------------------
(* The callbacks on the lists. *)

(* What is on a list after list_add_tail(). *)
LEMMA OnAppend ==
  ASSUME NEW s \in Seq(Callback), NEW x \in Callback, NEW b, On(Append(s, x), b)
  PROVE  On(s, b) \/ b = x
<1>1. PICK i \in 1..(Len(s) + 1) : Append(s, x)[i] = b
  BY DEF On
<1> QED
  BY <1>1 DEF On

(* What is on two lists, one moved to the end of the other. *)
LEMMA OnConcat ==
  ASSUME NEW s \in Seq(Callback), NEW t \in Seq(Callback), NEW b, On(s \o t, b)
  PROVE  On(s, b) \/ On(t, b)
<1>1. PICK i \in 1..(Len(s) + Len(t)) : (s \o t)[i] = b
  BY DEF On
<1>2. CASE i <= Len(s)
  BY <1>1, <1>2 DEF On
<1>3. CASE i > Len(s)
  <2>1. i - Len(s) \in 1..Len(t) /\ (s \o t)[i] = t[i - Len(s)]
    BY <1>3
  <2> QED
    BY <1>1, <2>1 DEF On
<1> QED
  BY <1>2, <1>3

(* The first of a list is on it, and what is left was. *)
LEMMA OnTail ==
  ASSUME NEW s \in Seq(Callback), s # <<>>
  PROVE  /\ On(s, Head(s)) /\ Head(s) \in Callback
         /\ \A b : On(Tail(s), b) => On(s, b)
<1>1. On(s, Head(s)) /\ Head(s) \in Callback
  <2>1. Len(s) >= 1 /\ Head(s) = s[1]
    OBVIOUS
  <2> QED
    BY <2>1 DEF On
<1>2. ASSUME NEW b, On(Tail(s), b) PROVE On(s, b)
  <2>1. PICK i \in 1..(Len(s) - 1) : Tail(s)[i] = b
    BY <1>2 DEF On
  <2>2. i + 1 \in 1..Len(s) /\ s[i + 1] = b
    BY <2>1
  <2> QED
    BY <2>2 DEF On
<1> QED
  BY <1>1, <1>2

(* Callback b is on a list of CPU c. *)
Held(c, b) ==
  On(rdp[c].nxtlist, b) \/ On(rdp[c].curlist, b) \/ On(rdp[c].donelist, b)

(* A step that puts no new callback on a list keeps Queued. *)
LEMMA QueuedKept ==
  ASSUME Queued,
         \A b \in Callback : life'[b] = "fresh" => life[b] = "fresh",
         \A c \in CPU : \A b \in Callback : Held(c, b)' => \E d \in CPU : Held(d, b)
  PROVE  Queued'
BY DEF Queued, Held

(* Nothing is queued at first. *)
LEMMA QueuedInit == Init => Queued
BY DEF Init, Queued, FreshData, On

(* rcu_move_batch() takes callbacks from a list only. *)
LEMMA HeldMoved ==
  ASSUME TypeOK, offline_move_cur \/ offline_move_nxt,
         NEW d \in CPU, NEW b \in Callback, Held(d, b)'
  PROVE  \E e \in CPU : Held(e, b)
<1>1. hp.on \in CPU /\ hp.cpu \in CPU
  BY DEF TypeOK
<1>2. /\ \A e \in CPU : e # hp.on => rdp'[e] = rdp[e]
      /\ rdp'[hp.on].curlist = rdp[hp.on].curlist
      /\ rdp'[hp.on].donelist = rdp[hp.on].donelist /\ rdp[hp.on].nxtlist \in Seq(Callback)
  BY MoveEffect DEF Only, SameBatch
<1>3. PICK s \in {rdp[hp.cpu].curlist, rdp[hp.cpu].nxtlist} :
        s \in Seq(Callback) /\ rdp'[hp.on].nxtlist = rdp[hp.on].nxtlist \o s
  BY MoveEffect
<1>4. CASE d # hp.on
  BY <1>2, <1>4 DEF Held
<1>5. CASE d = hp.on
  <2>1. \/ On(rdp[hp.on].nxtlist \o s, b)
        \/ On(rdp[hp.on].curlist, b) \/ On(rdp[hp.on].donelist, b)
    BY <1>2, <1>3, <1>5 DEF Held
  <2>2. Held(hp.on, b) \/ On(s, b)
    BY <1>2, <1>3, <2>1, OnConcat DEF Held
  <2> QED
    BY <1>1, <1>3, <2>2 DEF Held
<1> QED
  BY <1>4, <1>5

(* Only call_rcu() puts a callback on a list for the first time, and it is   *)
(* not fresh any more.                                                      *)
LEMMA QueuedNext == TypeOK /\ Queued /\ [Next]_vars => Queued'
<1> SUFFICES ASSUME TypeOK /\ Queued, [Next]_vars PROVE Queued'
  OBVIOUS
<1> USE DEF core, cpus, ghosts
<1>0. CASE UNCHANGED vars
  BY <1>0 DEF vars, Queued
<1>1. ASSUME NEW c \in CPU, rcu_read_lock(c) PROVE Queued'
  BY <1>1, QueuedKept DEF rcu_read_lock, Held
<1>2. ASSUME NEW c \in CPU, rcu_read_unlock(c) PROVE Queued'
  BY <1>2, QueuedKept DEF rcu_read_unlock, Held
<1>3. ASSUME NEW c \in CPU, irq_enter(c) PROVE Queued'
  BY <1>3, QueuedKept DEF irq_enter, Held
<1>4. ASSUME NEW c \in CPU, irq_exit(c) PROVE Queued'
  BY <1>4, QueuedKept DEF irq_exit, Held
<1>5. ASSUME NEW c \in CPU, NEW b \in Callback, call_rcu(c, b) PROVE Queued'
  <2>1. /\ \A d \in CPU : d # c => rdp'[d] = rdp[d]
        /\ rdp'[c].nxtlist = Append(rdp[c].nxtlist, b)
        /\ rdp'[c].curlist = rdp[c].curlist /\ rdp'[c].donelist = rdp[c].donelist
    BY <1>5, CallEffect DEF Only, SameBatch
  <2>2. rdp[c].nxtlist \in Seq(Callback) /\ life'[b] = "queued"
    BY <1>5 DEF call_rcu, TypeOK, Data
  <2>3. \A d \in CPU : \A x \in Callback : Held(d, x)' => Held(d, x) \/ x = b
    <3> SUFFICES ASSUME NEW d \in CPU, NEW x \in Callback, Held(d, x)'
                 PROVE  Held(d, x) \/ x = b
      OBVIOUS
    <3>1. CASE d # c
      BY <2>1, <3>1 DEF Held
    <3>2. CASE d = c
      <4>1. \/ On(Append(rdp[c].nxtlist, b), x)
            \/ On(rdp[c].curlist, x) \/ On(rdp[c].donelist, x)
        BY <2>1, <3>2 DEF Held
      <4> QED
        BY <2>2, <3>2, <4>1, OnAppend DEF Held
    <3> QED
      BY <3>1, <3>2
  <2>4. \A x \in Callback : x # b => life'[x] = life[x]
    BY <1>5 DEF call_rcu, TypeOK
  <2> QED
    BY <2>2, <2>3, <2>4 DEF Queued, Held
<1>6. ASSUME NEW c \in CPU, schedule(c) PROVE Queued'
  <2>1. \A d \in CPU : \A b \in Callback : Held(d, b)' => Held(d, b)
    BY <1>6, ScheduleEffect DEF Only, SameBatch, PassesQuiescentState, Held
  <2> QED
    BY <1>6, <2>1, QueuedKept DEF schedule
<1>7. ASSUME NEW c \in CPU, to_quiet(c) PROVE Queued'
  BY <1>7, QueuedKept DEF to_quiet, Held
<1>8. ASSUME NEW c \in CPU, to_kernel(c) PROVE Queued'
  BY <1>8, QueuedKept DEF to_kernel, Held
<1>9. ASSUME NEW c \in CPU, tick(c) PROVE Queued'
  <2>1. \A d \in CPU : \A b \in Callback : Held(d, b)' => Held(d, b)
    BY <1>9, TickEffect DEF Only, SameBatch, PassesQuiescentState, Held
  <2> QED
    BY <1>9, <2>1, QueuedKept DEF tick
<1>10. ASSUME NEW c \in CPU, tasklet_run(c) PROVE Queued'
  <2>1. CASE rdp' = rdp
    BY <1>10, <2>1, QueuedKept DEF tasklet_run, Held
  <2>2. CASE rdp' # rdp
    <3>1. /\ \A d \in CPU : d # c => rdp'[d] = rdp[d]
          /\ rdp'[c].nxtlist = rdp[c].nxtlist /\ rdp'[c].curlist = <<>>
          /\ rdp'[c].donelist = rdp[c].donelist \o rdp[c].curlist
      BY <1>10, <2>2, TaskletEffect DEF Only
    <3>2. rdp[c].donelist \in Seq(Callback) /\ rdp[c].curlist \in Seq(Callback)
      BY DEF TypeOK, Data
    <3>3. \A d \in CPU : \A b \in Callback : Held(d, b)' => Held(d, b)
      <4> SUFFICES ASSUME NEW d \in CPU, NEW b \in Callback, Held(d, b)'
                   PROVE  Held(d, b)
        OBVIOUS
      <4>1. CASE d # c
        BY <3>1, <4>1 DEF Held
      <4>2. CASE d = c
        <5>1. \/ On(rdp[c].donelist \o rdp[c].curlist, b)
              \/ On(rdp[c].nxtlist, b) \/ On(<<>>, b)
          BY <3>1, <4>2 DEF Held
        <5>2. ~On(<<>>, b)
          BY DEF On
        <5> QED
          BY <3>2, <4>2, <5>1, <5>2, OnConcat DEF Held
      <4> QED
        BY <4>1, <4>2
    <3> QED
      BY <1>10, <3>3, QueuedKept DEF tasklet_run
  <2> QED
    BY <2>1, <2>2
<1>11. ASSUME NEW c \in CPU, process_next(c) PROVE Queued'
  <2>1. CASE rdp' = rdp
    BY <1>11, <2>1, QueuedKept DEF process_next, Held
  <2>2. CASE rdp' # rdp
    <3>1. /\ \A d \in CPU : d # c => rdp'[d] = rdp[d]
          /\ rdp'[c].curlist = rdp[c].nxtlist /\ rdp'[c].nxtlist = <<>>
          /\ rdp'[c].donelist = rdp[c].donelist
      BY <1>11, <2>2, NextEffect DEF Only
    <3>2. \A d \in CPU : \A b \in Callback : Held(d, b)' => Held(d, b)
      BY <3>1 DEF Held, On
    <3> QED
      BY <1>11, <3>2, QueuedKept DEF process_next
  <2> QED
    BY <2>1, <2>2
<1>12. ASSUME NEW c \in CPU, process_pending(c) PROVE Queued'
  BY <1>12, QueuedKept DEF process_pending, Held
<1>13. ASSUME NEW c \in CPU, process_start(c) PROVE Queued'
  BY <1>13, QueuedKept DEF process_start, Held
<1>14. ASSUME NEW c \in CPU, start_clear(c) PROVE Queued'
  BY <1>14, QueuedKept DEF start_clear, Held
<1>15. ASSUME NEW c \in CPU, start_cur(c) PROVE Queued'
  BY <1>15, QueuedKept DEF start_cur, Held
<1>16. ASSUME NEW c \in CPU, rcu_check_quiescent_state(c) PROVE Queued'
  <2>1. \A d \in CPU : \A b \in Callback : Held(d, b)' => Held(d, b)
    BY <1>16, CheckEffect DEF Only, SameBatch, PassesQuiescentState, Held
  <2> QED
    BY <1>16, <2>1, QueuedKept DEF rcu_check_quiescent_state
<1>17. ASSUME NEW c \in CPU, report_quiet(c) PROVE Queued'
  BY <1>17, QueuedKept DEF report_quiet, Held
<1>18. ASSUME NEW c \in CPU, do_batch_invoke(c) PROVE Queued'
  <2>1. /\ \A d \in CPU : d # c => rdp'[d] = rdp[d]
        /\ rdp'[c].nxtlist = rdp[c].nxtlist /\ rdp'[c].curlist = rdp[c].curlist
        /\ rdp'[c].donelist = Tail(rdp[c].donelist)
        /\ rdp[c].donelist \in Seq(Callback) /\ rdp[c].donelist # <<>>
    BY <1>18, InvokeEffect DEF Only, SameBatch
  <2>2. \A d \in CPU : \A b \in Callback : Held(d, b)' => Held(d, b)
    BY <2>1, OnTail DEF Held
  <2>3. \A b \in Callback : life'[b] = "fresh" => life[b] = "fresh"
    BY <1>18 DEF do_batch_invoke, TypeOK
  <2> QED
    BY <2>2, <2>3, QueuedKept
<1>19. ASSUME NEW c \in CPU, do_batch_end(c) PROVE Queued'
  BY <1>19, QueuedKept DEF do_batch_end, Held
<1>20. ASSUME NEW c \in CPU, cpu_up_prepare(c) PROVE Queued'
  <2>1. /\ \A d \in CPU : d # c => rdp'[d] = rdp[d]
        /\ rdp'[c].nxtlist = <<>> /\ rdp'[c].curlist = <<>> /\ rdp'[c].donelist = <<>>
    BY <1>20, PrepareEffect DEF Only
  <2>2. \A d \in CPU : \A b \in Callback : Held(d, b)' => Held(d, b)
    BY <2>1 DEF Held, On
  <2> QED
    BY <1>20, <2>2, QueuedKept DEF cpu_up_prepare
<1>21. ASSUME NEW c \in CPU, take_cpu_down(c) PROVE Queued'
  <2>1. \A d \in CPU : \A b \in Callback : Held(d, b)' => Held(d, b)
    BY <1>21, DownEffect DEF Only, SameBatch, PassesQuiescentState, Held
  <2> QED
    BY <1>21, <2>1, QueuedKept DEF take_cpu_down
<1>22. ASSUME cpu_up_online PROVE Queued'
  BY <1>22, QueuedKept DEF cpu_up_online, Held
<1>23. ASSUME offline_quiet PROVE Queued'
  BY <1>23, QueuedKept DEF offline_quiet, Held
<1>24. ASSUME offline_move_cur PROVE Queued'
  <2>1. \A d \in CPU : \A b \in Callback : Held(d, b)' => \E e \in CPU : Held(e, b)
    BY <1>24, HeldMoved
  <2> QED
    BY <1>24, <2>1, QueuedKept DEF offline_move_cur
<1>25. ASSUME offline_move_nxt PROVE Queued'
  <2>1. \A d \in CPU : \A b \in Callback : Held(d, b)' => \E e \in CPU : Held(e, b)
    BY <1>25, HeldMoved
  <2> QED
    BY <1>25, <2>1, QueuedKept DEF offline_move_nxt
<1> QED
  BY <1>0, <1>1, <1>2, <1>3, <1>4, <1>5, <1>6, <1>7, <1>8, <1>9, <1>10, <1>11,
     <1>12, <1>13, <1>14, <1>15, <1>16, <1>17, <1>18, <1>19, <1>20, <1>21, <1>22,
     <1>23, <1>24, <1>25
  DEF Next, Reader, Tasklet, Offline

-----------------------------------------------------------------------------
(* The grace period. *)

(* Nothing is queued and nobody reads at first. *)
LEMMA CoveredInit == Init => Covered
BY DEF Init, Covered, BlockersRead, StartSeesReaders, BatchCovered, DoneCovered,
       GracePeriodCoversReaders, FreshData, On, Reading

(* A step that starts and ends no section, leaves the control block alone   *)
(* and moves callbacks only to a batch to come, or to donelist when they    *)
(* are due, keeps Covered.                                                  *)
LEMMA CoveredKept ==
  ASSUME TypeOK, Covered, rcp' = rcp, rsp' = rsp, blockers' = blockers, unseen' = unseen,
         \A d \in CPU : Reading(d)' <=> Reading(d),
         \A d \in CPU : Reading(d) /\ Owes(d) => Owes(d)',
         \A c \in CPU : \A b \in Callback : On(rdp'[c].curlist, b) =>
           \/ On(rdp[c].curlist, b) /\ rdp'[c].batch = rdp[c].batch
           \/ Awaited(c, b)',
         \A c \in CPU : \A b \in Callback :
           On(rdp'[c].donelist, b) => blockers[b] \subseteq unseen,
         \A b \in Callback : life'[b] = "invoked" => blockers[b] \subseteq unseen
  PROVE  Covered'
<1>1. \A b \in Callback : blockers[b] \subseteq CPU
  BY DEF TypeOK
<1>2. BlockersRead'
  BY <1>1 DEF Covered, BlockersRead
<1>3. StartSeesReaders'
  BY DEF Covered, StartSeesReaders
<1>4. ASSUME NEW c \in CPU, NEW b \in Callback, On(rdp'[c].curlist, b)
      PROVE  Awaited(c, b)'
  <2>1. CASE On(rdp[c].curlist, b) /\ rdp'[c].batch = rdp[c].batch
    <3>1. Awaited(c, b) /\ \A d \in blockers[b] : Reading(d)
      BY <2>1 DEF Covered, BatchCovered, BlockersRead
    <3>2. \A d \in blockers[b] : Owes(d) => Owes(d)'
      BY <1>1, <3>1
    <3> QED
      BY <2>1, <3>1, <3>2 DEF Awaited
  <2> QED
    BY <1>4, <2>1
<1> QED
  BY <1>2, <1>3, <1>4 DEF Covered, BatchCovered, DoneCovered, GracePeriodCoversReaders

(* A new section blocks no callback yet, and is in the mask of a running    *)
(* rcu_start_batch() or unseen.                                             *)
LEMMA CoveredBegin ==
  ASSUME TypeOK, Presence, Numbers, Covered, NEW c \in CPU, Begin(c),
         UNCHANGED <<core, rdp, pc, life, blockers>>,
         \A d \in CPU : Reading(d) => Reading(d)',
         \A d \in CPU : Reading(d)' => Reading(d) \/ d = c
  PROVE  Covered'
<1>1. /\ \A b \in Callback : blockers[b] \subseteq CPU
      /\ unseen \subseteq unseen' /\ rsp' = rsp /\ rcp' = rcp
      /\ blockers' = blockers /\ rdp' = rdp /\ life' = life
  BY DEF TypeOK, Begin, core
<1>2. BlockersRead'
  BY <1>1 DEF Covered, BlockersRead
<1>3. StartSeesReaders'
  BY <1>1, RcuAssumption
  DEF Covered, StartSeesReaders, Begin, CameUpDuringStart, Numbers, LockHeld, TypeOK
<1>4. ASSUME NEW a \in CPU, NEW b \in Callback, On(rdp'[a].curlist, b)
      PROVE  Awaited(a, b)'
  <2>1. Awaited(a, b)
    BY <1>1, <1>4 DEF Covered, BatchCovered
  <2>2. \A d : Owes(d) => Owes(d)'
    BY <1>1 DEF Owes
  <2> QED
    BY <1>1, <2>1, <2>2 DEF Awaited
<1> QED
  BY <1>1, <1>2, <1>3, <1>4
  DEF Covered, BatchCovered, DoneCovered, GracePeriodCoversReaders

(* The end of a section removes it from the blockers and from unseen alike. *)
LEMMA CoveredEnd ==
  ASSUME TypeOK, Covered, NEW c \in CPU, End(c), UNCHANGED <<core, rdp, life>>,
         \A d \in CPU : d # c => (Reading(d)' <=> Reading(d)), ~Reading(c)'
  PROVE  Covered'
<1>1. /\ \A b \in Callback : blockers[b] \subseteq CPU
      /\ \A b \in Callback : blockers'[b] = blockers[b] \ {c}
      /\ unseen' = unseen \ {c} /\ rsp' = rsp /\ rcp' = rcp /\ rdp' = rdp /\ life' = life
  BY DEF TypeOK, End, core
<1>2. BlockersRead'
  BY <1>1 DEF Covered, BlockersRead
<1>3. StartSeesReaders'
  BY <1>1 DEF Covered, StartSeesReaders
<1>4. ASSUME NEW a \in CPU, NEW b \in Callback, On(rdp'[a].curlist, b)
      PROVE  Awaited(a, b)'
  <2>1. Awaited(a, b)
    BY <1>1, <1>4 DEF Covered, BatchCovered
  <2>2. \A d : Owes(d) => Owes(d)'
    BY <1>1 DEF Owes
  <2> QED
    BY <1>1, <2>1, <2>2 DEF Awaited
<1>5. DoneCovered'
  BY <1>1 DEF Covered, DoneCovered
<1> QED
  BY <1>1, <1>2, <1>3, <1>4, <1>5 DEF Covered, BatchCovered, GracePeriodCoversReaders

(* A callback is queued for the first time; its blockers are the readers. *)
LEMMA CoveredCall ==
  ASSUME TypeOK, Queued, Covered, NEW c \in CPU, NEW x \in Callback, call_rcu(c, x)
  PROVE  Covered'
<1>1. /\ \A d \in CPU : d # c => rdp'[d] = rdp[d]
      /\ rdp'[c].curlist = rdp[c].curlist /\ rdp'[c].donelist = rdp[c].donelist
      /\ rdp'[c].batch = rdp[c].batch /\ rdp'[c].quiescbatch = rdp[c].quiescbatch
      /\ rdp'[c].passed_quiesc = rdp[c].passed_quiesc
  BY CallEffect DEF Only, SameBatch, SameQuiet
<1>2. /\ \A b \in Callback : blockers[b] \subseteq CPU
      /\ \A b \in Callback : b # x => blockers'[b] = blockers[b] /\ life'[b] = life[b]
      /\ blockers'[x] = {d \in CPU : Reading(d)} /\ life'[x] = "queued"
      /\ life[x] = "fresh" /\ ctx' = ctx
      /\ unseen' = unseen /\ rsp' = rsp /\ rcp' = rcp
  BY DEF TypeOK, call_rcu, core, cpus
<1>3. BlockersRead'
  BY <1>2 DEF Covered, BlockersRead, Reading
<1>4. StartSeesReaders'
  BY <1>2 DEF Covered, StartSeesReaders, Reading
<1>5. \A d \in CPU : Owes(d) => Owes(d)'
  BY <1>1, <1>2 DEF Owes
<1>6. ASSUME NEW a \in CPU, NEW b \in Callback, On(rdp'[a].curlist, b)
      PROVE  Awaited(a, b)'
  <2>1. On(rdp[a].curlist, b) /\ rdp'[a].batch = rdp[a].batch
    BY <1>1, <1>6
  <2>2. Awaited(a, b) /\ b # x
    BY <1>2, <2>1 DEF Covered, BatchCovered, Queued
  <2> QED
    BY <1>2, <1>5, <2>1, <2>2 DEF Awaited
<1>7. ASSUME NEW a \in CPU, NEW b \in Callback, On(rdp'[a].donelist, b)
      PROVE  blockers'[b] \subseteq unseen'
  <2>1. On(rdp[a].donelist, b)
    BY <1>1, <1>7
  <2>2. blockers[b] \subseteq unseen /\ b # x
    BY <1>2, <2>1 DEF Covered, DoneCovered, Queued
  <2> QED
    BY <1>2, <2>2
<1>8. GracePeriodCoversReaders'
  BY <1>2 DEF Covered, GracePeriodCoversReaders
<1> QED
  BY <1>3, <1>4, <1>6, <1>7, <1>8 DEF Covered, BatchCovered, DoneCovered

(* stop_machine finds no section running, so that no callback is blocked. *)
LEMMA CoveredDown ==
  ASSUME TypeOK, Presence, Numbers, Covered, NEW c \in CPU, take_cpu_down(c)
  PROVE  Covered'
<1>1. /\ \A b \in Callback : blockers[b] \subseteq CPU
      /\ \A d \in CPU : ~Reading(d) /\ ~Reading(d)'
      /\ blockers' = blockers /\ life' = life
  BY DEF TypeOK, take_cpu_down, ghosts, Presence, Reading
<1>2. \A b \in Callback : blockers'[b] = {}
  BY <1>1 DEF Covered, BlockersRead
<1> QED
  BY <1>1, <1>2 DEF Covered, BlockersRead, StartSeesReaders, BatchCovered, Awaited,
                    DoneCovered, GracePeriodCoversReaders

(* rcu_start_batch() enters with the online map as its mask, in which every *)
(* reader is.                                                               *)
LEMMA CoveredOpens ==
  ASSUME TypeOK, Presence, Numbers, Covered, NEW c \in CPU, NEW ret, Opens(c, ret),
         rcp'.cur = rcp.cur, UNCHANGED <<rdp, ctx, ghosts>>,
         \A a \in CPU : \A b \in Callback :
           On(rdp[a].curlist, b) /\ rdp[a].batch <= rcp'.completed
             => blockers[b] \subseteq unseen
  PROVE  Covered'
<1>1. /\ rdp' = rdp /\ ctx' = ctx /\ life' = life /\ blockers' = blockers
      /\ unseen' = unseen /\ rsp'.cpumask = online /\ rcp'.cur = rcp'.completed
  BY DEF ghosts, Opens
<1>2. BlockersRead' /\ StartSeesReaders'
  BY <1>1 DEF Covered, BlockersRead, StartSeesReaders, Reading, Presence
<1>3. BatchCovered'
  BY <1>1 DEF BatchCovered, Awaited
<1> QED
  BY <1>1, <1>2, <1>3 DEF Covered, DoneCovered, GracePeriodCoversReaders

(* With the lock free and the readers as they were, Covered is a matter of  *)
(* the batches.                                                             *)
LEMMA CoveredUnlocked ==
  ASSUME Covered, rsp'.lock = NoCPU, UNCHANGED <<rdp, ctx, ghosts>>, BatchCovered'
  PROVE  Covered'
BY DEF ghosts, Covered, BlockersRead, StartSeesReaders, Reading, DoneCovered,
       GracePeriodCoversReaders

(* A CPU leaves the mask that no longer owes a quiescent state, and when it *)
(* was the last one the callbacks of the batch are due.                     *)
LEMMA CoveredTakesOff ==
  ASSUME TypeOK, Presence, Numbers, Covered, rsp.lock = NoCPU,
         NEW c \in CPU, NEW q \in CPU, NEW ret, TakesOff(c, q, ret),
         UNCHANGED <<rdp, ctx, ghosts>>, ~(Reading(q) /\ Owes(q))
  PROVE  Covered'
<1>1. /\ \A b \in Callback : blockers[b] \subseteq CPU
      /\ \A b \in Callback : \A d \in blockers[b] : Reading(d)
      /\ rcp.cur \in Int /\ rcp.completed \in Int /\ rcp.cur - rcp.completed \in {0, 1}
      /\ \A a \in CPU : rdp[a].batch \in Int
      /\ rdp' = rdp /\ blockers' = blockers /\ unseen' = unseen
  BY DEF TypeOK, Data, Covered, BlockersRead, ghosts, Numbers, BatchIsRegistered
<1>2. CASE /\ rcp' = rcp
           /\ rsp' = [lock |-> rsp.lock, cpumask |-> rsp.cpumask \ {q}]
  <2>1. \A d \in CPU : Reading(d) /\ Owes(d) => Owes(d)'
    BY <1>1, <1>2 DEF Owes
  <2>2. ASSUME NEW a \in CPU, NEW b \in Callback, On(rdp'[a].curlist, b)
        PROVE  Awaited(a, b)'
    <3>1. Awaited(a, b)
      BY <1>1, <2>2 DEF Covered, BatchCovered
    <3>2. \A d \in blockers[b] : Owes(d) => Owes(d)'
      BY <1>1, <2>1
    <3> QED
      BY <1>1, <1>2, <3>1, <3>2 DEF Awaited
  <2>3. BatchCovered' /\ rsp'.lock = NoCPU
    BY <1>2, <2>2 DEF BatchCovered
  <2> QED
    BY <2>3, CoveredUnlocked
<1>3. CASE /\ rsp.cpumask \ {q} = {} /\ rcp'.cur = rcp.cur /\ rcp'.completed = rcp.cur
           /\ Opens(c, ret) \/ Leaves(c, {}, ret)
  <2>1. ASSUME NEW a \in CPU, NEW b \in Callback, On(rdp[a].curlist, b),
               rdp[a].batch <= rcp'.completed
        PROVE  blockers[b] \subseteq unseen
    <3>1. Awaited(a, b)
      BY <2>1 DEF Covered, BatchCovered
    <3>2. CASE rdp[a].batch <= rcp.completed
      BY <3>1, <3>2 DEF Awaited
    <3>3. CASE ~(rdp[a].batch <= rcp.completed)
      <4>1. rdp[a].batch <= rcp.cur
        BY <1>3, <2>1
      <4>2. rdp[a].batch = rcp.cur /\ rcp.cur # rcp.completed
        BY <1>1, <3>3, <4>1
      <4>3. \A d \in blockers[b] : d \in unseen \/ Owes(d)
        BY <3>1, <4>2 DEF Awaited
      <4>4. \A d \in CPU : Owes(d) => d = q
        BY <1>3 DEF Owes
      <4> QED
        BY <1>1, <4>3, <4>4
    <3> QED
      BY <3>2, <3>3
  <2>2. CASE Opens(c, ret)
    BY <1>3, <2>1, <2>2, CoveredOpens
  <2>3. CASE Leaves(c, {}, ret)
    <3>1. BatchCovered' /\ rsp'.lock = NoCPU
      BY <1>1, <1>3, <2>1, <2>3 DEF BatchCovered, Awaited, Leaves
    <3> QED
      BY <3>1, CoveredUnlocked
  <2> QED
    BY <1>3, <2>2, <2>3
<1> QED
  BY <1>2, <1>3 DEF TakesOff

(* The grace period begins: its mask has the blockers of its callbacks, and *)
(* none of them has noticed it yet.                                         *)
LEMMA CoveredStartCur ==
  ASSUME TypeOK, Presence, Numbers, Covered, NEW c \in CPU, start_cur(c)
  PROVE  Covered'
<1>1. /\ rdp' = rdp /\ blockers' = blockers /\ unseen' = unseen
      /\ UNCHANGED <<rdp, ctx, ghosts>>
      /\ \A b \in Callback : blockers[b] \subseteq CPU
      /\ \A a \in CPU : rdp[a].quiescbatch \in Int
  BY DEF TypeOK, Data, start_cur, ghosts, cpus
<1>2. rcp.cur \in Int /\ rsp.lock # NoCPU
  BY RcuAssumption DEF TypeOK, start_cur, Numbers, LockHeld, Owned
<1>3. PICK k \in Int : k = rcp.cur + 1 /\ rcp'.cur = k
  BY <1>2, StartCurEffect
<1>4. /\ rcp'.completed = rcp.completed /\ rsp'.lock = NoCPU
      /\ rsp'.cpumask = rsp.cpumask
  BY StartCurEffect
<1>5. ASSUME NEW a \in CPU, NEW b \in Callback, On(rdp'[a].curlist, b)
      PROVE  Awaited(a, b)'
  <2>1. Awaited(a, b) /\ \A d \in blockers[b] : Reading(d)
    BY <1>1, <1>5 DEF Covered, BatchCovered, BlockersRead
  <2>2. \A d \in blockers[b] : d \in rsp.cpumask \/ d \in unseen
    BY <1>1, <1>2, <2>1 DEF Covered, StartSeesReaders
  <2>3. \A d \in CPU : rdp[d].quiescbatch # rcp'.cur
    BY <1>1, <1>2, <1>3 DEF Numbers, Ahead
  <2>4. \A d \in blockers[b] : d \in unseen \/ Owes(d)'
    BY <1>1, <1>4, <2>2, <2>3 DEF Owes
  <2> QED
    BY <1>1, <1>4, <2>1, <2>4 DEF Awaited
<1>6. BatchCovered'
  BY <1>5 DEF BatchCovered
<1> QED
  BY <1>1, <1>4, <1>6, CoveredUnlocked

(* Every step keeps Covered. *)
LEMMA CoveredNext ==
  TypeOK /\ Presence /\ Numbers /\ Queued /\ Covered /\ [Next]_vars => Covered'
<1> SUFFICES ASSUME TypeOK /\ Presence /\ Numbers /\ Queued /\ Covered, [Next]_vars PROVE Covered'
  OBVIOUS
<1> USE RcuAssumption DEF core, cpus, ghosts
<1>0. CASE UNCHANGED vars
  BY <1>0
  DEF vars, Covered, BlockersRead, StartSeesReaders, BatchCovered, Awaited, Owes,
              Reading, DoneCovered, GracePeriodCoversReaders
<1>1. ASSUME NEW c \in CPU, rcu_read_lock(c) PROVE Covered'
  <2>1. /\ Begin(c) /\ UNCHANGED <<core, rdp, pc, life, blockers>>
        /\ \A d \in CPU : Reading(d) => Reading(d)'
        /\ \A d \in CPU : Reading(d)' => Reading(d) \/ d = c
    BY <1>1 DEF rcu_read_lock, TypeOK, Reading
  <2> QED
    BY <2>1, CoveredBegin
<1>2. ASSUME NEW c \in CPU, rcu_read_unlock(c) PROVE Covered'
  <2>1. /\ End(c) /\ UNCHANGED <<core, rdp, life>> /\ ~Reading(c)'
        /\ \A d \in CPU : d # c => (Reading(d)' <=> Reading(d))
    BY <1>2 DEF rcu_read_unlock, TypeOK, Reading
  <2> QED
    BY <2>1, CoveredEnd
<1>3. ASSUME NEW c \in CPU, irq_enter(c) PROVE Covered'
  <2>1. /\ Begin(c) /\ UNCHANGED <<core, rdp, pc, life, blockers>>
        /\ \A d \in CPU : Reading(d) => Reading(d)'
        /\ \A d \in CPU : Reading(d)' => Reading(d) \/ d = c
    BY <1>3 DEF irq_enter, TypeOK, Reading
  <2> QED
    BY <2>1, CoveredBegin
<1>4. ASSUME NEW c \in CPU, irq_exit(c) PROVE Covered'
  <2>1. /\ End(c) /\ UNCHANGED <<core, rdp, life>> /\ ~Reading(c)'
        /\ \A d \in CPU : d # c => (Reading(d)' <=> Reading(d))
    BY <1>4 DEF irq_exit, TypeOK, Reading
  <2> QED
    BY <2>1, CoveredEnd
<1>5. ASSUME NEW c \in CPU, NEW b \in Callback, call_rcu(c, b) PROVE Covered'
  BY <1>5, CoveredCall
<1>6. ASSUME NEW c \in CPU, schedule(c) PROVE Covered'
  <2>1. /\ \A d \in CPU : /\ rdp'[d].curlist = rdp[d].curlist /\ rdp'[d].batch = rdp[d].batch
                          /\ rdp'[d].donelist = rdp[d].donelist
        /\ \A d \in CPU : Reading(d) /\ Owes(d) => Owes(d)'
    BY <1>6, ScheduleEffect
    DEF Only, SameBatch, SameQuiet, PassesQuiescentState, Owes, Reading, schedule
  <2>2. /\ life' = life
        /\ rcp' = rcp /\ rsp' = rsp /\ blockers' = blockers /\ unseen' = unseen
        /\ \A d \in CPU : Reading(d)' <=> Reading(d)
    BY <1>6 DEF schedule, TypeOK, Reading
  <2> QED
    BY <2>1, <2>2, CoveredKept
    DEF Covered, BatchCovered, DoneCovered, GracePeriodCoversReaders
<1>7. ASSUME NEW c \in CPU, to_quiet(c) PROVE Covered'
  <2>1. /\ rdp' = rdp /\ life' = life
        /\ rcp' = rcp /\ rsp' = rsp /\ blockers' = blockers /\ unseen' = unseen
        /\ \A d \in CPU : Reading(d)' <=> Reading(d)
    BY <1>7 DEF to_quiet, TypeOK, Reading
  <2> QED
    BY <2>1, CoveredKept
    DEF Covered, BatchCovered, DoneCovered, GracePeriodCoversReaders, Owes
<1>8. ASSUME NEW c \in CPU, to_kernel(c) PROVE Covered'
  <2>1. /\ rdp' = rdp /\ life' = life
        /\ rcp' = rcp /\ rsp' = rsp /\ blockers' = blockers /\ unseen' = unseen
        /\ \A d \in CPU : Reading(d)' <=> Reading(d)
    BY <1>8 DEF to_kernel, TypeOK, Reading
  <2> QED
    BY <2>1, CoveredKept
    DEF Covered, BatchCovered, DoneCovered, GracePeriodCoversReaders, Owes
<1>9. ASSUME NEW c \in CPU, tick(c) PROVE Covered'
  <2>1. /\ \A d \in CPU : /\ rdp'[d].curlist = rdp[d].curlist /\ rdp'[d].batch = rdp[d].batch
                          /\ rdp'[d].donelist = rdp[d].donelist
        /\ \A d \in CPU : Reading(d) /\ Owes(d) => Owes(d)'
    BY <1>9, TickEffect
    DEF Only, SameBatch, SameQuiet, PassesQuiescentState, Owes, Reading, tick
  <2>2. /\ life' = life
        /\ rcp' = rcp /\ rsp' = rsp /\ blockers' = blockers /\ unseen' = unseen
        /\ \A d \in CPU : Reading(d)' <=> Reading(d)
    BY <1>9 DEF tick, TypeOK, Reading
  <2> QED
    BY <2>1, <2>2, CoveredKept
    DEF Covered, BatchCovered, DoneCovered, GracePeriodCoversReaders
<1>10. ASSUME NEW c \in CPU, tasklet_run(c) PROVE Covered'
  <2>1. /\ life' = life
        /\ rcp' = rcp /\ rsp' = rsp /\ blockers' = blockers /\ unseen' = unseen
        /\ \A d \in CPU : Reading(d)' <=> Reading(d)
    BY <1>10 DEF tasklet_run, TypeOK, Reading
  <2>2. CASE rdp' = rdp
    BY <2>1, <2>2, CoveredKept
    DEF Owes, Covered, BatchCovered, DoneCovered, GracePeriodCoversReaders
  <2>3. CASE rdp' # rdp
    <3>1. /\ \A d \in CPU : d # c => rdp'[d] = rdp[d]
          /\ rdp[c].batch <= rcp.completed /\ rdp'[c].curlist = <<>>
          /\ rdp'[c].donelist = rdp[c].donelist \o rdp[c].curlist
          /\ rdp'[c].quiescbatch = rdp[c].quiescbatch
          /\ rdp'[c].passed_quiesc = rdp[c].passed_quiesc
      BY <1>10, <2>3, TaskletEffect DEF Only, SameQuiet
    <3>2. \A d \in CPU : Owes(d) => Owes(d)'
      BY <2>1, <3>1 DEF Owes
    <3>3. \A d \in CPU : \A b \in Callback :
            On(rdp'[d].curlist, b) => On(rdp[d].curlist, b) /\ rdp'[d].batch = rdp[d].batch
      BY <3>1 DEF On
    <3>4. ASSUME NEW d \in CPU, NEW b \in Callback, On(rdp'[d].donelist, b)
          PROVE  blockers[b] \subseteq unseen
      <4>1. CASE d # c
        BY <3>1, <3>4, <4>1 DEF Covered, DoneCovered
      <4>2. CASE d = c
        <5>1. rdp[c].donelist \in Seq(Callback) /\ rdp[c].curlist \in Seq(Callback)
          BY DEF TypeOK, Data
        <5>2. On(rdp[c].donelist, b) \/ On(rdp[c].curlist, b)
          BY <3>1, <3>4, <4>2, <5>1, OnConcat
        <5> QED
          BY <3>1, <5>2 DEF Covered, DoneCovered, BatchCovered, Awaited
      <4> QED
        BY <4>1, <4>2
    <3> QED
      BY <2>1, <3>2, <3>3, <3>4, CoveredKept DEF Covered, GracePeriodCoversReaders
  <2> QED
    BY <2>2, <2>3
<1>11. ASSUME NEW c \in CPU, process_next(c) PROVE Covered'
  <2>1. /\ life' = life
        /\ rcp' = rcp /\ rsp' = rsp /\ blockers' = blockers /\ unseen' = unseen
        /\ \A d \in CPU : Reading(d)' <=> Reading(d)
    BY <1>11 DEF process_next, TypeOK, Reading
  <2>2. CASE rdp' = rdp
    BY <2>1, <2>2, CoveredKept
    DEF Owes, Covered, BatchCovered, DoneCovered, GracePeriodCoversReaders
  <2>3. CASE rdp' # rdp
    <3>1. /\ \A d \in CPU : d # c => rdp'[d] = rdp[d]
          /\ rdp'[c].donelist = rdp[c].donelist /\ rdp'[c].batch = rcp.cur + 1
          /\ rdp'[c].quiescbatch = rdp[c].quiescbatch
          /\ rdp'[c].passed_quiesc = rdp[c].passed_quiesc
      BY <1>11, <2>3, NextEffect DEF Only, SameQuiet
    <3>2. \A d \in CPU : Owes(d) => Owes(d)'
      BY <2>1, <3>1 DEF Owes
    <3>3. \A b \in Callback : Awaited(c, b)'
      <4>1. /\ rcp.cur \in Int /\ rcp.completed \in Int
            /\ rcp.cur - rcp.completed \in {0, 1}
        BY DEF TypeOK, Numbers, BatchIsRegistered
      <4>2. ~(rdp'[c].batch <= rcp'.completed) /\ rdp'[c].batch # rcp'.cur
        BY <2>1, <3>1, <4>1
      <4> QED
        BY <4>2 DEF Awaited
    <3>4. \A d \in CPU : \A b \in Callback : On(rdp'[d].curlist, b) =>
            \/ On(rdp[d].curlist, b) /\ rdp'[d].batch = rdp[d].batch
            \/ Awaited(d, b)'
      BY <3>1, <3>3
    <3>5. \A d \in CPU : rdp'[d].donelist = rdp[d].donelist
      BY <3>1
    <3> QED
      BY <2>1, <3>2, <3>4, <3>5, CoveredKept
      DEF Covered, DoneCovered, GracePeriodCoversReaders
  <2> QED
    BY <2>2, <2>3
<1>12. ASSUME NEW c \in CPU, process_pending(c) PROVE Covered'
  <2>1. /\ rdp' = rdp /\ life' = life
        /\ rcp' = rcp /\ rsp' = rsp /\ blockers' = blockers /\ unseen' = unseen
        /\ \A d \in CPU : Reading(d)' <=> Reading(d)
    BY <1>12 DEF process_pending, TypeOK, Reading
  <2> QED
    BY <2>1, CoveredKept
    DEF Covered, BatchCovered, DoneCovered, GracePeriodCoversReaders, Owes
<1>13. ASSUME NEW c \in CPU, process_start(c) PROVE Covered'
  <2>1. /\ UNCHANGED <<rdp, ctx, ghosts>> /\ rdp' = rdp /\ blockers' = blockers
        /\ unseen' = unseen
    BY <1>13 DEF process_start
  <2>2. /\ rcp'.cur = rcp.cur /\ rcp'.completed = rcp.completed
        /\ Opens(c, "check_qs") \/ Leaves(c, rsp.cpumask, "check_qs")
    BY <1>13, ProcessStartEffect
  <2>3. CASE Opens(c, "check_qs")
    <3>1. \A a \in CPU : \A b \in Callback :
            On(rdp[a].curlist, b) /\ rdp[a].batch <= rcp'.completed
              => blockers[b] \subseteq unseen
      BY <2>2 DEF Covered, BatchCovered, Awaited
    <3> QED
      BY <2>1, <2>2, <2>3, <3>1, CoveredOpens
  <2>4. CASE Leaves(c, rsp.cpumask, "check_qs")
    <3>1. rsp'.lock = NoCPU /\ rsp'.cpumask = rsp.cpumask
      BY <2>4 DEF Leaves
    <3>2. BatchCovered'
      BY <2>1, <2>2, <3>1 DEF Covered, BatchCovered, Awaited, Owes
    <3> QED
      BY <2>1, <3>1, <3>2, CoveredUnlocked
  <2> QED
    BY <2>2, <2>3, <2>4
<1>14. ASSUME NEW c \in CPU, start_clear(c) PROVE Covered'
  <2>1. /\ rdp' = rdp /\ ctx' = ctx /\ blockers' = blockers /\ unseen' = unseen
        /\ life' = life
    BY <1>14 DEF start_clear
  <2>2. rsp' = rsp /\ rcp'.cur = rcp.cur /\ rcp'.completed = rcp.completed
    BY <1>14, StartClearEffect
  <2> QED
    BY <2>1, <2>2 DEF Covered, BlockersRead, StartSeesReaders, BatchCovered, Awaited,
                      Owes, Reading, DoneCovered, GracePeriodCoversReaders
<1>15. ASSUME NEW c \in CPU, start_cur(c) PROVE Covered'
  BY <1>15, CoveredStartCur
<1>16. ASSUME NEW c \in CPU, rcu_check_quiescent_state(c) PROVE Covered'
  <2>1. /\ \A d \in CPU : d # c => rdp'[d] = rdp[d]
        /\ rdp'[c].curlist = rdp[c].curlist /\ rdp'[c].batch = rdp[c].batch
        /\ rdp'[c].donelist = rdp[c].donelist
        /\ ~rdp'[c].passed_quiesc \/ SameQuiet(c)
    BY <1>16, CheckEffect DEF Only, SameBatch
  <2>2. /\ life' = life
        /\ rcp' = rcp /\ rsp' = rsp /\ blockers' = blockers /\ unseen' = unseen
        /\ \A d \in CPU : Reading(d)' <=> Reading(d)
    BY <1>16 DEF rcu_check_quiescent_state, Reading
  <2>3. \A d \in CPU : Owes(d) => Owes(d)'
    BY <2>1, <2>2 DEF Owes, SameQuiet
  <2>4. \A d \in CPU : /\ rdp'[d].curlist = rdp[d].curlist /\ rdp'[d].batch = rdp[d].batch
                       /\ rdp'[d].donelist = rdp[d].donelist
    BY <2>1
  <2> QED
    BY <2>2, <2>3, <2>4, CoveredKept
    DEF Covered, BatchCovered, DoneCovered, GracePeriodCoversReaders
<1>17. ASSUME NEW c \in CPU, report_quiet(c) PROVE Covered'
  <2>1. CASE TakesOff(c, c, "do_batch") /\ rdp[c].quiescbatch = rcp.cur
    <3>1. UNCHANGED <<rdp, ctx, ghosts>> /\ rsp.lock = NoCPU /\ pc[c] = "quiet"
      BY <1>17 DEF report_quiet
    <3>2. ~Owes(c)
      BY <2>1, <3>1 DEF Owes, Numbers, Ahead
    <3> QED
      BY <2>1, <3>1, <3>2, CoveredTakesOff
  <2>2. CASE UNCHANGED core
    <3>1. /\ rdp' = rdp /\ life' = life
          /\ rcp' = rcp /\ rsp' = rsp /\ blockers' = blockers /\ unseen' = unseen
          /\ \A d \in CPU : Reading(d)' <=> Reading(d)
      BY <1>17, <2>2 DEF report_quiet, Reading
    <3> QED
      BY <3>1, CoveredKept
      DEF Owes, Covered, BatchCovered, DoneCovered, GracePeriodCoversReaders
  <2> QED
    BY <1>17, <2>1, <2>2, ReportEffect
<1>18. ASSUME NEW c \in CPU, do_batch_invoke(c) PROVE Covered'
  <2>1. /\ \A d \in CPU : /\ rdp'[d].curlist = rdp[d].curlist
                          /\ rdp'[d].batch = rdp[d].batch
        /\ \A d \in CPU : d # c => rdp'[d] = rdp[d]
        /\ rdp'[c].donelist = Tail(rdp[c].donelist)
        /\ rdp[c].donelist \in Seq(Callback) /\ rdp[c].donelist # <<>>
    BY <1>18, InvokeEffect DEF Only, SameBatch
  <2>2. /\ \A d \in CPU : Reading(d)' <=> Reading(d)
        /\ rcp' = rcp /\ rsp' = rsp /\ blockers' = blockers /\ unseen' = unseen
    BY <1>18 DEF do_batch_invoke, Reading
  <2>3. \A d \in CPU : Owes(d) => Owes(d)'
    BY <1>18, <2>2, InvokeEffect DEF Only, SameQuiet, Owes
  <2>4. \A d \in CPU : \A b \in Callback :
          On(rdp'[d].donelist, b) => blockers[b] \subseteq unseen
    BY <2>1, OnTail DEF Covered, DoneCovered
  <2>5. /\ Head(rdp[c].donelist) \in Callback
        /\ blockers[Head(rdp[c].donelist)] \subseteq unseen
    BY <2>1, OnTail DEF Covered, DoneCovered
  <2>6. \A b \in Callback : b # Head(rdp[c].donelist) => life'[b] = life[b]
    BY <1>18 DEF do_batch_invoke, TypeOK
  <2>7. \A b \in Callback : life'[b] = "invoked" => blockers[b] \subseteq unseen
    BY <2>5, <2>6 DEF Covered, GracePeriodCoversReaders
  <2> QED
    BY <2>1, <2>2, <2>3, <2>4, <2>7, CoveredKept
<1>19. ASSUME NEW c \in CPU, do_batch_end(c) PROVE Covered'
  <2>1. /\ rdp' = rdp /\ life' = life
        /\ rcp' = rcp /\ rsp' = rsp /\ blockers' = blockers /\ unseen' = unseen
        /\ \A d \in CPU : Reading(d)' <=> Reading(d)
    BY <1>19 DEF do_batch_end, TypeOK, Reading
  <2> QED
    BY <2>1, CoveredKept
    DEF Covered, BatchCovered, DoneCovered, GracePeriodCoversReaders, Owes
<1>20. ASSUME NEW c \in CPU, cpu_up_prepare(c) PROVE Covered'
  <2>1. /\ \A d \in CPU : d # c => rdp'[d] = rdp[d]
        /\ rdp'[c].curlist = <<>> /\ rdp'[c].donelist = <<>>
    BY <1>20, PrepareEffect DEF Only
  <2>2. /\ life' = life /\ ~Reading(c)
        /\ rcp' = rcp /\ rsp' = rsp /\ blockers' = blockers /\ unseen' = unseen
        /\ \A d \in CPU : Reading(d)' <=> Reading(d)
    BY <1>20 DEF cpu_up_prepare, TypeOK, Reading, Presence
  <2>3. \A d \in CPU : Reading(d) /\ Owes(d) => Owes(d)'
    BY <2>1, <2>2 DEF Owes
  <2>4. \A d \in CPU : \A b \in Callback :
          /\ On(rdp'[d].curlist, b) => On(rdp[d].curlist, b) /\ rdp'[d].batch = rdp[d].batch
          /\ On(rdp'[d].donelist, b) => On(rdp[d].donelist, b)
    BY <2>1 DEF On
  <2> QED
    BY <2>2, <2>3, <2>4, CoveredKept
    DEF Covered, BatchCovered, DoneCovered, GracePeriodCoversReaders
<1>21. ASSUME NEW c \in CPU, take_cpu_down(c) PROVE Covered'
  BY <1>21, CoveredDown
<1>22. ASSUME cpu_up_online PROVE Covered'
  <2>1. /\ rdp' = rdp /\ life' = life
        /\ rcp' = rcp /\ rsp' = rsp /\ blockers' = blockers /\ unseen' = unseen
        /\ \A d \in CPU : Reading(d)' <=> Reading(d)
    BY <1>22 DEF cpu_up_online, TypeOK, Reading
  <2> QED
    BY <2>1, CoveredKept
    DEF Covered, BatchCovered, DoneCovered, GracePeriodCoversReaders, Owes
<1>23. ASSUME offline_quiet PROVE Covered'
  <2>1. CASE TakesOff(hp.on, hp.cpu, "out")
    <3>1. UNCHANGED <<rdp, ctx, ghosts>> /\ rsp.lock = NoCPU /\ hp.phase = "dead"
      BY <1>23 DEF offline_quiet, HotplugRuns
    <3>2. hp.on \in CPU /\ hp.cpu \in CPU /\ ~Reading(hp.cpu)
      BY <3>1 DEF TypeOK, Presence
    <3> QED
      BY <2>1, <3>1, <3>2, CoveredTakesOff
  <2>2. CASE UNCHANGED core
    <3>1. /\ rdp' = rdp /\ life' = life
          /\ rcp' = rcp /\ rsp' = rsp /\ blockers' = blockers /\ unseen' = unseen
          /\ \A d \in CPU : Reading(d)' <=> Reading(d)
      BY <1>23, <2>2 DEF offline_quiet, Reading
    <3> QED
      BY <3>1, CoveredKept
      DEF Owes, Covered, BatchCovered, DoneCovered, GracePeriodCoversReaders
  <2> QED
    BY <1>23, <2>1, <2>2, OfflineQuietEffect
<1>24. ASSUME offline_move_cur PROVE Covered'
  <2>1. \A d \in CPU : SameBatch(d) /\ SameQuiet(d) /\ rdp'[d].donelist = rdp[d].donelist
    BY <1>24, MoveSame
  <2>2. /\ life' = life
        /\ rcp' = rcp /\ rsp' = rsp /\ blockers' = blockers /\ unseen' = unseen
        /\ \A d \in CPU : Reading(d)' <=> Reading(d)
    BY <1>24 DEF offline_move_cur, TypeOK, Reading
  <2>3. \A d \in CPU : Reading(d) /\ Owes(d) => Owes(d)'
    BY <2>1, <2>2 DEF Owes, SameQuiet
  <2> QED
    BY <2>1, <2>2, <2>3, CoveredKept
    DEF SameBatch, Covered, BatchCovered, DoneCovered, GracePeriodCoversReaders
<1>25. ASSUME offline_move_nxt PROVE Covered'
  <2>1. \A d \in CPU : SameBatch(d) /\ SameQuiet(d) /\ rdp'[d].donelist = rdp[d].donelist
    BY <1>25, MoveSame
  <2>2. /\ life' = life
        /\ rcp' = rcp /\ rsp' = rsp /\ blockers' = blockers /\ unseen' = unseen
        /\ \A d \in CPU : Reading(d)' <=> Reading(d)
    BY <1>25 DEF offline_move_nxt, TypeOK, Reading
  <2>3. \A d \in CPU : Reading(d) /\ Owes(d) => Owes(d)'
    BY <2>1, <2>2 DEF Owes, SameQuiet
  <2> QED
    BY <2>1, <2>2, <2>3, CoveredKept
    DEF SameBatch, Covered, BatchCovered, DoneCovered, GracePeriodCoversReaders
<1> QED
  BY <1>0, <1>1, <1>2, <1>3, <1>4, <1>5, <1>6, <1>7, <1>8, <1>9, <1>10, <1>11,
     <1>12, <1>13, <1>14, <1>15, <1>16, <1>17, <1>18, <1>19, <1>20, <1>21, <1>22,
     <1>23, <1>24, <1>25
  DEF Next, Reader, Tasklet, Offline

-----------------------------------------------------------------------------
(* The theorems. *)

(* The inductive invariant holds in every reachable state. *)
THEOREM Invariance == Spec => []IInv
<1>1. Init => IInv
  BY TypeInit, PresenceInit, NumbersInit, QueuedInit, CoveredInit DEF IInv
<1>2. IInv /\ [Next]_vars => IInv'
  BY TypeNext, PresenceNext, NumbersNext, QueuedNext, CoveredNext DEF IInv
<1> QED
  BY <1>1, <1>2, PTL DEF Spec

(* Every variable of rcupdate.c keeps its type, whatever the number of CPUs *)
(* and callbacks.                                                           *)
THEOREM TypeCorrect == Spec => []TypeOK
<1>1. IInv => TypeOK
  BY DEF IInv
<1> QED
  BY <1>1, Invariance, PTL

(* rcu_do_batch() invokes a callback only after every read-side section     *)
(* that was running at its call_rcu() has ended, but for those on CPUs that *)
(* came up between the two halves of rcu_start_batch().                     *)
THEOREM GracePeriod == Spec => []GracePeriodCoversReaders
<1>1. IInv => GracePeriodCoversReaders
  BY DEF IInv, Covered
<1> QED
  BY <1>1, Invariance, PTL

(* No batch that rcu_process_callbacks() numbers is left without a grace    *)
(* period, and no grace period without a CPU it waits for.                  *)
THEOREM BatchRegistration == Spec => []BatchIsRegistered
<1>1. IInv => BatchIsRegistered
  BY DEF IInv, Numbers
<1> QED
  BY <1>1, Invariance, PTL
=============================================================================
