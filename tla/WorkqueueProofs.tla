--------------------------- MODULE WorkqueueProofs ---------------------------
(***************************************************************************)
(* Proofs about Workqueue.tla, for any number of CPUs, works and flushers, *)
(* with works nested and CPUs unplugged any number of times.               *)
(*                                                                         *)
(* The inductive invariant has four layers, each proved from the ones      *)
(* before it:                                                              *)
(*                                                                         *)
(*   Types     types, and a stack exactly while the worker is inside of    *)
(*             run_workqueue();                                            *)
(*   Plugged   who has cpucontrol, and that nothing is queued or left on a *)
(*             CPU that is down;                                           *)
(*   Placed    where a work_struct is, by its pending bit;                 *)
(*   Counted   the two sequence numbers of a CPU against its list and its  *)
(*             stack, and what a flusher that has waited knows of them.    *)
(***************************************************************************)
EXTENDS Workqueue, WellFoundedInduction, SequenceTheorems, TLAPS

FlushState == [pc : {"idle", "want", "visit", "wait", "done"},
               todo : SUBSET CPU, cpu : CPU, needed : Nat]

(* What the steps keep by themselves; TypeOK follows with Counted. *)
Types ==
  /\ single \in BOOLEAN
  /\ pending \in [Work -> BOOLEAN] /\ timer \in [Work -> BOOLEAN]
  /\ adding \in [Work -> CPU \cup {NoCPU}]
  /\ wq_data \in [Work -> CPU \cup {NoCPU}]
  /\ worklist \in [CPU -> Seq(Entry)] /\ stack \in [CPU -> Seq(Entry)]
  /\ insert_sequence \in [CPU -> Nat] /\ remove_sequence \in [CPU -> Nat]
  /\ thread \in [CPU -> BOOLEAN]
  /\ wpc \in [CPU -> {"loop", "check", "sleep", "awake", "taken", "run", "exited"}]
  /\ wstate \in [CPU -> {"running", "interruptible"}]
  /\ waiting \in [CPU -> BOOLEAN]
  /\ fl \in [Flusher -> FlushState]
  /\ cpucontrol \in Flusher \cup {Hotplug, Nobody}
  /\ online \in SUBSET CPU
  /\ hp \in [phase : {"none", "dead", "stopping"}, cpu : CPU, n : 0..MaxHotplug]
  /\ submits \in 0..MaxSubmit

(* A worker has a stack exactly while it is inside of run_workqueue(). *)
StackInside ==
  \A c \in CPU :
    /\ Len(stack[c]) <= MaxDepth
    /\ wpc[c] \in {"taken", "run"} <=> stack[c] # <<>>

Base == Types /\ StackInside

(* CPUs that are up or that a cpu_down() has not cleaned up after. *)
Live(c) == c \in online \/ (hp.phase # "none" /\ hp.cpu = c)

(* cpucontrol keeps flushers and cpu_down() apart. *)
Control ==
  /\ single => online = CPU
  /\ hp.phase # "none" <=> cpucontrol = Hotplug
  /\ hp.phase # "none" => hp.cpu \notin online
  /\ \A p \in Flusher : fl[p].pc \in {"visit", "wait"} =>
       /\ single \/ cpucontrol = p
       /\ fl[p].todo \subseteq online
       /\ fl[p].pc = "wait" => fl[p].cpu \in online

(* Nothing goes to a CPU that is down, and nothing stays there. *)
Settled ==
  /\ \A w \in Work : adding[w] # NoCPU => adding[w] \in online
  /\ \A c \in CPU : ~Live(c) => worklist[c] = <<>> /\ stack[c] = <<>>

Plugged == Control /\ Settled

Taken(c, w) == wpc[c] = "taken" /\ Top(c).work = w
At(c, i, w) == i \in DOMAIN worklist[c] /\ worklist[c][i].work = w

(* A work is in one place at most, and its pending bit is set while it is:  *)
(* about to be linked, on a timer, on a list, or just taken off it.         *)
InOnePlace(w) ==
  /\ adding[w] # NoCPU => pending[w] /\ ~timer[w]
  /\ timer[w] => pending[w]
  /\ \A c \in CPU, i \in Nat : At(c, i, w) =>
       /\ pending[w] /\ ~timer[w] /\ adding[w] = NoCPU /\ wq_data[w] = c
       /\ \A d \in CPU, j \in Nat : At(d, j, w) => d = c /\ j = i
  /\ \A c \in CPU : Taken(c, w) =>
       /\ pending[w] /\ ~timer[w] /\ adding[w] = NoCPU /\ wq_data[w] = c
       /\ \A d \in CPU : Taken(d, w) => d = c
       /\ \A d \in CPU, j \in Nat : ~At(d, j, w)

Placed == \A w \in Work : InOnePlace(w)

(* The number of the last work taken off the list of CPU c. *)
LastTaken(c) == insert_sequence[c] - Len(worklist[c])

(* Between the two numbers are the works on the list and on the stack; the  *)
(* list is numbered up to insert_sequence.                                  *)
Numbered(c) ==
  /\ Live(c) => LastTaken(c) = remove_sequence[c] + Len(stack[c])
  /\ \A i \in DOMAIN worklist[c] : worklist[c][i].seq = LastTaken(c) + i

(* Only the innermost work may not have flushed, and it was taken last. *)
Nested(c) ==
  \A i \in DOMAIN stack[c] : ~stack[c][i].flushed =>
    i = Len(stack[c]) /\ stack[c][i].seq = LastTaken(c)

CountedOn(c) == remove_sequence[c] <= insert_sequence[c] /\ Numbered(c) /\ Nested(c)

(* A work that is flushing is on the stack, and is marked. *)
Frames ==
  \A c \in CPU, d \in 1..MaxDepth : fl[<<"work", c, d>>].pc # "idle" =>
    d <= Len(stack[c]) /\ stack[c][d].flushed

(* A flusher that has waited has seen the number it needed. *)
Waited ==
  \A p \in Flusher : fl[p].pc = "visit" => fl[p].needed <= remove_sequence[fl[p].cpu]

Counted == (\A c \in CPU : CountedOn(c)) /\ Frames /\ Waited

IInv == Base /\ Plugged /\ Placed /\ Counted

-----------------------------------------------------------------------------
(* Lists of entries, and the CPUs a flusher has left to visit. *)

(* The number of a CPU is a natural number, and NoCPU is none. *)
LEMMA CPUFacts == CPU \in SUBSET Nat /\ NoCPU \notin CPU /\ 0 \in CPU /\ NR_CPUS \in Nat
BY WorkqueueAssumption DEF CPU, NoCPU

(* What list_add_tail() makes of a list. *)
LEMMA OnAppend ==
  ASSUME NEW s \in Seq(Entry), NEW e \in Entry
  PROVE  /\ Append(s, e) \in Seq(Entry) /\ Len(Append(s, e)) = Len(s) + 1
         /\ Len(s) \in Nat /\ Append(s, e)[Len(s) + 1] = e
         /\ \A i \in 1..Len(s) : Append(s, e)[i] = s[i]
OBVIOUS

(* What taking the first entry leaves. *)
LEMMA OnTail ==
  ASSUME NEW s \in Seq(Entry), s # <<>>
  PROVE  /\ Tail(s) \in Seq(Entry) /\ Len(Tail(s)) = Len(s) - 1
         /\ Len(s) \in Nat /\ Len(s) >= 1 /\ Head(s) = s[1] /\ s[1] \in Entry
         /\ \A i \in 1..(Len(s) - 1) : Tail(s)[i] = s[i + 1]
OBVIOUS

(* What leaving the innermost work leaves. *)
LEMMA OnFront ==
  ASSUME NEW s \in Seq(Entry), s # <<>>
  PROVE  LET f == SubSeq(s, 1, Len(s) - 1) IN
         /\ f \in Seq(Entry) /\ Len(f) = Len(s) - 1
         /\ Len(s) \in Nat /\ Len(s) >= 1
         /\ \A i \in 1..(Len(s) - 1) : f[i] = s[i]
<1>1. Len(s) \in Nat /\ Len(s) >= 1
  OBVIOUS
<1>2. \A i \in 1..(Len(s) - 1) : s[i] \in Entry
  BY <1>1
<1>3. /\ SubSeq(s, 1, Len(s) - 1) \in Seq(Entry)
      /\ Len(SubSeq(s, 1, Len(s) - 1)) = Len(s) - 1
      /\ \A i \in 1..(Len(s) - 1) : SubSeq(s, 1, Len(s) - 1)[i] = s[i]
  <2>1. PICK n \in Nat : n = Len(s) - 1
    BY <1>1
  <2>2. \A i \in 1..n : s[i] \in Entry
    BY <1>2, <2>1
  <2>3. /\ SubSeq(s, 1, n) \in Seq(Entry)
        /\ Len(SubSeq(s, 1, n)) = IF 1 <= n THEN n - 1 + 1 ELSE 0
        /\ \A i \in 1..(n - 1 + 1) : SubSeq(s, 1, n)[i] = s[1 + i - 1]
    <3>1. 1 \in Int /\ n \in Int
      OBVIOUS
    <3> QED
      BY <2>2, <3>1, SubSeqProperties
  <2>4. Len(SubSeq(s, 1, n)) = n /\ \A i \in 1..n : SubSeq(s, 1, n)[i] = s[i]
    BY <2>3
  <2> QED
    BY <2>1, <2>3, <2>4
<1> QED
  BY <1>1, <1>3

(* The same with the last entry flagged. *)
LEMMA OnFlag ==
  ASSUME NEW r \in [CPU -> Seq(Entry)], NEW c \in CPU, r[c] # <<>>
  PROVE  \E q : /\ q = [r EXCEPT ![c][Len(r[c])].flushed = TRUE]
                /\ q \in [CPU -> Seq(Entry)]
                /\ \A d \in CPU \ {c} : q[d] = r[d]
                /\ Len(q[c]) = Len(r[c])
                /\ \A i \in 1..(Len(r[c]) - 1) : q[c][i] = r[c][i]
                /\ q[c][Len(r[c])].work = r[c][Len(r[c])].work
                /\ q[c][Len(r[c])].seq = r[c][Len(r[c])].seq
                /\ q[c][Len(r[c])].flushed = TRUE
<1> DEFINE n == Len(r[c])
<1>1. n \in Nat /\ n >= 1 /\ r[c] \in Seq(Entry) /\ DOMAIN r[c] = 1..n
  OBVIOUS
<1>2. r[c][n] \in Entry
  BY <1>1
<1>3. PICK e : e = [r[c][n] EXCEPT !.flushed = TRUE]
  OBVIOUS
<1>4. /\ e \in Entry /\ e.work = r[c][n].work /\ e.seq = r[c][n].seq
      /\ e.flushed = TRUE
  BY <1>2, <1>3 DEF Entry
<1>5. PICK t : t = [r[c] EXCEPT ![n] = e]
  OBVIOUS
<1>6. /\ t \in Seq(Entry) /\ Len(t) = n /\ t[n] = e
      /\ \A i \in 1..(n - 1) : t[i] = r[c][i]
  <2>1. n \in 1..Len(r[c]) /\ e \in Entry
    BY <1>1, <1>4
  <2>2. t \in Seq(Entry) /\ Len(t) = n
    BY <1>1, <1>5, <2>1, ExceptSeq
  <2>3. t[n] = e /\ \A i \in 1..(n - 1) : t[i] = r[c][i]
    <3> HIDE DEF n
    <3>1. n \in DOMAIN r[c] /\ \A i \in 1..(n - 1) : i \in DOMAIN r[c] /\ i # n
      BY <1>1
    <3> QED
      BY <1>5, <3>1
  <2> QED
    BY <2>2, <2>3
<1>7. [r EXCEPT ![c][Len(r[c])].flushed = TRUE] = [r EXCEPT ![c] = t]
  BY <1>3, <1>5 DEF n
<1>8. PICK q : q = [r EXCEPT ![c] = t]
  OBVIOUS
<1> QED
  BY <1>1, <1>4, <1>6, <1>7, <1>8

(* What taking over a list makes of another. *)
LEMMA OnConcat ==
  ASSUME NEW s \in Seq(Entry), NEW t \in Seq(Entry)
  PROVE  /\ s \o t \in Seq(Entry) /\ Len(s \o t) = Len(s) + Len(t)
         /\ Len(s) \in Nat /\ Len(t) \in Nat
         /\ \A i \in 1..Len(s) : (s \o t)[i] = s[i]
         /\ \A i \in 1..Len(t) : (s \o t)[Len(s) + i] = t[i]
OBVIOUS

(* flush_workqueue() visits the CPUs in order: there is a next one. *)
LEMMA NextCPUType ==
  ASSUME NEW s \in SUBSET CPU, s # {}
  PROVE  NextCPU(s) \in s
<1>1. s \in SUBSET Nat
  BY CPUFacts
<1>2. \E c \in s : \A d \in s : ~(<<d, c>> \in OpToRel(<, Nat))
  BY <1>1, NatLessThanWellFounded, WFMin
<1>3. PICK c \in s : \A d \in s : ~(<<d, c>> \in OpToRel(<, Nat))
  BY <1>2
<1>4. \A d \in s : ~(d < c)
  BY <1>1, <1>3 DEF OpToRel
<1>5. \A d \in s : c <= d
  BY <1>1, <1>4
<1> QED
  BY <1>5 DEF NextCPU

-----------------------------------------------------------------------------
(* What the steps that move works between lists and stacks do to them. *)

(* The step changes neither list nor stack. *)
ListsKept == worklist' = worklist /\ stack' = stack

(* The step changes the list of CPU c only. *)
OnlyList(c) ==
  /\ worklist' \in [CPU -> Seq(Entry)]
  /\ \A d \in CPU \ {c} : worklist'[d] = worklist[d]

(* The step changes the stack of CPU c only. *)
OnlyStack(c) ==
  /\ stack' \in [CPU -> Seq(Entry)]
  /\ \A d \in CPU \ {c} : stack'[d] = stack[d]

(* The step takes the first work of CPU c, into the frame after the k       *)
(* outermost ones.                                                          *)
Takes(c, k) ==
  /\ OnlyList(c) /\ OnlyStack(c)
  /\ Len(worklist[c]) \in Nat /\ Len(worklist[c]) >= 1
  /\ Len(worklist'[c]) = Len(worklist[c]) - 1
  /\ \A i \in 1..(Len(worklist[c]) - 1) : worklist'[c][i] = worklist[c][i + 1]
  /\ k \in Nat /\ k < MaxDepth /\ Len(stack'[c]) = k + 1
  /\ \A i \in 1..k : stack'[c][i] = stack[c][i]
  /\ stack'[c][k + 1] = worklist[c][1] /\ worklist[c][1] \in Entry
  /\ wpc' = [wpc EXCEPT ![c] = "taken"]

(* run_workqueue() takes the first work: from worker_thread() and from the  *)
(* flush of the worker's own queue, it adds a frame.                        *)
LEMMA DequeueNested ==
  ASSUME Types, NEW c \in CPU, worklist[c] # <<>>, Dequeue(c, stack[c])
  PROVE  Takes(c, Len(stack[c]))
<1>1. worklist[c] \in Seq(Entry) /\ stack[c] \in Seq(Entry)
  BY DEF Types
<1>2. PICK e \in Entry : e = Head(worklist[c]) /\ e = worklist[c][1]
  BY <1>1, OnTail
<1>3. PICK s \in Seq(Entry) : s = Append(stack[c], e)
  BY <1>1, OnAppend
<1>4. PICK t \in Seq(Entry) : t = Tail(worklist[c])
  BY <1>1, OnTail
<1>5. /\ worklist' = [worklist EXCEPT ![c] = t]
      /\ stack' = [stack EXCEPT ![c] = s]
  BY <1>2, <1>3, <1>4 DEF Dequeue
<1>6. /\ worklist'[c] = t /\ stack'[c] = s /\ OnlyList(c) /\ OnlyStack(c)
  BY <1>5 DEF OnlyList, OnlyStack, Types
<1>7. /\ Len(worklist[c]) \in Nat /\ Len(worklist[c]) >= 1
      /\ Len(t) = Len(worklist[c]) - 1
      /\ \A i \in 1..(Len(worklist[c]) - 1) : t[i] = worklist[c][i + 1]
  BY <1>1, <1>4, OnTail
<1>8. /\ Len(stack[c]) \in Nat /\ Len(s) = Len(stack[c]) + 1
      /\ s[Len(stack[c]) + 1] = e
      /\ \A i \in 1..Len(stack[c]) : s[i] = stack[c][i]
  BY <1>1, <1>3, OnAppend
<1> QED
  BY <1>2, <1>6, <1>7, <1>8 DEF Takes, Dequeue, WGoto

(* ... and after a work has returned, it replaces the innermost one. *)
LEMMA DequeueNext ==
  ASSUME Types, NEW c \in CPU, worklist[c] # <<>>, stack[c] # <<>>,
         Dequeue(c, SubSeq(stack[c], 1, Depth(c) - 1))
  PROVE  Takes(c, Len(stack[c]) - 1)
<1>1. worklist[c] \in Seq(Entry) /\ stack[c] \in Seq(Entry)
  BY DEF Types
<1>2. PICK e \in Entry : e = Head(worklist[c]) /\ e = worklist[c][1]
  BY <1>1, OnTail
<1>0. PICK f \in Seq(Entry) : /\ f = SubSeq(stack[c], 1, Depth(c) - 1)
                             /\ Len(f) = Len(stack[c]) - 1
                             /\ \A i \in 1..(Len(stack[c]) - 1) : f[i] = stack[c][i]
  BY <1>1, OnFront DEF Depth
<1>3. PICK s \in Seq(Entry) : s = Append(f, e)
  BY <1>1, OnAppend
<1>4. PICK t \in Seq(Entry) : t = Tail(worklist[c])
  BY <1>1, OnTail
<1>5. /\ worklist' = [worklist EXCEPT ![c] = t]
      /\ stack' = [stack EXCEPT ![c] = s]
      /\ Len(f) < MaxDepth
  BY <1>0, <1>2, <1>3, <1>4 DEF Dequeue
<1>6. /\ worklist'[c] = t /\ stack'[c] = s /\ OnlyList(c) /\ OnlyStack(c)
  BY <1>5 DEF OnlyList, OnlyStack, Types
<1>7. /\ Len(worklist[c]) \in Nat /\ Len(worklist[c]) >= 1
      /\ Len(t) = Len(worklist[c]) - 1
      /\ \A i \in 1..(Len(worklist[c]) - 1) : t[i] = worklist[c][i + 1]
  BY <1>1, <1>4, OnTail
<1>8. /\ Len(f) \in Nat /\ Len(s) = Len(f) + 1
      /\ s[Len(f) + 1] = e
      /\ \A i \in 1..Len(f) : s[i] = f[i]
  BY <1>3, OnAppend
<1>9. /\ Len(stack[c]) - 1 \in Nat /\ Len(s) = Len(stack[c]) - 1 + 1
      /\ s[Len(stack[c]) - 1 + 1] = e /\ Len(stack[c]) - 1 < MaxDepth
      /\ \A i \in 1..(Len(stack[c]) - 1) : s[i] = stack[c][i]
  BY <1>0, <1>5, <1>8
<1> QED
  BY <1>2, <1>6, <1>7, <1>9 DEF Takes, Dequeue, WGoto

(* The step leaves the innermost work of CPU c. *)
Leaves(c) ==
  /\ worklist' = worklist /\ OnlyStack(c) /\ worklist[c] = <<>>
  /\ Len(stack[c]) \in Nat /\ Len(stack[c]) >= 1 /\ Len(stack'[c]) = Len(stack[c]) - 1
  /\ \A i \in 1..(Len(stack[c]) - 1) : stack'[c][i] = stack[c][i]
  /\ \/ stack'[c] = <<>> /\ wpc' = [wpc EXCEPT ![c] = "loop"]
     \/ stack'[c] # <<>> /\ wpc' = wpc

(* A work has returned: run_workqueue() takes the next, or returns. *)
LEMMA DoneEffect ==
  ASSUME Base, NEW c \in CPU, work_done(c)
  PROVE  Takes(c, Len(stack[c]) - 1) \/ Leaves(c)
<1>0. Types /\ stack[c] # <<>> /\ stack[c] \in Seq(Entry)
  BY DEF Base, StackInside, work_done, Types
<1>1. CASE worklist[c] # <<>>
  BY <1>0, <1>1, DequeueNext DEF work_done
<1>2. CASE worklist[c] = <<>>
  <2>1. PICK f \in Seq(Entry) : /\ f = SubSeq(stack[c], 1, Depth(c) - 1)
                               /\ Len(f) = Len(stack[c]) - 1
                               /\ \A i \in 1..(Len(stack[c]) - 1) : f[i] = stack[c][i]
    BY <1>0, OnFront DEF Depth
  <2>2. /\ worklist' = worklist
        /\ stack' = [stack EXCEPT ![c] = f]
        /\ IF f = <<>> THEN WGoto(c, "loop") ELSE wpc' = wpc
    BY <1>2, <2>1 DEF work_done
  <2>3. stack'[c] = f /\ OnlyStack(c)
    BY <1>0, <2>2 DEF OnlyStack, Types
  <2>4. Len(stack[c]) \in Nat /\ Len(stack[c]) >= 1
    BY <1>0, OnFront
  <2> QED
    BY <1>2, <2>1, <2>2, <2>3, <2>4 DEF Leaves, WGoto
<1> QED
  BY <1>1, <1>2

(* The step sets the flag of the innermost work of CPU c. *)
Marks(c) ==
  /\ worklist' = worklist /\ wpc' = wpc /\ OnlyStack(c)
  /\ Len(stack[c]) \in Nat /\ Len(stack[c]) >= 1 /\ Len(stack'[c]) = Len(stack[c])
  /\ \A i \in 1..(Len(stack[c]) - 1) : stack'[c][i] = stack[c][i]
  /\ stack'[c][Len(stack[c])].work = stack[c][Len(stack[c])].work
  /\ stack'[c][Len(stack[c])].seq = stack[c][Len(stack[c])].seq
  /\ stack'[c][Len(stack[c])].flushed = TRUE

(* A work flushes the queue it is running from. *)
LEMMA OwnEffect ==
  ASSUME Base, NEW c \in CPU, flush_own_queue(c)
  PROVE  Marks(c)
<1>1. Types /\ stack[c] # <<>> /\ stack \in [CPU -> Seq(Entry)]
  BY DEF Base, StackInside, flush_own_queue, Types
<1>2. PICK q : /\ q = [stack EXCEPT ![c][Len(stack[c])].flushed = TRUE]
               /\ q \in [CPU -> Seq(Entry)]
               /\ \A d \in CPU \ {c} : q[d] = stack[d]
               /\ Len(q[c]) = Len(stack[c])
               /\ \A i \in 1..(Len(stack[c]) - 1) : q[c][i] = stack[c][i]
               /\ q[c][Len(stack[c])].work = stack[c][Len(stack[c])].work
               /\ q[c][Len(stack[c])].seq = stack[c][Len(stack[c])].seq
               /\ q[c][Len(stack[c])].flushed = TRUE
  BY <1>1, OnFlag
<1>3. stack' = q
  BY <1>2 DEF flush_own_queue, Depth
<1>4. Len(stack[c]) \in Nat /\ Len(stack[c]) >= 1
  BY <1>1, OnFront
<1> QED
  BY <1>2, <1>3, <1>4 DEF Marks, OnlyStack, flush_own_queue, worker

(* The step links work w at the end of the list of CPU c. *)
Links(w, c) ==
  /\ stack' = stack /\ wpc' = wpc /\ OnlyList(c)
  /\ Len(worklist[c]) \in Nat /\ Len(worklist'[c]) = Len(worklist[c]) + 1
  /\ \A i \in 1..Len(worklist[c]) : worklist'[c][i] = worklist[c][i]
  /\ worklist'[c][Len(worklist[c]) + 1].work = w
  /\ worklist'[c][Len(worklist[c]) + 1].seq = insert_sequence[c] + 1
  /\ insert_sequence' = [insert_sequence EXCEPT ![c] = insert_sequence[c] + 1]

(* __queue_work() *)
LEMMA LinkEffect ==
  ASSUME Types, NEW w \in Work, link_work(w)
  PROVE  adding[w] \in CPU /\ Links(w, adding[w])
<1>1. PICK c \in CPU : c = adding[w]
  BY DEF Types, link_work
<1>2. worklist[c] \in Seq(Entry) /\ insert_sequence[c] \in Nat
  BY DEF Types
<1>3. PICK k \in Nat : k = insert_sequence[c] + 1
  BY <1>2
<1>4. insert_sequence' = [insert_sequence EXCEPT ![c] = k]
  BY <1>1, <1>3 DEF link_work
<1>5. insert_sequence'[c] = k
  BY <1>4 DEF Types
<1>6. PICK e \in Entry : e = [work |-> w, seq |-> k, flushed |-> FALSE]
  BY DEF Entry
<1>7. PICK t \in Seq(Entry) : t = Append(worklist[c], e)
  BY <1>2, OnAppend
<1>8. worklist' = [worklist EXCEPT ![c] = t]
  BY <1>1, <1>5, <1>6, <1>7 DEF link_work
<1>9. worklist'[c] = t /\ OnlyList(c)
  BY <1>8 DEF OnlyList, Types
<1>10. /\ Len(worklist[c]) \in Nat /\ Len(t) = Len(worklist[c]) + 1
       /\ t[Len(worklist[c]) + 1] = e
       /\ \A i \in 1..Len(worklist[c]) : t[i] = worklist[c][i]
  BY <1>2, <1>7, OnAppend
<1>11. e.work = w /\ e.seq = k
  BY <1>6
<1>12. stack' = stack /\ wpc' = wpc
  BY DEF link_work
<1> QED
  BY <1>1, <1>3, <1>4, <1>9, <1>10, <1>11, <1>12 DEF Links

(* The step moves the list of CPU c, numbered anew, behind that of CPU d. *)
MovesTo(c, d) ==
  /\ c # d /\ stack' = stack /\ wpc' = wpc
  /\ worklist' \in [CPU -> Seq(Entry)]
  /\ \A b \in CPU \ {c, d} : worklist'[b] = worklist[b]
  /\ worklist'[c] = <<>>
  /\ Len(worklist[c]) \in Nat /\ Len(worklist[d]) \in Nat
  /\ Len(worklist'[d]) = Len(worklist[d]) + Len(worklist[c])
  /\ \A i \in 1..Len(worklist[d]) : worklist'[d][i] = worklist[d][i]
  /\ \A i \in 1..Len(worklist[c]) :
       /\ worklist'[d][Len(worklist[d]) + i].work = worklist[c][i].work
       /\ worklist'[d][Len(worklist[d]) + i].seq = insert_sequence[d] + i
  /\ insert_sequence' =
       [insert_sequence EXCEPT ![d] = insert_sequence[d] + Len(worklist[c])]

(* take_over_work() *)
LEMMA TakeOverEffect ==
  ASSUME Types, NEW d \in CPU, d # hp.cpu, take_over_work(d)
  PROVE  hp.cpu \in CPU /\ MovesTo(hp.cpu, d)
<1>1. PICK c \in CPU : c = hp.cpu
  BY DEF Types
<1>2. /\ worklist[c] \in Seq(Entry) /\ worklist[d] \in Seq(Entry)
      /\ insert_sequence[d] \in Nat
  BY DEF Types
<1>3. PICK n \in Nat : n = Len(worklist[c])
  BY <1>2
<1>4. PICK new : new = [i \in 1..n |->
                          [worklist[c][i] EXCEPT !.seq = insert_sequence[d] + i]]
  OBVIOUS
<1>5. /\ DOMAIN new = 1..n
      /\ \A i \in 1..n : /\ new[i] \in Entry
                          /\ new[i].work = worklist[c][i].work
                          /\ new[i].seq = insert_sequence[d] + i
  <2>1. ASSUME NEW i \in 1..n
        PROVE  /\ new[i] \in Entry
               /\ new[i].work = worklist[c][i].work
               /\ new[i].seq = insert_sequence[d] + i
    <3>1. worklist[c][i] \in Entry
      BY <1>2, <1>3
    <3>2. PICK k \in Nat : k = insert_sequence[d] + i
      BY <1>2
    <3>3. new[i] = [worklist[c][i] EXCEPT !.seq = k]
      BY <1>4, <3>2
    <3> QED
      BY <3>1, <3>2, <3>3 DEF Entry
  <2> QED
    BY <1>4, <2>1
<1>6. new \in Seq(Entry) /\ Len(new) = n
  <2>1. new \in [1..n -> Entry]
    BY <1>4, <1>5
  <2> QED
    BY <2>1
<1>7. PICK t \in Seq(Entry) : t = worklist[d] \o new
  BY <1>2, <1>6, OnConcat
<1>8. /\ worklist' = [worklist EXCEPT ![c] = <<>>, ![d] = t]
      /\ insert_sequence' = [insert_sequence EXCEPT ![d] = insert_sequence[d] + n]
      /\ stack' = stack /\ wpc' = wpc
  BY <1>1, <1>3, <1>4, <1>7 DEF take_over_work
<1>9. <<>> \in Seq(Entry)
  OBVIOUS
<1>10. /\ worklist' \in [CPU -> Seq(Entry)]
       /\ \A b \in CPU \ {c, d} : worklist'[b] = worklist[b]
       /\ worklist'[c] = <<>> /\ worklist'[d] = t
  BY <1>1, <1>8, <1>9 DEF Types
<1>11. /\ Len(worklist[d]) \in Nat /\ Len(t) = Len(worklist[d]) + n
       /\ \A i \in 1..Len(worklist[d]) : t[i] = worklist[d][i]
       /\ \A i \in 1..n : t[Len(worklist[d]) + i] = new[i]
  <2>1. /\ Len(worklist[d]) \in Nat
        /\ Len(worklist[d] \o new) = Len(worklist[d]) + Len(new)
        /\ \A i \in 1..Len(worklist[d]) : (worklist[d] \o new)[i] = worklist[d][i]
        /\ \A i \in 1..Len(new) : (worklist[d] \o new)[Len(worklist[d]) + i] = new[i]
    BY <1>2, <1>6, OnConcat
  <2> QED
    BY <1>6, <1>7, <2>1
<1> QED
  BY <1>1, <1>3, <1>5, <1>8, <1>10, <1>11 DEF MovesTo

-----------------------------------------------------------------------------
(* Base is inductive, given who may be unplugged. *)

(* The innermost work of a worker that is inside of one may be flushing. *)
LEMMA MeType ==
  ASSUME Base, NEW c \in CPU, wpc[c] \in {"taken", "run"}
  PROVE  /\ Me(c) \in Inside /\ Me(c) \in Flusher /\ fl[Me(c)] \in FlushState
         /\ Depth(c) \in 1..MaxDepth /\ Depth(c) = Len(stack[c])
         /\ stack[c] # <<>> /\ Top(c) \in Entry /\ Top(c).work \in Work
         /\ stack[c][Len(stack[c])] = Top(c) /\ Len(stack[c]) \in DOMAIN stack[c]
<1>1. stack[c] \in Seq(Entry) /\ stack[c] # <<>> /\ Len(stack[c]) <= MaxDepth
  BY DEF Base, Types, StackInside
<1>2. Len(stack[c]) \in 1..MaxDepth /\ Len(stack[c]) \in DOMAIN stack[c]
  BY <1>1, WorkqueueAssumption
<1>3. Top(c) \in Entry /\ Top(c).work \in Work
  <2>1. Top(c) \in Entry
    BY <1>1, <1>2 DEF Top, Depth
  <2> QED
    BY <2>1 DEF Entry
<1>4. Me(c) \in Inside
  BY <1>2 DEF Me, Depth, Inside
<1> QED
  BY <1>1, <1>2, <1>3, <1>4 DEF Depth, Flusher, Base, Types, Top

(* A flusher that goes on in the same visit is in one of its states. *)
LEMMA GoesOn ==
  ASSUME NEW r \in FlushState, NEW l \in {"idle", "want", "visit", "wait", "done"}
  PROVE  /\ [r EXCEPT !.pc = l] \in FlushState
         /\ [r EXCEPT !.pc = l].pc = l /\ [r EXCEPT !.pc = l].cpu = r.cpu
         /\ [r EXCEPT !.pc = l].needed = r.needed /\ [r EXCEPT !.pc = l].todo = r.todo
BY DEF FlushState

(* ... and one that returns, too. *)
LEMMA GoesHome ==
  ASSUME NEW p \in Flusher, NEW r \in FlushState
  PROVE  [r EXCEPT !.pc = IF p \in Outside THEN "done" ELSE "idle"] \in FlushState
<1>1. PICK l \in {"done", "idle"} : l = IF p \in Outside THEN "done" ELSE "idle"
  OBVIOUS
<1> QED
  BY <1>1, GoesOn

(* The state a flusher is put in is one of its states. *)
LEMMA FlushType ==
  ASSUME Types, NEW p \in Flusher, NEW r \in FlushState, Flush(p, r)
  PROVE  /\ fl' \in [Flusher -> FlushState] /\ fl'[p] = r
         /\ \A q \in Flusher : q # p => fl'[q] = fl[q]
BY DEF Types, Flush

(* A new work queue: empty lists, and workers outside of run_workqueue(). *)
LEMMA BaseInit == Init => Base
<1> SUFFICES ASSUME Init PROVE Base
  OBVIOUS
<1>1. <<>> \in Seq(Entry) /\ Len(<<>>) = 0
  OBVIOUS
<1>2. Types
  <2>1. fl \in [Flusher -> FlushState]
    BY CPUFacts DEF Init, FlushState
  <2>2. /\ worklist \in [CPU -> Seq(Entry)] /\ stack \in [CPU -> Seq(Entry)]
        /\ thread \in [CPU -> BOOLEAN]
    BY <1>1 DEF Init
  <2>3. /\ adding \in [Work -> CPU \cup {NoCPU}]
        /\ wq_data \in [Work -> CPU \cup {NoCPU}]
        /\ wpc \in [CPU -> {"loop", "check", "sleep", "awake", "taken", "run", "exited"}]
    BY DEF Init
  <2>4. /\ cpucontrol \in Flusher \cup {Hotplug, Nobody} /\ online \in SUBSET CPU
        /\ submits \in 0..MaxSubmit
    BY WorkqueueAssumption DEF Init
  <2>5. hp \in [phase : {"none", "dead", "stopping"}, cpu : CPU, n : 0..MaxHotplug]
    BY WorkqueueAssumption, CPUFacts DEF Init
  <2> QED
    BY <2>1, <2>2, <2>3, <2>4, <2>5 DEF Init, Types
<1>3. StackInside
  BY <1>1, WorkqueueAssumption DEF Init, StackInside
<1> QED
  BY <1>2, <1>3 DEF Base

(* Every step keeps the types. *)
LEMMA TypesStep == Base /\ Plugged /\ [Next]_vars => Types'
<1> SUFFICES ASSUME Base /\ Plugged, [Next]_vars PROVE Types'
  OBVIOUS
<1> Types
  BY DEF Base
<1>0. CASE UNCHANGED vars
  BY <1>0 DEF vars, items, seqs, worker, plug, Types
<1>1. ASSUME NEW c \in CPU, NEW w \in Work, queue_work(c, w) PROVE Types'
  <2>1. submits' \in 0..MaxSubmit
    BY <1>1, WorkqueueAssumption DEF queue_work, Types
  <2>2. Area(c) \in CPU
    BY CPUFacts DEF Area
  <2> QED
    BY <1>1, <2>1, <2>2 DEF queue_work, items, seqs, worker, plug, Types
<1>2. ASSUME NEW w \in Work, queue_delayed_work(w) PROVE Types'
  <2>1. submits' \in 0..MaxSubmit
    BY <1>2, WorkqueueAssumption DEF queue_delayed_work, Types
  <2> QED
    BY <1>2, <2>1 DEF queue_delayed_work, items, seqs, worker, plug, Types
<1>3. ASSUME NEW w \in Work, cancel_delayed_work(w) PROVE Types'
  BY <1>3 DEF cancel_delayed_work, items, seqs, worker, plug, Types
<1>4. ASSUME NEW c \in CPU, NEW w \in Work, timer_expires(w, c) PROVE Types'
  BY <1>4, CPUFacts
  DEF timer_expires, Area, items, seqs, worker, plug, Types
<1>5. ASSUME NEW w \in Work, link_work(w) PROVE Types'
  <2>1. adding[w] \in CPU /\ worklist' \in [CPU -> Seq(Entry)]
    BY <1>5, LinkEffect DEF Links, OnlyList
  <2>2. insert_sequence' \in [CPU -> Nat]
    BY <1>5, <2>1 DEF link_work, Types
  <2> QED
    BY <1>5, <2>1, <2>2 DEF link_work, WakeWorker, items, seqs, worker, plug, Types
<1>6. ASSUME NEW c \in CPU, worker_loop(c) PROVE Types'
  BY <1>6 DEF worker_loop, WGoto, items, seqs, worker, plug, Types
<1>7. ASSUME NEW c \in CPU, worker_exit(c) PROVE Types'
  BY <1>7 DEF worker_exit, WGoto, SetState, items, seqs, worker, plug, Types
<1>8. ASSUME NEW c \in CPU, worker_check(c) PROVE Types'
  BY <1>8 DEF worker_check, WGoto, SetState, items, seqs, worker, plug, Types
<1>9. ASSUME NEW c \in CPU, worker_wakes(c) PROVE Types'
  BY <1>9 DEF worker_wakes, WGoto, items, seqs, worker, plug, Types
<1>10. ASSUME NEW c \in CPU, worker_awake(c) PROVE Types'
  <2>1. CASE worklist[c] # <<>>
    <3>1. Takes(c, Len(stack[c]))
      BY <1>10, <2>1, DequeueNested DEF worker_awake
    <3> QED
      BY <1>10, <2>1, <3>1
      DEF worker_awake, Takes, OnlyList, OnlyStack, items, seqs, worker, plug, Types
  <2>2. CASE worklist[c] = <<>>
    BY <1>10, <2>2 DEF worker_awake, WGoto, SetState, items, seqs, worker, plug, Types
  <2> QED
    BY <2>1, <2>2
<1>11. ASSUME NEW c \in CPU, clear_pending(c) PROVE Types'
  <2>1. Top(c).work \in Work
    BY <1>11, MeType DEF clear_pending
  <2> QED
    BY <1>11, <2>1 DEF clear_pending, WGoto, items, seqs, worker, plug, Types
<1>12. ASSUME NEW c \in CPU, flush_run(c) PROVE Types'
  <2>1. Me(c) \in Flusher /\ fl[Me(c)] \in FlushState
    BY <1>12, MeType DEF flush_run
  <2>2. [fl[Me(c)] EXCEPT !.todo = @ \ {c}] \in FlushState
    BY <2>1 DEF FlushState
  <2>3. fl' \in [Flusher -> FlushState]
    BY <1>12, <2>1, <2>2, FlushType DEF flush_run
  <2>4. /\ worklist' \in [CPU -> Seq(Entry)] /\ stack' \in [CPU -> Seq(Entry)]
        /\ wpc' \in [CPU -> {"loop", "check", "sleep", "awake", "taken", "run", "exited"}]
    <3>1. CASE worklist[c] # <<>>
      <4>1. Takes(c, Len(stack[c]))
        BY <1>12, <3>1, DequeueNested DEF flush_run
      <4> QED
        BY <4>1 DEF Takes, OnlyList, OnlyStack, Types
    <3>2. CASE worklist[c] = <<>>
      BY <1>12, <3>2 DEF flush_run, Types
    <3> QED
      BY <3>1, <3>2
  <2> QED
    BY <1>12, <2>3, <2>4 DEF flush_run, items, seqs, worker, plug, Types
<1>13. ASSUME NEW c \in CPU, work_done(c) PROVE Types'
  <2>1. Takes(c, Len(stack[c]) - 1) \/ Leaves(c)
    BY <1>13, DoneEffect
  <2>2. /\ worklist' \in [CPU -> Seq(Entry)] /\ stack' \in [CPU -> Seq(Entry)]
        /\ wpc' \in [CPU -> {"loop", "check", "sleep", "awake", "taken", "run", "exited"}]
    BY <2>1 DEF Takes, Leaves, OnlyList, OnlyStack, Types
  <2>3. wstate' \in [CPU -> {"running", "interruptible"}]
    BY <1>13 DEF work_done, SetState, Types
  <2>4. remove_sequence' \in [CPU -> Nat]
    BY <1>13 DEF work_done, Types
  <2> QED
    BY <1>13, <2>2, <2>3, <2>4 DEF work_done, items, seqs, worker, plug, Types
<1>14. ASSUME NEW c \in CPU, flush_own_queue(c) PROVE Types'
  <2>1. Me(c) \in Flusher /\ fl[Me(c)] \in FlushState
    BY <1>14, MeType DEF flush_own_queue
  <2>2. [fl[Me(c)] EXCEPT !.pc = "want"] \in FlushState
    BY <2>1 DEF FlushState
  <2>3. fl' \in [Flusher -> FlushState]
    BY <1>14, <2>1, <2>2, FlushType DEF flush_own_queue
  <2>4. stack' \in [CPU -> Seq(Entry)]
    BY <1>14, OwnEffect DEF Marks, OnlyStack
  <2> QED
    BY <1>14, <2>3, <2>4 DEF flush_own_queue, items, seqs, worker, plug, Types
<1>15. ASSUME NEW c \in CPU, cpu_down(c) PROVE Types'
  <2>1. PICK k \in 0..MaxHotplug : k = hp.n + 1
    BY <1>15, WorkqueueAssumption DEF cpu_down, Types
  <2>2. hp' \in [phase : {"none", "dead", "stopping"}, cpu : CPU, n : 0..MaxHotplug]
    BY <1>15, <2>1 DEF cpu_down
  <2> QED
    BY <1>15, <2>2 DEF cpu_down, items, seqs, worker, Types
<1>16. ASSUME NEW c \in CPU, cpu_up(c) PROVE Types'
  <2>1. hp' \in [phase : {"none", "dead", "stopping"}, cpu : CPU, n : 0..MaxHotplug]
    <3>1. PICK k \in 0..MaxHotplug : k = hp.n + 1
      BY <1>16, WorkqueueAssumption DEF cpu_up, Types
    <3> QED
      BY <1>16, <3>1 DEF cpu_up, Types
  <2>2. worklist' \in [CPU -> Seq(Entry)]
    <3>1. <<>> \in Seq(Entry)
      OBVIOUS
    <3> QED
      BY <1>16, <3>1 DEF cpu_up, create_workqueue_thread, Types
  <2> QED
    BY <1>16, <2>1, <2>2
    DEF cpu_up, create_workqueue_thread, SetState, WGoto, items, seqs, worker, plug, Types
<1>17. ASSUME NEW p \in Flusher, flush_workqueue(p) PROVE Types'
  <2>1. fl[p] \in FlushState /\ [fl[p] EXCEPT !.pc = "want"] \in FlushState
    BY <1>17 DEF FlushState, Types
  <2>2. fl' \in [Flusher -> FlushState]
    BY <1>17, <2>1, FlushType DEF flush_workqueue
  <2> QED
    BY <1>17, <2>2 DEF flush_workqueue, items, seqs, worker, plug, Types
<1>18. ASSUME NEW p \in Flusher, flush_lock(p) PROVE Types'
  <2>1. [pc |-> "visit", todo |-> IF single THEN {0} ELSE online, cpu |-> 0, needed |-> 0]
          \in FlushState
    BY CPUFacts DEF FlushState, Types
  <2>2. fl' \in [Flusher -> FlushState]
    BY <1>18, <2>1, FlushType DEF flush_lock
  <2> QED
    BY <1>18, <2>2 DEF flush_lock, items, seqs, worker, plug, Types
<1>19. ASSUME NEW p \in Flusher, flush_sample(p) PROVE Types'
  <2>1. fl[p].todo \in SUBSET CPU
    BY DEF Types, FlushState
  <2>2. PICK c \in CPU : c = NextCPU(fl[p].todo)
    BY <1>19, <2>1, NextCPUType DEF flush_sample
  <2>3. [pc |-> "wait", todo |-> fl[p].todo \ {c}, cpu |-> c,
         needed |-> insert_sequence[c]] \in FlushState
    BY <2>1 DEF FlushState, Types
  <2>4. fl' \in [Flusher -> FlushState]
    BY <1>19, <2>2, <2>3, FlushType DEF flush_sample
  <2> QED
    BY <1>19, <2>4 DEF flush_sample, items, seqs, worker, plug, Types
<1>20. ASSUME NEW p \in Flusher, flush_waited(p) PROVE Types'
  <2>1. fl[p] \in FlushState /\ [fl[p] EXCEPT !.pc = "visit"] \in FlushState
    BY <1>20 DEF FlushState, Types
  <2>2. fl' \in [Flusher -> FlushState]
    BY <1>20, <2>1, FlushType DEF flush_waited
  <2> QED
    BY <1>20, <2>2 DEF flush_waited, items, seqs, worker, plug, Types
<1>21. ASSUME NEW p \in Flusher, flush_return(p) PROVE Types'
  <2>1. [fl[p] EXCEPT !.pc = IF p \in Outside THEN "done" ELSE "idle"] \in FlushState
    BY GoesHome DEF Types
  <2>2. fl' \in [Flusher -> FlushState]
    BY <1>21, <2>1, FlushType DEF flush_return
  <2> QED
    BY <1>21, <2>2 DEF flush_return, items, seqs, worker, plug, Types
<1>22. ASSUME cleanup_workqueue_thread PROVE Types'
  BY <1>22 DEF cleanup_workqueue_thread, SetState, items, seqs, worker, plug, Types
<1>23. ASSUME NEW d \in CPU, take_over_work(d) PROVE Types'
  <2>1. d # hp.cpu
    BY <1>23 DEF take_over_work, Plugged, Control
  <2>2. PICK c \in CPU : c = hp.cpu /\ MovesTo(c, d)
    BY <1>23, <2>1, TakeOverEffect
  <2>3. worklist' \in [CPU -> Seq(Entry)] /\ insert_sequence' \in [CPU -> Nat]
    BY <2>2 DEF MovesTo, Types
  <2>4. wq_data' \in [Work -> CPU \cup {NoCPU}]
    BY <1>23 DEF take_over_work, Types
  <2>5. wstate' \in [CPU -> {"running", "interruptible"}]
    BY <1>23 DEF take_over_work, WakeWorker, Types
  <2> QED
    BY <1>23, <2>3, <2>4, <2>5 DEF take_over_work, items, seqs, worker, plug, Types
<1> QED
  BY <1>0, <1>1, <1>2, <1>3, <1>4, <1>5, <1>6, <1>7, <1>8, <1>9, <1>10, <1>11, <1>12,
     <1>13, <1>14, <1>15, <1>16, <1>17, <1>18, <1>19, <1>20, <1>21, <1>22, <1>23
  DEF Next, Submit, Deliver, Worker, Flushes, Down

(* A work taken off the list is on the stack. *)
LEMMA StackTakes ==
  ASSUME Base, NEW c \in CPU, NEW k, Takes(c, k)
  PROVE  StackInside'
<1>1. ASSUME NEW d \in CPU
      PROVE  /\ Len(stack'[d]) <= MaxDepth
             /\ wpc'[d] \in {"taken", "run"} <=> stack'[d] # <<>>
  <2>1. CASE d = c
    <3>1. Len(stack'[c]) = k + 1 /\ k \in Nat /\ k < MaxDepth /\ stack'[c] \in Seq(Entry)
      BY DEF Takes, OnlyStack
    <3>2. stack'[c] # <<>> /\ Len(stack'[c]) <= MaxDepth
      BY <3>1, WorkqueueAssumption
    <3> QED
      BY <2>1, <3>2 DEF Takes, Base, Types
  <2>2. CASE d # c
    BY <2>2 DEF Takes, OnlyStack, Base, Types, StackInside
  <2> QED
    BY <2>1, <2>2
<1> QED
  BY <1>1 DEF StackInside

(* Every step keeps the stack in step with where the worker is. *)
LEMMA StackStep == Base /\ Plugged /\ [Next]_vars => StackInside'
<1> SUFFICES ASSUME Base /\ Plugged, [Next]_vars PROVE StackInside'
  OBVIOUS
<1> Types /\ StackInside
  BY DEF Base
<1>0. CASE UNCHANGED vars
  BY <1>0 DEF vars, worker, StackInside
<1>1. ASSUME NEW c \in CPU, NEW w \in Work, queue_work(c, w) PROVE StackInside'
  BY <1>1 DEF queue_work, StackInside, Types, worker
<1>2. ASSUME NEW w \in Work, queue_delayed_work(w) PROVE StackInside'
  BY <1>2 DEF queue_delayed_work, StackInside, Types, worker
<1>3. ASSUME NEW w \in Work, cancel_delayed_work(w) PROVE StackInside'
  BY <1>3 DEF cancel_delayed_work, StackInside, Types, worker
<1>4. ASSUME NEW c \in CPU, NEW w \in Work, timer_expires(w, c) PROVE StackInside'
  BY <1>4 DEF timer_expires, StackInside, Types, worker
<1>5. ASSUME NEW w \in Work, link_work(w) PROVE StackInside'
  BY <1>5 DEF link_work, StackInside
<1>6. ASSUME NEW c \in CPU, worker_loop(c) PROVE StackInside'
  BY <1>6 DEF worker_loop, WGoto, StackInside, Types, worker
<1>7. ASSUME NEW c \in CPU, worker_exit(c) PROVE StackInside'
  BY <1>7 DEF worker_exit, WGoto, StackInside, Types, worker
<1>8. ASSUME NEW c \in CPU, worker_check(c) PROVE StackInside'
  BY <1>8 DEF worker_check, WGoto, StackInside, Types, worker
<1>9. ASSUME NEW c \in CPU, worker_wakes(c) PROVE StackInside'
  BY <1>9 DEF worker_wakes, WGoto, StackInside, Types, worker
<1>10. ASSUME NEW c \in CPU, worker_awake(c) PROVE StackInside'
  <2>1. CASE worklist[c] # <<>>
    BY <1>10, <2>1, DequeueNested, StackTakes DEF worker_awake
  <2>2. CASE worklist[c] = <<>>
    BY <1>10, <2>2 DEF worker_awake, WGoto, StackInside, Types
  <2> QED
    BY <2>1, <2>2
<1>11. ASSUME NEW c \in CPU, clear_pending(c) PROVE StackInside'
  BY <1>11 DEF clear_pending, WGoto, StackInside, Types, worker
<1>12. ASSUME NEW c \in CPU, flush_run(c) PROVE StackInside'
  <2>1. CASE worklist[c] # <<>>
    BY <1>12, <2>1, DequeueNested, StackTakes DEF flush_run
  <2>2. CASE worklist[c] = <<>>
    BY <1>12, <2>2 DEF flush_run, StackInside
  <2> QED
    BY <2>1, <2>2
<1>13. ASSUME NEW c \in CPU, work_done(c) PROVE StackInside'
  <2>1. CASE Takes(c, Len(stack[c]) - 1)
    BY <2>1, StackTakes
  <2>2. CASE Leaves(c)
    <3>1. Len(stack'[c]) <= MaxDepth
      BY <2>2, WorkqueueAssumption DEF Leaves, StackInside
    <3>2. wpc'[c] \in {"taken", "run"} <=> stack'[c] # <<>>
      BY <1>13, <2>2 DEF Leaves, Types, work_done
    <3>3. \A d \in CPU \ {c} : stack'[d] = stack[d] /\ wpc'[d] = wpc[d]
      BY <2>2 DEF Leaves, OnlyStack, Types
    <3> QED
      BY <3>1, <3>2, <3>3 DEF StackInside
  <2> QED
    BY <1>13, <2>1, <2>2, DoneEffect
<1>14. ASSUME NEW c \in CPU, flush_own_queue(c) PROVE StackInside'
  <2>1. /\ stack'[c] \in Seq(Entry) /\ Len(stack'[c]) = Len(stack[c])
        /\ Len(stack[c]) \in Nat /\ Len(stack[c]) >= 1
    BY <1>14, OwnEffect DEF Marks, OnlyStack
  <2>2. stack'[c] # <<>>
    BY <2>1
  <2> QED
    BY <1>14, <2>1, <2>2, OwnEffect DEF Marks, OnlyStack, StackInside, flush_own_queue
<1>15. ASSUME NEW c \in CPU, cpu_down(c) PROVE StackInside'
  BY <1>15 DEF cpu_down, StackInside, Types, worker
<1>16. ASSUME NEW c \in CPU, cpu_up(c) PROVE StackInside'
  <2>1. stack[c] = <<>>
    BY <1>16 DEF cpu_up, Plugged, Control, Settled, Live, Hotplug, Nobody
  <2> QED
    BY <1>16, <2>1 DEF cpu_up, WGoto, StackInside, Types, worker
<1>17. ASSUME NEW p \in Flusher, flush_workqueue(p) PROVE StackInside'
  BY <1>17 DEF flush_workqueue, StackInside, Types, worker
<1>18. ASSUME NEW p \in Flusher, flush_lock(p) PROVE StackInside'
  BY <1>18 DEF flush_lock, StackInside, Types, worker
<1>19. ASSUME NEW p \in Flusher, flush_sample(p) PROVE StackInside'
  BY <1>19 DEF flush_sample, StackInside, Types, worker
<1>20. ASSUME NEW p \in Flusher, flush_waited(p) PROVE StackInside'
  BY <1>20 DEF flush_waited, StackInside, Types, worker
<1>21. ASSUME NEW p \in Flusher, flush_return(p) PROVE StackInside'
  BY <1>21 DEF flush_return, StackInside, Types, worker
<1>22. ASSUME cleanup_workqueue_thread PROVE StackInside'
  BY <1>22 DEF cleanup_workqueue_thread, StackInside, Types, worker
<1>23. ASSUME NEW d \in CPU, take_over_work(d) PROVE StackInside'
  BY <1>23 DEF take_over_work, StackInside
<1> QED
  BY <1>0, <1>1, <1>2, <1>3, <1>4, <1>5, <1>6, <1>7, <1>8, <1>9, <1>10, <1>11, <1>12,
     <1>13, <1>14, <1>15, <1>16, <1>17, <1>18, <1>19, <1>20, <1>21, <1>22, <1>23
  DEF Next, Submit, Deliver, Worker, Flushes, Down

(* Both together. *)
LEMMA BaseStep == Base /\ Plugged /\ [Next]_vars => Base'
BY TypesStep, StackStep DEF Base

-----------------------------------------------------------------------------
(* Plugged is inductive, given Base. *)

(* cpu_down() and nobody are none of the flushers. *)
LEMMA Owners ==
  /\ Hotplug \notin Flusher /\ Nobody \notin Flusher /\ Hotplug # Nobody
  /\ Outside \cap Inside = {}
BY DEF Hotplug, Nobody, Flusher, Outside, Inside

(* No list, no stack and nothing to link at first. *)
LEMMA PluggedInit == Init => Plugged
BY CPUFacts, Owners DEF Init, Plugged, Control, Settled, Live

(* A step that leaves cpucontrol and the CPUs alone, with a flusher that    *)
(* keeps what it knows.                                                     *)
LEMMA ControlKept ==
  ASSUME Control, UNCHANGED <<cpucontrol, plug>>, NEW p \in Flusher,
         \A q \in Flusher : q # p => fl'[q] = fl[q],
         fl'[p].pc \in {"visit", "wait"} =>
           /\ fl[p].pc \in {"visit", "wait"} /\ fl'[p].todo \subseteq fl[p].todo
           /\ fl'[p].pc = "wait" => fl'[p].cpu \in online
  PROVE  Control'
BY DEF Control, plug

(* Every step respects cpucontrol. *)
LEMMA ControlStep == Base /\ Control /\ [Next]_vars => Control'
<1> SUFFICES ASSUME Base /\ Control, [Next]_vars PROVE Control'
  OBVIOUS
<1> Types /\ Base /\ Control
  BY DEF Base
<1>0. CASE UNCHANGED vars
  BY <1>0 DEF vars, plug, Control
<1>1. ASSUME NEW c \in CPU, NEW w \in Work, queue_work(c, w) PROVE Control'
  BY <1>1 DEF queue_work, Control, plug, Live
<1>2. ASSUME NEW w \in Work, queue_delayed_work(w) PROVE Control'
  BY <1>2 DEF queue_delayed_work, Control, plug, Live
<1>3. ASSUME NEW w \in Work, cancel_delayed_work(w) PROVE Control'
  BY <1>3 DEF cancel_delayed_work, Control, plug, Live
<1>4. ASSUME NEW c \in CPU, NEW w \in Work, timer_expires(w, c) PROVE Control'
  BY <1>4 DEF timer_expires, Control, plug, Live
<1>5. ASSUME NEW w \in Work, link_work(w) PROVE Control'
  BY <1>5 DEF link_work, Control, plug, Live
<1>6. ASSUME NEW c \in CPU, worker_loop(c) PROVE Control'
  BY <1>6 DEF worker_loop, Control, plug, Live
<1>7. ASSUME NEW c \in CPU, worker_exit(c) PROVE Control'
  BY <1>7 DEF worker_exit, Control, plug, Live
<1>8. ASSUME NEW c \in CPU, worker_check(c) PROVE Control'
  BY <1>8 DEF worker_check, Control, plug, Live
<1>9. ASSUME NEW c \in CPU, worker_wakes(c) PROVE Control'
  BY <1>9 DEF worker_wakes, Control, plug, Live
<1>10. ASSUME NEW c \in CPU, worker_awake(c) PROVE Control'
  BY <1>10 DEF worker_awake, Control, plug, Live
<1>11. ASSUME NEW c \in CPU, clear_pending(c) PROVE Control'
  BY <1>11 DEF clear_pending, Control, plug, Live
<1>12. ASSUME NEW c \in CPU, flush_run(c) PROVE Control'
  <2>1. Me(c) \in Flusher /\ fl[Me(c)] \in FlushState
    BY <1>12, MeType DEF flush_run, Types
  <2>2. PICK r \in FlushState : r = [fl[Me(c)] EXCEPT !.todo = @ \ {c}]
    BY <2>1 DEF FlushState
  <2>3. fl'[Me(c)] = r /\ \A q \in Flusher : q # Me(c) => fl'[q] = fl[q]
    BY <1>12, <2>1, <2>2, FlushType DEF flush_run
  <2>4. r.pc \in {"visit", "wait"} =>
          /\ fl[Me(c)].pc \in {"visit", "wait"} /\ r.todo \subseteq fl[Me(c)].todo
          /\ r.pc = "wait" => r.cpu \in online
    BY <1>12, <2>1, <2>2 DEF flush_run, FlushState, Control
  <2> QED
    BY <1>12, <2>1, <2>3, <2>4, ControlKept DEF flush_run
<1>13. ASSUME NEW c \in CPU, work_done(c) PROVE Control'
  BY <1>13 DEF work_done, Control, plug, Live
<1>14. ASSUME NEW c \in CPU, flush_own_queue(c) PROVE Control'
  <2>1. Me(c) \in Flusher /\ fl[Me(c)] \in FlushState
    BY <1>14, MeType DEF flush_own_queue, Types
  <2>2. PICK r \in FlushState : r = [fl[Me(c)] EXCEPT !.pc = "want"]
    BY <2>1 DEF FlushState
  <2>3. fl'[Me(c)] = r /\ \A q \in Flusher : q # Me(c) => fl'[q] = fl[q]
    BY <1>14, <2>1, <2>2, FlushType DEF flush_own_queue
  <2>4. r.pc \in {"visit", "wait"} =>
          /\ fl[Me(c)].pc \in {"visit", "wait"} /\ r.todo \subseteq fl[Me(c)].todo
          /\ r.pc = "wait" => r.cpu \in online
    BY <1>14, <2>1, <2>2 DEF flush_own_queue, FlushState
  <2> QED
    BY <1>14, <2>1, <2>3, <2>4, ControlKept DEF flush_own_queue
<1>15. ASSUME NEW c \in CPU, cpu_down(c) PROVE Control'
  BY <1>15, Owners
  DEF cpu_down, Types, Control, plug, Live
<1>16. ASSUME NEW c \in CPU, cpu_up(c) PROVE Control'
  BY <1>16, Owners
  DEF cpu_up, Types, Control, plug, Live
<1>17. ASSUME NEW p \in Flusher, flush_workqueue(p) PROVE Control'
  <2>1. p \in Flusher /\ fl[p] \in FlushState
    BY <1>17 DEF flush_workqueue, Types
  <2>2. PICK r \in FlushState : r = [fl[p] EXCEPT !.pc = "want"]
    BY <2>1 DEF FlushState
  <2>3. fl'[p] = r /\ \A q \in Flusher : q # p => fl'[q] = fl[q]
    BY <1>17, <2>1, <2>2, FlushType DEF flush_workqueue
  <2>4. r.pc \in {"visit", "wait"} =>
          /\ fl[p].pc \in {"visit", "wait"} /\ r.todo \subseteq fl[p].todo
          /\ r.pc = "wait" => r.cpu \in online
    BY <1>17, <2>1, <2>2 DEF flush_workqueue, FlushState
  <2> QED
    BY <1>17, <2>1, <2>3, <2>4, ControlKept DEF flush_workqueue
<1>18. ASSUME NEW p \in Flusher, flush_lock(p) PROVE Control'
  <2>1. PICK r \in FlushState :
          r = [pc |-> "visit", todo |-> IF single THEN {0} ELSE online,
               cpu |-> 0, needed |-> 0]
    BY CPUFacts DEF FlushState, Types
  <2>2. fl'[p] = r /\ \A q \in Flusher : q # p => fl'[q] = fl[q]
    BY <1>18, <2>1, FlushType DEF flush_lock
  <2>3. r.pc = "visit" /\ r.todo \subseteq online
    BY <2>1, CPUFacts DEF Control
  <2>4. CASE single
    BY <1>18, <2>2, <2>3, <2>4 DEF flush_lock, Control, plug
  <2>5. CASE ~single
    BY <1>18, <2>2, <2>3, <2>5, Owners DEF flush_lock, Control, plug
  <2> QED
    BY <2>4, <2>5
<1>19. ASSUME NEW p \in Flusher, flush_sample(p) PROVE Control'
  <2>1. fl[p].todo \in SUBSET CPU /\ fl[p].pc = "visit" /\ fl[p].todo # {}
    BY <1>19 DEF flush_sample, Types, FlushState
  <2>0. PICK c \in CPU : c = NextCPU(fl[p].todo) /\ c \in fl[p].todo
    BY <2>1, NextCPUType
  <2>2. PICK r \in FlushState : r = [pc |-> "wait", todo |-> fl[p].todo \ {c}, cpu |-> c,
                              needed |-> insert_sequence[c]]
    BY <2>0, <2>1 DEF FlushState, Types
  <2>3. fl'[p] = r /\ \A q \in Flusher : q # p => fl'[q] = fl[q]
    BY <1>19, <2>0, <2>2, FlushType DEF flush_sample
  <2>4. r.pc \in {"visit", "wait"} =>
          /\ fl[p].pc \in {"visit", "wait"} /\ r.todo \subseteq fl[p].todo
          /\ r.pc = "wait" => r.cpu \in online
    BY <2>0, <2>1, <2>2 DEF Control
  <2> QED
    BY <1>19, <2>1, <2>3, <2>4, ControlKept DEF flush_sample
<1>20. ASSUME NEW p \in Flusher, flush_waited(p) PROVE Control'
  <2>1. p \in Flusher /\ fl[p] \in FlushState
    BY <1>20 DEF flush_waited, Types
  <2>2. PICK r \in FlushState : r = [fl[p] EXCEPT !.pc = "visit"]
    BY <2>1 DEF FlushState
  <2>3. fl'[p] = r /\ \A q \in Flusher : q # p => fl'[q] = fl[q]
    BY <1>20, <2>1, <2>2, FlushType DEF flush_waited
  <2>4. r.pc \in {"visit", "wait"} =>
          /\ fl[p].pc \in {"visit", "wait"} /\ r.todo \subseteq fl[p].todo
          /\ r.pc = "wait" => r.cpu \in online
    BY <1>20, <2>1, <2>2 DEF flush_waited, FlushState
  <2> QED
    BY <1>20, <2>1, <2>3, <2>4, ControlKept DEF flush_waited
<1>21. ASSUME NEW p \in Flusher, flush_return(p) PROVE Control'
  <2>1. PICK r \in FlushState :
          r = [fl[p] EXCEPT !.pc = IF p \in Outside THEN "done" ELSE "idle"]
    BY GoesHome DEF Types
  <2>2. fl'[p] = r /\ \A q \in Flusher : q # p => fl'[q] = fl[q]
    BY <1>21, <2>1, FlushType DEF flush_return
  <2>3. r.pc \in {"done", "idle"}
    BY <2>1 DEF FlushState, Types
  <2>4. CASE single
    BY <1>21, <2>2, <2>3, <2>4 DEF flush_return, Control, plug
  <2>5. CASE ~single
    BY <1>21, <2>2, <2>3, <2>5, Owners DEF flush_return, Control, plug
  <2> QED
    BY <2>4, <2>5
<1>22. ASSUME cleanup_workqueue_thread PROVE Control'
  BY <1>22, Owners
  DEF cleanup_workqueue_thread, Types, Control, plug, Live
<1>23. ASSUME NEW d \in CPU, take_over_work(d) PROVE Control'
  BY <1>23, Owners
  DEF take_over_work, Types, Control, plug, Live
<1> QED
  BY <1>0, <1>1, <1>2, <1>3, <1>4, <1>5, <1>6, <1>7, <1>8, <1>9, <1>10, <1>11, <1>12,
     <1>13, <1>14, <1>15, <1>16, <1>17, <1>18, <1>19, <1>20, <1>21, <1>22, <1>23
  DEF Next, Submit, Deliver, Worker, Flushes, Down

(* A step on the list and stack of one CPU that is not down. *)
LEMMA SettledOn ==
  ASSUME Settled, UNCHANGED <<adding, online, hp>>, NEW c \in CPU, Live(c),
         \A d \in CPU \ {c} : worklist'[d] = worklist[d] /\ stack'[d] = stack[d]
  PROVE  Settled'
BY DEF Settled, Live

(* Every step leaves the CPUs that are down empty. *)
LEMMA SettledStep == Base /\ Plugged /\ [Next]_vars => Settled'
<1> SUFFICES ASSUME Base /\ Plugged, [Next]_vars PROVE Settled'
  OBVIOUS
<1> Types /\ Base /\ Control /\ Settled
  BY DEF Base, Plugged
<1>0. CASE UNCHANGED vars
  BY <1>0 DEF vars, plug, items, Settled, Live
<1>1. ASSUME NEW c \in CPU, NEW w \in Work, queue_work(c, w) PROVE Settled'
  <2>1. Area(c) \in online
    BY <1>1, CPUFacts DEF queue_work, Area, Control
  <2> QED
    BY <1>1, <2>1 DEF queue_work, Settled, Live, plug, Types
<1>2. ASSUME NEW w \in Work, queue_delayed_work(w) PROVE Settled'
  BY <1>2 DEF queue_delayed_work, Settled, Live, plug, items
<1>3. ASSUME NEW w \in Work, cancel_delayed_work(w) PROVE Settled'
  BY <1>3 DEF cancel_delayed_work, Settled, Live, plug, items
<1>4. ASSUME NEW c \in CPU, NEW w \in Work, timer_expires(w, c) PROVE Settled'
  <2>1. Area(c) \in online
    BY <1>4, CPUFacts DEF timer_expires, Area, Control
  <2> QED
    BY <1>4, <2>1 DEF timer_expires, Settled, Live, plug, Types
<1>5. ASSUME NEW w \in Work, link_work(w) PROVE Settled'
  <2>1. adding[w] \in online
    BY <1>5 DEF link_work, Settled
  <2>2. PICK c \in online : c = adding[w] /\ Links(w, c)
    BY <1>5, <2>1, LinkEffect
  <2>3. \A v \in Work : adding'[v] # NoCPU => adding'[v] \in online'
    BY <1>5 DEF link_work, plug, Settled, Types
  <2>4. \A d \in CPU : ~Live(d)' => worklist'[d] = <<>> /\ stack'[d] = <<>>
    BY <1>5, <2>2 DEF link_work, plug, Settled, Live, Links, OnlyList
  <2> QED
    BY <2>3, <2>4 DEF Settled
<1>6. ASSUME NEW c \in CPU, worker_loop(c) PROVE Settled'
  BY <1>6 DEF worker_loop, Settled, Live, plug, items
<1>7. ASSUME NEW c \in CPU, worker_exit(c) PROVE Settled'
  BY <1>7 DEF worker_exit, Settled, Live, plug, items
<1>8. ASSUME NEW c \in CPU, worker_check(c) PROVE Settled'
  BY <1>8 DEF worker_check, Settled, Live, plug, items
<1>9. ASSUME NEW c \in CPU, worker_wakes(c) PROVE Settled'
  BY <1>9 DEF worker_wakes, Settled, Live, plug, items
<1>10. ASSUME NEW c \in CPU, worker_awake(c) PROVE Settled'
  <2>1. CASE worklist[c] # <<>>
    <3>1. Live(c) /\ Takes(c, Len(stack[c]))
      BY <1>10, <2>1, DequeueNested DEF worker_awake, Settled
    <3> QED
      BY <1>10, <3>1, SettledOn DEF worker_awake, items, plug, Takes, OnlyList, OnlyStack
  <2>2. CASE worklist[c] = <<>>
    BY <1>10, <2>2 DEF worker_awake, Settled, Live, plug, items
  <2> QED
    BY <2>1, <2>2
<1>11. ASSUME NEW c \in CPU, clear_pending(c) PROVE Settled'
  BY <1>11 DEF clear_pending, Settled, Live, plug, items
<1>12. ASSUME NEW c \in CPU, flush_run(c) PROVE Settled'
  <2>1. CASE worklist[c] # <<>>
    <3>1. Live(c) /\ Takes(c, Len(stack[c]))
      BY <1>12, <2>1, DequeueNested DEF flush_run, Settled
    <3> QED
      BY <1>12, <3>1, SettledOn DEF flush_run, items, plug, Takes, OnlyList, OnlyStack
  <2>2. CASE worklist[c] = <<>>
    BY <1>12, <2>2 DEF flush_run, Settled, Live, plug, items
  <2> QED
    BY <2>1, <2>2
<1>13. ASSUME NEW c \in CPU, work_done(c) PROVE Settled'
  <2>1. stack[c] # <<>>
    BY <1>13, MeType DEF work_done
  <2>2. Live(c)
    BY <2>1 DEF Settled
  <2>3. \A d \in CPU \ {c} : worklist'[d] = worklist[d] /\ stack'[d] = stack[d]
    BY <1>13, DoneEffect DEF Takes, Leaves, OnlyList, OnlyStack
  <2> QED
    BY <1>13, <2>2, <2>3, SettledOn DEF work_done, items, plug
<1>14. ASSUME NEW c \in CPU, flush_own_queue(c) PROVE Settled'
  <2>1. stack[c] # <<>>
    BY <1>14, MeType DEF flush_own_queue
  <2>2. Live(c)
    BY <2>1 DEF Settled
  <2>3. \A d \in CPU \ {c} : worklist'[d] = worklist[d] /\ stack'[d] = stack[d]
    BY <1>14, OwnEffect DEF Marks, OnlyStack
  <2> QED
    BY <1>14, <2>2, <2>3, SettledOn DEF flush_own_queue, items, plug
<1>15. ASSUME NEW c \in CPU, cpu_down(c) PROVE Settled'
  BY <1>15, Owners
  DEF cpu_down, Control, Types, Settled, Live, plug, items
<1>16. ASSUME NEW c \in CPU, cpu_up(c) PROVE Settled'
  <2>1. hp.phase = "none"
    BY <1>16, Owners DEF cpu_up, Control
  <2>2. \A d \in CPU \ {c} : worklist'[d] = worklist[d] /\ stack'[d] = stack[d]
    BY <1>16 DEF cpu_up, create_workqueue_thread, Types
  <2> QED
    BY <1>16, <2>1, <2>2 DEF cpu_up, Settled, Live, plug, items
<1>17. ASSUME NEW p \in Flusher, flush_workqueue(p) PROVE Settled'
  BY <1>17 DEF flush_workqueue, Settled, Live, plug, items
<1>18. ASSUME NEW p \in Flusher, flush_lock(p) PROVE Settled'
  BY <1>18 DEF flush_lock, Settled, Live, plug, items
<1>19. ASSUME NEW p \in Flusher, flush_sample(p) PROVE Settled'
  BY <1>19 DEF flush_sample, Settled, Live, plug, items
<1>20. ASSUME NEW p \in Flusher, flush_waited(p) PROVE Settled'
  BY <1>20 DEF flush_waited, Settled, Live, plug, items
<1>21. ASSUME NEW p \in Flusher, flush_return(p) PROVE Settled'
  BY <1>21 DEF flush_return, Settled, Live, plug, items
<1>22. ASSUME cleanup_workqueue_thread PROVE Settled'
  BY <1>22 DEF cleanup_workqueue_thread, Types, Settled, Live, plug, items
<1>23. ASSUME NEW d \in CPU, take_over_work(d) PROVE Settled'
  <2>1. d # hp.cpu /\ d \in online /\ wpc[hp.cpu] = "exited"
    BY <1>23 DEF take_over_work, Control
  <2>2. PICK c \in CPU : c = hp.cpu /\ MovesTo(c, d)
    BY <1>23, <2>1, TakeOverEffect
  <2>3. stack[c] = <<>>
    BY <2>1, <2>2 DEF Base, StackInside
  <2>4. hp'.phase = "none" /\ adding' = adding /\ online' = online
    BY <1>23 DEF take_over_work, Types
  <2>5. \A b \in CPU : b \notin online => worklist'[b] = <<>> /\ stack'[b] = <<>>
    BY <2>1, <2>2, <2>3 DEF MovesTo, Settled, Live
  <2> QED
    BY <2>4, <2>5 DEF Settled, Live
<1> QED
  BY <1>0, <1>1, <1>2, <1>3, <1>4, <1>5, <1>6, <1>7, <1>8, <1>9, <1>10, <1>11, <1>12,
     <1>13, <1>14, <1>15, <1>16, <1>17, <1>18, <1>19, <1>20, <1>21, <1>22, <1>23
  DEF Next, Submit, Deliver, Worker, Flushes, Down

(* Both together. *)
LEMMA PluggedStep == Base /\ Plugged /\ [Next]_vars => Plugged'
BY ControlStep, SettledStep DEF Plugged

-----------------------------------------------------------------------------
(* Placed is inductive, given Base and Plugged. *)

(* No work is anywhere at first. *)
LEMMA PlacedInit == Init => Placed
<1> SUFFICES ASSUME Init, NEW w \in Work PROVE InOnePlace(w)
  BY DEF Placed
<1>1. \A c \in CPU, i \in Nat : ~At(c, i, w)
  BY DEF Init, At
<1>2. \A c \in CPU : ~Taken(c, w)
  BY DEF Init, Taken
<1> QED
  BY <1>1, <1>2 DEF InOnePlace, Init

(* Nothing about work v changes but that it may leave its place. *)
Stays(v) ==
  /\ pending'[v] = pending[v] /\ timer'[v] = timer[v]
  /\ adding'[v] = adding[v] /\ wq_data'[v] = wq_data[v]

(* Where work v is, it was before. *)
NoNewPlace(v) ==
  /\ \A c \in CPU, i \in Nat : At(c, i, v)' => At(c, i, v)
  /\ \A c \in CPU : Taken(c, v)' => Taken(c, v)

(* A work that a step leaves alone. *)
LEMMA PlaceKept ==
  ASSUME NEW v \in Work, InOnePlace(v), Stays(v), NoNewPlace(v)
  PROVE  InOnePlace(v)'
BY DEF InOnePlace, Stays, NoNewPlace

(* A step that moves nothing on lists and stacks, and takes nothing. *)
LEMMA NoNewPlaceKept ==
  ASSUME ListsKept, \A c \in CPU : wpc'[c] = "taken" => wpc[c] = "taken", NEW v \in Work
  PROVE  NoNewPlace(v)
BY DEF ListsKept, NoNewPlace, At, Taken, Top, Depth

(* ... and does not touch the works either. *)
LEMMA PlacedKept ==
  ASSUME Placed, ListsKept, \A c \in CPU : wpc'[c] = "taken" => wpc[c] = "taken",
         UNCHANGED items
  PROVE  Placed'
<1> SUFFICES ASSUME NEW v \in Work PROVE InOnePlace(v)'
  BY DEF Placed
<1>1. NoNewPlace(v)
  BY NoNewPlaceKept
<1>2. Stays(v) /\ InOnePlace(v)
  BY DEF Stays, items, Placed
<1> QED
  BY <1>1, <1>2, PlaceKept

(* The worker takes a work off the list: it is the one that was first.      *)
LEMMA PlacedTakes ==
  ASSUME Base, Placed, NEW c \in CPU, NEW k, Takes(c, k), wpc[c] # "taken",
         UNCHANGED items
  PROVE  Placed'
<1> SUFFICES ASSUME NEW v \in Work PROVE InOnePlace(v)'
  BY DEF Placed
<1>1. InOnePlace(v) /\ Stays(v)
  BY DEF Stays, items, Placed
<1>2. \A d \in CPU \ {c}, i \in Nat : At(d, i, v)' => At(d, i, v)
  BY DEF Takes, OnlyList, At
<1>3. \A i \in Nat : At(c, i, v)' => i # 0 /\ At(c, i + 1, v)
  <2> SUFFICES ASSUME NEW i \in Nat, At(c, i, v)' PROVE i # 0 /\ At(c, i + 1, v)
    OBVIOUS
  <2>1. PICK n \in Nat : n = Len(worklist[c])
    BY DEF Takes
  <2>2. /\ worklist[c] \in Seq(Entry) /\ worklist'[c] \in Seq(Entry)
        /\ Len(worklist'[c]) = n - 1 /\ DOMAIN worklist[c] = 1..n
    BY <2>1 DEF Takes, OnlyList, Base, Types
  <2>3. i \in 1..(n - 1) /\ worklist'[c][i].work = v
    BY <2>2 DEF At
  <2>4. worklist'[c][i] = worklist[c][i + 1] /\ i + 1 \in 1..n
    BY <2>1, <2>3 DEF Takes
  <2> QED
    BY <2>2, <2>3, <2>4 DEF At
<1>4. \A d \in CPU \ {c} : Taken(d, v)' => Taken(d, v)
  BY DEF Takes, OnlyStack, Taken, Top, Depth, Base, Types
<1>5. Taken(c, v)' => At(c, 1, v)
  <2>1. /\ Len(stack'[c]) = k + 1 /\ stack'[c][k + 1] = worklist[c][1]
        /\ Len(worklist[c]) >= 1 /\ Len(worklist[c]) \in Nat /\ worklist[c] \in Seq(Entry)
    BY DEF Takes, Base, Types
  <2>2. 1 \in DOMAIN worklist[c]
    BY <2>1
  <2>3. Top(c)' = worklist[c][1]
    BY <2>1 DEF Top, Depth
  <2> QED
    BY <2>2, <2>3 DEF Taken, At
<1>6. ~Taken(c, v)
  BY DEF Taken
<1>7. ASSUME At(c, 1, v) PROVE InOnePlace(v)'
  <2>1. \A d \in CPU, j \in Nat : At(d, j, v) => d = c /\ j = 1
    BY <1>1, <1>7 DEF InOnePlace
  <2>2. \A d \in CPU, j \in Nat : ~At(d, j, v)'
    BY <1>2, <1>3, <2>1
  <2>3. \A d \in CPU : Taken(d, v)' => d = c
    BY <1>1, <1>4, <1>7 DEF InOnePlace
  <2> QED
    BY <1>1, <1>7, <2>2, <2>3 DEF InOnePlace, Stays
<1>8. ASSUME ~At(c, 1, v) PROVE InOnePlace(v)'
  <2>1. \A d \in CPU : Taken(d, v)' => Taken(d, v) /\ d # c
    BY <1>4, <1>5, <1>8
  <2>2. \A d \in CPU, i \in Nat : At(d, i, v)' =>
          \E j \in Nat : At(d, j, v) /\ j = IF d = c THEN i + 1 ELSE i
    <3> SUFFICES ASSUME NEW d \in CPU, NEW i \in Nat, At(d, i, v)'
                 PROVE  \E j \in Nat : At(d, j, v) /\ j = IF d = c THEN i + 1 ELSE i
      OBVIOUS
    <3>1. CASE d = c
      <4>1. PICK j \in Nat : j = i + 1
        OBVIOUS
      <4> QED
        BY <1>3, <3>1, <4>1
    <3>2. CASE d # c
      BY <1>2, <3>2
    <3> QED
      BY <3>1, <3>2
  <2>3. ASSUME NEW d \in CPU, NEW i \in Nat, At(d, i, v)'
        PROVE  /\ pending'[v] /\ ~timer'[v] /\ adding'[v] = NoCPU /\ wq_data'[v] = d
               /\ \A b \in CPU, j \in Nat : At(b, j, v)' => b = d /\ j = i
    <3>1. PICK m \in Nat : At(d, m, v) /\ m = IF d = c THEN i + 1 ELSE i
      BY <2>2, <2>3
    <3>2. ASSUME NEW b \in CPU, NEW j \in Nat, At(b, j, v)' PROVE b = d /\ j = i
      <4>1. PICK n \in Nat : At(b, n, v) /\ n = IF b = c THEN j + 1 ELSE j
        BY <2>2, <3>2
      <4>2. b = d /\ m = n
        BY <1>1, <3>1, <4>1 DEF InOnePlace
      <4> QED
        BY <3>1, <4>1, <4>2
    <3> QED
      BY <1>1, <3>1, <3>2 DEF InOnePlace, Stays
  <2>4. ASSUME NEW d \in CPU, NEW i \in Nat, At(d, i, v)', NEW b \in CPU, Taken(b, v)'
        PROVE  FALSE
    <3>1. PICK m \in Nat : At(d, m, v)
      BY <2>2, <2>4
    <3> QED
      BY <1>1, <2>1, <2>4, <3>1 DEF InOnePlace
  <2>5. \A d \in CPU : Taken(d, v)' =>
          /\ pending'[v] /\ ~timer'[v] /\ adding'[v] = NoCPU /\ wq_data'[v] = d
          /\ \A b \in CPU : Taken(b, v)' => b = d
    BY <1>1, <2>1 DEF InOnePlace, Stays
  <2>6. /\ adding'[v] # NoCPU => pending'[v] /\ ~timer'[v]
        /\ timer'[v] => pending'[v]
    BY <1>1 DEF InOnePlace, Stays
  <2> QED
    BY <2>3, <2>4, <2>5, <2>6 DEF InOnePlace
<1> QED
  BY <1>7, <1>8

(* __queue_work() links a work that was on no list. *)
LEMMA PlacedLinks ==
  ASSUME Base, Placed, NEW w \in Work, link_work(w)
  PROVE  Placed'
<1> SUFFICES ASSUME NEW v \in Work PROVE InOnePlace(v)'
  BY DEF Placed
<1>1. Types /\ InOnePlace(v) /\ InOnePlace(w)
  BY DEF Base, Placed
<1>2. PICK c \in CPU : c = adding[w] /\ Links(w, c) /\ c # NoCPU
  BY <1>1, LinkEffect, CPUFacts
<1>3. PICK n \in Nat : n = Len(worklist[c])
  BY <1>2 DEF Links
<1>4. \A d \in CPU \ {c}, i \in Nat : At(d, i, v)' => At(d, i, v)
  BY <1>2 DEF Links, OnlyList, At
<1>5. \A d \in CPU : Taken(d, v)' => Taken(d, v)
  BY <1>2 DEF Links, Taken, Top, Depth
<1>6. \A i \in Nat : At(c, i, v)' => At(c, i, v) \/ (v = w /\ i = n + 1)
  <2> SUFFICES ASSUME NEW i \in Nat, At(c, i, v)' PROVE At(c, i, v) \/ (v = w /\ i = n + 1)
    OBVIOUS
  <2>1. /\ worklist[c] \in Seq(Entry) /\ worklist'[c] \in Seq(Entry)
        /\ Len(worklist'[c]) = n + 1 /\ DOMAIN worklist[c] = 1..n
    BY <1>1, <1>2, <1>3 DEF Links, OnlyList, Types
  <2>2. i \in 1..(n + 1) /\ worklist'[c][i].work = v
    BY <2>1 DEF At
  <2>3. CASE i \in 1..n
    BY <1>2, <1>3, <2>1, <2>2, <2>3 DEF Links, At
  <2>4. CASE i = n + 1
    BY <1>2, <1>3, <2>2, <2>4 DEF Links
  <2> QED
    BY <2>2, <2>3, <2>4
<1>7. ASSUME v # w PROVE InOnePlace(v)'
  <2>1. NoNewPlace(v)
    BY <1>4, <1>5, <1>6, <1>7 DEF NoNewPlace
  <2>2. Stays(v)
    BY <1>1, <1>7 DEF Stays, link_work, Types
  <2> QED
    BY <1>1, <2>1, <2>2, PlaceKept
<1>8. ASSUME v = w PROVE InOnePlace(v)'
  <2>1. (\A d \in CPU, i \in Nat : ~At(d, i, v)) /\ (\A d \in CPU : ~Taken(d, v))
    BY <1>1, <1>2, <1>8 DEF InOnePlace
  <2>2. pending[v] /\ ~timer[v]
    BY <1>1, <1>2, <1>8 DEF InOnePlace
  <2>3. /\ pending'[v] /\ ~timer'[v] /\ adding'[v] = NoCPU /\ wq_data'[v] = c
    BY <1>1, <1>2, <1>8, <2>2 DEF link_work, Types
  <2>4. \A d \in CPU, i \in Nat : At(d, i, v)' => d = c /\ i = n + 1
    BY <1>4, <1>6, <2>1
  <2>5. \A d \in CPU : ~Taken(d, v)'
    BY <1>5, <2>1
  <2> QED
    BY <2>3, <2>4, <2>5 DEF InOnePlace
<1> QED
  BY <1>7, <1>8

(* take_over_work() moves works between two lists. *)
LEMMA PlacedMoves ==
  ASSUME Base, Control, Placed, NEW d \in CPU, take_over_work(d)
  PROVE  Placed'
<1> SUFFICES ASSUME NEW v \in Work PROVE InOnePlace(v)'
  BY DEF Placed
<1>1. Types /\ InOnePlace(v) /\ d # hp.cpu
  BY DEF Base, Placed, Control, take_over_work
<1>2. PICK c \in CPU : c = hp.cpu /\ MovesTo(c, d)
  BY <1>1, TakeOverEffect
<1>3. PICK n \in Nat : n = Len(worklist[d])
  BY <1>2 DEF MovesTo
<1>4. \A b \in CPU \ {c, d}, i \in Nat : At(b, i, v)' => At(b, i, v)
  BY <1>2 DEF MovesTo, At
<1>5. \A i \in Nat : ~At(c, i, v)'
  BY <1>2 DEF MovesTo, At
<1>6. \A b \in CPU : Taken(b, v)' => Taken(b, v)
  BY <1>2 DEF MovesTo, Taken, Top, Depth
<1>7. \A i \in Nat : At(d, i, v)' =>
        At(d, i, v) \/ (\E j \in Nat : At(c, j, v) /\ i = n + j)
  <2> SUFFICES ASSUME NEW i \in Nat, At(d, i, v)', ~At(d, i, v)
               PROVE  \E j \in Nat : At(c, j, v) /\ i = n + j
    OBVIOUS
  <2>0. PICK m \in Nat : m = Len(worklist[c])
    BY <1>2 DEF MovesTo
  <2>1. /\ worklist'[d] \in Seq(Entry) /\ Len(worklist'[d]) = n + m
        /\ worklist[d] \in Seq(Entry) /\ DOMAIN worklist[d] = 1..n
        /\ worklist[c] \in Seq(Entry) /\ DOMAIN worklist[c] = 1..m
    BY <1>1, <1>2, <1>3, <2>0 DEF MovesTo, Types
  <2>2. i \in 1..(n + m) /\ worklist'[d][i].work = v
    BY <2>1 DEF At
  <2>3. i \notin 1..n
    BY <1>2, <1>3, <2>1, <2>2 DEF MovesTo, At
  <2>4. PICK j \in 1..m : i = n + j
    <3>1. i - n \in 1..m /\ i = n + (i - n)
      BY <2>2, <2>3
    <3> QED
      BY <3>1
  <2>5. worklist[c][j].work = v
    BY <1>2, <1>3, <2>0, <2>2, <2>4 DEF MovesTo
  <2> QED
    BY <2>1, <2>4, <2>5 DEF At
<1>8. /\ pending'[v] = pending[v] /\ timer'[v] = timer[v] /\ adding'[v] = adding[v]
      /\ (\E j \in Nat : At(c, j, v)) => wq_data'[v] = d
      /\ wq_data'[v] = wq_data[v] \/ (\E j \in Nat : At(c, j, v))
  <2>1. worklist[c] \in Seq(Entry) /\ DOMAIN worklist[c] = 1..Len(worklist[c])
    BY <1>1 DEF Types
  <2>2. (\E j \in Nat : At(c, j, v)) <=> v \in {worklist[c][i].work : i \in 1..Len(worklist[c])}
    BY <2>1 DEF At
  <2>3. wq_data'[v] = IF v \in {worklist[c][i].work : i \in 1..Len(worklist[c])}
                      THEN d ELSE wq_data[v]
    BY <1>2 DEF take_over_work
  <2> QED
    BY <2>2, <2>3 DEF take_over_work
<1>9. ASSUME NEW j \in Nat, At(c, j, v) PROVE InOnePlace(v)'
  <2>1. /\ pending[v] /\ ~timer[v] /\ adding[v] = NoCPU
        /\ \A b \in CPU, i \in Nat : At(b, i, v) => b = c /\ i = j
        /\ \A b \in CPU : ~Taken(b, v)
    BY <1>1, <1>9 DEF InOnePlace
  <2>2. \A b \in CPU, i \in Nat : At(b, i, v)' => b = d /\ i = n + j
    BY <1>1, <1>2, <1>4, <1>5, <1>7, <2>1
  <2>3. \A b \in CPU : ~Taken(b, v)'
    BY <1>6, <2>1
  <2>4. pending'[v] /\ ~timer'[v] /\ adding'[v] = NoCPU /\ wq_data'[v] = d
    BY <1>8, <1>9, <2>1
  <2> QED
    BY <2>2, <2>3, <2>4 DEF InOnePlace
<1>10. ASSUME \A j \in Nat : ~At(c, j, v) PROVE InOnePlace(v)'
  <2>1. NoNewPlace(v)
    <3>1. ASSUME NEW b \in CPU, NEW i \in Nat, At(b, i, v)' PROVE At(b, i, v)
      BY <1>4, <1>5, <1>7, <1>10, <3>1
    <3> QED
      BY <1>6, <3>1 DEF NoNewPlace
  <2>2. Stays(v)
    BY <1>8, <1>10 DEF Stays
  <2> QED
    BY <1>1, <2>1, <2>2, PlaceKept
<1> QED
  BY <1>9, <1>10

(* Every step keeps a work in one place. *)
LEMMA PlacedStep == Base /\ Plugged /\ Placed /\ [Next]_vars => Placed'
<1> SUFFICES ASSUME Base /\ Plugged /\ Placed, [Next]_vars PROVE Placed'
  OBVIOUS
<1> Types /\ Base /\ Control /\ Settled /\ Placed
  BY DEF Base, Plugged
<1>0. CASE UNCHANGED vars
  BY <1>0, PlacedKept DEF vars, worker, ListsKept
<1>1. ASSUME NEW c \in CPU, NEW w \in Work, queue_work(c, w) PROVE Placed'
  <2> SUFFICES ASSUME NEW v \in Work PROVE InOnePlace(v)'
    BY DEF Placed
  <2>1. NoNewPlace(v) /\ InOnePlace(v)
    BY <1>1, NoNewPlaceKept DEF queue_work, ListsKept, worker, Placed
  <2>2. CASE v # w
    <3>1. Stays(v)
      BY <1>1, <2>2 DEF queue_work, Stays, Types
    <3> QED
      BY <2>1, <3>1, PlaceKept
  <2>3. CASE v = w
    BY <1>1, <2>1, <2>3 DEF queue_work, InOnePlace, NoNewPlace, Types
  <2> QED
    BY <2>2, <2>3
<1>2. ASSUME NEW w \in Work, queue_delayed_work(w) PROVE Placed'
  <2> SUFFICES ASSUME NEW v \in Work PROVE InOnePlace(v)'
    BY DEF Placed
  <2>1. NoNewPlace(v) /\ InOnePlace(v)
    BY <1>2, NoNewPlaceKept DEF queue_delayed_work, ListsKept, worker, Placed
  <2>2. CASE v # w
    <3>1. Stays(v)
      BY <1>2, <2>2 DEF queue_delayed_work, Stays, Types
    <3> QED
      BY <2>1, <3>1, PlaceKept
  <2>3. CASE v = w
    BY <1>2, <2>1, <2>3 DEF queue_delayed_work, InOnePlace, NoNewPlace, Types
  <2> QED
    BY <2>2, <2>3
<1>3. ASSUME NEW w \in Work, cancel_delayed_work(w) PROVE Placed'
  <2> SUFFICES ASSUME NEW v \in Work PROVE InOnePlace(v)'
    BY DEF Placed
  <2>1. NoNewPlace(v) /\ InOnePlace(v)
    BY <1>3, NoNewPlaceKept DEF cancel_delayed_work, ListsKept, worker, Placed
  <2>2. CASE v # w
    <3>1. Stays(v)
      BY <1>3, <2>2 DEF cancel_delayed_work, Stays, Types
    <3> QED
      BY <2>1, <3>1, PlaceKept
  <2>3. CASE v = w
    BY <1>3, <2>1, <2>3 DEF cancel_delayed_work, InOnePlace, NoNewPlace, Types
  <2> QED
    BY <2>2, <2>3
<1>4. ASSUME NEW c \in CPU, NEW w \in Work, timer_expires(w, c) PROVE Placed'
  <2> SUFFICES ASSUME NEW v \in Work PROVE InOnePlace(v)'
    BY DEF Placed
  <2>1. NoNewPlace(v) /\ InOnePlace(v)
    BY <1>4, NoNewPlaceKept DEF timer_expires, ListsKept, worker, Placed
  <2>2. CASE v # w
    <3>1. Stays(v)
      BY <1>4, <2>2 DEF timer_expires, Stays, Types
    <3> QED
      BY <2>1, <3>1, PlaceKept
  <2>3. CASE v = w
    BY <1>4, <2>1, <2>3 DEF timer_expires, InOnePlace, NoNewPlace, Types
  <2> QED
    BY <2>2, <2>3
<1>5. ASSUME NEW w \in Work, link_work(w) PROVE Placed'
  BY <1>5, PlacedLinks
<1>6. ASSUME NEW c \in CPU, worker_loop(c) PROVE Placed'
  BY <1>6, PlacedKept DEF worker_loop, ListsKept, WGoto, Types
<1>7. ASSUME NEW c \in CPU, worker_exit(c) PROVE Placed'
  BY <1>7, PlacedKept DEF worker_exit, ListsKept, WGoto, Types
<1>8. ASSUME NEW c \in CPU, worker_check(c) PROVE Placed'
  BY <1>8, PlacedKept DEF worker_check, ListsKept, WGoto, Types
<1>9. ASSUME NEW c \in CPU, worker_wakes(c) PROVE Placed'
  BY <1>9, PlacedKept DEF worker_wakes, ListsKept, WGoto, Types
<1>10. ASSUME NEW c \in CPU, worker_awake(c) PROVE Placed'
  <2>1. CASE worklist[c] # <<>>
    BY <1>10, <2>1, DequeueNested, PlacedTakes DEF worker_awake
  <2>2. CASE worklist[c] = <<>>
    BY <1>10, <2>2, PlacedKept DEF worker_awake, ListsKept, WGoto, Types
  <2> QED
    BY <2>1, <2>2
<1>11. ASSUME NEW c \in CPU, clear_pending(c) PROVE Placed'
  <2> SUFFICES ASSUME NEW v \in Work PROVE InOnePlace(v)'
    BY DEF Placed
  <2>1. InOnePlace(v) /\ Top(c).work \in Work
    BY <1>11, MeType DEF Placed, clear_pending
  <2>2. /\ \A d \in CPU, i \in Nat : At(d, i, v)' => At(d, i, v)
        /\ \A d \in CPU \ {c} : Taken(d, v)' => Taken(d, v)
        /\ ~Taken(c, v)'
    BY <1>11 DEF clear_pending, At, Taken, Top, Depth, WGoto, Types
  <2>3. CASE v # Top(c).work
    <3>1. Stays(v) /\ NoNewPlace(v)
      BY <1>11, <2>2, <2>3 DEF clear_pending, Stays, NoNewPlace, Types
    <3> QED
      BY <2>1, <3>1, PlaceKept
  <2>4. CASE v = Top(c).work
    <3>1. Taken(c, v)
      BY <1>11, <2>4 DEF Taken, clear_pending
    <3>2. ~timer[v] /\ adding[v] = NoCPU
      BY <2>1, <3>1 DEF InOnePlace
    <3>3. /\ \A d \in CPU, i \in Nat : ~At(d, i, v)'
          /\ \A d \in CPU : ~Taken(d, v)'
      BY <2>1, <2>2, <3>1 DEF InOnePlace
    <3>4. timer' = timer /\ adding' = adding
      BY <1>11 DEF clear_pending
    <3> QED
      BY <3>2, <3>3, <3>4 DEF InOnePlace
  <2> QED
    BY <2>3, <2>4
<1>12. ASSUME NEW c \in CPU, flush_run(c) PROVE Placed'
  <2>1. CASE worklist[c] # <<>>
    BY <1>12, <2>1, DequeueNested, PlacedTakes DEF flush_run
  <2>2. CASE worklist[c] = <<>>
    BY <1>12, <2>2, PlacedKept DEF flush_run, ListsKept, WGoto, Types
  <2> QED
    BY <2>1, <2>2
<1>13. ASSUME NEW c \in CPU, work_done(c) PROVE Placed'
  <2>1. CASE Takes(c, Len(stack[c]) - 1)
    BY <1>13, <2>1, PlacedTakes DEF work_done
  <2>2. CASE Leaves(c)
    <3> SUFFICES ASSUME NEW v \in Work PROVE InOnePlace(v)'
      BY DEF Placed
    <3>1. NoNewPlace(v)
      <4>1. \A d \in CPU, i \in Nat : At(d, i, v)' => At(d, i, v)
        BY <2>2 DEF Leaves, At
      <4>2. \A d \in CPU \ {c} : Taken(d, v)' => Taken(d, v)
        BY <2>2 DEF Leaves, OnlyStack, Taken, Top, Depth, Types
      <4>3. ~Taken(c, v)'
        BY <1>13, <2>2 DEF Leaves, work_done, Taken, Types
      <4> QED
        BY <4>1, <4>2, <4>3 DEF NoNewPlace
    <3>2. Stays(v) /\ InOnePlace(v)
      BY <1>13 DEF Stays, work_done, items, Placed
    <3> QED
      BY <3>1, <3>2, PlaceKept
  <2> QED
    BY <1>13, <2>1, <2>2, DoneEffect
<1>14. ASSUME NEW c \in CPU, flush_own_queue(c) PROVE Placed'
  <2> SUFFICES ASSUME NEW v \in Work PROVE InOnePlace(v)'
    BY DEF Placed
  <2>1. NoNewPlace(v)
    <3>1. Marks(c)
      BY <1>14, OwnEffect
    <3>2. \A d \in CPU, i \in Nat : At(d, i, v)' => At(d, i, v)
      BY <3>1 DEF Marks, At
    <3>3. \A d \in CPU \ {c} : Taken(d, v)' => Taken(d, v)
      BY <3>1 DEF Marks, OnlyStack, Taken, Top, Depth
    <3>4. ~Taken(c, v)'
      BY <1>14, <3>1 DEF Marks, flush_own_queue, Taken
    <3> QED
      BY <3>2, <3>3, <3>4 DEF NoNewPlace
  <2>2. Stays(v) /\ InOnePlace(v)
    BY <1>14 DEF Stays, flush_own_queue, items, Placed
  <2> QED
    BY <2>1, <2>2, PlaceKept
<1>15. ASSUME NEW c \in CPU, cpu_down(c) PROVE Placed'
  BY <1>15, PlacedKept DEF cpu_down, ListsKept, worker
<1>16. ASSUME NEW c \in CPU, cpu_up(c) PROVE Placed'
  <2>1. worklist[c] = <<>>
    BY <1>16 DEF cpu_up, Plugged, Control, Settled, Live, Hotplug, Nobody
  <2>2. ListsKept
    BY <1>16, <2>1 DEF cpu_up, create_workqueue_thread, ListsKept, Types
  <2> QED
    BY <1>16, <2>2, PlacedKept DEF cpu_up, WGoto, Types
<1>17. ASSUME NEW p \in Flusher, flush_workqueue(p) PROVE Placed'
  BY <1>17, PlacedKept DEF flush_workqueue, ListsKept, worker
<1>18. ASSUME NEW p \in Flusher, flush_lock(p) PROVE Placed'
  BY <1>18, PlacedKept DEF flush_lock, ListsKept, worker
<1>19. ASSUME NEW p \in Flusher, flush_sample(p) PROVE Placed'
  BY <1>19, PlacedKept DEF flush_sample, ListsKept, worker
<1>20. ASSUME NEW p \in Flusher, flush_waited(p) PROVE Placed'
  BY <1>20, PlacedKept DEF flush_waited, ListsKept, worker
<1>21. ASSUME NEW p \in Flusher, flush_return(p) PROVE Placed'
  BY <1>21, PlacedKept DEF flush_return, ListsKept, worker
<1>22. ASSUME cleanup_workqueue_thread PROVE Placed'
  BY <1>22, PlacedKept DEF cleanup_workqueue_thread, ListsKept, worker
<1>23. ASSUME NEW d \in CPU, take_over_work(d) PROVE Placed'
  BY <1>23, PlacedMoves
<1> QED
  BY <1>0, <1>1, <1>2, <1>3, <1>4, <1>5, <1>6, <1>7, <1>8, <1>9, <1>10, <1>11, <1>12,
     <1>13, <1>14, <1>15, <1>16, <1>17, <1>18, <1>19, <1>20, <1>21, <1>22, <1>23
  DEF Next, Submit, Deliver, Worker, Flushes, Down

-----------------------------------------------------------------------------
(* Counted is inductive, given Base and Plugged. *)

(* Both numbers start at 0, with nothing on the lists. *)
LEMMA CountedInit == Init => Counted
<1> SUFFICES ASSUME Init PROVE Counted
  OBVIOUS
<1>1. ASSUME NEW c \in CPU PROVE CountedOn(c)
  <2>1. /\ worklist[c] = <<>> /\ stack[c] = <<>> /\ Len(<<>>) = 0
        /\ insert_sequence[c] = 0 /\ remove_sequence[c] = 0
    BY DEF Init
  <2>2. DOMAIN worklist[c] = {} /\ DOMAIN stack[c] = {}
    BY <2>1
  <2> QED
    <3>1. LastTaken(c) = 0
      <4>1. Len(worklist[c]) = 0
        BY <2>1
      <4>2. LastTaken(c) = 0 - 0
        BY <2>1, <4>1, Zenon DEF LastTaken
      <4> QED
        BY <4>2
    <3>2. Numbered(c)
      BY <2>1, <2>2, <3>1 DEF Numbered
    <3>3. Nested(c)
      BY <2>2 DEF Nested
    <3> QED
      BY <2>1, <3>2, <3>3 DEF CountedOn
<1>2. Frames
  <2>1. ASSUME NEW c \in CPU, NEW d \in 1..MaxDepth PROVE fl[<<"work", c, d>>].pc = "idle"
    <3>1. <<"work", c, d>> \in Flusher
      BY DEF Flusher, Inside
    <3> QED
      BY <3>1 DEF Init
  <2> QED
    BY <2>1 DEF Frames
<1>3. Waited
  BY DEF Init, Waited
<1> QED
  BY <1>1, <1>2, <1>3 DEF Counted

(* What CPU c counts is left alone. *)
CountKept(c) ==
  /\ worklist'[c] = worklist[c] /\ stack'[c] = stack[c]
  /\ insert_sequence'[c] = insert_sequence[c]
  /\ remove_sequence'[c] = remove_sequence[c]
  /\ Live(c)' => Live(c)

(* ... and with it its numbers. *)
LEMMA CountedOnKept ==
  ASSUME NEW c \in CPU, CountedOn(c), CountKept(c)
  PROVE  CountedOn(c)'
BY DEF CountedOn, CountKept, Numbered, Nested, LastTaken

(* __queue_work() numbers the work it links. *)
LEMMA CountedLinks ==
  ASSUME Types, NEW w, NEW c \in CPU, Links(w, c), CountedOn(c),
         remove_sequence' = remove_sequence, Live(c)' => Live(c)
  PROVE  CountedOn(c)'
<1>1. PICK n \in Nat, I \in Nat, R \in Nat :
        n = Len(worklist[c]) /\ I = insert_sequence[c] /\ R = remove_sequence[c]
  BY DEF Links, Types
<1>2. PICK I2 \in Nat : I2 = I + 1 /\ insert_sequence'[c] = I2
  BY <1>1 DEF Links, Types
<1>3. PICK L \in Int : L = I - n
  BY <1>1
<1>4. LastTaken(c) = L /\ LastTaken(c)' = L
  BY <1>1, <1>2, <1>3 DEF Links, LastTaken
<1>5. /\ worklist[c] \in Seq(Entry) /\ worklist'[c] \in Seq(Entry)
      /\ DOMAIN worklist[c] = 1..n /\ DOMAIN worklist'[c] = 1..(n + 1)
  <2>1. worklist[c] \in Seq(Entry) /\ worklist'[c] \in Seq(Entry) /\ Len(worklist'[c]) = n + 1
    BY <1>1 DEF Links, OnlyList, Types
  <2> QED
    BY <1>1, <2>1
<1>6. ASSUME NEW i \in 1..(n + 1) PROVE worklist'[c][i].seq = L + i
  <2>1. CASE i \in 1..n
    <3>1. worklist[c][i].seq = L + i
      BY <1>4, <1>5, <2>1 DEF CountedOn, Numbered
    <3> QED
      BY <1>1, <2>1, <3>1 DEF Links
  <2>2. CASE i = n + 1
    <3>1. worklist'[c][n + 1].seq = I + 1
      BY <1>1 DEF Links
    <3> QED
      BY <1>3, <2>2, <3>1
  <2> QED
    BY <2>1, <2>2
<1>7. Numbered(c)'
  <2>1. Live(c)' => L = R + Len(stack[c])
    BY <1>1, <1>4 DEF CountedOn, Numbered
  <2> QED
    BY <1>1, <1>4, <1>5, <1>6, <2>1 DEF Numbered, Links
<1>8. Nested(c)'
  BY <1>4 DEF Nested, CountedOn, Links
<1>9. remove_sequence'[c] <= insert_sequence'[c]
  <2>1. R <= I
    BY <1>1 DEF CountedOn
  <2>2. R <= I2
    BY <1>2, <2>1
  <2> QED
    BY <1>1, <1>2, <2>2
<1> QED
  BY <1>7, <1>8, <1>9 DEF CountedOn

(* The worker takes the next work: after it has counted one (f = 1), or     *)
(* from worker_thread() or a flush (f = 0).                                 *)
LEMMA CountedTakes ==
  ASSUME Base, NEW c \in CPU, NEW f \in {0, 1}, Takes(c, Len(stack[c]) - f), CountedOn(c),
         Live(c), insert_sequence' = insert_sequence,
         remove_sequence' = [remove_sequence EXCEPT ![c] = remove_sequence[c] + f],
         \A i \in 1..(Len(stack[c]) - f) : stack[c][i].flushed
  PROVE  CountedOn(c)'
<1>1. PICK n \in Nat, m \in Nat, I \in Nat, R \in Nat :
        /\ n = Len(worklist[c]) /\ I = insert_sequence[c] /\ R = remove_sequence[c]
        /\ m = Len(stack[c])
  <2>1. stack[c] \in Seq(Entry)
    BY DEF Base, Types
  <2>2. Len(stack[c]) \in Nat
    BY <2>1
  <2> QED
    BY <2>2 DEF Takes, Base, Types
<1>2. PICK L \in Int : L = I - n
  BY <1>1
<1>3. PICK L2 \in Int : L2 = L + 1
  OBVIOUS
<1>4. n >= 1 /\ Len(worklist'[c]) = n - 1 /\ insert_sequence'[c] = I
  BY <1>1 DEF Takes
<1>5. LastTaken(c) = L /\ LastTaken(c)' = L2
  BY <1>1, <1>2, <1>3, <1>4 DEF LastTaken
<1>6. PICK R2 \in Nat : R2 = R + f /\ remove_sequence'[c] = R2
  <2>1. R + f \in Nat
    BY <1>1
  <2> QED
    BY <1>1, <2>1 DEF Base, Types
<1>7. PICK k \in Nat : k = m - f /\ k < MaxDepth /\ Len(stack'[c]) = k + 1
  BY <1>1 DEF Takes
<1>8. L = R + m /\ \A i \in 1..n : worklist[c][i].seq = L + i
  <2>1. worklist[c] \in Seq(Entry)
    BY DEF Base, Types
  <2>2. DOMAIN worklist[c] = 1..n
    BY <1>1, <2>1
  <2> QED
    BY <1>1, <1>5, <2>2 DEF CountedOn, Numbered
<1>9. L2 = R2 + (k + 1)
  <2>1. CASE f = 0
    BY <1>3, <1>6, <1>7, <1>8, <2>1
  <2>2. CASE f = 1
    BY <1>3, <1>6, <1>7, <1>8, <2>2
  <2> QED
    BY <2>1, <2>2
<1>10. /\ worklist'[c] \in Seq(Entry) /\ stack'[c] \in Seq(Entry)
       /\ DOMAIN worklist'[c] = 1..(n - 1) /\ DOMAIN stack'[c] = 1..(k + 1)
  <2>1. worklist'[c] \in Seq(Entry) /\ stack'[c] \in Seq(Entry)
    BY DEF Takes, OnlyList, OnlyStack
  <2> QED
    BY <1>4, <1>7, <2>1
<1>11. Numbered(c)'
  <2>1. ASSUME NEW i \in 1..(n - 1) PROVE worklist'[c][i].seq = L2 + i
    <3>1. worklist'[c][i] = worklist[c][i + 1]
      BY <1>1 DEF Takes
    <3>2. i + 1 \in 1..n
      BY <1>1
    <3>3. worklist[c][i + 1].seq = L + (i + 1)
      BY <1>8, <3>2
    <3> QED
      BY <1>3, <3>1, <3>3
  <2> QED
    BY <1>5, <1>6, <1>7, <1>9, <1>10, <2>1 DEF Numbered
<1>12. Nested(c)'
  <2>1. ASSUME NEW i \in 1..(k + 1), ~stack'[c][i].flushed
        PROVE  i = k + 1 /\ stack'[c][i].seq = L2
    <3>1. \A j \in 1..k : stack'[c][j] = stack[c][j] /\ stack[c][j].flushed
      BY <1>1, <1>7 DEF Takes
    <3>2. i = k + 1
      BY <2>1, <3>1
    <3>3. stack'[c][k + 1] = worklist[c][1]
      BY <1>1, <1>7 DEF Takes
    <3>4. worklist[c][1].seq = L + 1
      BY <1>4, <1>8
    <3> QED
      BY <1>3, <3>2, <3>3, <3>4
  <2> QED
    BY <1>5, <1>7, <1>10, <2>1 DEF Nested
<1>13. remove_sequence'[c] <= insert_sequence'[c]
  <2>1. R2 <= I
    BY <1>2, <1>3, <1>4, <1>9
  <2> QED
    BY <1>4, <1>6, <2>1
<1> QED
  BY <1>11, <1>12, <1>13 DEF CountedOn

(* run_workqueue() returns. *)
LEMMA CountedLeaves ==
  ASSUME Base, NEW c \in CPU, Leaves(c), CountedOn(c), Live(c),
         insert_sequence' = insert_sequence,
         remove_sequence' = [remove_sequence EXCEPT ![c] = remove_sequence[c] + 1]
  PROVE  CountedOn(c)'
<1>1. PICK m \in Nat, I \in Nat, R \in Nat :
        /\ I = insert_sequence[c] /\ R = remove_sequence[c] /\ m = Len(stack[c]) /\ m >= 1
  BY DEF Leaves, Base, Types
<1>2. worklist[c] = <<>> /\ worklist'[c] = <<>> /\ Len(<<>>) = 0 /\ DOMAIN worklist'[c] = {}
  BY DEF Leaves
<1>3. LastTaken(c) = I /\ LastTaken(c)' = I
  BY <1>1, <1>2 DEF LastTaken
<1>4. PICK R2 \in Nat : R2 = R + 1 /\ remove_sequence'[c] = R2
  BY <1>1 DEF Base, Types
<1>5. I = R + m
  BY <1>1, <1>3 DEF CountedOn, Numbered
<1>6. Len(stack'[c]) = m - 1 /\ stack'[c] \in Seq(Entry) /\ stack[c] \in Seq(Entry)
  BY <1>1 DEF Leaves, OnlyStack, Base, Types
<1>7. DOMAIN stack'[c] = 1..(m - 1) /\ DOMAIN stack[c] = 1..m
  BY <1>1, <1>6
<1>8. I = R2 + (m - 1)
  BY <1>4, <1>5
<1>9. Numbered(c)'
  BY <1>2, <1>3, <1>4, <1>6, <1>8 DEF Numbered
<1>10. Nested(c)'
  <2>1. ASSUME NEW i \in 1..(m - 1) PROVE stack'[c][i].flushed
    <3>1. stack'[c][i] = stack[c][i] /\ i \in 1..m /\ i # m
      BY <1>1 DEF Leaves
    <3> QED
      BY <1>1, <1>7, <3>1 DEF CountedOn, Nested
  <2> QED
    BY <1>7, <2>1 DEF Nested
<1>11. remove_sequence'[c] <= insert_sequence'[c]
  <2>1. R2 <= I
    BY <1>1, <1>8
  <2> QED
    BY <1>1, <1>4, <2>1
<1> QED
  BY <1>9, <1>10, <1>11 DEF CountedOn

(* A work that flushes its own queue is marked. *)
LEMMA CountedMarks ==
  ASSUME Base, NEW c \in CPU, Marks(c), CountedOn(c), UNCHANGED seqs, Live(c)' => Live(c)
  PROVE  CountedOn(c)'
<1>1. PICK m \in Nat : m = Len(stack[c]) /\ m >= 1 /\ Len(stack'[c]) = m
  BY DEF Marks
<1>2. LastTaken(c)' = LastTaken(c)
  BY DEF LastTaken, Marks, seqs
<1>3. stack'[c] \in Seq(Entry) /\ stack[c] \in Seq(Entry)
  BY DEF Marks, OnlyStack, Base, Types
<1>4. DOMAIN stack'[c] = 1..m /\ DOMAIN stack[c] = 1..m
  BY <1>1, <1>3
<1>5. Numbered(c)'
  BY <1>1, <1>2 DEF Numbered, CountedOn, Marks, seqs
<1>6. Nested(c)'
  <2>1. ASSUME NEW i \in 1..m PROVE stack'[c][i].flushed
    <3>1. CASE i # m
      <4>1. i \in 1..(m - 1)
        BY <3>1
      <4> QED
        BY <1>1, <1>4, <3>1, <4>1 DEF Marks, CountedOn, Nested
    <3>2. CASE i = m
      BY <1>1, <3>2 DEF Marks
    <3> QED
      BY <3>1, <3>2
  <2> QED
    BY <1>4, <2>1 DEF Nested
<1> QED
  BY <1>5, <1>6 DEF CountedOn, seqs

(* take_over_work() numbers the works it moves behind those of CPU d. *)
LEMMA CountedMoves ==
  ASSUME Types, NEW c \in CPU, NEW d \in CPU, MovesTo(c, d), CountedOn(d), Live(d),
         remove_sequence' = remove_sequence
  PROVE  CountedOn(d)'
<1>1. PICK n \in Nat, m \in Nat, I \in Nat, R \in Nat :
        /\ n = Len(worklist[d]) /\ m = Len(worklist[c])
        /\ I = insert_sequence[d] /\ R = remove_sequence[d]
  BY DEF MovesTo, Types
<1>2. PICK I2 \in Nat : I2 = I + m /\ insert_sequence'[d] = I2
  BY <1>1 DEF MovesTo, Types
<1>3. PICK L \in Int : L = I - n
  BY <1>1
<1>4. LastTaken(d) = L /\ LastTaken(d)' = L
  <2>1. Len(worklist'[d]) = n + m
    BY <1>1 DEF MovesTo
  <2>2. I2 - (n + m) = L
    BY <1>2, <1>3
  <2> QED
    BY <1>1, <1>2, <1>3, <2>1, <2>2 DEF LastTaken
<1>5. DOMAIN worklist[d] = 1..n /\ DOMAIN worklist'[d] = 1..(n + m)
  <2>1. worklist[d] \in Seq(Entry) /\ worklist'[d] \in Seq(Entry) /\ Len(worklist'[d]) = n + m
    BY <1>1 DEF MovesTo, Types
  <2>2. /\ DOMAIN worklist[d] = 1..Len(worklist[d])
        /\ DOMAIN worklist'[d] = 1..Len(worklist'[d])
    BY <2>1
  <2> QED
    BY <1>1, <2>1, <2>2
<1>6. ASSUME NEW i \in 1..(n + m) PROVE worklist'[d][i].seq = L + i
  <2>1. CASE i \in 1..n
    <3>1. worklist[d][i].seq = L + i
      BY <1>4, <1>5, <2>1 DEF CountedOn, Numbered
    <3> QED
      BY <1>1, <2>1, <3>1 DEF MovesTo
  <2>2. CASE i \notin 1..n
    <3>1. PICK j \in 1..m : i = n + j
      <4>1. i - n \in 1..m /\ i = n + (i - n)
        BY <2>2
      <4> QED
        BY <4>1
    <3>2. worklist'[d][n + j].seq = I + j
      BY <1>1 DEF MovesTo
    <3>3. I + j = L + (n + j)
      BY <1>3
    <3> QED
      BY <3>1, <3>2, <3>3
  <2> QED
    BY <2>1, <2>2
<1>7. Numbered(d)'
  <2>1. L = R + Len(stack[d])
    BY <1>1, <1>4 DEF CountedOn, Numbered
  <2> QED
    BY <1>1, <1>4, <1>5, <1>6, <2>1 DEF Numbered, MovesTo
<1>8. Nested(d)'
  BY <1>4 DEF Nested, CountedOn, MovesTo
<1>9. remove_sequence'[d] <= insert_sequence'[d]
  <2>1. R <= I
    BY <1>1 DEF CountedOn
  <2>2. R <= I2
    BY <1>2, <2>1
  <2> QED
    BY <1>1, <1>2, <2>2
<1> QED
  BY <1>7, <1>8, <1>9 DEF CountedOn

(* The numbers of every CPU. *)
AllCounted == \A c \in CPU : CountedOn(c)

(* A step that leaves the lists, the stacks and the numbers alone. *)
LEMMA AllCountedKept ==
  ASSUME AllCounted, ListsKept, UNCHANGED seqs, \A c \in CPU : Live(c)' => Live(c)
  PROVE  AllCounted'
<1> SUFFICES ASSUME NEW c \in CPU PROVE CountedOn(c)'
  BY DEF AllCounted
<1>1. CountKept(c) /\ CountedOn(c)
  BY DEF CountKept, ListsKept, seqs, AllCounted
<1> QED
  BY <1>1, CountedOnKept

(* A step that changes what one CPU counts. *)
LEMMA AllCountedOn ==
  ASSUME AllCounted, NEW c \in CPU, CountedOn(c)', \A d \in CPU \ {c} : CountKept(d)
  PROVE  AllCounted'
<1> SUFFICES ASSUME NEW d \in CPU PROVE CountedOn(d)'
  BY DEF AllCounted
<1>1. CASE d = c
  BY <1>1
<1>2. CASE d # c
  <2>1. CountKept(d) /\ CountedOn(d)
    BY <1>2 DEF AllCounted
  <2> QED
    BY <2>1, CountedOnKept
<1> QED
  BY <1>1, <1>2

(* Every step keeps the numbers of every CPU. *)
LEMMA AllCountedStep == Base /\ Plugged /\ AllCounted /\ Frames /\ [Next]_vars => AllCounted'
<1> SUFFICES ASSUME Base /\ Plugged /\ AllCounted /\ Frames, [Next]_vars PROVE AllCounted'
  OBVIOUS
<1> Types /\ Base /\ Control /\ Settled /\ AllCounted /\ Frames
  BY DEF Base, Plugged
<1>0. CASE UNCHANGED vars
  BY <1>0, AllCountedKept DEF vars, ListsKept, seqs, plug, Live
<1>1. ASSUME NEW c \in CPU, NEW w \in Work, queue_work(c, w) PROVE AllCounted'
  BY <1>1, AllCountedKept DEF queue_work, ListsKept, seqs, plug, Live
<1>2. ASSUME NEW w \in Work, queue_delayed_work(w) PROVE AllCounted'
  BY <1>2, AllCountedKept DEF queue_delayed_work, ListsKept, seqs, plug, Live
<1>3. ASSUME NEW w \in Work, cancel_delayed_work(w) PROVE AllCounted'
  BY <1>3, AllCountedKept DEF cancel_delayed_work, ListsKept, seqs, plug, Live
<1>4. ASSUME NEW c \in CPU, NEW w \in Work, timer_expires(w, c) PROVE AllCounted'
  BY <1>4, AllCountedKept DEF timer_expires, ListsKept, seqs, plug, Live
<1>5. ASSUME NEW w \in Work, link_work(w) PROVE AllCounted'
  <2>1. PICK c \in CPU : c = adding[w] /\ Links(w, c)
    BY <1>5, LinkEffect
  <2>2. CountedOn(c)
    BY DEF AllCounted
  <2>3. remove_sequence' = remove_sequence /\ (Live(c)' => Live(c))
    BY <1>5 DEF link_work, plug, Live
  <2>4. CountedOn(c)'
    BY <2>1, <2>2, <2>3, CountedLinks
  <2>5. \A d \in CPU \ {c} : CountKept(d)
    BY <1>5, <2>1 DEF link_work, CountKept, Links, OnlyList, plug, Live, Types
  <2> QED
    BY <2>4, <2>5, AllCountedOn
<1>6. ASSUME NEW c \in CPU, worker_loop(c) PROVE AllCounted'
  BY <1>6, AllCountedKept DEF worker_loop, ListsKept, seqs, plug, Live
<1>7. ASSUME NEW c \in CPU, worker_exit(c) PROVE AllCounted'
  BY <1>7, AllCountedKept DEF worker_exit, ListsKept, seqs, plug, Live
<1>8. ASSUME NEW c \in CPU, worker_check(c) PROVE AllCounted'
  BY <1>8, AllCountedKept DEF worker_check, ListsKept, seqs, plug, Live
<1>9. ASSUME NEW c \in CPU, worker_wakes(c) PROVE AllCounted'
  BY <1>9, AllCountedKept DEF worker_wakes, ListsKept, seqs, plug, Live
<1>10. ASSUME NEW c \in CPU, worker_awake(c) PROVE AllCounted'
  <2>1. CASE worklist[c] # <<>>
    <3>1. Takes(c, Len(stack[c]))
      BY <1>10, <2>1, DequeueNested DEF worker_awake
    <3>2. Live(c) /\ CountedOn(c)
      BY <2>1 DEF Settled, AllCounted
    <3>3. \A i \in 1..Len(stack[c]) : stack[c][i].flushed
      <4>1. stack[c] = <<>>
        BY <1>10 DEF worker_awake, Base, StackInside
      <4>2. Len(stack[c]) = 0
        BY <4>1
      <4> QED
        BY <4>2
    <3>4. /\ insert_sequence' = insert_sequence
          /\ remove_sequence' = [remove_sequence EXCEPT ![c] = remove_sequence[c] + 0]
      BY <1>10 DEF worker_awake, seqs, Types
    <3>5. Takes(c, Len(stack[c]) - 0) /\ \A i \in 1..(Len(stack[c]) - 0) : stack[c][i].flushed
      <4>1. Len(stack[c]) - 0 = Len(stack[c])
        <5>1. stack[c] \in Seq(Entry)
          BY DEF Types
        <5>2. Len(stack[c]) \in Nat
          BY <5>1
        <5> QED
          BY <5>2
      <4> QED
        BY <3>1, <3>3, <4>1
    <3>6. CountedOn(c)'
      BY <3>2, <3>4, <3>5, CountedTakes
    <3>7. \A d \in CPU \ {c} : CountKept(d)
      BY <1>10, <3>1 DEF worker_awake, CountKept, Takes, OnlyList, OnlyStack, seqs, plug, Live
    <3> QED
      BY <3>6, <3>7, AllCountedOn
  <2>2. CASE worklist[c] = <<>>
    BY <1>10, <2>2, AllCountedKept DEF worker_awake, ListsKept, seqs, plug, Live
  <2> QED
    BY <2>1, <2>2
<1>11. ASSUME NEW c \in CPU, clear_pending(c) PROVE AllCounted'
  BY <1>11, AllCountedKept DEF clear_pending, ListsKept, seqs, plug, Live
<1>12. ASSUME NEW c \in CPU, flush_run(c) PROVE AllCounted'
  <2>1. CASE worklist[c] # <<>>
    <3>1. Takes(c, Len(stack[c]))
      BY <1>12, <2>1, DequeueNested DEF flush_run
    <3>2. Live(c) /\ CountedOn(c)
      BY <2>1 DEF Settled, AllCounted
    <3>3. \A i \in 1..Len(stack[c]) : stack[c][i].flushed
      <4>1. /\ Depth(c) \in 1..MaxDepth /\ Depth(c) = Len(stack[c])
            /\ Len(stack[c]) \in DOMAIN stack[c]
        BY <1>12, MeType DEF flush_run
      <4>2. stack[c][Len(stack[c])].flushed
        BY <1>12, <4>1 DEF flush_run, Frames, Me
      <4>3. DOMAIN stack[c] = 1..Len(stack[c])
        <5>1. stack[c] \in Seq(Entry)
          BY DEF Types
        <5> QED
          BY <5>1
      <4> QED
        BY <3>2, <4>2, <4>3 DEF CountedOn, Nested
    <3>4. /\ insert_sequence' = insert_sequence
          /\ remove_sequence' = [remove_sequence EXCEPT ![c] = remove_sequence[c] + 0]
      BY <1>12 DEF flush_run, seqs, Types
    <3>5. Takes(c, Len(stack[c]) - 0) /\ \A i \in 1..(Len(stack[c]) - 0) : stack[c][i].flushed
      <4>1. Len(stack[c]) - 0 = Len(stack[c])
        <5>1. stack[c] \in Seq(Entry)
          BY DEF Types
        <5>2. Len(stack[c]) \in Nat
          BY <5>1
        <5> QED
          BY <5>2
      <4> QED
        BY <3>1, <3>3, <4>1
    <3>6. CountedOn(c)'
      BY <3>2, <3>4, <3>5, CountedTakes
    <3>7. \A d \in CPU \ {c} : CountKept(d)
      BY <1>12, <3>1 DEF flush_run, CountKept, Takes, OnlyList, OnlyStack, seqs, plug, Live
    <3> QED
      BY <3>6, <3>7, AllCountedOn
  <2>2. CASE worklist[c] = <<>>
    BY <1>12, <2>2, AllCountedKept DEF flush_run, ListsKept, seqs, plug, Live
  <2> QED
    BY <2>1, <2>2
<1>13. ASSUME NEW c \in CPU, work_done(c) PROVE AllCounted'
  <2>1. stack[c] # <<>>
    BY <1>13, MeType DEF work_done
  <2>2. Live(c) /\ CountedOn(c)
    BY <2>1 DEF Settled, AllCounted
  <2>3. /\ insert_sequence' = insert_sequence
        /\ remove_sequence' = [remove_sequence EXCEPT ![c] = remove_sequence[c] + 1]
    BY <1>13 DEF work_done
  <2>4. \A i \in 1..(Len(stack[c]) - 1) : stack[c][i].flushed
    <3>1. stack[c] \in Seq(Entry)
      BY DEF Types
    <3>2. DOMAIN stack[c] = 1..Len(stack[c]) /\ Len(stack[c]) \in Nat
      BY <3>1
    <3> QED
      BY <2>2, <3>2 DEF CountedOn, Nested
  <2>5. CountedOn(c)'
    <3>1. CASE Takes(c, Len(stack[c]) - 1)
      BY <2>2, <2>3, <2>4, <3>1, CountedTakes
    <3>2. CASE Leaves(c)
      BY <2>2, <2>3, <3>2, CountedLeaves
    <3> QED
      BY <1>13, <3>1, <3>2, DoneEffect
  <2>6. \A d \in CPU \ {c} : CountKept(d)
    <3>1. \A d \in CPU \ {c} : worklist'[d] = worklist[d] /\ stack'[d] = stack[d]
      BY <1>13, DoneEffect DEF Takes, Leaves, OnlyList, OnlyStack
    <3> QED
      BY <1>13, <2>3, <3>1 DEF work_done, CountKept, plug, Live, Types
  <2> QED
    BY <2>5, <2>6, AllCountedOn
<1>14. ASSUME NEW c \in CPU, flush_own_queue(c) PROVE AllCounted'
  <2>1. Marks(c) /\ CountedOn(c)
    BY <1>14, OwnEffect DEF AllCounted
  <2>2. UNCHANGED seqs /\ \A d \in CPU : Live(d)' => Live(d)
    BY <1>14 DEF flush_own_queue, seqs, plug, Live
  <2>3. CountedOn(c)'
    BY <2>1, <2>2, CountedMarks
  <2>4. \A d \in CPU \ {c} : CountKept(d)
    BY <2>1, <2>2 DEF CountKept, Marks, OnlyStack, seqs
  <2> QED
    BY <2>3, <2>4, AllCountedOn
<1>15. ASSUME NEW c \in CPU, cpu_down(c) PROVE AllCounted'
  BY <1>15, AllCountedKept, Owners DEF cpu_down, ListsKept, seqs, Live, Control, Types
<1>16. ASSUME NEW c \in CPU, cpu_up(c) PROVE AllCounted'
  <2>1. hp.phase = "none" /\ c \notin online /\ worklist[c] = <<>> /\ stack[c] = <<>>
    BY <1>16, Owners DEF cpu_up, Control, Settled, Live
  <2>2. /\ worklist'[c] = <<>> /\ stack'[c] = <<>> /\ insert_sequence'[c] = 0
        /\ remove_sequence'[c] = 0
    BY <1>16, <2>1 DEF cpu_up, create_workqueue_thread, Types
  <2>3. CountedOn(c)'
    <3>1. Len(<<>>) = 0 /\ DOMAIN <<>> = {}
      OBVIOUS
    <3>2. LastTaken(c)' = 0 - 0
      BY <2>2, <3>1 DEF LastTaken
    <3>3. LastTaken(c)' = 0 /\ LastTaken(c)' = 0 + 0
      BY <3>2
    <3>4. Numbered(c)'
      BY <2>2, <3>1, <3>3 DEF Numbered
    <3>5. Nested(c)'
      BY <2>2, <3>1 DEF Nested
    <3> QED
      BY <2>2, <3>4, <3>5 DEF CountedOn
  <2>4. \A d \in CPU \ {c} : CountKept(d)
    BY <1>16, <2>1 DEF cpu_up, create_workqueue_thread, CountKept, Live, Types
  <2> QED
    BY <2>3, <2>4, AllCountedOn
<1>17. ASSUME NEW p \in Flusher, flush_workqueue(p) PROVE AllCounted'
  BY <1>17, AllCountedKept DEF flush_workqueue, ListsKept, seqs, plug, Live
<1>18. ASSUME NEW p \in Flusher, flush_lock(p) PROVE AllCounted'
  BY <1>18, AllCountedKept DEF flush_lock, ListsKept, seqs, plug, Live
<1>19. ASSUME NEW p \in Flusher, flush_sample(p) PROVE AllCounted'
  BY <1>19, AllCountedKept DEF flush_sample, ListsKept, seqs, plug, Live
<1>20. ASSUME NEW p \in Flusher, flush_waited(p) PROVE AllCounted'
  BY <1>20, AllCountedKept DEF flush_waited, ListsKept, seqs, plug, Live
<1>21. ASSUME NEW p \in Flusher, flush_return(p) PROVE AllCounted'
  BY <1>21, AllCountedKept DEF flush_return, ListsKept, seqs, plug, Live
<1>22. ASSUME cleanup_workqueue_thread PROVE AllCounted'
  BY <1>22, AllCountedKept DEF cleanup_workqueue_thread, ListsKept, seqs, Live, Types
<1>23. ASSUME NEW d \in CPU, take_over_work(d) PROVE AllCounted'
  <2>1. d # hp.cpu /\ d \in online /\ wpc[hp.cpu] = "exited"
    BY <1>23 DEF take_over_work, Control
  <2>2. PICK c \in CPU : c = hp.cpu /\ MovesTo(c, d)
    BY <1>23, <2>1, TakeOverEffect
  <2>3. remove_sequence' = remove_sequence /\ hp'.phase = "none" /\ online' = online
    BY <1>23 DEF take_over_work, Types
  <2>4. CountedOn(d)'
    BY <2>1, <2>2, <2>3, CountedMoves DEF AllCounted, Live
  <2>5. CountedOn(c)'
    <3>1. stack'[c] = <<>> /\ worklist'[c] = <<>>
      BY <2>1, <2>2 DEF Base, StackInside, MovesTo
    <3>2. ~Live(c)'
      BY <1>23, <2>2, <2>3 DEF Live, Control, take_over_work
    <3>3. DOMAIN <<>> = {}
      OBVIOUS
    <3>4. Numbered(c)' /\ Nested(c)'
      BY <3>1, <3>2, <3>3 DEF Numbered, Nested
    <3>5. remove_sequence'[c] = remove_sequence[c] /\ insert_sequence'[c] = insert_sequence[c]
      BY <2>2, <2>3 DEF MovesTo, Types
    <3> QED
      BY <3>4, <3>5 DEF CountedOn, AllCounted
  <2>6. \A b \in CPU \ {c, d} : CountKept(b)
    BY <2>2, <2>3 DEF CountKept, MovesTo, Live, Types
  <2>7. \A b \in CPU : CountedOn(b)'
    BY <2>4, <2>5, <2>6, CountedOnKept DEF AllCounted
  <2> QED
    BY <2>7 DEF AllCounted
<1> QED
  BY <1>0, <1>1, <1>2, <1>3, <1>4, <1>5, <1>6, <1>7, <1>8, <1>9, <1>10, <1>11, <1>12,
     <1>13, <1>14, <1>15, <1>16, <1>17, <1>18, <1>19, <1>20, <1>21, <1>22, <1>23
  DEF Next, Submit, Deliver, Worker, Flushes, Down

(* A step that changes the stack of CPU c at most. *)
LEMMA FramesOn ==
  ASSUME Frames, NEW c \in CPU, \A b \in CPU \ {c} : stack'[b] = stack[b],
         \A q \in Inside : fl'[q].pc # "idle" => fl[q].pc # "idle" \/ q[2] = c,
         \A d \in 1..MaxDepth : fl'[<<"work", c, d>>].pc # "idle" =>
           d <= Len(stack'[c]) /\ stack'[c][d].flushed
  PROVE  Frames'
<1> SUFFICES ASSUME NEW b \in CPU, NEW d \in 1..MaxDepth, fl'[<<"work", b, d>>].pc # "idle"
             PROVE  d <= Len(stack'[b]) /\ stack'[b][d].flushed
  BY DEF Frames
<1>1. CASE b = c
  BY <1>1
<1>2. CASE b # c
  <2>1. <<"work", b, d>> \in Inside /\ <<"work", b, d>>[2] = b
    BY DEF Inside
  <2> QED
    BY <1>2, <2>1 DEF Frames
<1> QED
  BY <1>1, <1>2

(* A step that leaves the stacks alone and starts no flush of one's own. *)
LEMMA FramesKept ==
  ASSUME Frames, stack' = stack,
         \A q \in Inside : fl'[q].pc # "idle" => fl[q].pc # "idle"
  PROVE  Frames'
<1> SUFFICES ASSUME NEW b \in CPU, NEW d \in 1..MaxDepth, fl'[<<"work", b, d>>].pc # "idle"
             PROVE  d <= Len(stack[b]) /\ stack[b][d].flushed
  BY DEF Frames
<1>1. <<"work", b, d>> \in Inside
  BY DEF Inside
<1> QED
  BY <1>1 DEF Frames

(* A work is taken after k outer ones, of which alone some are flushing. *)
LEMMA FramesTakes ==
  ASSUME Base, Frames, NEW c \in CPU, NEW k, Takes(c, k),
         \A q \in Inside : fl'[q].pc # "idle" => fl[q].pc # "idle",
         \A d \in 1..MaxDepth : fl[<<"work", c, d>>].pc # "idle" => d <= k
  PROVE  Frames'
<1>1. ASSUME NEW d \in 1..MaxDepth, fl'[<<"work", c, d>>].pc # "idle"
      PROVE  d <= Len(stack'[c]) /\ stack'[c][d].flushed
  <2>1. <<"work", c, d>> \in Inside
    BY DEF Inside
  <2>2. d <= k /\ stack[c][d].flushed
    BY <1>1, <2>1 DEF Frames
  <2>3. k \in Nat /\ Len(stack'[c]) = k + 1 /\ stack'[c][d] = stack[c][d]
    BY <2>2 DEF Takes
  <2> QED
    BY <2>2, <2>3
<1>2. \A b \in CPU \ {c} : stack'[b] = stack[b]
  BY DEF Takes, OnlyStack
<1> QED
  BY <1>1, <1>2, FramesOn

(* What a flusher is put in, if it is not idle, it was not idle before. *)
LEMMA FlushesOn ==
  ASSUME Types, NEW p \in Flusher, NEW r \in FlushState, Flush(p, r),
         p \in Outside \/ fl[p].pc # "idle"
  PROVE  \A q \in Inside : fl'[q].pc # "idle" => fl[q].pc # "idle"
<1> SUFFICES ASSUME NEW q \in Inside, fl'[q].pc # "idle" PROVE fl[q].pc # "idle"
  OBVIOUS
<1>1. q \in Flusher
  BY DEF Flusher
<1>2. q # p => fl'[q] = fl[q]
  BY <1>1, FlushType
<1> QED
  BY <1>2, Owners

(* Every step keeps the flushing works on the stack. *)
LEMMA FramesStep == Base /\ Frames /\ [Next]_vars => Frames'
<1> SUFFICES ASSUME Base /\ Frames, [Next]_vars PROVE Frames'
  OBVIOUS
<1> Types /\ Base /\ Frames
  BY DEF Base
<1>0. CASE UNCHANGED vars
  BY <1>0, FramesKept DEF vars
<1>1. ASSUME NEW c \in CPU, NEW w \in Work, queue_work(c, w) PROVE Frames'
  BY <1>1, FramesKept DEF queue_work
<1>2. ASSUME NEW w \in Work, queue_delayed_work(w) PROVE Frames'
  BY <1>2, FramesKept DEF queue_delayed_work
<1>3. ASSUME NEW w \in Work, cancel_delayed_work(w) PROVE Frames'
  BY <1>3, FramesKept DEF cancel_delayed_work
<1>4. ASSUME NEW c \in CPU, NEW w \in Work, timer_expires(w, c) PROVE Frames'
  BY <1>4, FramesKept DEF timer_expires
<1>5. ASSUME NEW w \in Work, link_work(w) PROVE Frames'
  BY <1>5, FramesKept DEF link_work
<1>6. ASSUME NEW c \in CPU, worker_loop(c) PROVE Frames'
  BY <1>6, FramesKept DEF worker_loop
<1>7. ASSUME NEW c \in CPU, worker_exit(c) PROVE Frames'
  BY <1>7, FramesKept DEF worker_exit
<1>8. ASSUME NEW c \in CPU, worker_check(c) PROVE Frames'
  BY <1>8, FramesKept DEF worker_check
<1>9. ASSUME NEW c \in CPU, worker_wakes(c) PROVE Frames'
  BY <1>9, FramesKept DEF worker_wakes
<1>10. ASSUME NEW c \in CPU, worker_awake(c) PROVE Frames'
  <2>1. CASE worklist[c] # <<>>
    <3>1. Takes(c, Len(stack[c]))
      BY <1>10, <2>1, DequeueNested DEF worker_awake
    <3>2. \A d \in 1..MaxDepth : fl[<<"work", c, d>>].pc # "idle" => d <= Len(stack[c])
      BY DEF Frames
    <3> QED
      BY <1>10, <3>1, <3>2, FramesTakes DEF worker_awake
  <2>2. CASE worklist[c] = <<>>
    BY <1>10, <2>2, FramesKept DEF worker_awake
  <2> QED
    BY <2>1, <2>2
<1>11. ASSUME NEW c \in CPU, clear_pending(c) PROVE Frames'
  BY <1>11, FramesKept DEF clear_pending
<1>12. ASSUME NEW c \in CPU, flush_run(c) PROVE Frames'
  <2>0. Me(c) \in Flusher /\ fl[Me(c)] \in FlushState
    BY <1>12, MeType DEF flush_run
  <2>1. PICK r \in FlushState : r = [fl[Me(c)] EXCEPT !.todo = @ \ {c}]
    BY <2>0 DEF FlushState
  <2>2. Flush(Me(c), r) /\ fl[Me(c)].pc # "idle"
    BY <1>12, <2>1 DEF flush_run
  <2>3. \A q \in Inside : fl'[q].pc # "idle" => fl[q].pc # "idle"
    BY <2>0, <2>2, FlushesOn
  <2>4. CASE worklist[c] # <<>>
    <3>1. Takes(c, Len(stack[c]))
      BY <1>12, <2>4, DequeueNested DEF flush_run
    <3>2. \A d \in 1..MaxDepth : fl[<<"work", c, d>>].pc # "idle" => d <= Len(stack[c])
      BY DEF Frames
    <3> QED
      BY <2>3, <3>1, <3>2, FramesTakes
  <2>5. CASE worklist[c] = <<>>
    BY <1>12, <2>3, <2>5, FramesKept DEF flush_run
  <2> QED
    BY <2>4, <2>5
<1>13. ASSUME NEW c \in CPU, work_done(c) PROVE Frames'
  <2>1. fl' = fl /\ fl[<<"work", c, Len(stack[c])>>].pc = "idle"
    BY <1>13 DEF work_done, Me, Depth
  <2>2. stack[c] \in Seq(Entry)
    BY DEF Types
  <2>3. \A d \in 1..MaxDepth : fl[<<"work", c, d>>].pc # "idle" => d <= Len(stack[c]) - 1
    <3>1. Len(stack[c]) \in Nat
      BY <2>2
    <3>2. \A d \in 1..MaxDepth : fl[<<"work", c, d>>].pc # "idle" =>
            d <= Len(stack[c]) /\ d # Len(stack[c])
      BY <2>1 DEF Frames
    <3> QED
      BY <3>1, <3>2
  <2>4. CASE Takes(c, Len(stack[c]) - 1)
    BY <2>1, <2>3, <2>4, FramesTakes
  <2>5. CASE Leaves(c)
    <3>1. ASSUME NEW d \in 1..MaxDepth, fl'[<<"work", c, d>>].pc # "idle"
          PROVE  d <= Len(stack'[c]) /\ stack'[c][d].flushed
      <4>1. d <= Len(stack[c]) - 1 /\ stack[c][d].flushed
        BY <2>1, <2>3, <3>1 DEF Frames
      <4>2. Len(stack[c]) \in Nat /\ d \in 1..(Len(stack[c]) - 1)
        BY <2>2, <4>1
      <4> QED
        BY <2>5, <4>1, <4>2 DEF Leaves
    <3>2. \A b \in CPU \ {c} : stack'[b] = stack[b]
      BY <2>5 DEF Leaves, OnlyStack
    <3> QED
      BY <2>1, <3>1, <3>2, FramesOn
  <2> QED
    BY <1>13, <2>4, <2>5, DoneEffect
<1>14. ASSUME NEW c \in CPU, flush_own_queue(c) PROVE Frames'
  <2>1. /\ Marks(c) /\ Me(c) \in Flusher /\ fl[Me(c)] \in FlushState /\ Depth(c) = Len(stack[c])
    BY <1>14, OwnEffect, MeType DEF flush_own_queue
  <2>2. PICK r \in FlushState : r = [fl[Me(c)] EXCEPT !.pc = "want"]
    BY <2>1 DEF FlushState
  <2>3. \A q \in Flusher : q # Me(c) => fl'[q] = fl[q]
    BY <1>14, <2>1, <2>2, FlushType DEF flush_own_queue
  <2>4. PICK m \in Nat : m = Len(stack[c]) /\ m >= 1 /\ Len(stack'[c]) = m
    BY <2>1 DEF Marks
  <2>5. ASSUME NEW d \in 1..MaxDepth, fl'[<<"work", c, d>>].pc # "idle"
        PROVE  d <= Len(stack'[c]) /\ stack'[c][d].flushed
    <3>1. CASE d = m
      BY <2>1, <2>4, <3>1 DEF Marks
    <3>2. CASE d # m
      <4>1. <<"work", c, d>> \in Flusher /\ <<"work", c, d>> # Me(c)
        BY <2>1, <2>4, <3>2 DEF Flusher, Inside, Me
      <4>2. d <= m /\ stack[c][d].flushed
        BY <2>3, <2>4, <2>5, <4>1 DEF Frames
      <4>3. d \in 1..(m - 1)
        BY <2>4, <3>2, <4>2
      <4> QED
        BY <2>1, <2>4, <4>2, <4>3 DEF Marks
    <3> QED
      BY <3>1, <3>2
  <2>6. \A q \in Inside : fl'[q].pc # "idle" => fl[q].pc # "idle" \/ q[2] = c
    BY <2>3 DEF Flusher, Me
  <2>7. \A b \in CPU \ {c} : stack'[b] = stack[b]
    BY <2>1 DEF Marks, OnlyStack
  <2> QED
    BY <2>5, <2>6, <2>7, FramesOn
<1>15. ASSUME NEW c \in CPU, cpu_down(c) PROVE Frames'
  BY <1>15, FramesKept DEF cpu_down
<1>16. ASSUME NEW c \in CPU, cpu_up(c) PROVE Frames'
  BY <1>16, FramesKept DEF cpu_up
<1>17. ASSUME NEW p \in Flusher, flush_workqueue(p) PROVE Frames'
  <2>1. PICK r \in FlushState : r = [fl[p] EXCEPT !.pc = "want"]
    BY GoesOn DEF Types
  <2>2. Flush(p, r) /\ (p \in Outside \/ fl[p].pc # "idle") /\ stack' = stack
    BY <1>17, <2>1 DEF flush_workqueue
  <2> QED
    BY <2>2, FlushesOn, FramesKept
<1>18. ASSUME NEW p \in Flusher, flush_lock(p) PROVE Frames'
  <2>1. PICK r \in FlushState : r = [pc |-> "visit", todo |-> IF single THEN {0} ELSE online,
                               cpu |-> 0, needed |-> 0]
    BY CPUFacts DEF FlushState, Types
  <2>2. Flush(p, r) /\ (p \in Outside \/ fl[p].pc # "idle") /\ stack' = stack
    BY <1>18, <2>1 DEF flush_lock
  <2> QED
    BY <2>2, FlushesOn, FramesKept
<1>19. ASSUME NEW p \in Flusher, flush_sample(p) PROVE Frames'
  <2>1. fl[p].todo \in SUBSET CPU
    BY DEF Types, FlushState
  <2>2. PICK c \in CPU : c = NextCPU(fl[p].todo)
    BY <1>19, <2>1, NextCPUType DEF flush_sample
  <2>3. PICK r \in FlushState : r = [pc |-> "wait", todo |-> fl[p].todo \ {c}, cpu |-> c,
                                    needed |-> insert_sequence[c]]
    BY <2>1 DEF FlushState, Types
  <2>4. Flush(p, r) /\ fl[p].pc # "idle" /\ stack' = stack
    BY <1>19, <2>2, <2>3 DEF flush_sample
  <2> QED
    BY <2>4, FlushesOn, FramesKept
<1>20. ASSUME NEW p \in Flusher, flush_waited(p) PROVE Frames'
  <2>1. PICK r \in FlushState : r = [fl[p] EXCEPT !.pc = "visit"]
    BY GoesOn DEF Types
  <2>2. Flush(p, r) /\ (p \in Outside \/ fl[p].pc # "idle") /\ stack' = stack
    BY <1>20, <2>1 DEF flush_waited
  <2> QED
    BY <2>2, FlushesOn, FramesKept
<1>21. ASSUME NEW p \in Flusher, flush_return(p) PROVE Frames'
  <2>1. PICK r \in FlushState : r = [fl[p] EXCEPT !.pc = IF p \in Outside THEN "done" ELSE "idle"]
    BY GoesHome DEF Types
  <2>2. Flush(p, r) /\ (p \in Outside \/ fl[p].pc # "idle") /\ stack' = stack
    BY <1>21, <2>1 DEF flush_return
  <2> QED
    BY <2>2, FlushesOn, FramesKept
<1>22. ASSUME cleanup_workqueue_thread PROVE Frames'
  BY <1>22, FramesKept DEF cleanup_workqueue_thread
<1>23. ASSUME NEW d \in CPU, take_over_work(d) PROVE Frames'
  BY <1>23, FramesKept DEF take_over_work
<1> QED
  BY <1>0, <1>1, <1>2, <1>3, <1>4, <1>5, <1>6, <1>7, <1>8, <1>9, <1>10, <1>11, <1>12,
     <1>13, <1>14, <1>15, <1>16, <1>17, <1>18, <1>19, <1>20, <1>21, <1>22, <1>23
  DEF Next, Submit, Deliver, Worker, Flushes, Down

(* A step that does not set remove_sequence back, and puts no flusher       *)
(* behind a CPU it has not waited for.                                      *)
LEMMA WaitedKept ==
  ASSUME Types, Waited, remove_sequence' \in [CPU -> Nat],
         \A c \in CPU : remove_sequence[c] <= remove_sequence'[c],
         \A p \in Flusher : fl'[p].pc = "visit" =>
           \/ fl[p].pc = "visit" /\ fl'[p].cpu = fl[p].cpu /\ fl'[p].needed = fl[p].needed
           \/ fl'[p].cpu \in CPU /\ fl'[p].needed <= remove_sequence'[fl'[p].cpu]
  PROVE  Waited'
<1> SUFFICES ASSUME NEW p \in Flusher, fl'[p].pc = "visit"
             PROVE  fl'[p].needed <= remove_sequence'[fl'[p].cpu]
  BY DEF Waited
<1>1. CASE fl[p].pc = "visit" /\ fl'[p].cpu = fl[p].cpu /\ fl'[p].needed = fl[p].needed
  <2>1. PICK c \in CPU, n \in Nat : c = fl[p].cpu /\ n = fl[p].needed
    BY DEF Types, FlushState
  <2>2. PICK R \in Nat, R2 \in Nat : R = remove_sequence[c] /\ R2 = remove_sequence'[c]
    BY DEF Types
  <2>3. n <= R /\ R <= R2
    BY <1>1, <2>1, <2>2 DEF Waited
  <2>4. n <= R2
    BY <2>3
  <2> QED
    BY <1>1, <2>1, <2>2, <2>4
<1>2. CASE fl'[p].cpu \in CPU /\ fl'[p].needed <= remove_sequence'[fl'[p].cpu]
  BY <1>2
<1> QED
  BY <1>1, <1>2

(* The same, of a step that changes neither. *)
LEMMA WaitedSame ==
  ASSUME Waited, UNCHANGED <<remove_sequence, fl>>
  PROVE  Waited'
BY DEF Waited

(* Every step keeps what a flusher has waited for. *)
LEMMA WaitedStep == Base /\ Plugged /\ Waited /\ [Next]_vars => Waited'
<1> SUFFICES ASSUME Base /\ Plugged /\ Waited, [Next]_vars PROVE Waited'
  OBVIOUS
<1> Types /\ Base /\ Control /\ Waited
  BY DEF Base, Plugged
<1>0. CASE UNCHANGED vars
  BY <1>0, WaitedSame DEF vars, seqs
<1>1. ASSUME NEW c \in CPU, NEW w \in Work, queue_work(c, w) PROVE Waited'
  BY <1>1, WaitedSame DEF queue_work, seqs
<1>2. ASSUME NEW w \in Work, queue_delayed_work(w) PROVE Waited'
  BY <1>2, WaitedSame DEF queue_delayed_work, seqs
<1>3. ASSUME NEW w \in Work, cancel_delayed_work(w) PROVE Waited'
  BY <1>3, WaitedSame DEF cancel_delayed_work, seqs
<1>4. ASSUME NEW c \in CPU, NEW w \in Work, timer_expires(w, c) PROVE Waited'
  BY <1>4, WaitedSame DEF timer_expires, seqs
<1>5. ASSUME NEW w \in Work, link_work(w) PROVE Waited'
  BY <1>5, WaitedSame DEF link_work, seqs
<1>6. ASSUME NEW c \in CPU, worker_loop(c) PROVE Waited'
  BY <1>6, WaitedSame DEF worker_loop, seqs
<1>7. ASSUME NEW c \in CPU, worker_exit(c) PROVE Waited'
  BY <1>7, WaitedSame DEF worker_exit, seqs
<1>8. ASSUME NEW c \in CPU, worker_check(c) PROVE Waited'
  BY <1>8, WaitedSame DEF worker_check, seqs
<1>9. ASSUME NEW c \in CPU, worker_wakes(c) PROVE Waited'
  BY <1>9, WaitedSame DEF worker_wakes, seqs
<1>10. ASSUME NEW c \in CPU, worker_awake(c) PROVE Waited'
  BY <1>10, WaitedSame DEF worker_awake, seqs
<1>11. ASSUME NEW c \in CPU, clear_pending(c) PROVE Waited'
  BY <1>11, WaitedSame DEF clear_pending, seqs
<1>12. ASSUME NEW c \in CPU, flush_run(c) PROVE Waited'
  <2>1. Me(c) \in Flusher /\ fl[Me(c)] \in FlushState
    BY <1>12, MeType DEF flush_run, Types
  <2>2. PICK r \in FlushState : r = [fl[Me(c)] EXCEPT !.todo = @ \ {c}]
    BY <2>1, CPUFacts DEF FlushState, Types
  <2>3. fl'[Me(c)] = r /\ \A q \in Flusher : q # Me(c) => fl'[q] = fl[q]
    BY <1>12, <2>1, <2>2, FlushType DEF flush_run
  <2>4. /\ remove_sequence' = remove_sequence /\ remove_sequence \in [CPU -> Nat]
        /\ \A d \in CPU : remove_sequence[d] <= remove_sequence[d]
    BY <1>12 DEF flush_run, seqs, Types
  <2>5. fl[Me(c)].pc = "visit" /\ r.cpu = fl[Me(c)].cpu /\ r.needed = fl[Me(c)].needed
    BY <1>12, <2>1, <2>2 DEF flush_run, FlushState
  <2> QED
    BY <2>1, <2>3, <2>4, <2>5, WaitedKept
<1>13. ASSUME NEW c \in CPU, work_done(c) PROVE Waited'
  <2>1. fl' = fl /\ remove_sequence' = [remove_sequence EXCEPT ![c] = remove_sequence[c] + 1]
    BY <1>13 DEF work_done
  <2>2. remove_sequence' \in [CPU -> Nat]
    BY <2>1 DEF Types
  <2>3. ASSUME NEW d \in CPU PROVE remove_sequence[d] <= remove_sequence'[d]
    <3>1. PICK R \in Nat : R = remove_sequence[d]
      BY DEF Types
    <3>2. R <= R + 1 /\ R <= R
      OBVIOUS
    <3>3. remove_sequence'[d] = R \/ remove_sequence'[d] = R + 1
      BY <2>1, <3>1 DEF Types
    <3> QED
      BY <3>1, <3>2, <3>3
  <2> QED
    BY <2>1, <2>2, <2>3, WaitedKept
<1>14. ASSUME NEW c \in CPU, flush_own_queue(c) PROVE Waited'
  <2>1. Me(c) \in Flusher /\ fl[Me(c)] \in FlushState
    BY <1>14, MeType DEF flush_own_queue, Types
  <2>2. PICK r \in FlushState : r = [fl[Me(c)] EXCEPT !.pc = "want"]
    BY <2>1, CPUFacts DEF FlushState, Types
  <2>3. fl'[Me(c)] = r /\ \A q \in Flusher : q # Me(c) => fl'[q] = fl[q]
    BY <1>14, <2>1, <2>2, FlushType DEF flush_own_queue
  <2>4. /\ remove_sequence' = remove_sequence /\ remove_sequence \in [CPU -> Nat]
        /\ \A d \in CPU : remove_sequence[d] <= remove_sequence[d]
    BY <1>14 DEF flush_own_queue, seqs, Types
  <2>5. r.pc # "visit"
    BY <2>1, <2>2 DEF FlushState
  <2> QED
    BY <2>1, <2>3, <2>4, <2>5, WaitedKept
<1>15. ASSUME NEW c \in CPU, cpu_down(c) PROVE Waited'
  BY <1>15, WaitedSame DEF cpu_down, seqs
<1>16. ASSUME NEW c \in CPU, cpu_up(c) PROVE Waited'
  <2>1. ~single /\ fl' = fl
    BY <1>16 DEF cpu_up, Control
  <2>2. \A p \in Flusher : fl[p].pc # "visit"
    BY <1>16, <2>1, Owners DEF cpu_up, Control
  <2> QED
    BY <2>1, <2>2 DEF Waited
<1>17. ASSUME NEW p \in Flusher, flush_workqueue(p) PROVE Waited'
  <2>1. p \in Flusher /\ fl[p] \in FlushState
    BY <1>17 DEF flush_workqueue, Types
  <2>2. PICK r \in FlushState : r = [fl[p] EXCEPT !.pc = "want"]
    BY <2>1, GoesOn
  <2>3. fl'[p] = r /\ \A q \in Flusher : q # p => fl'[q] = fl[q]
    BY <1>17, <2>1, <2>2, FlushType DEF flush_workqueue
  <2>4. /\ remove_sequence' = remove_sequence /\ remove_sequence \in [CPU -> Nat]
        /\ \A d \in CPU : remove_sequence[d] <= remove_sequence[d]
    BY <1>17 DEF flush_workqueue, seqs, Types
  <2>5. r.pc # "visit"
    BY <2>1, <2>2 DEF FlushState
  <2> QED
    BY <2>1, <2>3, <2>4, <2>5, WaitedKept
<1>18. ASSUME NEW p \in Flusher, flush_lock(p) PROVE Waited'
  <2>1. p \in Flusher /\ fl[p] \in FlushState
    BY <1>18 DEF flush_lock, Types
  <2>2. PICK r \in FlushState : r = [pc |-> "visit", todo |-> IF single THEN {0} ELSE online,
                                    cpu |-> 0, needed |-> 0]
    BY <2>1, CPUFacts DEF FlushState, Types
  <2>3. fl'[p] = r /\ \A q \in Flusher : q # p => fl'[q] = fl[q]
    BY <1>18, <2>1, <2>2, FlushType DEF flush_lock
  <2>4. /\ remove_sequence' = remove_sequence /\ remove_sequence \in [CPU -> Nat]
        /\ \A d \in CPU : remove_sequence[d] <= remove_sequence[d]
    BY <1>18 DEF flush_lock, seqs, Types
  <2>5. r.cpu \in CPU /\ r.needed <= remove_sequence[r.cpu]
    <3>1. r.cpu = 0 /\ r.needed = 0 /\ remove_sequence[0] \in Nat
      BY <2>2, CPUFacts DEF Types
    <3>2. 0 <= remove_sequence[0]
      BY <3>1
    <3> QED
      BY <3>1, <3>2, CPUFacts
  <2> QED
    BY <2>1, <2>3, <2>4, <2>5, WaitedKept
<1>19. ASSUME NEW p \in Flusher, flush_sample(p) PROVE Waited'
  <2>1. fl[p].todo \in SUBSET CPU
    BY DEF Types, FlushState
  <2>2. PICK c \in CPU : c = NextCPU(fl[p].todo)
    BY <1>19, <2>1, NextCPUType DEF flush_sample
  <2>3. PICK r \in FlushState : r = [pc |-> "wait", todo |-> fl[p].todo \ {c}, cpu |-> c,
                                    needed |-> insert_sequence[c]]
    BY <2>1 DEF FlushState, Types
  <2>4. fl'[p] = r /\ \A q \in Flusher : q # p => fl'[q] = fl[q]
    BY <1>19, <2>2, <2>3, FlushType DEF flush_sample
  <2>5. r.pc # "visit" /\ remove_sequence' = remove_sequence
    BY <1>19, <2>3 DEF flush_sample, seqs
  <2> QED
    BY <2>4, <2>5 DEF Waited
<1>20. ASSUME NEW p \in Flusher, flush_waited(p) PROVE Waited'
  <2>1. p \in Flusher /\ fl[p] \in FlushState
    BY <1>20 DEF flush_waited, Types
  <2>2. PICK r \in FlushState : r = [fl[p] EXCEPT !.pc = "visit"]
    BY <2>1, GoesOn
  <2>3. fl'[p] = r /\ \A q \in Flusher : q # p => fl'[q] = fl[q]
    BY <1>20, <2>1, <2>2, FlushType DEF flush_waited
  <2>4. /\ remove_sequence' = remove_sequence /\ remove_sequence \in [CPU -> Nat]
        /\ \A d \in CPU : remove_sequence[d] <= remove_sequence[d]
    BY <1>20 DEF flush_waited, seqs, Types
  <2>5. r.cpu \in CPU /\ r.needed <= remove_sequence[r.cpu]
    <3>1. PICK c \in CPU, n \in Nat : c = fl[p].cpu /\ n = fl[p].needed
      BY <2>1 DEF FlushState
    <3>2. PICK R \in Nat : R = remove_sequence[c]
      BY DEF Types
    <3>3. n - R <= 0
      BY <1>20, <3>1, <3>2 DEF flush_waited
    <3>4. n <= R
      BY <3>3
    <3>5. r.cpu = c /\ r.needed = n
      BY <2>1, <2>2, <3>1 DEF FlushState
    <3> QED
      BY <3>2, <3>4, <3>5
  <2> QED
    BY <2>1, <2>3, <2>4, <2>5, WaitedKept
<1>21. ASSUME NEW p \in Flusher, flush_return(p) PROVE Waited'
  <2>1. p \in Flusher /\ fl[p] \in FlushState
    BY <1>21 DEF flush_return, Types
  <2>2. PICK r \in FlushState : r = [fl[p] EXCEPT !.pc = IF p \in Outside THEN "done" ELSE "idle"]
    BY <2>1, GoesHome
  <2>3. fl'[p] = r /\ \A q \in Flusher : q # p => fl'[q] = fl[q]
    BY <1>21, <2>1, <2>2, FlushType DEF flush_return
  <2>4. /\ remove_sequence' = remove_sequence /\ remove_sequence \in [CPU -> Nat]
        /\ \A d \in CPU : remove_sequence[d] <= remove_sequence[d]
    BY <1>21 DEF flush_return, seqs, Types
  <2>5. r.pc # "visit"
    BY <2>1, <2>2 DEF FlushState
  <2> QED
    BY <2>1, <2>3, <2>4, <2>5, WaitedKept
<1>22. ASSUME cleanup_workqueue_thread PROVE Waited'
  BY <1>22, WaitedSame DEF cleanup_workqueue_thread, seqs
<1>23. ASSUME NEW d \in CPU, take_over_work(d) PROVE Waited'
  BY <1>23, WaitedSame DEF take_over_work, seqs
<1> QED
  BY <1>0, <1>1, <1>2, <1>3, <1>4, <1>5, <1>6, <1>7, <1>8, <1>9, <1>10, <1>11, <1>12,
     <1>13, <1>14, <1>15, <1>16, <1>17, <1>18, <1>19, <1>20, <1>21, <1>22, <1>23
  DEF Next, Submit, Deliver, Worker, Flushes, Down

(* The three together. *)
LEMMA CountedStep == Base /\ Plugged /\ Counted /\ [Next]_vars => Counted'
BY AllCountedStep, FramesStep, WaitedStep DEF Counted, AllCounted

-----------------------------------------------------------------------------
(* The theorems. *)

(* The inductive invariant holds: the types and the worker's stack, the     *)
(* owner of cpucontrol, the place of every work_struct, and the sequence    *)
(* numbers against lists, stacks and flushers.                              *)
THEOREM Invariance == Spec => []IInv
<1>1. Init => IInv
  BY BaseInit, PluggedInit, PlacedInit, CountedInit DEF IInv
<1>2. IInv /\ [Next]_vars => IInv'
  BY BaseStep, PluggedStep, PlacedStep, CountedStep DEF IInv
<1> QED
  BY <1>1, <1>2, PTL DEF Spec

(* Every variable keeps its type, and remove_sequence never overtakes       *)
(* insert_sequence on any CPU.                                              *)
THEOREM TypeCorrect == Spec => []TypeOK
<1>1. IInv => TypeOK
  <2>1. ASSUME IInv PROVE \A c \in CPU : remove_sequence[c] <= insert_sequence[c]
    BY <2>1 DEF IInv, Counted, CountedOn
  <2> QED
    BY <2>1 DEF IInv, Base, Types, TypeOK, FlushState
<1> QED
  BY <1>1, Invariance, PTL

(* The pending bit keeps a work_struct in one place, so the BUG_ONs of      *)
(* queue_work(), queue_delayed_work() and run_workqueue() never trigger,    *)
(* however works are queued again, cancelled and taken over by other CPUs.  *)
THEOREM PendingIsExclusive == Spec => []PendingGuardsWork
<1>1. IInv => PendingGuardsWork
  <2> SUFFICES ASSUME IInv PROVE PendingGuardsWork
    OBVIOUS
  <2>1. Types /\ Base
    BY DEF IInv, Base
  <2>2. ASSUME NEW w \in Work, NEW c \in CPU, NEW i \in DOMAIN worklist[c],
               worklist[c][i].work = w
        PROVE  i \in Nat /\ At(c, i, w)
    <3>1. worklist[c] \in Seq(Entry)
      BY <2>1 DEF Types
    <3> QED
      BY <2>2, <3>1 DEF At
  <2>3. ASSUME NEW w \in Work, NEW c \in Linked(w)
        PROVE  c \in CPU /\ \E i \in Nat : At(c, i, w)
    BY <2>2, <2>3 DEF Linked
  <2>4. ASSUME NEW w \in Work
        PROVE  /\ adding[w] # NoCPU => pending[w] /\ ~timer[w] /\ Linked(w) = {}
               /\ timer[w] => pending[w] /\ Linked(w) = {}
               /\ \A c, d \in Linked(w) : c = d /\ wq_data[w] = c /\ pending[w]
    <3>1. InOnePlace(w)
      BY DEF IInv, Placed
    <3>2. \A c \in Linked(w) : c \in CPU /\ \E i \in Nat : At(c, i, w)
      BY <2>3
    <3> QED
      BY <3>1, <3>2 DEF InOnePlace
  <2>5. ASSUME NEW c \in CPU, wpc[c] = "taken"
        PROVE  /\ wq_data[Top(c).work] = c /\ pending[Top(c).work]
               /\ Linked(Top(c).work) = {}
    <3>1. PICK w \in Work : w = Top(c).work /\ Taken(c, w)
      BY <2>1, <2>5, MeType DEF Taken
    <3>2. InOnePlace(w)
      BY DEF IInv, Placed
    <3>3. \A d \in Linked(w) : d \in CPU /\ \E i \in Nat : At(d, i, w)
      BY <2>3
    <3> QED
      BY <3>1, <3>2, <3>3 DEF InOnePlace
  <2>6. ASSUME NEW c \in CPU, NEW i \in DOMAIN worklist[c], NEW j \in DOMAIN worklist[c],
               worklist[c][i].work = worklist[c][j].work
        PROVE  i = j
    <3>0. worklist[c] \in Seq(Entry)
      BY <2>1 DEF Types
    <3>1. worklist[c][i] \in Entry
      BY <3>0
    <3>2. PICK w \in Work : w = worklist[c][i].work
      BY <3>1 DEF Entry
    <3>3. InOnePlace(w) /\ i \in Nat /\ j \in Nat /\ At(c, i, w) /\ At(c, j, w)
      BY <2>2, <2>6, <3>2 DEF IInv, Placed
    <3> QED
      BY <3>3 DEF InOnePlace
  <2> QED
    BY <2>4, <2>5, <2>6 DEF PendingGuardsWork
<1> QED
  BY <1>1, Invariance, PTL

(* A flusher that has seen remove_sequence reach the number it sampled      *)
(* leaves no work behind that was queued before, on any CPU, but one that   *)
(* flushed the queue it runs from: cpu_down() does not set the numbers back *)
(* under it, and nested run_workqueue() calls keep them in order.           *)
THEOREM FlushIsComplete == Spec => []FlushWaitsForQueued
<1>1. IInv => FlushWaitsForQueued
  <2> SUFFICES ASSUME IInv, NEW p \in Flusher, fl[p].pc = "visit",
                      NEW e \in Unfinished(fl[p].cpu), ~e.flushed
               PROVE  e.seq > fl[p].needed
    BY DEF FlushWaitsForQueued
  <2>1. Types
    BY DEF IInv, Base
  <2>2. PICK c \in CPU, N \in Nat : c = fl[p].cpu /\ N = fl[p].needed
    BY <2>1 DEF Types, FlushState
  <2>3. PICK R \in Nat : R = remove_sequence[c]
    BY <2>1 DEF Types
  <2>4. N <= R
    BY <2>2, <2>3 DEF IInv, Counted, Waited
  <2>5. worklist[c] \in Seq(Entry) /\ stack[c] \in Seq(Entry)
    BY <2>1 DEF Types
  <2>6. PICK m \in Nat : m = Len(stack[c]) /\ DOMAIN stack[c] = 1..m
    BY <2>5
  <2>7. Live(c)
    <3>1. CASE worklist[c] = <<>> /\ stack[c] = <<>>
      <4>1. DOMAIN <<>> = {}
        OBVIOUS
      <4> QED
        BY <2>2, <3>1, <4>1 DEF Unfinished
    <3> QED
      BY <3>1 DEF IInv, Plugged, Settled
  <2>8. PICK L \in Int : L = LastTaken(c) /\ L = R + m
    <3>1. LastTaken(c) = R + m
      BY <2>3, <2>6, <2>7 DEF IInv, Counted, CountedOn, Numbered
    <3> QED
      BY <3>1
  <2>9. CASE e \in {worklist[c][i] : i \in DOMAIN worklist[c]}
    <3>1. PICK i \in DOMAIN worklist[c] : e = worklist[c][i]
      BY <2>9
    <3>2. i \in Nat /\ i >= 1
      BY <2>5
    <3>3. e.seq = L + i
      BY <2>8, <3>1 DEF IInv, Counted, CountedOn, Numbered
    <3> QED
      BY <2>2, <2>4, <2>8, <3>2, <3>3
  <2>10. CASE e \in {stack[c][i] : i \in DOMAIN stack[c]}
    <3>1. PICK i \in DOMAIN stack[c] : e = stack[c][i]
      BY <2>10
    <3>2. i \in 1..m
      BY <2>6
    <3>3. e.seq = L
      BY <2>8, <3>1 DEF IInv, Counted, CountedOn, Nested
    <3> QED
      BY <2>2, <2>4, <2>8, <3>2, <3>3
  <2> QED
    BY <2>2, <2>9, <2>10 DEF Unfinished
<1> QED
  BY <1>1, Invariance, PTL

(* When cpu_down() is over, nothing is queued or running on a CPU that is   *)
(* down: stop_machine let the queue_work() sections finish, the worker      *)
(* returned from run_workqueue() before it stopped, and take_over_work()    *)
(* moved the rest.                                                          *)
THEOREM DeadCPUIsEmpty == Spec => []NoWorkOnDeadCPU
<1>1. IInv => NoWorkOnDeadCPU
  BY DEF IInv, Plugged, Settled, Live, NoWorkOnDeadCPU
<1> QED
  BY <1>1, Invariance, PTL

=============================================================================
