----------------------------- MODULE TimerProofs -----------------------------
(***************************************************************************)
(* Proofs about Timer.tla, for any number of CPUs, timers and users, and   *)
(* any size of the wheel.                                                  *)
(*                                                                         *)
(* The inductive invariant has four layers, each proved from the ones      *)
(* before it:                                                              *)
(*                                                                         *)
(*   Types, InStep   types, and how far an online CPU's base is behind;    *)
(*   Control   what a call, a softirq and migrate_timers() know of one     *)
(*             another, and who holds which lock of a base;                *)
(*   Placed    a timer is linked exactly while it has a base, and stays    *)
(*             where the holder of that base's lock has found it;          *)
(*   Synced    what del_timer_sync() has seen of the CPUs so far.          *)
(*                                                                         *)
(* A fifth, Timed, says when timers run.  It rests on the arithmetic of    *)
(* the wheel: each level reaches a power of 2 times as far as the one      *)
(* below it and starts over when all of those do, and a list of a level is *)
(* cascaded exactly in the turn its time begins.  It needs calls that do   *)
(* not last for half of the range of jiffies (Prompt).  A sixth, Owned,    *)
(* names the holder of every lock that is taken; from the order of the     *)
(* bases' locks, some holder waits for none.                               *)
(***************************************************************************)
EXTENDS Timer, FiniteSetTheorems, FunctionTheorems, WellFoundedInduction, TLAPS

(* An online base is at most one jiffy ahead and MaxLag behind. *)
InStep ==
  \A c \in online : Signed(jiffies - timer_jiffies[c]) \in -1..MaxLag

(* What a call in progress has by the place it is at. *)
Called(a) ==
  /\ pc[a] = "idle" => call[a] = NoCall
  /\ pc[a] # "idle" => call[a].timer \in Timer /\ call[a].op # "none"
  /\ pc[a] \in {"m_lock"} \cup ModSection <=> call[a].op = "mod"
  /\ pc[a] \in ModSection => /\ call[a].new \in online
                             /\ timer_lock[call[a].timer] = a
  /\ pc[a] = "m_lock1" => call[a].old \notin {NULL, call[a].new}
  /\ pc[a] \in {"d_lock", "d_do"} => call[a].old \in CPU
  /\ a \in CPU /\ pc[a] # "idle" =>
       /\ call[a].op = "mod" /\ rpc[a] = "handler"
       /\ call[a].timer = fired[a] /\ fired[a] \in periodic

Calling == \A a \in Agent : Called(a)

(* What a softirq has announced. *)
Running ==
  \A c \in CPU :
    /\ rpc[c] = "idle" => running_timer[c] = NoTimer
    /\ rpc[c] \in {"idle", "run"} => fired[c] = NoTimer
    /\ rpc[c] \in {"fire", "handler"} => /\ fired[c] \in Timer
                                         /\ running_timer[c] = fired[c]
    /\ c \notin online => rpc[c] = "idle"

Plugged ==
  /\ hpc = "none" => dead = NULL /\ heir = NULL
  /\ hpc # "none" => dead \in CPU \ online /\ heir \in online

(* The bases whose locks agent a, and migrate_timers(), hold by where they  *)
(* are.                                                                     *)
Holds(a, b) ==
  \/ a = b /\ rpc[b] \in {"run", "fire"}
  \/ /\ pc[a] = "m_lock2" /\ call[a].old \notin {NULL, call[a].new}
     /\ b = FirstOf(call[a].new, call[a].old)
  \/ pc[a] = "m_do" /\ (b = call[a].new \/ b = call[a].old)
  \/ pc[a] = "d_do" /\ b = call[a].old

Migrates(b) ==
  \/ hpc = "lock2" /\ b = FirstOf(heir, dead)
  \/ hpc = "move" /\ (b = heir \/ b = dead)

Locked ==
  \A b \in CPU :
    /\ \A a \in Agent : Holds(a, b) => base_lock[b] = a
    /\ Migrates(b) => base_lock[b] = Migrator

Control == Calling /\ Running /\ Plugged /\ Locked

(* The holder of a base's lock finds the timer there, linked. *)
Found(a) ==
  pc[a] \in {"m_do", "d_do"} =>
    /\ base[call[a].timer] = call[a].old
    /\ call[a].old # NULL => entry[call[a].timer] # NoList

(* A timer is linked while it has a base, ... *)
Linked ==
  \A t \in Timer :
    /\ base[t] = NULL => entry[t] = NoList
    /\ base[t] # NULL /\ entry[t] = NoList => rpc[base[t]] = "fire" /\ fired[base[t]] = t

(* ... and the one that a softirq takes off is its own until it clears      *)
(* timer->base.                                                             *)
Firing ==
  \A c \in CPU : rpc[c] = "fire" => base[fired[c]] = c /\ entry[fired[c]] = NoList

(* A timer's base is up, or migrate_timers() has still to empty it. *)
OnLiveBase ==
  \A t \in Timer : base[t] \in online \cup {NULL} \/ (hpc # "none" /\ base[t] = dead)

Placed == (\A a \in Agent : Found(a)) /\ Linked /\ Firing /\ OnLiveBase

(* Two bases that announce the same timer are on record. *)
Twice ==
  \A c, d \in CPU : c # d /\ running_timer[c] = running_timer[d]
                      => running_timer[c] \in twice \cup {NoTimer}

(* While del_timer_sync() or del_singleshot_timer_sync() is called, no      *)
(* other caller starts the timer.                                           *)
SyncOp == {"sync", "first", "single"}
Alone ==
  \A u, v \in User : call[u].op \in SyncOp /\ call[v].timer = call[u].timer
                       => call[v].op # "mod"

(* What user u has seen of its timer and of the CPUs so far. *)
Seen(u) ==
  LET t == call[u].timer
  IN  /\ call[u].op \in {"first", "single"} => t \notin periodic /\ call[u].ret = 0
      /\ call[u].op = "single" => base[t] = NULL /\ pc[u] \notin {"d_lock", "d_do"}
      /\ pc[u] \in {"s_look", "s_wait", "s_pending"} => call[u].op \in {"sync", "single"}
      /\ pc[u] \in {"s_look", "s_wait", "s_pending"} /\ t \notin periodic => base[t] = NULL
      /\ pc[u] = "s_look" /\ t \notin periodic =>
           \A c \in CPU : c < call[u].cpu => running_timer[c] # t
      /\ pc[u] = "s_wait" /\ t \notin periodic \cup twice =>
           \A c \in CPU : c # call[u].cpu => running_timer[c] # t
      /\ pc[u] = "s_pending" /\ t \notin periodic \cup twice =>
           \A c \in CPU : running_timer[c] # t

Synced == Twice /\ Alone /\ \A u \in User : Seen(u)

IInv == Types /\ InStep /\ Control /\ Placed /\ Synced
-----------------------------------------------------------------------------
(* Arithmetic. *)

(* A set of natural numbers has a least element. *)
LEMMA Least ==
  ASSUME NEW S, S \subseteq Nat, S # {}
  PROVE  \E m \in S : \A n \in S : m <= n
<1>1. PICK m \in S : \A n \in S : ~(<<n, m>> \in OpToRel(<, Nat))
  BY NatLessThanWellFounded, WFMin
<1>2. \A n \in S : ~(n < m)
  BY <1>1 DEF OpToRel
<1> QED
  BY <1>2

(* The size of a level of the wheel is a positive number; the library       *)
(* counts the subsets of a set of n elements.                               *)
LEMMA PowerOfTwo ==
  ASSUME NEW n \in Nat
  PROVE  2 ^ n \in Nat \ {0}
<1>1. IsFiniteSet(1..n) /\ Cardinality(1..n) = n
  BY FS_Interval
<1>2. IsFiniteSet(SUBSET (1..n)) /\ Cardinality(SUBSET (1..n)) = 2 ^ n
  BY <1>1, FS_SUBSET
<1>3. Cardinality(SUBSET (1..n)) \in Nat
  BY <1>2, FS_CardinalityType
<1>4. Cardinality(SUBSET (1..n)) # 0
  <2>1. SUBSET (1..n) # {}
    OBVIOUS
  <2> QED
    BY <1>2, <2>1, FS_EmptySet
<1> QED
  BY <1>2, <1>3, <1>4

(* Products of the widths are natural numbers. *)
LEMMA Product ==
  ASSUME NEW m \in Nat, NEW n \in Nat
  PROVE  m * n \in Nat
OBVIOUS

(* unsigned long has a positive number of values. *)
LEMMA WordType == Word \in Nat \ {0}
<1>1. TVR_BITS \in Nat /\ LEVELS - 1 \in Nat /\ TVN_BITS \in Nat
  BY TimerAssumption
<1>2. (LEVELS - 1) * TVN_BITS \in Nat
  BY <1>1, Product
<1>3. TVR_BITS + (LEVELS - 1) * TVN_BITS \in Nat
  BY <1>1, <1>2
<1> QED
  BY <1>3, PowerOfTwo DEF Word

(* Span(l) is a positive number for every level. *)
LEMMA SpanType ==
  ASSUME NEW l \in Nat \ {0}
  PROVE  Span(l) \in Nat \ {0}
<1>1. TVR_BITS \in Nat /\ l - 1 \in Nat /\ TVN_BITS \in Nat
  BY TimerAssumption
<1>2. (l - 1) * TVN_BITS \in Nat
  BY <1>1, Product
<1>3. TVR_BITS + (l - 1) * TVN_BITS \in Nat
  BY <1>1, <1>2
<1> QED
  BY <1>3, PowerOfTwo DEF Span

(* A remainder is below the divisor. *)
LEMMA Remainder ==
  ASSUME NEW x \in Int, NEW w \in Nat \ {0}
  PROVE  x % w \in 0..(w - 1)
OBVIOUS

(* Arithmetic modulo Word gives a word, ... *)
LEMMA Modulo == \A x \in Int : x % Word \in 0..(Word - 1)
BY WordType, Remainder

(* ... and the difference of two words a number. *)
LEMMA SignedType == \A x \in Int : Signed(x) \in Int
<1> TAKE x \in Int
<1>1. x % Word \in 0..(Word - 1) /\ Word \in Int
  BY Modulo, WordType
<1> QED
  BY <1>1 DEF Signed

(* Where a base is seen from jiffies is where jiffies is seen from the base. *)
LEMMA Behindhand ==
  ASSUME NEW j \in 0..(Word - 1), NEW b \in 0..(Word - 1), Signed(j - b) \in -1..MaxLag
  PROVE  Signed(b - j) <= 1
<1>1. PICK w \in Nat \ {0} : w = Word
  BY WordType
<1>2. MaxLag \in Nat /\ MaxLag < w \div 2
  BY <1>1, TimerAssumption
<1>3. j \in 0..(w - 1) /\ b \in 0..(w - 1)
  BY <1>1
<1>4. PICK y \in 0..(w - 1) : y = (j - b) % w
  BY <1>3
<1>5. PICK z \in 0..(w - 1) : z = (b - j) % w
  BY <1>3
<1>6. (y = 0 /\ z = 0) \/ y + z = w
  BY <1>3, <1>4, <1>5
<1>7. (IF y < w \div 2 THEN y ELSE y - w) \in -1..MaxLag
  BY <1>1, <1>4 DEF Signed
<1>8. (IF z < w \div 2 THEN z ELSE z - w) <= 1
  BY <1>2, <1>6, <1>7
<1> QED
  BY <1>1, <1>5, <1>8 DEF Signed

(* A jiffy passes. *)
LEMMA OneJiffy ==
  ASSUME NEW j \in 0..(Word - 1), NEW b \in 0..(Word - 1), NEW i,
         i = (j + 1) % Word, Signed(j - b) \in -1..MaxLag, Signed(j - b) < MaxLag
  PROVE  Signed(i - b) \in -1..MaxLag
<1>1. PICK w \in Nat \ {0} : w = Word
  BY WordType
<1>2. MaxLag \in Nat /\ MaxLag < w \div 2
  BY <1>1, TimerAssumption
<1>3. j \in 0..(w - 1) /\ b \in 0..(w - 1)
  BY <1>1
<1>4. PICK y \in 0..(w - 1) : y = (j - b) % w
  BY <1>3
<1>5. PICK s \in Int : s = Signed(j - b) /\ s = (IF y < w \div 2 THEN y ELSE y - w)
  BY <1>1, <1>4 DEF Signed
<1>6. s \in -1..MaxLag /\ s < MaxLag
  BY <1>5
<1>7. i \in 0..(w - 1) /\ i = (IF j + 1 = w THEN 0 ELSE j + 1)
  BY <1>1, <1>3
<1>8. PICK z \in 0..(w - 1) : z = (i - b) % w
  BY <1>3, <1>7
<1>9. z = (IF y + 1 = w THEN 0 ELSE y + 1)
  BY <1>3, <1>4, <1>7, <1>8
<1>10. (IF z < w \div 2 THEN z ELSE z - w) \in -1..MaxLag
  BY <1>2, <1>5, <1>6, <1>9
<1> QED
  BY <1>1, <1>8, <1>10 DEF Signed

(* The base makes a turn. *)
LEMMA OneTurn ==
  ASSUME NEW j \in 0..(Word - 1), NEW b \in 0..(Word - 1), NEW i,
         i = (b + 1) % Word, Signed(j - b) \in -1..MaxLag, Signed(j - b) >= 0
  PROVE  Signed(j - i) \in -1..MaxLag
<1>1. PICK w \in Nat \ {0} : w = Word
  BY WordType
<1>2. MaxLag \in Nat /\ MaxLag < w \div 2
  BY <1>1, TimerAssumption
<1>3. j \in 0..(w - 1) /\ b \in 0..(w - 1)
  BY <1>1
<1>4. PICK y \in 0..(w - 1) : y = (j - b) % w
  BY <1>3
<1>5. PICK s \in Int : s = Signed(j - b) /\ s = (IF y < w \div 2 THEN y ELSE y - w)
  BY <1>1, <1>4 DEF Signed
<1>6. s \in -1..MaxLag /\ s >= 0
  BY <1>5
<1>7. i \in 0..(w - 1) /\ i = (IF b + 1 = w THEN 0 ELSE b + 1)
  BY <1>1, <1>3
<1>8. PICK z \in 0..(w - 1) : z = (j - i) % w
  BY <1>3, <1>7
<1>9. z = (IF y = 0 THEN w - 1 ELSE y - 1)
  BY <1>3, <1>4, <1>7, <1>8
<1>10. (IF z < w \div 2 THEN z ELSE z - w) \in -1..MaxLag
  BY <1>2, <1>5, <1>6, <1>9
<1> QED
  BY <1>1, <1>8, <1>10 DEF Signed

(* CPUs, users and the marks for no one are all different. *)
LEMMA Kinds ==
  /\ CPU \subseteq Nat /\ \A c \in CPU : c < NR_CPUS
  /\ NULL \notin CPU /\ Nobody \notin Agent /\ Migrator \notin Agent
  /\ Nobody # Migrator /\ User \cap CPU = {} /\ Agent = User \cup CPU
<1>1. NR_CPUS \in Nat \ {0} /\ User \cap (-2..(NR_CPUS - 1)) = {}
  BY TimerAssumption
<1>2. CPU \subseteq Nat /\ \A c \in CPU : c < NR_CPUS
  BY <1>1 DEF CPU
<1>3. NULL \notin CPU /\ Nobody \notin CPU /\ Migrator \notin CPU /\ Nobody # Migrator
  BY <1>1 DEF CPU, NULL, Nobody, Migrator
<1>4. Nobody \notin User /\ Migrator \notin User /\ User \cap CPU = {}
  BY <1>1 DEF CPU, Nobody, Migrator
<1> QED
  BY <1>2, <1>3, <1>4 DEF Agent

(* The lists of one level. *)
Level(l) == IF l = 1 THEN 0..(2 ^ TVR_BITS - 1) ELSE 0..(2 ^ TVN_BITS - 1)

(* A time belongs to one of the lists of each level. *)
LEMMA IndexType ==
  ASSUME NEW l \in 1..LEVELS, NEW x \in Int
  PROVE  Index(l, x) \in Level(l)
<1>1. TVR_BITS \in Nat /\ TVN_BITS \in Nat /\ LEVELS \in Nat
  BY TimerAssumption
<1>2. 2 ^ TVR_BITS \in Nat \ {0} /\ 2 ^ TVN_BITS \in Nat \ {0}
  BY <1>1, PowerOfTwo
<1>3. CASE l = 1
  BY <1>2, <1>3, Remainder DEF Index, Level
<1>4. CASE l # 1
  <2>1. l - 1 \in Nat \ {0}
    BY <1>1, <1>4
  <2>2. Span(l - 1) \in Nat \ {0}
    BY <2>1, SpanType
  <2>3. x \div Span(l - 1) \in Int
    BY <2>2
  <2>4. (x \div Span(l - 1)) % 2 ^ TVN_BITS \in 0..(2 ^ TVN_BITS - 1)
    BY <1>2, <2>3, Remainder
  <2> QED
    BY <1>4, <2>4 DEF Index, Level
<1> QED
  BY <1>3, <1>4

(* The lists of the wheel, without the work_list. *)
OnWheel(e) == \E l \in 1..LEVELS : \E i \in Level(l) : e = <<l, i>>

(* The lists of the wheel are lists, and no timer in one is off all lists.  *)
LEMMA WheelLists ==
  ASSUME NEW e, OnWheel(e)
  PROVE  e \in Lists /\ e # NoList
<1>1. PICK l \in 1..LEVELS : \E i \in Level(l) : e = <<l, i>>
  BY DEF OnWheel
<1>2. PICK i \in Level(l) : e = <<l, i>>
  BY <1>1
<1>3. e # NoList
  <2>1. l # 0
    BY TimerAssumption
  <2> QED
    BY <1>2, <2>1 DEF NoList
<1>4. CASE l = 1
  <2>1. i \in 0..(2 ^ TVR_BITS - 1)
    BY <1>4 DEF Level
  <2>2. e = <<1, i>>
    BY <1>2, <1>4
  <2> QED
    BY <1>3, <2>1, <2>2 DEF Lists
<1>5. CASE l # 1
  <2>1. i \in 0..(2 ^ TVN_BITS - 1) /\ l \in 2..LEVELS
    BY <1>5, TimerAssumption DEF Level
  <2> QED
    BY <1>2, <1>3, <2>1 DEF Lists
<1> QED
  BY <1>4, <1>5

(* internal_add_timer() links the timer in a list of the wheel. *)
LEMMA AddsToWheel ==
  ASSUME timer_jiffies \in [CPU -> 0..(Word - 1)], NEW c \in CPU, NEW x \in Int
  PROVE  OnWheel(internal_add_timer(c, x))
<1>1. Word \in Nat \ {0} /\ LEVELS \in Nat \ {0}
  BY WordType, TimerAssumption
<1>2. timer_jiffies[c] \in Int
  BY <1>1
<1> DEFINE idx == Distance(c, x)
           fits == {l \in 1..(LEVELS - 1) : idx < Span(l)}
<1>3. CASE fits # {}
  <2>1. fits \subseteq Nat
    BY <1>1
  <2>2. \E m \in fits : \A n \in fits : m <= n
    <3> HIDE DEF fits
    <3> QED
      BY <1>3, <2>1, Least
  <2>3. PICK l \in fits : l = CHOOSE k \in fits : \A j \in fits : k <= j
    <3> HIDE DEF fits
    <3> QED
      BY <2>2
  <2>4. l \in 1..LEVELS
    BY <1>1, <2>3
  <2>5. internal_add_timer(c, x) = <<l, Index(l, x)>>
    BY <1>3, <2>3 DEF internal_add_timer
  <2>6. Index(l, x) \in Level(l)
    BY <2>4, IndexType
  <2> QED
    BY <2>4, <2>5, <2>6 DEF OnWheel
<1>4. CASE fits = {} /\ Signed(idx) < 0
  <2>1. internal_add_timer(c, x) = <<1, Index(1, timer_jiffies[c])>>
    BY <1>4 DEF internal_add_timer
  <2>2. 1 \in 1..LEVELS
    BY <1>1
  <2>3. Index(1, timer_jiffies[c]) \in Level(1)
    BY <1>2, <2>2, IndexType
  <2> QED
    BY <2>1, <2>2, <2>3 DEF OnWheel
<1>5. CASE fits = {} /\ ~(Signed(idx) < 0)
  <2>1. internal_add_timer(c, x) = <<LEVELS, Index(LEVELS, x)>>
    BY <1>5 DEF internal_add_timer
  <2>2. LEVELS \in 1..LEVELS
    BY <1>1
  <2>3. Index(LEVELS, x) \in Level(LEVELS)
    BY <2>2, IndexType
  <2> QED
    BY <2>1, <2>2, <2>3 DEF OnWheel
<1> QED
  BY <1>3, <1>4, <1>5

(* A turn of the softirq's loop links no timer and unlinks none. *)
LEMMA SplicedKeeps ==
  ASSUME timer_jiffies \in [CPU -> 0..(Word - 1)], expires \in [Timer -> 0..(Word - 1)],
         entry \in [Timer -> Lists], NEW c \in CPU, NEW t \in Timer
  PROVE  /\ Spliced(c, t) \in Lists
         /\ Spliced(c, t) = NoList <=> entry[t] = NoList
<1>1. expires[t] \in Int
  BY WordType
<1>2. OnWheel(internal_add_timer(c, expires[t]))
  BY <1>1, AddsToWheel
<1>3. internal_add_timer(c, expires[t]) \in Lists \ {NoList}
  BY <1>2, WheelLists
<1>4. WorkList \in Lists /\ WorkList # NoList
  BY DEF WorkList, NoList, Lists
<1>5. NoList \notin Cascaded(c)
  <2>1. LEVELS \in Nat
    BY TimerAssumption
  <2> QED
    BY <2>1 DEF NoList, Cascaded
<1>6. NoList # <<1, Index(1, timer_jiffies[c])>>
  BY DEF NoList
<1> QED
  BY <1>3, <1>4, <1>5, <1>6 DEF Spliced

-----------------------------------------------------------------------------
(* Calls. *)

Places == {"idle", "m_lock", "m_lock1", "m_lock2", "m_do", "d_read",
           "d_lock", "d_do", "s_look", "s_wait", "s_pending"}

(* Between calls. *)
LEMMA NoCallType == NoCall \in Call /\ NoCall.op = "none" /\ NoCall.ret = 0
<1>1. 0 \in 0..(Word - 1) /\ 0 \in 0..NR_CPUS
  BY WordType, TimerAssumption
<1> QED
  BY <1>1 DEF NoCall, Call

(* The records that calls go through: of __mod_timer(), ... *)
LEMMA NewMod ==
  ASSUME NEW t \in Timer, NEW x \in 0..(Word - 1)
  PROVE  LET k == [NoCall EXCEPT !.timer = t, !.op = "mod", !.x = x]
         IN  k \in Call /\ k.timer = t /\ k.op = "mod" /\ k.x = x
<1>1. 0 \in 0..NR_CPUS
  BY TimerAssumption
<1> QED
  BY <1>1 DEF NoCall, Call

(* ... of del_timer() and its like as they start, ... *)
LEMMA NewDel ==
  ASSUME NEW t \in Timer, NEW op \in {"del", "sync", "first"}
  PROVE  LET d == [NoCall EXCEPT !.timer = t, !.op = op]
         IN  d \in Call /\ d.timer = t /\ d.op = op /\ d.ret = 0
<1>1. 0 \in 0..(Word - 1) /\ 0 \in 0..NR_CPUS
  BY WordType, TimerAssumption
<1> QED
  BY <1>1 DEF NoCall, Call

(* ... when they have read timer->base, ... *)
LEMMA CallProbes ==
  ASSUME NEW k \in Call, NEW o \in CPU \cup {NULL}
  PROVE  LET d == [k EXCEPT !.old = o, !.cpu = 0]
         IN  /\ d \in Call /\ d.timer = k.timer /\ d.op = k.op /\ d.ret = k.ret
             /\ d.old = o
<1>1. 0 \in 0..NR_CPUS
  BY TimerAssumption
<1> QED
  BY <1>1 DEF Call

(* ... when del_timer_sync() starts to look at the CPUs, ... *)
LEMMA CallLooks ==
  ASSUME NEW k \in Call, NEW r \in {0, 1}
  PROVE  LET e == [k EXCEPT !.ret = r, !.old = NULL, !.cpu = 0]
         IN  /\ e \in Call /\ e.timer = k.timer /\ e.op = k.op
             /\ e.ret = r /\ e.cpu = 0
<1>1. 0 \in 0..NR_CPUS
  BY TimerAssumption
<1> QED
  BY <1>1 DEF Call

(* ... and as it, or del_singleshot_timer_sync(), goes on. *)
LEMMA CallGoesOn ==
  ASSUME NEW k \in Call, NEW i \in 0..NR_CPUS
  PROVE  LET d == [k EXCEPT !.op = "single"]
             s == [k EXCEPT !.cpu = i]
         IN  /\ d \in Call /\ d.timer = k.timer /\ d.op = "single" /\ d.ret = k.ret
             /\ s \in Call /\ s.timer = k.timer /\ s.op = k.op /\ s.ret = k.ret
             /\ s.cpu = i
BY DEF Call

(* Only agent a takes a step. *)
Moves(a) ==
  /\ pc' \in [Agent -> Places] /\ call' \in [Agent -> Call]
  /\ \A x \in Agent : x # a => pc'[x] = pc[x] /\ call'[x] = call[x]

(* What an assignment of pc and call does. *)
LEMMA Moving ==
  ASSUME Types, NEW a \in Agent, NEW p \in Places, NEW k \in Call,
         To(a, p), call' = [call EXCEPT ![a] = k]
  PROVE  Moves(a) /\ pc'[a] = p /\ call'[a] = k
BY DEF Types, To, Moves, Places

(* __mod_timer() reads timer->base and goes for the locks. *)
Reads(a, c) ==
  /\ Moves(a)
  /\ call'[a].timer = call[a].timer /\ call'[a].op = call[a].op
  /\ call'[a].new = c /\ call'[a].old = base[call[a].timer]
  /\ \/ pc'[a] = "m_lock2" /\ call'[a].old \in {NULL, c}
     \/ pc'[a] = "m_lock1" /\ call'[a].old \notin {NULL, c}

(* ReadBase() does that. *)
LEMMA ReadBaseReads ==
  ASSUME Types, NEW a \in Agent, NEW c \in CPU, call[a].timer \in Timer, ReadBase(a, c)
  PROVE  Reads(a, c)
<1>0. PICK o \in CPU \cup {NULL} : o = base[call[a].timer]
  BY DEF Types
<1>1. PICK j \in Call : j = call[a]
  BY DEF Types
<1> DEFINE k == [j EXCEPT !.new = c, !.old = o]
<1>2. k \in Call /\ k.timer = j.timer /\ k.op = j.op /\ k.new = c /\ k.old = o
  BY DEF Call
<1>3. call' = [call EXCEPT ![a] = k]
  BY <1>0, <1>1, <1>2 DEF ReadBase, Types
<1>4. PICK p \in Places :
        /\ To(a, p)
        /\ p = IF base[call[a].timer] \in {NULL, c} THEN "m_lock2" ELSE "m_lock1"
  BY DEF ReadBase, Places
<1> HIDE DEF k
<1>5. Moves(a) /\ pc'[a] = p /\ call'[a] = k
  BY <1>2, <1>3, <1>4, Moving
<1> QED
  BY <1>0, <1>1, <1>2, <1>4, <1>5 DEF Reads

(* del_timer() has returned r to user u, whose call was k. *)
Answers(u, r, k) ==
  /\ Moves(u)
  /\ \/ /\ pc'[u] = "idle" /\ call'[u] = NoCall
        /\ k.op \in {"del", "first"} /\ k.op = "first" => r = 1
     \/ /\ pc'[u] = "d_read" /\ k.op = "first" /\ r = 0
        /\ call'[u].timer = k.timer /\ call'[u].op = "single" /\ call'[u].ret = k.ret
     \/ /\ pc'[u] = "s_look" /\ k.op \in {"sync", "single"}
        /\ call'[u].timer = k.timer /\ call'[u].op = k.op /\ call'[u].cpu = 0
        /\ r = 0 => call'[u].ret = k.ret

DelOps == {"del", "sync", "first", "single"}

(* Deleted() does that. *)
LEMMA DeletedAnswers ==
  ASSUME Types, NEW u \in Agent, NEW r \in {0, 1}, NEW k \in Call, k.op \in DelOps,
         Deleted(u, r, k)
  PROVE  Answers(u, r, k)
<1>1. CASE k.op = "del" \/ (k.op = "first" /\ r = 1)
  <2>1. To(u, "idle") /\ call' = [call EXCEPT ![u] = NoCall]
    BY <1>1 DEF Deleted, Return
  <2>2. Moves(u) /\ pc'[u] = "idle" /\ call'[u] = NoCall
    BY <2>1, Moving, NoCallType DEF Places
  <2> QED
    BY <1>1, <2>2 DEF Answers
<1>2. CASE k.op = "first" /\ r = 0
  <2>1. PICK e \in Call : /\ e = [k EXCEPT !.op = "single"]
                          /\ e.timer = k.timer /\ e.op = "single" /\ e.ret = k.ret
    <3>1. 0 \in 0..NR_CPUS
      BY TimerAssumption
    <3> QED
      BY <3>1, CallGoesOn
  <2>2. To(u, "d_read") /\ call' = [call EXCEPT ![u] = e]
    BY <1>2, <2>1 DEF Deleted
  <2>3. Moves(u) /\ pc'[u] = "d_read" /\ call'[u] = e
    BY <2>2, Moving DEF Places
  <2> QED
    BY <1>2, <2>1, <2>3 DEF Answers
<1>3. CASE k.op \in {"sync", "single"}
  <2>1. PICK ret \in {0, 1} : ret = IF r = 1 THEN 1 ELSE k.ret
    BY DEF Call
  <2>2. PICK e \in Call : /\ e = [k EXCEPT !.ret = ret, !.old = NULL, !.cpu = 0]
                          /\ e.timer = k.timer /\ e.op = k.op /\ e.ret = ret /\ e.cpu = 0
    BY CallLooks
  <2>3. [k EXCEPT !.ret = IF r = 1 THEN 1 ELSE @, !.old = NULL, !.cpu = 0] = e
    BY <2>1, <2>2 DEF Call
  <2>4. To(u, "s_look") /\ call' = [call EXCEPT ![u] = e]
    BY <1>3, <2>3 DEF Deleted
  <2>5. Moves(u) /\ pc'[u] = "s_look" /\ call'[u] = e
    BY <2>4, Moving DEF Places
  <2> QED
    BY <1>3, <2>1, <2>2, <2>5 DEF Answers
<1> QED
  BY <1>1, <1>2, <1>3 DEF DelOps

(* del_timer() reads timer->base: the timer is not pending, or its lock is  *)
(* next.                                                                    *)
Probes(u, k) ==
  \/ base[k.timer] = NULL /\ Answers(u, 0, k)
  \/ /\ base[k.timer] # NULL /\ Moves(u) /\ pc'[u] = "d_lock"
     /\ call'[u].timer = k.timer /\ call'[u].op = k.op /\ call'[u].ret = k.ret
     /\ call'[u].old = base[k.timer]

(* DelRead() does that. *)
LEMMA DelReadProbes ==
  ASSUME Types, NEW u \in Agent, NEW k \in Call, k.op \in DelOps, k.timer \in Timer,
         DelRead(u, k)
  PROVE  Probes(u, k)
<1>1. CASE base[k.timer] = NULL
  <2>1. Deleted(u, 0, k)
    BY <1>1 DEF DelRead
  <2> QED
    BY <1>1, <2>1, DeletedAnswers DEF Probes
<1>2. CASE base[k.timer] # NULL
  <2>1. PICK o \in CPU \cup {NULL} : o = base[k.timer]
    BY DEF Types
  <2>2. PICK e \in Call : /\ e = [k EXCEPT !.old = o, !.cpu = 0]
                          /\ e.timer = k.timer /\ e.op = k.op /\ e.ret = k.ret
                          /\ e.old = o
    BY CallProbes
  <2>3. To(u, "d_lock") /\ call' = [call EXCEPT ![u] = e]
    BY <1>2, <2>1, <2>2 DEF DelRead
  <2>4. Moves(u) /\ pc'[u] = "d_lock" /\ call'[u] = e
    BY <2>3, Moving DEF Places
  <2> QED
    BY <1>2, <2>1, <2>2, <2>4 DEF Probes
<1> QED
  BY <1>1, <1>2

(* Agent a goes on with its call as it is, or returns. *)
Advances(a, p) == Moves(a) /\ pc'[a] = p /\ call'[a] = call[a]
Finishes(a) == Moves(a) /\ pc'[a] = "idle" /\ call'[a] = NoCall

(* Only the place changes. *)
LEMMA Advancing ==
  ASSUME Types, NEW a \in Agent, NEW p \in Places, To(a, p), UNCHANGED call
  PROVE  Advances(a, p)
BY DEF Types, To, Advances, Moves, Places

(* The call is over. *)
LEMMA Finishing ==
  ASSUME Types, NEW a \in Agent, Return(a)
  PROVE  Finishes(a)
BY Moving, NoCallType DEF Return, Finishes, Places

(* A call of __mod_timer(), or nothing to do. *)
Starts(a, t) ==
  \/ Moves(a) /\ pc'[a] = pc[a] /\ call'[a] = call[a]
  \/ Moves(a) /\ pc'[a] = "m_lock" /\ call'[a].timer = t /\ call'[a].op = "mod"

(* mod_timer() does that. *)
LEMMA ModTimerStarts ==
  ASSUME Types, NEW a \in Agent, NEW t \in Timer, NEW delta \in Delta,
         mod_timer(a, t, delta)
  PROVE  Starts(a, t)
<1>1. PICK x \in 0..(Word - 1) : x = (jiffies + delta) % Word
  <2>1. jiffies + delta \in Int
    BY WordType, TimerAssumption DEF Types
  <2> QED
    BY <2>1, Modulo
<1>2. CASE expires[t] = x /\ base[t] # NULL
  BY <1>1, <1>2 DEF mod_timer, Types, Starts, Moves, Places
<1>3. CASE ~(expires[t] = x /\ base[t] # NULL)
  <2> DEFINE k == [NoCall EXCEPT !.timer = t, !.op = "mod", !.x = x]
  <2>1. k \in Call /\ k.timer = t /\ k.op = "mod"
    BY NewMod
  <2>2. To(a, "m_lock") /\ call' = [call EXCEPT ![a] = k]
    BY <1>1, <1>3 DEF mod_timer
  <2> HIDE DEF k
  <2>3. Moves(a) /\ pc'[a] = "m_lock" /\ call'[a] = k
    BY <2>1, <2>2, Moving DEF Places
  <2> QED
    BY <2>1, <2>3 DEF Starts
<1> QED
  BY <1>2, <1>3

(* A call of del_timer() and its like starts with a read of timer->base. *)
LEMMA DelTimerProbes ==
  ASSUME Types, NEW u \in Agent, NEW t \in Timer, NEW op \in {"del", "sync", "first"},
         del_timer(u, t, op)
  PROVE  \E k \in Call : k.timer = t /\ k.op = op /\ k.ret = 0 /\ Probes(u, k)
<1> DEFINE k == [NoCall EXCEPT !.timer = t, !.op = op]
<1>1. k \in Call /\ k.timer = t /\ k.op = op /\ k.ret = 0
  BY NewDel, ZenonT(60)
<1>2. DelRead(u, k)
  BY DEF del_timer
<1> HIDE DEF k
<1>3. Probes(u, k)
  BY <1>1, <1>2, DelReadProbes DEF DelOps
<1> QED
  BY <1>1, <1>3

(* One turn of the loop over the CPUs. *)
Looks(u) ==
  \/ Advances(u, "s_pending") /\ \A c \in online : c < call[u].cpu
  \/ /\ Moves(u) /\ pc'[u] \in {"s_look", "s_wait"}
     /\ call'[u].timer = call[u].timer /\ call'[u].op = call[u].op
     /\ call'[u].ret = call[u].ret
     /\ \E i \in online :
          /\ i >= call[u].cpu /\ \A c \in online : c >= call[u].cpu => i <= c
          /\ pc'[u] = "s_wait" => running_timer[i] = call[u].timer /\ call'[u].cpu = i
          /\ pc'[u] = "s_look" => running_timer[i] # call[u].timer /\ call'[u].cpu = i + 1

(* LookAt() does that. *)
LEMMA LookAtLooks ==
  ASSUME Types, online \subseteq CPU, NEW u \in Agent, LookAt(u)
  PROVE  Looks(u)
<1> DEFINE rest == {c \in online : c >= call[u].cpu}
<1>1. PICK k \in Call : k = call[u]
  BY DEF Types
<1>2. k.cpu \in Nat /\ online \subseteq Nat
  BY Kinds, TimerAssumption DEF Call
<1>3. CASE rest = {}
  <2>1. To(u, "s_pending") /\ UNCHANGED call
    BY <1>3 DEF LookAt
  <2>2. Advances(u, "s_pending")
    BY <2>1, Advancing DEF Places
  <2>3. \A c \in online : c < call[u].cpu
    BY <1>1, <1>2, <1>3
  <2> QED
    BY <2>2, <2>3 DEF Looks
<1>4. CASE rest # {}
  <2>1. rest \subseteq Nat
    BY <1>2
  <2>2. \E m \in rest : \A n \in rest : m <= n
    <3> HIDE DEF rest
    <3> QED
      BY <1>4, <2>1, Least
  <2>3. PICK i \in rest : i = CHOOSE c \in rest : \A n \in rest : c <= n
    <3> HIDE DEF rest
    <3> QED
      BY <2>2
  <2>4. \A n \in rest : i <= n
    <3> HIDE DEF rest
    <3> QED
      BY <2>2, <2>3
  <2>5. i \in online /\ i >= call[u].cpu /\ \A c \in online : c >= call[u].cpu => i <= c
    BY <2>4
  <2>6. i \in 0..NR_CPUS /\ i + 1 \in 0..NR_CPUS
    <3>1. i \in CPU /\ NR_CPUS \in Nat
      BY <2>5, TimerAssumption
    <3> QED
      BY <3>1, Kinds
  <2>7. At(u, "s_look")
    BY DEF LookAt
  <2>8. CASE running_timer[i] = call[u].timer
    <3> DEFINE e == [k EXCEPT !.cpu = i]
    <3>1. e \in Call /\ e.timer = k.timer /\ e.op = k.op /\ e.ret = k.ret /\ e.cpu = i
      BY <2>6, CallGoesOn
    <3>2. To(u, "s_wait") /\ call' = [call EXCEPT ![u] = e]
      BY <1>1, <1>4, <2>3, <2>8 DEF LookAt
    <3> HIDE DEF e
    <3>3. Moves(u) /\ pc'[u] = "s_wait" /\ call'[u] = e
      BY <3>1, <3>2, Moving DEF Places
    <3> QED
      BY <1>1, <2>5, <2>8, <3>1, <3>3 DEF Looks
  <2>9. CASE running_timer[i] # call[u].timer
    <3> DEFINE e == [k EXCEPT !.cpu = i + 1]
    <3>1. /\ e \in Call /\ e.timer = k.timer /\ e.op = k.op /\ e.ret = k.ret
          /\ e.cpu = i + 1
      BY <2>6, CallGoesOn
    <3>2. UNCHANGED pc /\ call' = [call EXCEPT ![u] = e]
      BY <1>1, <1>4, <2>3, <2>9 DEF LookAt
    <3>3. To(u, "s_look")
      BY <2>7, <3>2 DEF To, At, Types
    <3> HIDE DEF e
    <3>4. Moves(u) /\ pc'[u] = "s_look" /\ call'[u] = e
      BY <3>1, <3>2, <3>3, Moving DEF Places
    <3> QED
      BY <1>1, <2>5, <2>9, <3>1, <3>4 DEF Looks
  <2> QED
    BY <2>8, <2>9
<1> QED
  BY <1>3, <1>4

-----------------------------------------------------------------------------
(* Types. *)

(* The instance is made of CPUs, timers and users. *)
LEMMA Bounds ==
  ASSUME Types
  PROVE  /\ inst.timers \subseteq Timer /\ inst.users \subseteq User
         /\ inst.cpus \subseteq CPU /\ online \subseteq CPU /\ periodic \subseteq Timer
         /\ inst.mods \in Nat /\ inst.dels \in Nat
<1>1. inst \in Instance /\ online \subseteq inst.cpus /\ periodic \subseteq inst.timers
  BY DEF Types
<1>2. /\ inst.timers \subseteq Timer /\ inst.users \subseteq User
      /\ inst.cpus \subseteq CPU /\ {inst.ticks, inst.mods, inst.dels, inst.down} \subseteq Nat
  BY <1>1, TimerAssumption
<1> QED
  BY <1>1, <1>2

(* A timer gets linked on base c, and no other changes. *)
Links(t, c) ==
  /\ base' \in [Timer -> CPU \cup {NULL}] /\ entry' \in [Timer -> Lists]
  /\ base'[t] = c /\ entry'[t] # NoList
  /\ \A x \in Timer : x # t => base'[x] = base[x] /\ entry'[x] = entry[x]

(* Enqueue() does that. *)
LEMMA EnqueueLinks ==
  ASSUME Types, NEW t \in Timer, NEW c \in CPU, NEW x \in 0..(Word - 1), Enqueue(t, c, x)
  PROVE  Links(t, c) /\ due' \in [Timer -> Int]
<1>1. timer_jiffies[c] \in Int /\ jiffies \in Int /\ x \in Int /\ now \in Int
  BY WordType DEF Types
<1>2. OnWheel(internal_add_timer(c, x))
  BY <1>1, AddsToWheel DEF Types
<1>3. internal_add_timer(c, x) \in Lists /\ internal_add_timer(c, x) # NoList
  BY <1>2, WheelLists
<1>4. Links(t, c)
  BY <1>3 DEF Types, Enqueue, Links
<1>5. Due(c, x) \in Int
  <2>1. x - jiffies \in Int /\ jiffies - timer_jiffies[c] \in Int
    BY <1>1
  <2>2. Signed(x - jiffies) \in Int /\ Signed(jiffies - timer_jiffies[c]) \in Int
    BY <2>1, SignedType
  <2> QED
    BY <1>1, <2>2 DEF Due, Reached
<1>6. due' \in [Timer -> Int]
  BY <1>5 DEF Types, Enqueue
<1> QED
  BY <1>4, <1>6

(* Base locks after a step that takes one ... *)
LEMMA Locking ==
  ASSUME Types, NEW c \in CPU, NEW a \in Agent \cup {Migrator}, Lock(c, a)
  PROVE  /\ base_lock' \in [CPU -> Agent \cup {Nobody, Migrator}]
         /\ base_lock[c] = Nobody /\ base_lock'[c] = a
         /\ \A b \in CPU : b # c => base_lock'[b] = base_lock[b]
BY DEF Types, Lock

(* ... or gives some back. *)
LEMMA Unlocking ==
  ASSUME Types, NEW S, Unlock(S)
  PROVE  /\ base_lock' \in [CPU -> Agent \cup {Nobody, Migrator}]
         /\ \A b \in CPU : base_lock'[b] = IF b \in S THEN Nobody ELSE base_lock[b]
BY DEF Types, Unlock

(* Two bases are locked in some order. *)
LEMMA FirstOfType ==
  ASSUME NEW m \in CPU, NEW n \in CPU
  PROVE  /\ FirstOf(m, n) \in {m, n} /\ Other(m, n) \in {m, n}
         /\ {FirstOf(m, n), Other(m, n)} = {m, n}
BY DEF FirstOf, Other

(* Every step keeps the types. *)
LEMMA TypesStep == Types /\ Calling /\ Running /\ Plugged /\ [Next]_vars => Types'
<1> SUFFICES ASSUME Types /\ Calling /\ Running /\ Plugged, [Next]_vars PROVE Types'
  OBVIOUS
<1>0. CASE UNCHANGED vars
  BY <1>0 DEF vars, time, wheel, softirq, calls, plug, Types
<1>1. ASSUME Tick PROVE Types'
  <2>1. jiffies + 1 \in Int
    BY WordType DEF Types
  <2>2. (jiffies + 1) % Word \in 0..(Word - 1)
    BY <2>1, Modulo
  <2>3. now + 1 \in Nat
    BY DEF Types
  <2> QED
    BY <1>1, <2>2, <2>3 DEF Tick, wheel, softirq, calls, plug, Types
<1>2. ASSUME NEW c \in CPU, run_timer_softirq(c) PROVE Types'
  <2>1. base_lock' \in [CPU -> Agent \cup {Nobody, Migrator}]
    BY <1>2, Locking, c \in Agent \cup {Migrator} DEF run_timer_softirq, Agent
  <2> QED
    BY <1>2, <2>1 DEF run_timer_softirq, Goto, time, wheel, calls, plug, Types
<1>3. ASSUME NEW c \in CPU, RunLoop(c) PROVE Types'
  <2>1. \A t \in Timer : Spliced(c, t) \in Lists
    BY SplicedKeeps DEF Types
  <2>2. timer_jiffies[c] + 1 \in Int
    BY WordType DEF Types
  <2>3. (timer_jiffies[c] + 1) % Word \in 0..(Word - 1)
    BY <2>2, Modulo
  <2> QED
    BY <1>3, <2>1, <2>3 DEF RunLoop, time, calls, plug, Types
<1>4. ASSUME NEW c \in CPU, RunEnds(c) PROVE Types'
  <2>1. twice' \in SUBSET Timer
    BY <1>4 DEF RunEnds, Announced, set_running_timer, Types
  <2>2. base_lock' \in [CPU -> Agent \cup {Nobody, Migrator}]
    BY <1>4, Unlocking DEF RunEnds
  <2> QED
    BY <1>4, <2>1, <2>2 DEF RunEnds, Goto, time, wheel, calls, plug, Types
<1>5. ASSUME NEW c \in CPU, Expire(c) PROVE Types'
  <2>1. PICK t \in Timer : /\ entry' = [entry EXCEPT ![t] = NoList]
                           /\ running_timer' = [running_timer EXCEPT ![c] = t]
                           /\ Announced(c) /\ fired' = [fired EXCEPT ![c] = t]
    BY <1>5 DEF Expire, Work, set_running_timer
  <2>2. twice' \in SUBSET Timer
    BY <2>1 DEF Announced, Types
  <2>3. NoList \in Lists
    BY DEF Lists
  <2> QED
    BY <1>5, <2>1, <2>2, <2>3 DEF Expire, Goto, time, calls, plug, Types
<1>6. ASSUME NEW c \in CPU, Fire(c) PROVE Types'
  <2>1. base_lock' \in [CPU -> Agent \cup {Nobody, Migrator}]
    BY <1>6, Unlocking DEF Fire
  <2>2. base' \in [Timer -> CPU \cup {NULL}]
    BY <1>6 DEF Fire, Types
  <2>3. due' \in [Timer -> Int]
    <3>1. due \in [Timer -> Int]
      BY DEF Types
    <3>2. PICK t \in Timer : due' = [due EXCEPT ![t] = 0]
      BY <1>6 DEF Fire, Running
    <3> QED
      BY <3>1, <3>2
  <2> QED
    BY <1>6, <2>1, <2>2, <2>3 DEF Fire, Goto, time, calls, plug, Types
<1>7. ASSUME NEW c \in CPU, HandlerReturns(c) PROVE Types'
  <2>1. base_lock' \in [CPU -> Agent \cup {Nobody, Migrator}]
    BY <1>7, Locking, c \in Agent \cup {Migrator} DEF HandlerReturns, Agent
  <2> QED
    BY <1>7, <2>1 DEF HandlerReturns, Goto, time, wheel, calls, plug, Types
<1>8. ASSUME NEW a \in Agent, NEW t \in Timer, NEW delta \in Delta, mod_timer(a, t, delta)
       PROVE  Types'
  <2>1. Moves(a)
    BY <1>8, ModTimerStarts DEF Starts
  <2>2. nmods' \in 0..inst.mods
    BY <1>8, Bounds DEF mod_timer, Types
  <2> QED
    BY <1>8, <2>1, <2>2
    DEF mod_timer, Moves, Same, time, wheel, softirq, plug, Types, Places
<1>9. ASSUME NEW u \in User, NEW t \in Timer, NEW cpu \in CPU, NEW delta \in Delta,
            add_timer_on(u, t, cpu, delta)
       PROVE  Types'
  <2>1. PICK x \in 0..(Word - 1) : x = (jiffies + delta) % Word
    <3>1. jiffies + delta \in Int
      BY WordType, TimerAssumption DEF Types
    <3> QED
      BY <3>1, Modulo
  <2>2. Enqueue(t, cpu, x) /\ expires' = [expires EXCEPT ![t] = x]
    BY <1>9, <2>1 DEF add_timer_on
  <2>3. Links(t, cpu) /\ due' \in [Timer -> Int]
    BY <2>2, EnqueueLinks
  <2>4. nmods' \in 0..inst.mods
    BY <1>9, Bounds DEF add_timer_on, Types
  <2>5. base' \in [Timer -> CPU \cup {NULL}] /\ entry' \in [Timer -> Lists]
    BY <2>3 DEF Links
  <2>6. expires' \in [Timer -> 0..(Word - 1)]
    BY <2>2 DEF Types
  <2> QED
    BY <1>9, <2>3, <2>4, <2>5, <2>6 DEF add_timer_on, Same, time, softirq, plug, Types
<1>10. ASSUME NEW u \in User, NEW t \in Timer, NEW op \in {"del", "sync", "first"},
            del_timer(u, t, op)
       PROVE  Types'
  <2>1. Moves(u)
    BY <1>10, DelTimerProbes DEF Probes, Answers, Agent
  <2>2. ndels' \in 0..inst.dels
    BY <1>10, Bounds DEF del_timer, Types
  <2> QED
    BY <1>10, <2>1, <2>2
    DEF del_timer, Moves, Same, time, wheel, softirq, plug, Types, Places
<1>11. ASSUME NEW a \in Agent, LockTimer(a) PROVE Types'
  <2>1. PICK c \in CPU : ReadBase(a, c)
    BY <1>11, Bounds DEF LockTimer
  <2>2. call[a].timer \in Timer
    BY <1>11 DEF LockTimer, At, Calling, Called
  <2>3. Moves(a)
    BY <2>1, <2>2, ReadBaseReads DEF Reads
  <2> QED
    BY <1>11, <2>2, <2>3
    DEF LockTimer, Moves, Same, time, wheel, softirq, plug, Types, Places
<1>12. ASSUME NEW a \in Agent, LockFirst(a) PROVE Types'
  <2>1. call[a].new \in CPU /\ call[a].old \in CPU
    BY <1>12, Bounds DEF LockFirst, At, Calling, Called, ModSection, Types, Call
  <2>2. FirstOf(call[a].new, call[a].old) \in CPU
    BY <2>1 DEF FirstOf
  <2>3. base_lock' \in [CPU -> Agent \cup {Nobody, Migrator}]
    BY <1>12, <2>2, Locking DEF LockFirst
  <2>4. Moves(a)
    BY <1>12, Advancing DEF LockFirst, Advances, Places
  <2> QED
    BY <1>12, <2>3, <2>4
    DEF LockFirst, Moves, Same, time, wheel, softirq, plug, Types, Places
<1>13. ASSUME NEW a \in Agent, LockSecond(a) PROVE Types'
  <2>1. call[a].new \in CPU /\ call[a].timer \in Timer
    BY <1>13, Bounds DEF LockSecond, At, Calling, Called, ModSection
  <2>2. PICK last : \/ Lock(last, a) /\ To(a, "m_do") /\ UNCHANGED call
                    \/ Unlock({call[a].new, call[a].old}) /\ ReadBase(a, call[a].new)
    BY <1>13 DEF LockSecond
  <2>3. base_lock' \in [CPU -> Agent \cup {Nobody, Migrator}]
    BY <2>2, Unlocking DEF Lock, Types
  <2>4. Moves(a)
    BY <2>1, <2>2, Advancing, ReadBaseReads DEF Advances, Reads, Places
  <2> QED
    BY <1>13, <2>3, <2>4
    DEF LockSecond, Moves, Same, time, wheel, softirq, plug, Types, Places
<1>14. ASSUME NEW a \in Agent, Install(a) PROVE Types'
  <2>1. call[a].new \in CPU /\ call[a].timer \in Timer /\ call[a].x \in 0..(Word - 1)
    BY <1>14, Bounds DEF Install, At, Calling, Called, ModSection, Types, Call
  <2>2. Links(call[a].timer, call[a].new) /\ due' \in [Timer -> Int]
    BY <1>14, <2>1, EnqueueLinks DEF Install
  <2>3. base_lock' \in [CPU -> Agent \cup {Nobody, Migrator}]
    BY <1>14, Unlocking DEF Install
  <2>4. Moves(a)
    BY <1>14, Finishing DEF Install, Finishes
  <2> QED
    BY <1>14, <2>1, <2>2, <2>3, <2>4
    DEF Install, Links, Moves, Same, time, softirq, plug, Types, Places
<1>15. ASSUME NEW u \in User, DelAgain(u) PROVE Types'
  <2>1. call[u] \in Call /\ call[u].timer \in Timer /\ call[u].op \in DelOps
    BY <1>15 DEF DelAgain, At, Calling, Called, ModSection, Types, Call, Agent, DelOps
  <2>2. Moves(u)
    BY <1>15, <2>1, DelReadProbes DEF DelAgain, Probes, Answers, Agent
  <2> QED
    BY <1>15, <2>2 DEF DelAgain, Moves, Same, time, wheel, softirq, plug, Types, Places
<1>16. ASSUME NEW u \in User, DelLock(u) PROVE Types'
  <2>1. call[u] \in Call /\ call[u].timer \in Timer /\ call[u].op \in DelOps
    BY <1>16 DEF DelLock, At, Calling, Called, ModSection, Types, Call, Agent, DelOps
  <2>2. Moves(u)
    BY <1>16, <2>1, DelReadProbes, Advancing
    DEF DelLock, Probes, Answers, Advances, Places, Agent
  <2>3. base_lock' \in [CPU -> Agent \cup {Nobody, Migrator}]
    BY <1>16 DEF DelLock, Lock, Types, Agent
  <2> QED
    BY <1>16, <2>2, <2>3
    DEF DelLock, Moves, Same, time, wheel, softirq, plug, Types, Places
<1>17. ASSUME NEW u \in User, Delete(u) PROVE Types'
  <2>1. call[u] \in Call /\ call[u].timer \in Timer /\ call[u].op \in DelOps
    BY <1>17 DEF Delete, At, Calling, Called, ModSection, Types, Call, Agent, DelOps
  <2>2. Moves(u)
    BY <1>17, <2>1, DeletedAnswers DEF Delete, Answers, Agent
  <2>3. base_lock' \in [CPU -> Agent \cup {Nobody, Migrator}]
    BY <1>17, Unlocking DEF Delete
  <2>4. NoList \in Lists
    BY DEF Lists
  <2>5. base' \in [Timer -> CPU \cup {NULL}]
    BY <1>17 DEF Delete, Types
  <2>6. due' \in [Timer -> Int]
    <3>1. due \in [Timer -> Int]
      BY DEF Types
    <3>2. PICK t \in Timer : due' = [due EXCEPT ![t] = 0]
      BY <1>17, <2>1 DEF Delete
    <3> QED
      BY <3>1, <3>2
  <2> QED
    BY <1>17, <2>2, <2>3, <2>4, <2>5, <2>6
    DEF Delete, Moves, Same, time, softirq, plug, Types, Places
<1>18. ASSUME NEW u \in User, LookAt(u) PROVE Types'
  <2>1. Moves(u)
    BY <1>18, LookAtLooks, Bounds DEF Looks, Advances, Agent
  <2> QED
    BY <1>18, <2>1 DEF LookAt, Moves, Same, time, wheel, softirq, plug, Types, Places
<1>19. ASSUME NEW u \in User, WaitEnds(u) PROVE Types'
  <2>1. Moves(u)
    BY <1>19, Advancing DEF WaitEnds, Advances, Places, Agent
  <2> QED
    BY <1>19, <2>1 DEF WaitEnds, Moves, Same, time, wheel, softirq, plug, Types, Places
<1>20. ASSUME NEW u \in User, SyncReturns(u) PROVE Types'
  <2>1. call[u] \in Call /\ call[u].timer \in Timer /\ call[u].op \in DelOps
    BY <1>20
    DEF SyncReturns, At, Calling, Called, ModSection, Types, Call, Agent, DelOps
  <2>2. Moves(u)
    BY <1>20, <2>1, DelReadProbes, Finishing
    DEF SyncReturns, Probes, Answers, Finishes, Agent
  <2> QED
    BY <1>20, <2>2
    DEF SyncReturns, Moves, Same, time, wheel, softirq, plug, Types, Places
<1>21. ASSUME NEW d \in CPU, NEW n \in CPU, cpu_down(d, n) PROVE Types'
  BY <1>21 DEF cpu_down, Plugging, time, wheel, softirq, calls, Types
<1>22. ASSUME MigrateLock PROVE Types'
  <2>1. base_lock' \in [CPU -> Agent \cup {Nobody, Migrator}]
    BY <1>22 DEF MigrateLock, Lock, Types
  <2> QED
    BY <1>22, <2>1 DEF MigrateLock, Plugging, time, wheel, softirq, calls, Types
<1>23. ASSUME migrate_timer_list PROVE Types'
  <2>1. heir \in CPU
    BY <1>23, Bounds DEF migrate_timer_list, Plugged
  <2>2. CASE \E t \in Timer : /\ Enqueue(t, heir, expires[t])
                              /\ UNCHANGED <<expires, base_lock, hpc>>
    <3>1. PICK t \in Timer : Enqueue(t, heir, expires[t])
      BY <2>2
    <3>2. expires[t] \in 0..(Word - 1)
      BY DEF Types
    <3>3. Links(t, heir) /\ due' \in [Timer -> Int]
      BY <2>1, <3>1, <3>2, EnqueueLinks
    <3> QED
      BY <1>23, <2>2, <3>3
      DEF migrate_timer_list, Links, Plugging, time, softirq, calls, Types
  <2>3. CASE Unlock({dead, heir}) /\ hpc' = "lock1" /\ UNCHANGED wheel
    <3>1. base_lock' \in [CPU -> Agent \cup {Nobody, Migrator}]
      BY <2>3, Unlocking
    <3> QED
      BY <1>23, <2>3, <3>1
      DEF migrate_timer_list, Plugging, time, wheel, softirq, calls, Types
  <2> QED
    BY <1>23, <2>2, <2>3 DEF migrate_timer_list, Left
<1>24. ASSUME MigrateEnds PROVE Types'
  <2>1. base_lock' \in [CPU -> Agent \cup {Nobody, Migrator}]
    BY <1>24, Unlocking DEF MigrateEnds
  <2> QED
    BY <1>24, <2>1 DEF MigrateEnds, Plugging, time, wheel, softirq, calls, Types
<1> QED
  BY <1>0, <1>1, <1>2, <1>3, <1>4, <1>5, <1>6, <1>7, <1>8, <1>9, <1>10, <1>11, <1>12,
     <1>13, <1>14, <1>15, <1>16, <1>17, <1>18, <1>19, <1>20, <1>21, <1>22, <1>23, <1>24, Bounds
  DEF Next, Softirq, Modifying, Deleting, Migrating, Agent

(* A CPU's base keeps in step: Tick waits for the bases that lag most, and  *)
(* __run_timers() stops as soon as its base is ahead.                       *)
LEMMA InStepStep == Types /\ InStep /\ [Next]_vars => InStep'
<1> SUFFICES ASSUME Types /\ InStep, [Next]_vars PROVE InStep'
  OBVIOUS
<1>0. CASE UNCHANGED vars
  BY <1>0 DEF vars, time, wheel, softirq, calls, plug, InStep
<1>1. ASSUME Tick PROVE InStep'
  <2> SUFFICES ASSUME NEW c \in online, NEW i, i = jiffies'
               PROVE  Signed(i - timer_jiffies[c]) \in -1..MaxLag
    BY <1>1 DEF Tick, InStep, softirq, plug
  <2>1. PICK j \in 0..(Word - 1) : j = jiffies
    BY DEF Types
  <2>2. PICK b \in 0..(Word - 1) : b = timer_jiffies[c]
    BY Bounds DEF Types
  <2>3. Signed(j - b) \in -1..MaxLag
    BY <2>1, <2>2 DEF InStep
  <2>4. Signed(j - b) < MaxLag
    <3>1. now - Reached(c) < MaxLag /\ now \in Int
      BY <1>1 DEF Tick, Types
    <3> QED
      BY <2>1, <2>2, <2>3, <3>1 DEF Reached
  <2>5. i = (j + 1) % Word
    BY <1>1, <2>1 DEF Tick
  <2>6. Signed(i - b) \in -1..MaxLag
    BY <2>3, <2>4, <2>5, OneJiffy
  <2> QED
    BY <2>2, <2>6
<1>2. ASSUME NEW c \in CPU, run_timer_softirq(c) PROVE InStep'
  BY <1>2 DEF run_timer_softirq, Same, Plugging, time, wheel, softirq, plug, InStep
<1>3. ASSUME NEW c \in CPU, RunLoop(c) PROVE InStep'
  <2> SUFFICES ASSUME NEW d \in online, NEW e, e = timer_jiffies'[d]
               PROVE  Signed(jiffies - e) \in -1..MaxLag
    BY <1>3 DEF RunLoop, InStep, time, plug
  <2>1. CASE d # c
    BY <1>3, <2>1, Bounds DEF RunLoop, InStep, Types
  <2>2. CASE d = c
    <3>1. PICK j \in 0..(Word - 1) : j = jiffies
      BY DEF Types
    <3>2. PICK b \in 0..(Word - 1) : b = timer_jiffies[c]
      BY DEF Types
    <3>3. Signed(j - b) \in -1..MaxLag /\ Signed(j - b) >= 0
      BY <1>3, <2>2, <3>1, <3>2 DEF InStep, RunLoop, Behind
    <3>4. e = (b + 1) % Word
      BY <1>3, <2>2, <3>2 DEF RunLoop, Types
    <3>5. Signed(j - e) \in -1..MaxLag
      BY <3>3, <3>4, OneTurn
    <3> QED
      BY <3>1, <3>5
  <2> QED
    BY <2>1, <2>2
<1>4. ASSUME NEW c \in CPU, RunEnds(c) PROVE InStep'
  BY <1>4 DEF RunEnds, Same, Plugging, time, wheel, softirq, plug, InStep
<1>5. ASSUME NEW c \in CPU, Expire(c) PROVE InStep'
  BY <1>5 DEF Expire, Same, Plugging, time, wheel, softirq, plug, InStep
<1>6. ASSUME NEW c \in CPU, Fire(c) PROVE InStep'
  BY <1>6 DEF Fire, Same, Plugging, time, wheel, softirq, plug, InStep
<1>7. ASSUME NEW c \in CPU, HandlerReturns(c) PROVE InStep'
  BY <1>7 DEF HandlerReturns, Same, Plugging, time, wheel, softirq, plug, InStep
<1>8. ASSUME NEW a \in Agent, NEW t \in Timer, NEW delta \in Delta, mod_timer(a, t, delta)
       PROVE  InStep'
  BY <1>8 DEF mod_timer, Same, Plugging, time, wheel, softirq, plug, InStep
<1>9. ASSUME NEW u \in User, NEW t \in Timer, NEW cpu \in CPU, NEW delta \in Delta,
            add_timer_on(u, t, cpu, delta)
       PROVE  InStep'
  BY <1>9 DEF add_timer_on, Same, Plugging, time, wheel, softirq, plug, InStep
<1>10. ASSUME NEW u \in User, NEW t \in Timer, NEW op \in {"del", "sync", "first"},
            del_timer(u, t, op)
       PROVE  InStep'
  BY <1>10 DEF del_timer, Same, Plugging, time, wheel, softirq, plug, InStep
<1>11. ASSUME NEW a \in Agent, LockTimer(a) PROVE InStep'
  BY <1>11 DEF LockTimer, Same, Plugging, time, wheel, softirq, plug, InStep
<1>12. ASSUME NEW a \in Agent, LockFirst(a) PROVE InStep'
  BY <1>12 DEF LockFirst, Same, Plugging, time, wheel, softirq, plug, InStep
<1>13. ASSUME NEW a \in Agent, LockSecond(a) PROVE InStep'
  BY <1>13 DEF LockSecond, Same, Plugging, time, wheel, softirq, plug, InStep
<1>14. ASSUME NEW a \in Agent, Install(a) PROVE InStep'
  BY <1>14 DEF Install, Same, Plugging, time, wheel, softirq, plug, InStep
<1>15. ASSUME NEW u \in User, DelAgain(u) PROVE InStep'
  BY <1>15 DEF DelAgain, Same, Plugging, time, wheel, softirq, plug, InStep
<1>16. ASSUME NEW u \in User, DelLock(u) PROVE InStep'
  BY <1>16 DEF DelLock, Same, Plugging, time, wheel, softirq, plug, InStep
<1>17. ASSUME NEW u \in User, Delete(u) PROVE InStep'
  BY <1>17 DEF Delete, Same, Plugging, time, wheel, softirq, plug, InStep
<1>18. ASSUME NEW u \in User, LookAt(u) PROVE InStep'
  BY <1>18 DEF LookAt, Same, Plugging, time, wheel, softirq, plug, InStep
<1>19. ASSUME NEW u \in User, WaitEnds(u) PROVE InStep'
  BY <1>19 DEF WaitEnds, Same, Plugging, time, wheel, softirq, plug, InStep
<1>20. ASSUME NEW u \in User, SyncReturns(u) PROVE InStep'
  BY <1>20 DEF SyncReturns, Same, Plugging, time, wheel, softirq, plug, InStep
<1>21. ASSUME NEW d \in CPU, NEW n \in CPU, cpu_down(d, n) PROVE InStep'
  BY <1>21 DEF cpu_down, Same, Plugging, time, wheel, softirq, plug, InStep
<1>22. ASSUME MigrateLock PROVE InStep'
  BY <1>22 DEF MigrateLock, Same, Plugging, time, wheel, softirq, plug, InStep
<1>23. ASSUME migrate_timer_list PROVE InStep'
  BY <1>23 DEF migrate_timer_list, Same, Plugging, time, wheel, softirq, plug, InStep
<1>24. ASSUME MigrateEnds PROVE InStep'
  BY <1>24 DEF MigrateEnds, Same, Plugging, time, wheel, softirq, plug, InStep
<1> QED
  BY <1>0, <1>1, <1>2, <1>3, <1>4, <1>5, <1>6, <1>7, <1>8, <1>9, <1>10, <1>11, <1>12,
     <1>13, <1>14, <1>15, <1>16, <1>17, <1>18, <1>19, <1>20, <1>21, <1>22, <1>23, <1>24, Bounds
  DEF Next, Softirq, Modifying, Deleting, Migrating, Agent

(* All bases start together with jiffies. *)
LEMMA TypesInit == Init => Types /\ InStep
<1> SUFFICES ASSUME Init PROVE Types /\ InStep
  OBVIOUS
<1>1. 0 \in 0..(Word - 1) /\ INITIAL_JIFFIES % Word \in 0..(Word - 1)
  BY WordType, Modulo, TimerAssumption
<1>2. NoList \in Lists /\ NoCall \in Call
  BY NoCallType DEF Lists
<1>3. inst.mods \in Nat /\ inst.dels \in Nat /\ inst.cpus \subseteq CPU
  <2>1. inst \in Instance
    BY DEF Init
  <2>2. {inst.ticks, inst.mods, inst.dels, inst.down} \subseteq Nat /\ inst.cpus \subseteq CPU
    BY <2>1, TimerAssumption
  <2> QED
    BY <2>2
<1>4. Types
  BY <1>1, <1>2, <1>3 DEF Init, Types
<1>5. InStep
  <2> SUFFICES ASSUME NEW c \in online
               PROVE  Signed(jiffies - timer_jiffies[c]) \in -1..MaxLag
    BY DEF InStep
  <2>1. timer_jiffies[c] = jiffies /\ jiffies \in Int
    BY <1>3, <1>4, WordType DEF Init, Types
  <2>2. PICK w \in Nat \ {0} : w = Word
    BY WordType
  <2>3. jiffies - timer_jiffies[c] = 0
    BY <2>1
  <2>4. MaxLag \in Nat /\ MaxLag < w \div 2
    BY <2>2, TimerAssumption
  <2>5. 0 % w = 0
    OBVIOUS
  <2>6. Signed(0) = 0
    BY <2>2, <2>4, <2>5 DEF Signed
  <2> QED
    BY <2>3, <2>4, <2>6
<1> QED
  BY <1>4, <1>5

(* A base that is in step is not ahead. *)
LEMMA InStepTypeOK == Types /\ InStep => TypeOK
<1> SUFFICES ASSUME Types, InStep, NEW c \in online
             PROVE  Signed(timer_jiffies[c] - jiffies) <= 1
  BY DEF TypeOK
<1>1. PICK j \in 0..(Word - 1) : j = jiffies
  BY DEF Types
<1>2. PICK b \in 0..(Word - 1) : b = timer_jiffies[c]
  BY Bounds DEF Types
<1>3. Signed(j - b) \in -1..MaxLag
  BY <1>1, <1>2 DEF InStep
<1>4. Signed(b - j) <= 1
  BY <1>3, Behindhand
<1> QED
  BY <1>1, <1>2, <1>4

-----------------------------------------------------------------------------
(* Control. *)

(* A step of one agent leaves the other calls as they are. *)
LEMMA OthersCalled ==
  ASSUME Types, Calling, NEW a \in Agent, Moves(a),
         UNCHANGED <<online, rpc, fired, periodic>>,
         \A t \in Timer : timer_lock[t] \in {Nobody, a} \/ timer_lock'[t] = timer_lock[t],
         Called(a)'
  PROVE  Calling'
<1> SUFFICES ASSUME NEW x \in Agent, x # a PROVE Called(x)'
  BY DEF Calling
<1>1. pc'[x] = pc[x] /\ call'[x] = call[x] /\ Called(x)
  BY DEF Moves, Calling
<1>2. pc[x] \in ModSection => timer_lock'[call[x].timer] = x
  BY <1>1, Kinds DEF Called, ModSection
<1> QED
  BY <1>1, <1>2 DEF Called

(* Every step keeps what the calls are about. *)
LEMMA CallingStep == Types /\ Calling /\ [Next]_vars => Calling'
<1> SUFFICES ASSUME Types /\ Calling, [Next]_vars PROVE Calling'
  OBVIOUS
<1>0. CASE UNCHANGED vars
  BY <1>0 DEF vars, time, wheel, softirq, calls, plug, Calling, Called
<1>1. ASSUME Tick PROVE Calling'
  BY <1>1
  DEF Tick, Goto, time, wheel, softirq, calls, plug, Calling, Called, ModSection, Types
<1>2. ASSUME NEW c \in CPU, run_timer_softirq(c) PROVE Calling'
  BY <1>2
  DEF run_timer_softirq, Goto, time, wheel, softirq, calls, plug, Calling, Called,
      ModSection, Types
<1>3. ASSUME NEW c \in CPU, RunLoop(c) PROVE Calling'
  BY <1>3
  DEF RunLoop, Goto, time, wheel, softirq, calls, plug, Calling, Called, ModSection,
      Types
<1>4. ASSUME NEW c \in CPU, RunEnds(c) PROVE Calling'
  BY <1>4
  DEF RunEnds, Goto, time, wheel, softirq, calls, plug, Calling, Called, ModSection,
      Types
<1>5. ASSUME NEW c \in CPU, Expire(c) PROVE Calling'
  BY <1>5
  DEF Expire, Goto, time, wheel, softirq, calls, plug, Calling, Called, ModSection,
      Types
<1>6. ASSUME NEW c \in CPU, Fire(c) PROVE Calling'
  BY <1>6
  DEF Fire, Goto, time, wheel, softirq, calls, plug, Calling, Called, ModSection, Types
<1>7. ASSUME NEW c \in CPU, HandlerReturns(c) PROVE Calling'
  BY <1>7
  DEF HandlerReturns, Goto, time, wheel, softirq, calls, plug, Calling, Called,
      ModSection, Types
<1>8. ASSUME NEW a \in Agent, NEW t \in Timer, NEW delta \in Delta, mod_timer(a, t, delta)
       PROVE  Calling'
  <2>1. Starts(a, t) /\ pc[a] = "idle" /\ call[a] = NoCall
    BY <1>8, ModTimerStarts DEF mod_timer, At, Calling, Called
  <2>2. a \in CPU => rpc[a] = "handler" /\ fired[a] = t /\ t \in periodic
    BY <1>8, Kinds DEF mod_timer
  <2>8. UNCHANGED <<online, rpc, fired, periodic>>
    BY <1>8 DEF mod_timer, Same, softirq, plug
  <2>9. \A x \in Timer : timer_lock[x] \in {Nobody, a} \/ timer_lock'[x] = timer_lock[x]
    BY <1>8 DEF mod_timer, Same, Types
  <2>3. Called(a)'
    BY <2>1, <2>2, <2>8, NoCallType DEF Starts, Called, ModSection
  <2>4. Moves(a)
    BY <2>1 DEF Starts
  <2> QED
    BY <2>3, <2>4, <2>8, <2>9, OthersCalled DEF Agent
<1>9. ASSUME NEW u \in User, NEW t \in Timer, NEW cpu \in CPU, NEW delta \in Delta,
            add_timer_on(u, t, cpu, delta)
       PROVE  Calling'
  BY <1>9 DEF add_timer_on, Same, softirq, plug, Calling, Called
<1>10. ASSUME NEW u \in User, NEW t \in Timer, NEW op \in {"del", "sync", "first"},
            del_timer(u, t, op)
       PROVE  Calling'
  <2>0. PICK k \in Call : k.timer = t /\ k.op = op /\ k.ret = 0 /\ Probes(u, k)
    BY <1>10, DelTimerProbes DEF Agent
  <2>1. Probes(u, k)
    BY <2>0
  <2>2. k.timer \in Timer /\ k.op \in DelOps
    BY <2>0 DEF DelOps
  <2>3. base[k.timer] \in CPU \cup {NULL}
    BY <2>2 DEF Types
  <2>8. UNCHANGED <<online, rpc, fired, periodic>>
    BY <1>10 DEF del_timer, Same, softirq, plug
  <2>9. \A x \in Timer : timer_lock[x] \in {Nobody, u} \/ timer_lock'[x] = timer_lock[x]
    BY <1>10 DEF del_timer, Same, Types
  <2>4. Called(u)'
    BY <2>1, <2>2, <2>3, <2>8, NoCallType, Kinds
    DEF Probes, Answers, Called, ModSection, DelOps
  <2>5. Moves(u)
    BY <2>1 DEF Probes, Answers
  <2> QED
    BY <2>4, <2>5, <2>8, <2>9, OthersCalled DEF Agent
<1>11. ASSUME NEW a \in Agent, LockTimer(a) PROVE Calling'
  <2>0. pc[a] = "m_lock" /\ Called(a)
    BY <1>11 DEF LockTimer, At, Calling
  <2>1. call[a].timer \in Timer
    BY <2>0 DEF Called
  <2>2. PICK c \in online : ReadBase(a, c)
    BY <1>11 DEF LockTimer
  <2>3. Reads(a, c)
    BY <2>1, <2>2, ReadBaseReads, Bounds
  <2>4. timer_lock'[call[a].timer] = a
    BY <1>11, <2>1 DEF LockTimer, Types
  <2>8. UNCHANGED <<online, rpc, fired, periodic>>
    BY <1>11 DEF LockTimer, Same, softirq, plug
  <2>9. \A x \in Timer : timer_lock[x] \in {Nobody, a} \/ timer_lock'[x] = timer_lock[x]
    BY <1>11 DEF LockTimer, Same, Types
  <2>5. Called(a)'
    BY <2>0, <2>1, <2>3, <2>4, <2>8 DEF Reads, Called, ModSection
  <2>6. Moves(a)
    BY <2>3 DEF Reads
  <2> QED
    BY <2>5, <2>6, <2>8, <2>9, OthersCalled DEF Agent
<1>12. ASSUME NEW a \in Agent, LockFirst(a) PROVE Calling'
  <2>0. pc[a] = "m_lock1" /\ Called(a)
    BY <1>12 DEF LockFirst, At, Calling
  <2>1. Advances(a, "m_lock2")
    BY <1>12, Advancing DEF LockFirst, Places
  <2>2. UNCHANGED timer_lock
    BY <1>12 DEF LockFirst
  <2>8. UNCHANGED <<online, rpc, fired, periodic>>
    BY <1>12 DEF LockFirst, Same, softirq, plug
  <2>9. \A x \in Timer : timer_lock[x] \in {Nobody, a} \/ timer_lock'[x] = timer_lock[x]
    BY <1>12 DEF LockFirst, Same, Types
  <2>3. Called(a)'
    BY <2>0, <2>1, <2>2, <2>8 DEF Advances, Called, ModSection
  <2>4. Moves(a)
    BY <2>1 DEF Advances
  <2> QED
    BY <2>3, <2>4, <2>8, <2>9, OthersCalled DEF Agent
<1>13. ASSUME NEW a \in Agent, LockSecond(a) PROVE Calling'
  <2>0. pc[a] = "m_lock2" /\ Called(a)
    BY <1>13 DEF LockSecond, At, Calling
  <2>1. call[a].timer \in Timer /\ call[a].new \in CPU
    BY <2>0, Bounds DEF Called, ModSection
  <2>2. Advances(a, "m_do") \/ Reads(a, call[a].new)
    BY <1>13, <2>1, Advancing, ReadBaseReads DEF LockSecond, Places
  <2>3. UNCHANGED timer_lock
    BY <1>13 DEF LockSecond
  <2>8. UNCHANGED <<online, rpc, fired, periodic>>
    BY <1>13 DEF LockSecond, Same, softirq, plug
  <2>9. \A x \in Timer : timer_lock[x] \in {Nobody, a} \/ timer_lock'[x] = timer_lock[x]
    BY <1>13 DEF LockSecond, Same, Types
  <2>4. Called(a)'
    BY <2>0, <2>1, <2>2, <2>3, <2>8 DEF Advances, Reads, Called, ModSection
  <2>5. Moves(a)
    BY <2>2 DEF Advances, Reads
  <2> QED
    BY <2>4, <2>5, <2>8, <2>9, OthersCalled DEF Agent
<1>14. ASSUME NEW a \in Agent, Install(a) PROVE Calling'
  <2>0. pc[a] = "m_do" /\ Called(a)
    BY <1>14 DEF Install, At, Calling
  <2>1. call[a].timer \in Timer /\ timer_lock[call[a].timer] = a
    BY <2>0 DEF Called, ModSection
  <2>2. Finishes(a)
    BY <1>14, Finishing DEF Install
  <2>8. UNCHANGED <<online, rpc, fired, periodic>>
    BY <1>14 DEF Install, Same, softirq, plug
  <2>9. \A x \in Timer : timer_lock[x] \in {Nobody, a} \/ timer_lock'[x] = timer_lock[x]
    BY <1>14, <2>1 DEF Install, Same, Types, At
  <2>3. Called(a)'
    BY <2>2, <2>8, NoCallType DEF Finishes, Called, ModSection
  <2>4. Moves(a)
    BY <2>2 DEF Finishes
  <2> QED
    BY <2>3, <2>4, <2>8, <2>9, OthersCalled DEF Agent
<1>15. ASSUME NEW u \in User, DelAgain(u) PROVE Calling'
  <2>2. call[u] \in Call /\ call[u].timer \in Timer /\ call[u].op \in DelOps
    BY <1>15 DEF DelAgain, At, Calling, Called, ModSection, Types, Call, Agent, DelOps
  <2>3. base[call[u].timer] \in CPU \cup {NULL}
    BY <2>2 DEF Types
  <2>1. Probes(u, call[u])
    BY <1>15, <2>2, DelReadProbes DEF DelAgain, Agent
  <2>8. UNCHANGED <<online, rpc, fired, periodic>>
    BY <1>15 DEF DelAgain, Same, softirq, plug
  <2>9. \A x \in Timer : timer_lock[x] \in {Nobody, u} \/ timer_lock'[x] = timer_lock[x]
    BY <1>15 DEF DelAgain, Same, Types
  <2>4. Called(u)'
    BY <2>1, <2>2, <2>3, <2>8, NoCallType, Kinds
    DEF Probes, Answers, Called, ModSection, DelOps
  <2>5. Moves(u)
    BY <2>1 DEF Probes, Answers
  <2> QED
    BY <2>4, <2>5, <2>8, <2>9, OthersCalled DEF Agent
<1>16. ASSUME NEW u \in User, DelLock(u) PROVE Calling'
  <2>2. call[u] \in Call /\ call[u].timer \in Timer /\ call[u].op \in DelOps
    BY <1>16 DEF DelLock, At, Calling, Called, ModSection, Types, Call, Agent, DelOps
  <2>3. base[call[u].timer] \in CPU \cup {NULL}
    BY <2>2 DEF Types
  <2>0. pc[u] = "d_lock" /\ Called(u)
    BY <1>16 DEF DelLock, At, Calling, Agent
  <2>1. Advances(u, "d_do") \/ Probes(u, call[u])
    BY <1>16, <2>2, DelReadProbes, Advancing DEF DelLock, Places, Agent
  <2>8. UNCHANGED <<online, rpc, fired, periodic>>
    BY <1>16 DEF DelLock, Same, softirq, plug
  <2>9. \A x \in Timer : timer_lock[x] \in {Nobody, u} \/ timer_lock'[x] = timer_lock[x]
    BY <1>16 DEF DelLock, Same, Types
  <2>4. CASE Advances(u, "d_do")
    <3>1. Called(u)'
      BY <2>0, <2>2, <2>4, <2>8, Kinds DEF Advances, Called, ModSection
    <3> QED
      BY <2>4, <2>8, <2>9, <3>1, OthersCalled DEF Advances, Agent
  <2>5. CASE Probes(u, call[u])
    <3>1. Called(u)'
      BY <2>2, <2>3, <2>5, <2>8, NoCallType, Kinds
      DEF Probes, Answers, Called, ModSection, DelOps
    <3>2. Moves(u)
      BY <2>5 DEF Probes, Answers
    <3> QED
      BY <2>8, <2>9, <3>1, <3>2, OthersCalled DEF Agent
  <2> QED
    BY <2>1, <2>4, <2>5
<1>17. ASSUME NEW u \in User, Delete(u) PROVE Calling'
  <2>2. call[u] \in Call /\ call[u].timer \in Timer /\ call[u].op \in DelOps
    BY <1>17 DEF Delete, At, Calling, Called, ModSection, Types, Call, Agent, DelOps
  <2>3. base[call[u].timer] \in CPU \cup {NULL}
    BY <2>2 DEF Types
  <2>1. Answers(u, 1, call[u])
    BY <1>17, <2>2, DeletedAnswers DEF Delete, Agent
  <2>8. UNCHANGED <<online, rpc, fired, periodic>>
    BY <1>17 DEF Delete, Same, softirq, plug
  <2>9. \A x \in Timer : timer_lock[x] \in {Nobody, u} \/ timer_lock'[x] = timer_lock[x]
    BY <1>17 DEF Delete, Same, Types
  <2>4. Called(u)'
    BY <2>1, <2>2, <2>3, <2>8, NoCallType, Kinds
    DEF Probes, Answers, Called, ModSection, DelOps
  <2>5. Moves(u)
    BY <2>1 DEF Probes, Answers
  <2> QED
    BY <2>4, <2>5, <2>8, <2>9, OthersCalled DEF Agent
<1>18. ASSUME NEW u \in User, LookAt(u) PROVE Calling'
  <2>1. Looks(u)
    BY <1>18, LookAtLooks, Bounds DEF Agent
  <2>2. pc[u] = "s_look" /\ Called(u)
    BY <1>18 DEF LookAt, At, Calling, Agent
  <2>8. UNCHANGED <<online, rpc, fired, periodic>>
    BY <1>18 DEF LookAt, Same, softirq, plug
  <2>9. \A x \in Timer : timer_lock[x] \in {Nobody, u} \/ timer_lock'[x] = timer_lock[x]
    BY <1>18 DEF LookAt, Same, Types
  <2>3. Called(u)'
    BY <2>1, <2>2, <2>8, Kinds DEF Looks, Advances, Called, ModSection
  <2>4. Moves(u)
    BY <2>1 DEF Looks, Advances
  <2> QED
    BY <2>3, <2>4, <2>8, <2>9, OthersCalled DEF Agent
<1>19. ASSUME NEW u \in User, WaitEnds(u) PROVE Calling'
  <2>1. Advances(u, "s_pending")
    BY <1>19, Advancing DEF WaitEnds, Places, Agent
  <2>2. pc[u] = "s_wait" /\ Called(u)
    BY <1>19 DEF WaitEnds, At, Calling, Agent
  <2>8. UNCHANGED <<online, rpc, fired, periodic>>
    BY <1>19 DEF WaitEnds, Same, softirq, plug
  <2>9. \A x \in Timer : timer_lock[x] \in {Nobody, u} \/ timer_lock'[x] = timer_lock[x]
    BY <1>19 DEF WaitEnds, Same, Types
  <2>3. Called(u)'
    BY <2>1, <2>2, <2>8, Kinds DEF Advances, Called, ModSection
  <2>4. Moves(u)
    BY <2>1 DEF Advances
  <2> QED
    BY <2>3, <2>4, <2>8, <2>9, OthersCalled DEF Agent
<1>20. ASSUME NEW u \in User, SyncReturns(u) PROVE Calling'
  <2>2. call[u] \in Call /\ call[u].timer \in Timer /\ call[u].op \in DelOps
    BY <1>20
    DEF SyncReturns, At, Calling, Called, ModSection, Types, Call, Agent, DelOps
  <2>3. base[call[u].timer] \in CPU \cup {NULL}
    BY <2>2 DEF Types
  <2>1. Finishes(u) \/ Probes(u, call[u])
    BY <1>20, <2>2, DelReadProbes, Finishing DEF SyncReturns, Agent
  <2>8. UNCHANGED <<online, rpc, fired, periodic>>
    BY <1>20 DEF SyncReturns, Same, softirq, plug
  <2>9. \A x \in Timer : timer_lock[x] \in {Nobody, u} \/ timer_lock'[x] = timer_lock[x]
    BY <1>20 DEF SyncReturns, Same, Types
  <2>4. Called(u)'
    BY <2>1, <2>2, <2>3, <2>8, NoCallType, Kinds
    DEF Finishes, Probes, Answers, Called, ModSection, DelOps
  <2>5. Moves(u)
    BY <2>1 DEF Finishes, Probes, Answers
  <2> QED
    BY <2>4, <2>5, <2>8, <2>9, OthersCalled DEF Agent
<1>21. ASSUME NEW d \in CPU, NEW n \in CPU, cpu_down(d, n) PROVE Calling'
  <2> SUFFICES ASSUME NEW a \in Agent PROVE Called(a)'
    BY DEF Calling
  <2>1. Called(a) /\ pc[a] \notin ModSection
    BY <1>21 DEF cpu_down, Calling, Called, Agent, ModSection
  <2> QED
    BY <1>21, <2>1 DEF cpu_down, Plugging, wheel, softirq, calls, Called
<1>22. ASSUME MigrateLock PROVE Calling'
  BY <1>22 DEF MigrateLock, Plugging, softirq, calls, Calling, Called
<1>23. ASSUME migrate_timer_list PROVE Calling'
  BY <1>23 DEF migrate_timer_list, Plugging, softirq, calls, Calling, Called
<1>24. ASSUME MigrateEnds PROVE Calling'
  BY <1>24 DEF MigrateEnds, Plugging, softirq, calls, Calling, Called
<1> QED
  BY <1>0, <1>1, <1>2, <1>3, <1>4, <1>5, <1>6, <1>7, <1>8, <1>9, <1>10, <1>11, <1>12,
     <1>13, <1>14, <1>15, <1>16, <1>17, <1>18, <1>19, <1>20, <1>21, <1>22, <1>23, <1>24, Bounds
  DEF Next, Softirq, Modifying, Deleting, Migrating, Agent

(* Every step keeps what the softirqs announce. *)
LEMMA RunningStep == Types /\ Running /\ [Next]_vars => Running'
<1> SUFFICES ASSUME Types /\ Running, [Next]_vars PROVE Running'
  OBVIOUS
<1>0. CASE UNCHANGED vars
  BY <1>0 DEF vars, time, wheel, softirq, calls, plug, Running
<1>1. ASSUME Tick PROVE Running'
  BY <1>1 DEF Tick, Same, Plugging, softirq, plug, Running
<1>2. ASSUME NEW c \in CPU, run_timer_softirq(c) PROVE Running'
  BY <1>2
  DEF run_timer_softirq, Goto, Work, set_running_timer, softirq, plug, Types, Running
<1>3. ASSUME NEW c \in CPU, RunLoop(c) PROVE Running'
  BY <1>3 DEF RunLoop, Goto, Work, set_running_timer, softirq, plug, Types, Running
<1>4. ASSUME NEW c \in CPU, RunEnds(c) PROVE Running'
  BY <1>4 DEF RunEnds, Goto, Work, set_running_timer, softirq, plug, Types, Running
<1>5. ASSUME NEW c \in CPU, Expire(c) PROVE Running'
  BY <1>5 DEF Expire, Goto, Work, set_running_timer, softirq, plug, Types, Running
<1>6. ASSUME NEW c \in CPU, Fire(c) PROVE Running'
  BY <1>6 DEF Fire, Goto, Work, set_running_timer, softirq, plug, Types, Running
<1>7. ASSUME NEW c \in CPU, HandlerReturns(c) PROVE Running'
  BY <1>7
  DEF HandlerReturns, Goto, Work, set_running_timer, softirq, plug, Types, Running
<1>8. ASSUME NEW a \in Agent, NEW t \in Timer, NEW delta \in Delta, mod_timer(a, t, delta)
       PROVE  Running'
  BY <1>8 DEF mod_timer, Same, Plugging, softirq, plug, Running
<1>9. ASSUME NEW u \in User, NEW t \in Timer, NEW cpu \in CPU, NEW delta \in Delta,
            add_timer_on(u, t, cpu, delta)
       PROVE  Running'
  BY <1>9 DEF add_timer_on, Same, Plugging, softirq, plug, Running
<1>10. ASSUME NEW u \in User, NEW t \in Timer, NEW op \in {"del", "sync", "first"},
            del_timer(u, t, op)
       PROVE  Running'
  BY <1>10 DEF del_timer, Same, Plugging, softirq, plug, Running
<1>11. ASSUME NEW a \in Agent, LockTimer(a) PROVE Running'
  BY <1>11 DEF LockTimer, Same, Plugging, softirq, plug, Running
<1>12. ASSUME NEW a \in Agent, LockFirst(a) PROVE Running'
  BY <1>12 DEF LockFirst, Same, Plugging, softirq, plug, Running
<1>13. ASSUME NEW a \in Agent, LockSecond(a) PROVE Running'
  BY <1>13 DEF LockSecond, Same, Plugging, softirq, plug, Running
<1>14. ASSUME NEW a \in Agent, Install(a) PROVE Running'
  BY <1>14 DEF Install, Same, Plugging, softirq, plug, Running
<1>15. ASSUME NEW u \in User, DelAgain(u) PROVE Running'
  BY <1>15 DEF DelAgain, Same, Plugging, softirq, plug, Running
<1>16. ASSUME NEW u \in User, DelLock(u) PROVE Running'
  BY <1>16 DEF DelLock, Same, Plugging, softirq, plug, Running
<1>17. ASSUME NEW u \in User, Delete(u) PROVE Running'
  BY <1>17 DEF Delete, Same, Plugging, softirq, plug, Running
<1>18. ASSUME NEW u \in User, LookAt(u) PROVE Running'
  BY <1>18 DEF LookAt, Same, Plugging, softirq, plug, Running
<1>19. ASSUME NEW u \in User, WaitEnds(u) PROVE Running'
  BY <1>19 DEF WaitEnds, Same, Plugging, softirq, plug, Running
<1>20. ASSUME NEW u \in User, SyncReturns(u) PROVE Running'
  BY <1>20 DEF SyncReturns, Same, Plugging, softirq, plug, Running
<1>21. ASSUME NEW d \in CPU, NEW n \in CPU, cpu_down(d, n) PROVE Running'
  BY <1>21 DEF cpu_down, Plugging, softirq, plug, Running
<1>22. ASSUME MigrateLock PROVE Running'
  BY <1>22 DEF MigrateLock, Same, Plugging, softirq, plug, Running
<1>23. ASSUME migrate_timer_list PROVE Running'
  BY <1>23 DEF migrate_timer_list, Same, Plugging, softirq, plug, Running
<1>24. ASSUME MigrateEnds PROVE Running'
  BY <1>24 DEF MigrateEnds, Same, Plugging, softirq, plug, Running
<1> QED
  BY <1>0, <1>1, <1>2, <1>3, <1>4, <1>5, <1>6, <1>7, <1>8, <1>9, <1>10, <1>11, <1>12,
     <1>13, <1>14, <1>15, <1>16, <1>17, <1>18, <1>19, <1>20, <1>21, <1>22, <1>23, <1>24, Bounds
  DEF Next, Softirq, Modifying, Deleting, Migrating, Agent

(* ... and which CPUs the migration is about. *)
LEMMA PluggedStep == Types /\ Plugged /\ [Next]_vars => Plugged'
<1> SUFFICES ASSUME Types /\ Plugged, [Next]_vars PROVE Plugged'
  OBVIOUS
<1>0. CASE UNCHANGED vars
  BY <1>0 DEF vars, time, wheel, softirq, calls, plug, Plugged
<1>1. ASSUME Tick PROVE Plugged'
  BY <1>1 DEF Tick, Same, Plugging, softirq, plug, Plugged
<1>2. ASSUME NEW c \in CPU, run_timer_softirq(c) PROVE Plugged'
  BY <1>2 DEF run_timer_softirq, Same, Plugging, softirq, plug, Plugged
<1>3. ASSUME NEW c \in CPU, RunLoop(c) PROVE Plugged'
  BY <1>3 DEF RunLoop, Same, Plugging, softirq, plug, Plugged
<1>4. ASSUME NEW c \in CPU, RunEnds(c) PROVE Plugged'
  BY <1>4 DEF RunEnds, Same, Plugging, softirq, plug, Plugged
<1>5. ASSUME NEW c \in CPU, Expire(c) PROVE Plugged'
  BY <1>5 DEF Expire, Same, Plugging, softirq, plug, Plugged
<1>6. ASSUME NEW c \in CPU, Fire(c) PROVE Plugged'
  BY <1>6 DEF Fire, Same, Plugging, softirq, plug, Plugged
<1>7. ASSUME NEW c \in CPU, HandlerReturns(c) PROVE Plugged'
  BY <1>7 DEF HandlerReturns, Same, Plugging, softirq, plug, Plugged
<1>8. ASSUME NEW a \in Agent, NEW t \in Timer, NEW delta \in Delta, mod_timer(a, t, delta)
       PROVE  Plugged'
  BY <1>8 DEF mod_timer, Same, Plugging, softirq, plug, Plugged
<1>9. ASSUME NEW u \in User, NEW t \in Timer, NEW cpu \in CPU, NEW delta \in Delta,
            add_timer_on(u, t, cpu, delta)
       PROVE  Plugged'
  BY <1>9 DEF add_timer_on, Same, Plugging, softirq, plug, Plugged
<1>10. ASSUME NEW u \in User, NEW t \in Timer, NEW op \in {"del", "sync", "first"},
            del_timer(u, t, op)
       PROVE  Plugged'
  BY <1>10 DEF del_timer, Same, Plugging, softirq, plug, Plugged
<1>11. ASSUME NEW a \in Agent, LockTimer(a) PROVE Plugged'
  BY <1>11 DEF LockTimer, Same, Plugging, softirq, plug, Plugged
<1>12. ASSUME NEW a \in Agent, LockFirst(a) PROVE Plugged'
  BY <1>12 DEF LockFirst, Same, Plugging, softirq, plug, Plugged
<1>13. ASSUME NEW a \in Agent, LockSecond(a) PROVE Plugged'
  BY <1>13 DEF LockSecond, Same, Plugging, softirq, plug, Plugged
<1>14. ASSUME NEW a \in Agent, Install(a) PROVE Plugged'
  BY <1>14 DEF Install, Same, Plugging, softirq, plug, Plugged
<1>15. ASSUME NEW u \in User, DelAgain(u) PROVE Plugged'
  BY <1>15 DEF DelAgain, Same, Plugging, softirq, plug, Plugged
<1>16. ASSUME NEW u \in User, DelLock(u) PROVE Plugged'
  BY <1>16 DEF DelLock, Same, Plugging, softirq, plug, Plugged
<1>17. ASSUME NEW u \in User, Delete(u) PROVE Plugged'
  BY <1>17 DEF Delete, Same, Plugging, softirq, plug, Plugged
<1>18. ASSUME NEW u \in User, LookAt(u) PROVE Plugged'
  BY <1>18 DEF LookAt, Same, Plugging, softirq, plug, Plugged
<1>19. ASSUME NEW u \in User, WaitEnds(u) PROVE Plugged'
  BY <1>19 DEF WaitEnds, Same, Plugging, softirq, plug, Plugged
<1>20. ASSUME NEW u \in User, SyncReturns(u) PROVE Plugged'
  BY <1>20 DEF SyncReturns, Same, Plugging, softirq, plug, Plugged
<1>21. ASSUME NEW d \in CPU, NEW n \in CPU, cpu_down(d, n) PROVE Plugged'
  BY <1>21 DEF cpu_down, Same, Plugging, softirq, plug, Plugged
<1>22. ASSUME MigrateLock PROVE Plugged'
  BY <1>22 DEF MigrateLock, Same, Plugging, softirq, plug, Plugged
<1>23. ASSUME migrate_timer_list PROVE Plugged'
  BY <1>23 DEF migrate_timer_list, Same, Plugging, softirq, plug, Plugged
<1>24. ASSUME MigrateEnds PROVE Plugged'
  BY <1>24 DEF MigrateEnds, Same, Plugging, softirq, plug, Plugged
<1> QED
  BY <1>0, <1>1, <1>2, <1>3, <1>4, <1>5, <1>6, <1>7, <1>8, <1>9, <1>10, <1>11, <1>12,
     <1>13, <1>14, <1>15, <1>16, <1>17, <1>18, <1>19, <1>20, <1>21, <1>22, <1>23, <1>24, Bounds
  DEF Next, Softirq, Modifying, Deleting, Migrating, Agent

(* A step of one holder is safe when it changes no lock of another, when    *)
(* the others hold no more than before, and when it has what it holds after.*)
LEMMA OneHolder ==
  ASSUME Types, Locked, NEW me \in Agent \cup {Migrator},
         \A b \in CPU : base_lock[b] \in {Nobody, me} \/ base_lock'[b] = base_lock[b],
         \A a \in Agent, b \in CPU : a # me /\ Holds(a, b)' => Holds(a, b),
         \A b \in CPU : me # Migrator /\ Migrates(b)' => Migrates(b),
         \A b \in CPU : me \in Agent /\ Holds(me, b)' => base_lock'[b] = me,
         \A b \in CPU : me = Migrator /\ Migrates(b)' => base_lock'[b] = Migrator
  PROVE  Locked'
<1> SUFFICES ASSUME NEW b \in CPU
             PROVE  /\ \A a \in Agent : Holds(a, b)' => base_lock'[b] = a
                    /\ Migrates(b)' => base_lock'[b] = Migrator
  BY DEF Locked
<1>1. ASSUME NEW a \in Agent, Holds(a, b)' PROVE base_lock'[b] = a
  <2>1. CASE a = me
    BY <1>1, <2>1
  <2>2. CASE a # me
    <3>1. base_lock[b] = a
      BY <1>1, <2>2 DEF Locked
    <3> QED
      BY <2>2, <3>1, Kinds
  <2> QED
    BY <2>1, <2>2
<1>2. ASSUME Migrates(b)' PROVE base_lock'[b] = Migrator
  <2>1. CASE me = Migrator
    BY <1>2, <2>1
  <2>2. CASE me # Migrator
    <3>1. base_lock[b] = Migrator
      BY <1>2, <2>2 DEF Locked
    <3> QED
      BY <2>2, <3>1, Kinds
  <2> QED
    BY <2>1, <2>2
<1> QED
  BY <1>1, <1>2

(* The same for a step of a call, ... *)
LEMMA OneCaller ==
  ASSUME Types, Locked, NEW a \in Agent, Moves(a), UNCHANGED <<rpc, hpc, heir, dead>>,
         \A b \in CPU : base_lock[b] \in {Nobody, a} \/ base_lock'[b] = base_lock[b],
         \A b \in CPU : Holds(a, b)' => base_lock'[b] = a
  PROVE  Locked'
<1>1. a # Migrator
  BY Kinds
<1>2. \A x \in Agent, b \in CPU : x # a /\ Holds(x, b)' => Holds(x, b)
  BY DEF Moves, Holds
<1>3. \A b \in CPU : Migrates(b)' => Migrates(b)
  BY DEF Migrates
<1> QED
  BY <1>1, <1>2, <1>3, OneHolder

(* ... for a step of a softirq, ... *)
LEMMA OneSoftirq ==
  ASSUME Types, Calling, Locked, NEW c \in CPU, UNCHANGED <<pc, call, hpc, heir, dead>>,
         \A d \in CPU : d # c => rpc'[d] = rpc[d], pc[c] = "idle",
         \A b \in CPU : base_lock[b] \in {Nobody, c} \/ base_lock'[b] = base_lock[b],
         rpc'[c] \in {"run", "fire"} => base_lock'[c] = c
  PROVE  Locked'
<1>1. c \in Agent /\ c # Migrator
  BY Kinds
<1>2. \A x \in Agent, b \in CPU : x # c /\ Holds(x, b)' => Holds(x, b)
  BY DEF Holds
<1>3. \A b \in CPU : Migrates(b)' => Migrates(b)
  BY DEF Migrates
<1>4. \A b \in CPU : Holds(c, b)' => base_lock'[b] = c
  BY DEF Holds
<1> QED
  BY <1>1, <1>2, <1>3, <1>4, OneHolder

(* ... and for a step of migrate_timers(). *)
LEMMA OneMigrator ==
  ASSUME Types, Locked, UNCHANGED <<pc, call, rpc>>,
         \A b \in CPU : base_lock[b] \in {Nobody, Migrator} \/ base_lock'[b] = base_lock[b],
         \A b \in CPU : Migrates(b)' => base_lock'[b] = Migrator
  PROVE  Locked'
<1>1. \A x \in Agent, b \in CPU : Holds(x, b)' => Holds(x, b)
  BY DEF Holds
<1>2. Migrator \notin Agent
  BY Kinds
<1> QED
  BY <1>1, <1>2, OneHolder

(* Every step keeps the locks with their holders. *)
LEMMA LockedStep == Types /\ Control /\ [Next]_vars => Locked'
<1> SUFFICES ASSUME Types /\ Control, [Next]_vars PROVE Locked'
  OBVIOUS
<1>c. Calling /\ Running /\ Plugged /\ Locked
  BY DEF Control
<1> USE <1>c
<1>0. CASE UNCHANGED vars
  BY <1>0 DEF vars, softirq, calls, plug, Locked, Holds, Migrates
<1>1. ASSUME Tick PROVE Locked'
  BY <1>1 DEF Tick, wheel, softirq, calls, plug, Locked, Holds, Migrates
<1>2. ASSUME NEW c \in CPU, run_timer_softirq(c) PROVE Locked'
  <2>1. UNCHANGED <<pc, call, hpc, heir, dead>> /\ \A d \in CPU : d # c => rpc'[d] = rpc[d]
    BY <1>2 DEF run_timer_softirq, Goto, calls, plug, Types
  <2>2. pc[c] = "idle"
    BY <1>2 DEF run_timer_softirq, Calling, Called, Agent
  <2>3. base_lock[c] = Nobody /\ base_lock'[c] = c /\ rpc'[c] = "run"
    BY <1>2 DEF run_timer_softirq, Lock, Goto, Types
  <2>4. \A b \in CPU : base_lock[b] \in {Nobody, c} \/ base_lock'[b] = base_lock[b]
    BY <1>2 DEF run_timer_softirq, Lock, Types
  <2> QED
    BY <2>1, <2>2, <2>3, <2>4, OneSoftirq
<1>3. ASSUME NEW c \in CPU, RunLoop(c) PROVE Locked'
  <2>1. UNCHANGED <<pc, call, hpc, heir, dead>> /\ \A d \in CPU : d # c => rpc'[d] = rpc[d]
    BY <1>3 DEF RunLoop, calls, plug, Types
  <2>2. pc[c] = "idle"
    BY <1>3 DEF RunLoop, Calling, Called, Agent
  <2>3. base_lock[c] = c /\ UNCHANGED base_lock
    BY <1>3, Kinds DEF RunLoop, Locked, Holds
  <2>4. \A b \in CPU : base_lock[b] \in {Nobody, c} \/ base_lock'[b] = base_lock[b]
    BY <2>3
  <2> QED
    BY <2>1, <2>2, <2>3, <2>4, OneSoftirq
<1>4. ASSUME NEW c \in CPU, RunEnds(c) PROVE Locked'
  <2>1. UNCHANGED <<pc, call, hpc, heir, dead>> /\ \A d \in CPU : d # c => rpc'[d] = rpc[d]
    BY <1>4 DEF RunEnds, Goto, calls, plug, Types
  <2>2. pc[c] = "idle"
    BY <1>4 DEF RunEnds, Calling, Called, Agent
  <2>3. base_lock[c] = c /\ rpc'[c] \notin {"run", "fire"}
    BY <1>4, Kinds DEF RunEnds, Goto, Locked, Holds, Types
  <2>4. \A b \in CPU : base_lock[b] \in {Nobody, c} \/ base_lock'[b] = base_lock[b]
    BY <1>4, <2>3 DEF RunEnds, Unlock
  <2> QED
    BY <2>1, <2>2, <2>3, <2>4, OneSoftirq
<1>5. ASSUME NEW c \in CPU, Expire(c) PROVE Locked'
  <2>1. UNCHANGED <<pc, call, hpc, heir, dead>> /\ \A d \in CPU : d # c => rpc'[d] = rpc[d]
    BY <1>5 DEF Expire, Goto, calls, plug, Types
  <2>2. pc[c] = "idle"
    BY <1>5 DEF Expire, Calling, Called, Agent
  <2>3. base_lock[c] = c /\ UNCHANGED base_lock
    BY <1>5, Kinds DEF Expire, Locked, Holds
  <2>4. \A b \in CPU : base_lock[b] \in {Nobody, c} \/ base_lock'[b] = base_lock[b]
    BY <2>3
  <2> QED
    BY <2>1, <2>2, <2>3, <2>4, OneSoftirq
<1>6. ASSUME NEW c \in CPU, Fire(c) PROVE Locked'
  <2>1. UNCHANGED <<pc, call, hpc, heir, dead>> /\ \A d \in CPU : d # c => rpc'[d] = rpc[d]
    BY <1>6 DEF Fire, Goto, calls, plug, Types
  <2>2. pc[c] = "idle"
    BY <1>6 DEF Fire, Calling, Called, Agent
  <2>3. base_lock[c] = c /\ rpc'[c] \notin {"run", "fire"}
    BY <1>6, Kinds DEF Fire, Goto, Locked, Holds, Types
  <2>4. \A b \in CPU : base_lock[b] \in {Nobody, c} \/ base_lock'[b] = base_lock[b]
    BY <1>6, <2>3 DEF Fire, Unlock
  <2> QED
    BY <2>1, <2>2, <2>3, <2>4, OneSoftirq
<1>7. ASSUME NEW c \in CPU, HandlerReturns(c) PROVE Locked'
  <2>1. UNCHANGED <<pc, call, hpc, heir, dead>> /\ \A d \in CPU : d # c => rpc'[d] = rpc[d]
    BY <1>7 DEF HandlerReturns, Goto, calls, plug, Types
  <2>2. pc[c] = "idle"
    BY <1>7 DEF HandlerReturns, Calling, Called, Agent
  <2>3. base_lock[c] = Nobody /\ base_lock'[c] = c /\ rpc'[c] = "run"
    BY <1>7 DEF HandlerReturns, Lock, Goto, Types
  <2>4. \A b \in CPU : base_lock[b] \in {Nobody, c} \/ base_lock'[b] = base_lock[b]
    BY <1>7 DEF HandlerReturns, Lock, Types
  <2> QED
    BY <2>1, <2>2, <2>3, <2>4, OneSoftirq
<1>8. ASSUME NEW a \in Agent, NEW t \in Timer, NEW delta \in Delta, mod_timer(a, t, delta)
       PROVE  Locked'
  <2>1. Starts(a, t) /\ pc[a] = "idle"
    BY <1>8, ModTimerStarts DEF mod_timer, At
  <2>2. a \in CPU => rpc[a] = "handler"
    BY <1>8, Kinds DEF mod_timer
  <2>7. UNCHANGED <<rpc, hpc, heir, dead>>
    BY <1>8 DEF mod_timer, Same, softirq, plug
  <2>3. \A b \in CPU : ~Holds(a, b)'
    BY <2>1, <2>2, <2>7, Kinds DEF Starts, Holds
  <2>4. UNCHANGED base_lock /\ Moves(a)
    BY <1>8, <2>1 DEF mod_timer, Starts
  <2> QED
    BY <2>3, <2>4, <2>7, OneCaller
<1>9. ASSUME NEW u \in User, NEW t \in Timer, NEW cpu \in CPU, NEW delta \in Delta,
            add_timer_on(u, t, cpu, delta)
       PROVE  Locked'
  BY <1>9 DEF add_timer_on, Same, softirq, plug, Locked, Holds, Migrates
<1>10. ASSUME NEW u \in User, NEW t \in Timer, NEW op \in {"del", "sync", "first"},
            del_timer(u, t, op)
       PROVE  Locked'
  <2>1. PICK k \in Call : Probes(u, k)
    BY <1>10, DelTimerProbes DEF Agent
  <2>7. UNCHANGED <<rpc, hpc, heir, dead>>
    BY <1>10 DEF del_timer, Same, softirq, plug
  <2>3. \A b \in CPU : ~Holds(u, b)'
    BY <2>1, <2>7, Kinds DEF Probes, Answers, Holds
  <2>4. Moves(u)
    BY <2>1 DEF Probes, Answers
  <2>5. \A b \in CPU : base_lock[b] \in {Nobody, u} \/ base_lock'[b] = base_lock[b]
    BY <1>10 DEF del_timer
  <2> QED
    BY <2>3, <2>4, <2>5, <2>7, OneCaller DEF Agent
<1>11. ASSUME NEW a \in Agent, LockTimer(a) PROVE Locked'
  <2>1. Called(a) /\ pc[a] = "m_lock"
    BY <1>11 DEF LockTimer, At, Calling
  <2>2. /\ call[a].timer \in Timer /\ call[a].old \in CPU \cup {NULL}
        /\ a \in CPU => rpc[a] = "handler"
    BY <2>1 DEF Called, Types, Call
  <2>7. UNCHANGED <<rpc, hpc, heir, dead>>
    BY <1>11 DEF LockTimer, Same, softirq, plug
  <2>3. PICK c \in CPU : ReadBase(a, c)
    BY <1>11, Bounds DEF LockTimer
  <2>4. Reads(a, c)
    BY <2>2, <2>3, ReadBaseReads
  <2>5. \A b \in CPU : ~Holds(a, b)'
    BY <2>2, <2>4, <2>7, Kinds DEF Reads, Holds
  <2>6. UNCHANGED base_lock /\ Moves(a)
    BY <1>11, <2>4 DEF LockTimer, Reads
  <2> QED
    BY <2>5, <2>6, <2>7, OneCaller
<1>12. ASSUME NEW a \in Agent, LockFirst(a) PROVE Locked'
  <2>1. Called(a) /\ pc[a] = "m_lock1"
    BY <1>12 DEF LockFirst, At, Calling
  <2>2. /\ call[a].timer \in Timer /\ call[a].old \in CPU \cup {NULL}
        /\ a \in CPU => rpc[a] = "handler"
    BY <2>1 DEF Called, Types, Call
  <2>7. UNCHANGED <<rpc, hpc, heir, dead>>
    BY <1>12 DEF LockFirst, Same, softirq, plug
  <2>3. call[a].new \in CPU /\ call[a].old \in CPU
    BY <2>1, <2>2, Bounds DEF Called, ModSection
  <2>4. PICK f \in CPU : f = FirstOf(call[a].new, call[a].old) /\ Lock(f, a)
    BY <1>12, <2>3 DEF LockFirst, FirstOf
  <2>5. Advances(a, "m_lock2")
    BY <1>12, Advancing DEF LockFirst, Places
  <2>6. \A b \in CPU : base_lock[b] \in {Nobody, a} \/ base_lock'[b] = base_lock[b]
    BY <2>4 DEF Lock, Types
  <2>8. \A b \in CPU : Holds(a, b)' => base_lock'[b] = a
    <3>1. base_lock'[f] = a
      BY <2>4 DEF Lock, Types
    <3> QED
      BY <2>2, <2>4, <2>5, <2>7, <3>1, Kinds DEF Advances, Holds
  <2> QED
    BY <2>5, <2>6, <2>7, <2>8, OneCaller DEF Advances
<1>13. ASSUME NEW a \in Agent, LockSecond(a) PROVE Locked'
  <2>1. Called(a) /\ pc[a] = "m_lock2"
    BY <1>13 DEF LockSecond, At, Calling
  <2>2. /\ call[a].timer \in Timer /\ call[a].old \in CPU \cup {NULL}
        /\ a \in CPU => rpc[a] = "handler"
    BY <2>1 DEF Called, Types, Call
  <2>7. UNCHANGED <<rpc, hpc, heir, dead>>
    BY <1>13 DEF LockSecond, Same, softirq, plug
  <2>3. call[a].new \in CPU
    BY <2>1, Bounds DEF Called, ModSection
  <2>4. PICK last \in CPU :
          /\ base_lock[last] = Nobody
          /\ last = IF call[a].old \in {NULL, call[a].new} THEN call[a].new
                    ELSE Other(call[a].new, call[a].old)
          /\ \/ Lock(last, a) /\ To(a, "m_do") /\ UNCHANGED call
             \/ Unlock({call[a].new, call[a].old}) /\ ReadBase(a, call[a].new)
    BY <1>13, <2>2, <2>3 DEF LockSecond, Lock, Other
  <2>5. \A b \in CPU : b \in {call[a].new, call[a].old} => b = last \/ base_lock[b] = a
    <3>1. CASE call[a].old \in {NULL, call[a].new}
      BY <2>4, <3>1, Kinds
    <3>2. CASE call[a].old \notin {NULL, call[a].new}
      <4>1. call[a].old \in CPU
        BY <2>2, <3>2
      <4>2. PICK f \in CPU : f = FirstOf(call[a].new, call[a].old)
        BY <2>3, <4>1 DEF FirstOf
      <4>3. base_lock[f] = a
        BY <2>1, <3>2, <4>2 DEF Locked, Holds
      <4>4. {f, last} = {call[a].new, call[a].old}
        BY <2>3, <2>4, <3>2, <4>1, <4>2, FirstOfType
      <4> QED
        BY <4>3, <4>4
    <3> QED
      BY <3>1, <3>2
  <2>6. CASE Lock(last, a) /\ To(a, "m_do") /\ UNCHANGED call
    <3>1. Advances(a, "m_do")
      BY <2>6, Advancing DEF Places
    <3>2. base_lock'[last] = a /\ \A b \in CPU : b # last => base_lock'[b] = base_lock[b]
      BY <2>6 DEF Lock, Types
    <3>3. \A b \in CPU : Holds(a, b)' => base_lock'[b] = a
      BY <2>2, <2>5, <2>7, <3>1, <3>2, Kinds DEF Advances, Holds
    <3> QED
      BY <2>4, <2>7, <3>1, <3>2, <3>3, OneCaller DEF Advances
  <2>8. CASE Unlock({call[a].new, call[a].old}) /\ ReadBase(a, call[a].new)
    <3>1. Reads(a, call[a].new)
      BY <2>2, <2>3, <2>8, ReadBaseReads
    <3>2. \A b \in CPU : ~Holds(a, b)'
      BY <2>2, <2>7, <3>1, Kinds DEF Reads, Holds
    <3>3. \A b \in CPU : base_lock[b] \in {Nobody, a} \/ base_lock'[b] = base_lock[b]
      BY <2>4, <2>5, <2>8 DEF Unlock
    <3> QED
      BY <2>7, <3>1, <3>2, <3>3, OneCaller DEF Reads
  <2> QED
    BY <2>4, <2>6, <2>8
<1>14. ASSUME NEW a \in Agent, Install(a) PROVE Locked'
  <2>1. Called(a) /\ pc[a] = "m_do"
    BY <1>14 DEF Install, At, Calling
  <2>2. /\ call[a].timer \in Timer /\ call[a].old \in CPU \cup {NULL}
        /\ a \in CPU => rpc[a] = "handler"
    BY <2>1 DEF Called, Types, Call
  <2>7. UNCHANGED <<rpc, hpc, heir, dead>>
    BY <1>14 DEF Install, Same, softirq, plug
  <2>3. Finishes(a)
    BY <1>14, Finishing DEF Install
  <2>4. \A b \in CPU : b \in {call[a].new, call[a].old} => base_lock[b] = a
    BY <2>1 DEF Locked, Holds
  <2>5. \A b \in CPU : base_lock[b] \in {Nobody, a} \/ base_lock'[b] = base_lock[b]
    BY <1>14, <2>4 DEF Install, Unlock
  <2>6. \A b \in CPU : ~Holds(a, b)'
    BY <2>2, <2>3, <2>7, Kinds DEF Finishes, Holds
  <2> QED
    BY <2>3, <2>5, <2>6, <2>7, OneCaller DEF Finishes
<1>15. ASSUME NEW u \in User, DelAgain(u) PROVE Locked'
  <2>2. call[u] \in Call /\ call[u].timer \in Timer /\ call[u].op \in DelOps
    BY <1>15 DEF DelAgain, At, Calling, Called, ModSection, Types, Call, Agent, DelOps
  <2>1. Probes(u, call[u])
    BY <1>15, <2>2, DelReadProbes DEF DelAgain, Agent
  <2>7. UNCHANGED <<rpc, hpc, heir, dead>>
    BY <1>15 DEF DelAgain, Same, softirq, plug
  <2>3. \A b \in CPU : ~Holds(u, b)'
    BY <2>1, <2>7, Kinds DEF Probes, Answers, Holds
  <2>4. Moves(u)
    BY <2>1 DEF Probes, Answers
  <2>5. \A b \in CPU : base_lock[b] \in {Nobody, u} \/ base_lock'[b] = base_lock[b]
    BY <1>15 DEF DelAgain
  <2> QED
    BY <2>3, <2>4, <2>5, <2>7, OneCaller DEF Agent
<1>16. ASSUME NEW u \in User, DelLock(u) PROVE Locked'
  <2>2. call[u] \in Call /\ call[u].timer \in Timer /\ call[u].op \in DelOps
    BY <1>16 DEF DelLock, At, Calling, Called, ModSection, Types, Call, Agent, DelOps
  <2>1. call[u].old \in CPU
    BY <1>16 DEF DelLock, At, Calling, Called, Agent
  <2>7. UNCHANGED <<rpc, hpc, heir, dead>>
    BY <1>16 DEF DelLock, Same, softirq, plug
  <2>3. CASE Lock(call[u].old, u) /\ To(u, "d_do") /\ UNCHANGED call
    <3>1. Advances(u, "d_do")
      BY <2>3, Advancing DEF Places, Agent
    <3>2. base_lock'[call[u].old] = u
      BY <2>1, <2>3 DEF Lock, Types
    <3>3. \A b \in CPU : Holds(u, b)' => base_lock'[b] = u
      BY <2>7, <3>1, <3>2, Kinds DEF Advances, Holds
    <3>4. \A b \in CPU : base_lock[b] \in {Nobody, u} \/ base_lock'[b] = base_lock[b]
      BY <2>1, <2>3 DEF Lock, Types
    <3> QED
      BY <2>7, <3>1, <3>3, <3>4, OneCaller DEF Advances, Agent
  <2>4. CASE DelRead(u, call[u]) /\ UNCHANGED base_lock
    <3>1. Probes(u, call[u])
      BY <2>2, <2>4, DelReadProbes DEF Agent
    <3>2. \A b \in CPU : ~Holds(u, b)'
      BY <2>7, <3>1, Kinds DEF Probes, Answers, Holds
    <3>3. Moves(u)
      BY <3>1 DEF Probes, Answers
    <3> QED
      BY <2>4, <2>7, <3>2, <3>3, OneCaller DEF Agent
  <2> QED
    BY <1>16, <2>3, <2>4 DEF DelLock
<1>17. ASSUME NEW u \in User, Delete(u) PROVE Locked'
  <2>2. call[u] \in Call /\ call[u].timer \in Timer /\ call[u].op \in DelOps
    BY <1>17 DEF Delete, At, Calling, Called, ModSection, Types, Call, Agent, DelOps
  <2>1. Answers(u, 1, call[u])
    BY <1>17, <2>2, DeletedAnswers DEF Delete, Agent
  <2>6. call[u].old \in CPU /\ base_lock[call[u].old] = u
    BY <1>17 DEF Delete, At, Calling, Called, Locked, Holds, Agent
  <2>7. UNCHANGED <<rpc, hpc, heir, dead>>
    BY <1>17 DEF Delete, Same, softirq, plug
  <2>3. \A b \in CPU : ~Holds(u, b)'
    BY <2>1, <2>7, Kinds DEF Answers, Holds
  <2>4. Moves(u)
    BY <2>1 DEF Answers
  <2>5. \A b \in CPU : base_lock[b] \in {Nobody, u} \/ base_lock'[b] = base_lock[b]
    BY <1>17, <2>6 DEF Delete, Unlock
  <2> QED
    BY <2>3, <2>4, <2>5, <2>7, OneCaller DEF Agent
<1>18. ASSUME NEW u \in User, LookAt(u) PROVE Locked'
  <2>1. Looks(u)
    BY <1>18, LookAtLooks, Bounds DEF Agent
  <2>7. UNCHANGED <<rpc, hpc, heir, dead>>
    BY <1>18 DEF LookAt, Same, softirq, plug
  <2>3. \A b \in CPU : ~Holds(u, b)'
    BY <2>1, <2>7, Kinds DEF Looks, Advances, Holds
  <2>4. Moves(u)
    BY <2>1 DEF Looks, Advances
  <2>5. \A b \in CPU : base_lock[b] \in {Nobody, u} \/ base_lock'[b] = base_lock[b]
    BY <1>18 DEF LookAt
  <2> QED
    BY <2>3, <2>4, <2>5, <2>7, OneCaller DEF Agent
<1>19. ASSUME NEW u \in User, WaitEnds(u) PROVE Locked'
  <2>1. Advances(u, "s_pending")
    BY <1>19, Advancing DEF WaitEnds, Places, Agent
  <2>7. UNCHANGED <<rpc, hpc, heir, dead>>
    BY <1>19 DEF WaitEnds, Same, softirq, plug
  <2>3. \A b \in CPU : ~Holds(u, b)'
    BY <2>1, <2>7, Kinds DEF Advances, Holds
  <2>4. Moves(u)
    BY <2>1 DEF Advances
  <2>5. \A b \in CPU : base_lock[b] \in {Nobody, u} \/ base_lock'[b] = base_lock[b]
    BY <1>19 DEF WaitEnds
  <2> QED
    BY <2>3, <2>4, <2>5, <2>7, OneCaller DEF Agent
<1>20. ASSUME NEW u \in User, SyncReturns(u) PROVE Locked'
  <2>2. call[u] \in Call /\ call[u].timer \in Timer /\ call[u].op \in DelOps
    BY <1>20
    DEF SyncReturns, At, Calling, Called, ModSection, Types, Call, Agent, DelOps
  <2>1. Finishes(u) \/ Probes(u, call[u])
    BY <1>20, <2>2, DelReadProbes, Finishing DEF SyncReturns, Agent
  <2>7. UNCHANGED <<rpc, hpc, heir, dead>>
    BY <1>20 DEF SyncReturns, Same, softirq, plug
  <2>3. \A b \in CPU : ~Holds(u, b)'
    BY <2>1, <2>7, Kinds DEF Finishes, Probes, Answers, Holds
  <2>4. Moves(u)
    BY <2>1 DEF Finishes, Probes, Answers
  <2>5. \A b \in CPU : base_lock[b] \in {Nobody, u} \/ base_lock'[b] = base_lock[b]
    BY <1>20 DEF SyncReturns
  <2> QED
    BY <2>3, <2>4, <2>5, <2>7, OneCaller DEF Agent
<1>21. ASSUME NEW d \in CPU, NEW n \in CPU, cpu_down(d, n) PROVE Locked'
  <2>1. UNCHANGED <<pc, call, rpc>>
    BY <1>21 DEF cpu_down, Plugging, softirq, calls
  <2>8. \A b \in CPU : base_lock[b] \in {Nobody, Migrator} \/ base_lock'[b] = base_lock[b]
    BY <1>21 DEF cpu_down
  <2>9. \A b \in CPU : ~Migrates(b)'
    BY <1>21 DEF cpu_down, Migrates
  <2> QED
    BY <2>1, <2>8, <2>9, OneMigrator
<1>22. ASSUME MigrateLock PROVE Locked'
  <2>1. UNCHANGED <<pc, call, rpc>>
    BY <1>22 DEF MigrateLock, Plugging, softirq, calls
  <2>2. hpc # "none" /\ heir \in CPU /\ dead \in CPU /\ UNCHANGED <<heir, dead>>
    BY <1>22, Bounds DEF MigrateLock, Plugged
  <2>3. PICK f \in CPU, o \in CPU :
          /\ f = FirstOf(heir, dead) /\ o = Other(heir, dead) /\ {f, o} = {heir, dead}
    BY <2>2, FirstOfType
  <2>4. CASE hpc = "lock1" /\ Lock(f, Migrator) /\ hpc' = "lock2"
    <3>8. \A b \in CPU : base_lock[b] \in {Nobody, Migrator} \/ base_lock'[b] = base_lock[b]
      BY <2>4 DEF Lock, Types
    <3>9. \A b \in CPU : Migrates(b)' => base_lock'[b] = Migrator
      BY <2>2, <2>3, <2>4 DEF Migrates, Lock, Types
    <3> QED
      BY <2>1, <3>8, <3>9, OneMigrator
  <2>5. CASE hpc = "lock2" /\ Lock(o, Migrator) /\ hpc' = "move"
    <3>1. base_lock[f] = Migrator
      BY <2>3, <2>5 DEF Locked, Migrates
    <3>2. base_lock'[f] = Migrator /\ base_lock'[o] = Migrator
      BY <2>5, <3>1 DEF Lock, Types
    <3>8. \A b \in CPU : base_lock[b] \in {Nobody, Migrator} \/ base_lock'[b] = base_lock[b]
      BY <2>5 DEF Lock, Types
    <3>9. \A b \in CPU : Migrates(b)' => base_lock'[b] = Migrator
      BY <2>2, <2>3, <2>5, <3>2 DEF Migrates
    <3> QED
      BY <2>1, <3>8, <3>9, OneMigrator
  <2> QED
    BY <1>22, <2>3, <2>4, <2>5 DEF MigrateLock
<1>23. ASSUME migrate_timer_list PROVE Locked'
  <2>1. UNCHANGED <<pc, call, rpc>>
    BY <1>23 DEF migrate_timer_list, Plugging, softirq, calls
  <2>2. \A b \in CPU : b \in {dead, heir} => base_lock[b] = Migrator
    BY <1>23 DEF migrate_timer_list, Locked, Migrates
  <2>3. UNCHANGED <<dead, heir>>
    BY <1>23 DEF migrate_timer_list
  <2>4. UNCHANGED <<base_lock, hpc>> \/ (Unlock({dead, heir}) /\ hpc' = "lock1")
    BY <1>23 DEF migrate_timer_list
  <2>8. \A b \in CPU : base_lock[b] \in {Nobody, Migrator} \/ base_lock'[b] = base_lock[b]
    BY <2>2, <2>4 DEF Unlock
  <2>9. \A b \in CPU : Migrates(b)' => base_lock'[b] = Migrator
    BY <2>3, <2>4 DEF Migrates, Locked
  <2> QED
    BY <2>1, <2>8, <2>9, OneMigrator
<1>24. ASSUME MigrateEnds PROVE Locked'
  <2>1. UNCHANGED <<pc, call, rpc>>
    BY <1>24 DEF MigrateEnds, Plugging, softirq, calls
  <2>2. \A b \in CPU : b \in {dead, heir} => base_lock[b] = Migrator
    BY <1>24 DEF MigrateEnds, Locked, Migrates
  <2>8. \A b \in CPU : base_lock[b] \in {Nobody, Migrator} \/ base_lock'[b] = base_lock[b]
    BY <1>24, <2>2 DEF MigrateEnds, Unlock
  <2>9. \A b \in CPU : ~Migrates(b)'
    BY <1>24 DEF MigrateEnds, Migrates
  <2> QED
    BY <2>1, <2>8, <2>9, OneMigrator
<1> QED
  BY <1>0, <1>1, <1>2, <1>3, <1>4, <1>5, <1>6, <1>7, <1>8, <1>9, <1>10, <1>11, <1>12,
     <1>13, <1>14, <1>15, <1>16, <1>17, <1>18, <1>19, <1>20, <1>21, <1>22, <1>23, <1>24, Bounds
  DEF Next, Softirq, Modifying, Deleting, Migrating, Agent

-----------------------------------------------------------------------------
(* Placement. *)

(* The steps that link no timer, unlink none and move none, by an agent     *)
(* that has found its own.                                                  *)
Quiet == base' = base /\ \A t \in Timer : entry'[t] = NoList <=> entry[t] = NoList

(* Such a step leaves all timers in place. *)
LEMMA QuietStep ==
  ASSUME Types, Control, Placed, Quiet, UNCHANGED <<rpc, fired, online, hpc, dead>>,
         NEW a \in Agent, Moves(a), Found(a)'
  PROVE  Placed'
<1>1. ASSUME NEW x \in Agent, x # a PROVE Found(x)'
  <2>1. pc'[x] = pc[x] /\ call'[x] = call[x] /\ Found(x)
    BY <1>1 DEF Moves, Placed
  <2>2. pc[x] \in {"m_do", "d_do"} => call[x].timer \in Timer
    BY DEF Control, Calling, Called
  <2> QED
    BY <2>1, <2>2 DEF Quiet, Found
<1>2. Linked' /\ Firing' /\ OnLiveBase'
  <2>1. Linked'
    BY DEF Placed, Quiet, Linked
  <2>2. Firing'
    <3> SUFFICES ASSUME NEW c \in CPU, rpc[c] = "fire"
                 PROVE  base[fired[c]] = c /\ entry'[fired[c]] = NoList
      BY DEF Firing, Quiet
    <3>1. base[fired[c]] = c /\ entry[fired[c]] = NoList
      BY DEF Placed, Firing
    <3>2. CASE fired[c] \in Timer
      BY <3>1, <3>2 DEF Quiet
    <3>3. CASE fired[c] \notin Timer
      BY <3>3 DEF Control, Running
    <3> QED
      BY <3>1, <3>2, <3>3
  <2>3. OnLiveBase'
    BY DEF Placed, Quiet, OnLiveBase
  <2> QED
    BY <2>1, <2>2, <2>3
<1> QED
  BY <1>1, <1>2 DEF Placed

(* The holder of a timer's base lock changes its place: no one else has     *)
(* found it.                                                                *)
LEMMA OthersFound ==
  ASSUME Types, Control, Placed, NEW me \in Agent \cup {Migrator}, NEW t \in Timer,
         base[t] # NULL => base_lock[base[t]] = me,
         base[t] = NULL => \A x \in Agent : x # me /\ pc[x] = "m_do" => call[x].timer # t,
         \A x \in Timer : x # t => base'[x] = base[x] /\ entry'[x] = entry[x],
         \A x \in Agent : x # me => pc'[x] = pc[x] /\ call'[x] = call[x]
  PROVE  \A x \in Agent : x # me => Found(x)'
<1> SUFFICES ASSUME NEW x \in Agent, x # me, pc[x] \in {"m_do", "d_do"}
             PROVE  /\ base'[call[x].timer] = call[x].old
                    /\ call[x].old # NULL => entry'[call[x].timer] # NoList
  BY DEF Found
<1>1. Found(x) /\ Called(x)
  BY DEF Placed, Control, Calling
<1>2. call[x].timer \in Timer /\ call[x].old \in CPU \cup {NULL}
  BY <1>1 DEF Called, Types, Call
<1>3. call[x].timer # t
  <2>1. SUFFICES ASSUME call[x].timer = t PROVE FALSE
    OBVIOUS
  <2>2. CASE base[t] = NULL
    <3>1. pc[x] = "m_do"
      BY <1>1, <2>1, <2>2, Kinds DEF Found, Called
    <3> QED
      BY <2>1, <2>2, <3>1
  <2>3. CASE base[t] # NULL
    <3>1. call[x].old = base[t] /\ call[x].old \in CPU
      BY <1>1, <1>2, <2>1, <2>3 DEF Found
    <3>2. base_lock[call[x].old] = x
      BY <3>1 DEF Control, Locked, Holds
    <3> QED
      BY <2>3, <3>1, <3>2
  <2> QED
    BY <2>2, <2>3
<1> QED
  BY <1>1, <1>2, <1>3 DEF Found

(* The steps that link a timer somewhere, ... *)
LEMMA LinkStep ==
  ASSUME Types, Control, Placed, NEW me \in Agent \cup {Migrator}, NEW t \in Timer,
         NEW c \in online, Links(t, c), UNCHANGED <<rpc, fired, online, hpc, dead>>,
         me \in CPU => rpc[me] # "fire",
         base[t] # NULL => base_lock[base[t]] = me,
         base[t] = NULL => \A x \in Agent : x # me /\ pc[x] = "m_do" => call[x].timer # t,
         \A x \in Agent : x # me => pc'[x] = pc[x] /\ call'[x] = call[x],
         me \in Agent => Found(me)'
  PROVE  Placed'
<1>1. \A x \in Agent : Found(x)'
  BY OthersFound DEF Links
<1>2. c \in CPU
  BY Bounds
<1>3. Linked'
  BY <1>2, Kinds DEF Placed, Linked, Links
<1>4. Firing'
  <2> SUFFICES ASSUME NEW d \in CPU, rpc[d] = "fire"
               PROVE  base'[fired[d]] = d /\ entry'[fired[d]] = NoList
    BY DEF Firing
  <2>1. base[fired[d]] = d /\ entry[fired[d]] = NoList /\ fired[d] \in Timer
    BY DEF Placed, Firing, Control, Running
  <2>2. base_lock[d] = d
    BY Kinds DEF Control, Locked, Holds
  <2>3. fired[d] # t
    BY <2>1, <2>2, Kinds
  <2> QED
    BY <2>1, <2>3 DEF Links
<1>5. OnLiveBase'
  BY DEF Placed, OnLiveBase, Links
<1> QED
  BY <1>1, <1>3, <1>4, <1>5 DEF Placed

(* Every step keeps the timers where the others look for them. *)
LEMMA PlacedStep == Types /\ Control /\ Placed /\ [Next]_vars => Placed'
<1> SUFFICES ASSUME Types /\ Control /\ Placed, [Next]_vars PROVE Placed'
  OBVIOUS
<1>0. CASE UNCHANGED vars
  BY <1>0
  DEF vars, wheel, softirq, calls, plug, Placed, Found, Linked, Firing, OnLiveBase
<1>1. ASSUME Tick PROVE Placed'
  BY <1>1
  DEF Tick, wheel, softirq, calls, plug, Placed, Found, Linked, Firing, OnLiveBase
<1>2. ASSUME NEW c \in CPU, run_timer_softirq(c) PROVE Placed'
  <2>1. UNCHANGED <<base, entry, pc, call, online, hpc, dead>>
    BY <1>2 DEF run_timer_softirq, wheel, calls, plug
  <2>2. /\ rpc[c] # "fire" /\ rpc'[c] # "fire"
        /\ \A d \in CPU : d # c => rpc'[d] = rpc[d] /\ fired'[d] = fired[d]
    BY <1>2 DEF run_timer_softirq, Goto, Types
  <2>3. \A t \in Timer : base[t] \in CPU \cup {NULL}
    BY DEF Types
  <2>4. Linked'
    BY <2>1, <2>2, <2>3 DEF Placed, Linked
  <2> QED
    BY <2>1, <2>2, <2>4 DEF Placed, Found, Firing, OnLiveBase
<1>3. ASSUME NEW c \in CPU, RunLoop(c) PROVE Placed'
  <2>1. Quiet
    <3>1. \A t \in Timer : Spliced(c, t) = NoList <=> entry[t] = NoList
      BY SplicedKeeps DEF Types
    <3> QED
      BY <1>3, <3>1 DEF RunLoop, Quiet
  <2>2. UNCHANGED <<pc, call, rpc, fired, online, hpc, dead>>
    BY <1>3 DEF RunLoop, calls, plug
  <2>3. Moves(c) /\ c \in Agent
    BY <2>2 DEF Moves, Types, Places, Agent
  <2>4. pc[c] = "idle"
    BY <1>3 DEF RunLoop, Control, Calling, Called, Agent
  <2>5. Found(c)'
    BY <2>2, <2>4 DEF Found
  <2> QED
    BY <2>1, <2>2, <2>3, <2>5, QuietStep
<1>4. ASSUME NEW c \in CPU, RunEnds(c) PROVE Placed'
  <2>1. UNCHANGED <<base, entry, pc, call, online, hpc, dead>>
    BY <1>4 DEF RunEnds, wheel, calls, plug
  <2>2. /\ rpc[c] # "fire" /\ rpc'[c] # "fire"
        /\ \A d \in CPU : d # c => rpc'[d] = rpc[d] /\ fired'[d] = fired[d]
    BY <1>4 DEF RunEnds, Goto, Types
  <2>3. \A t \in Timer : base[t] \in CPU \cup {NULL}
    BY DEF Types
  <2>4. Linked'
    BY <2>1, <2>2, <2>3 DEF Placed, Linked
  <2> QED
    BY <2>1, <2>2, <2>4 DEF Placed, Found, Firing, OnLiveBase
<1>5. ASSUME NEW c \in CPU, Expire(c) PROVE Placed'
  <2>1. PICK t \in Timer : /\ base[t] = c /\ entry[t] = WorkList
                           /\ entry' = [entry EXCEPT ![t] = NoList]
                           /\ fired' = [fired EXCEPT ![c] = t]
    BY <1>5 DEF Expire, Work
  <2>2. UNCHANGED <<base, pc, call, online, hpc, dead>>
    BY <1>5 DEF Expire, calls, plug
  <2>3. /\ rpc[c] = "run" /\ rpc'[c] = "fire" /\ fired'[c] = t
        /\ \A d \in CPU : d # c => rpc'[d] = rpc[d] /\ fired'[d] = fired[d]
    BY <1>5, <2>1 DEF Expire, Goto, Types
  <2>4. entry'[t] = NoList /\ \A x \in Timer : x # t => entry'[x] = entry[x]
    BY <2>1 DEF Types
  <2>5. base_lock[c] = c /\ pc[c] = "idle" /\ c \in Agent
    BY <2>3, Kinds DEF Control, Locked, Holds, Calling, Called
  <2>6. \A a \in Agent : Found(a)'
    <3>1. base[t] # NULL
      BY <2>1, Kinds
    <3>2. \A a \in Agent : a # c => Found(a)'
      BY <2>1, <2>2, <2>4, <2>5, <3>1, OthersFound
    <3>3. Found(c)'
      BY <2>2, <2>5 DEF Found
    <3> QED
      BY <3>2, <3>3
  <2>7. Linked'
    <3> SUFFICES ASSUME NEW x \in Timer
                 PROVE  /\ base[x] = NULL => entry'[x] = NoList
                        /\ base[x] # NULL /\ entry'[x] = NoList =>
                             rpc'[base[x]] = "fire" /\ fired'[base[x]] = x
      BY <2>2 DEF Linked
    <3>1. CASE x = t
      BY <2>1, <2>3, <2>4, <3>1, Kinds
    <3>2. CASE x # t
      <4>1. entry'[x] = entry[x] /\ base[x] \in CPU \cup {NULL}
        BY <2>4, <3>2 DEF Types
      <4>2. /\ base[x] = NULL => entry[x] = NoList
            /\ base[x] # NULL /\ entry[x] = NoList =>
                 rpc[base[x]] = "fire" /\ fired[base[x]] = x
        BY DEF Placed, Linked
      <4> QED
        BY <2>3, <4>1, <4>2
    <3> QED
      BY <3>1, <3>2
  <2>8. Firing'
    <3> SUFFICES ASSUME NEW d \in CPU, rpc'[d] = "fire"
                 PROVE  base[fired'[d]] = d /\ entry'[fired'[d]] = NoList
      BY <2>2 DEF Firing
    <3>1. CASE d = c
      BY <2>1, <2>3, <2>4, <3>1
    <3>2. CASE d # c
      <4>1. base[fired[d]] = d /\ entry[fired[d]] = NoList /\ fired[d] \in Timer
        BY <2>3, <3>2 DEF Placed, Firing, Control, Running
      <4> QED
        BY <2>1, <2>3, <2>4, <3>2, <4>1
    <3> QED
      BY <3>1, <3>2
  <2>9. OnLiveBase'
    BY <2>2 DEF Placed, OnLiveBase
  <2> QED
    BY <2>6, <2>7, <2>8, <2>9 DEF Placed
<1>6. ASSUME NEW c \in CPU, Fire(c) PROVE Placed'
  <2>1. PICK t \in Timer : t = fired[c]
    BY <1>6 DEF Fire, Control, Running
  <2>2. base[t] = c /\ entry[t] = NoList
    BY <1>6, <2>1 DEF Fire, Placed, Firing
  <2>3. UNCHANGED <<entry, fired, pc, call, online, hpc, dead>>
    BY <1>6 DEF Fire, calls, plug
  <2>4. base'[t] = NULL /\ \A x \in Timer : x # t => base'[x] = base[x]
    BY <1>6, <2>1 DEF Fire, Types
  <2>5. /\ rpc[c] = "fire" /\ rpc'[c] = "handler"
        /\ \A d \in CPU : d # c => rpc'[d] = rpc[d]
    BY <1>6 DEF Fire, Goto, Types
  <2>6. base_lock[c] = c /\ pc[c] = "idle" /\ c \in Agent
    BY <2>5, Kinds DEF Control, Locked, Holds, Calling, Called
  <2>7. \A a \in Agent : Found(a)'
    <3>1. base[t] # NULL
      BY <2>2, Kinds
    <3>2. \A a \in Agent : a # c => Found(a)'
      BY <2>2, <2>3, <2>4, <2>6, <3>1, OthersFound
    <3>3. Found(c)'
      BY <2>3, <2>6 DEF Found
    <3> QED
      BY <3>2, <3>3
  <2>8. Linked'
    <3> SUFFICES ASSUME NEW x \in Timer
                 PROVE  /\ base'[x] = NULL => entry[x] = NoList
                        /\ base'[x] # NULL /\ entry[x] = NoList =>
                             rpc'[base'[x]] = "fire" /\ fired[base'[x]] = x
      BY <2>3 DEF Linked
    <3>1. CASE x = t
      BY <2>2, <2>4, <3>1
    <3>2. CASE x # t
      BY <2>1, <2>4, <2>5, <3>2, Kinds DEF Placed, Linked, Types
    <3> QED
      BY <3>1, <3>2
  <2>9. Firing'
    <3> SUFFICES ASSUME NEW d \in CPU, d # c, rpc[d] = "fire"
                 PROVE  base'[fired[d]] = d /\ entry[fired[d]] = NoList
      BY <2>3, <2>5 DEF Firing
    <3>1. base[fired[d]] = d /\ entry[fired[d]] = NoList /\ fired[d] \in Timer
      BY DEF Placed, Firing, Control, Running
    <3> QED
      BY <2>2, <2>4, <3>1
  <2>10. OnLiveBase'
    BY <2>3, <2>4 DEF Placed, OnLiveBase
  <2> QED
    BY <2>7, <2>8, <2>9, <2>10 DEF Placed
<1>7. ASSUME NEW c \in CPU, HandlerReturns(c) PROVE Placed'
  <2>1. UNCHANGED <<base, entry, pc, call, online, hpc, dead>>
    BY <1>7 DEF HandlerReturns, wheel, calls, plug
  <2>2. /\ rpc[c] # "fire" /\ rpc'[c] # "fire"
        /\ \A d \in CPU : d # c => rpc'[d] = rpc[d] /\ fired'[d] = fired[d]
    BY <1>7 DEF HandlerReturns, Goto, Types
  <2>3. \A t \in Timer : base[t] \in CPU \cup {NULL}
    BY DEF Types
  <2>4. Linked'
    BY <2>1, <2>2, <2>3 DEF Placed, Linked
  <2> QED
    BY <2>1, <2>2, <2>4 DEF Placed, Found, Firing, OnLiveBase
<1>8. ASSUME NEW a \in Agent, NEW t \in Timer, NEW delta \in Delta, mod_timer(a, t, delta)
       PROVE  Placed'
  <2>1. Starts(a, t) /\ pc[a] = "idle"
    BY <1>8, ModTimerStarts DEF mod_timer, At
  <2>2. Moves(a)
    BY <2>1 DEF Starts
  <2>6. Quiet /\ UNCHANGED <<rpc, fired, online, hpc, dead>>
    BY <1>8 DEF mod_timer, Quiet, Same, wheel, softirq, plug
  <2>9. Found(a)'
    BY <2>1 DEF Starts, Found
  <2> QED
    BY <2>2, <2>6, <2>9, QuietStep DEF Agent
<1>9. ASSUME NEW u \in User, NEW t \in Timer, NEW cpu \in CPU, NEW delta \in Delta,
            add_timer_on(u, t, cpu, delta)
       PROVE  Placed'
  <2>1. PICK x \in 0..(Word - 1) : x = (jiffies + delta) % Word
    <3>1. jiffies + delta \in Int
      BY WordType, TimerAssumption DEF Types
    <3> QED
      BY <3>1, Modulo
  <2>2. Enqueue(t, cpu, x) /\ cpu \in online /\ base[t] = NULL
    BY <1>9, <2>1 DEF add_timer_on
  <2>3. Links(t, cpu)
    BY <2>2, EnqueueLinks
  <2>4. UNCHANGED <<pc, call, rpc, fired, online, hpc, dead>>
    BY <1>9 DEF add_timer_on, Same, softirq, plug
  <2>5. \A x1 \in Agent : pc[x1] = "m_do" => call[x1].timer # t
    <3> SUFFICES ASSUME NEW y \in Agent, pc[y] = "m_do", call[y].timer = t PROVE FALSE
      OBVIOUS
    <3>1. Called(y) /\ call[y].op = "mod"
      BY DEF Control, Calling, Called, ModSection
    <3>2. CASE y \in User
      BY <1>9, <3>1, <3>2 DEF add_timer_on, Callers
    <3>3. CASE y \in CPU
      BY <1>9, <3>1, <3>3 DEF add_timer_on, Called
    <3> QED
      BY <3>2, <3>3 DEF Agent
  <2>6. pc[u] = "idle" /\ u \in Agent /\ u \notin CPU
    BY <1>9, Kinds DEF add_timer_on, At
  <2>7. Found(u)'
    BY <2>4, <2>6 DEF Found
  <2> QED
    BY <2>2, <2>3, <2>4, <2>5, <2>6, <2>7, LinkStep
<1>10. ASSUME NEW u \in User, NEW t \in Timer, NEW op \in {"del", "sync", "first"},
            del_timer(u, t, op)
       PROVE  Placed'
  <2>1. PICK k \in Call : Probes(u, k)
    BY <1>10, DelTimerProbes DEF Agent
  <2>3. Moves(u)
    BY <2>1 DEF Probes, Answers
  <2>6. Quiet /\ UNCHANGED <<rpc, fired, online, hpc, dead>>
    BY <1>10 DEF del_timer, Quiet, Same, wheel, softirq, plug
  <2>9. Found(u)'
    BY <2>1 DEF Probes, Answers, Found
  <2> QED
    BY <2>3, <2>6, <2>9, QuietStep DEF Agent
<1>11. ASSUME NEW a \in Agent, LockTimer(a) PROVE Placed'
  <2>1. Called(a) /\ pc[a] = "m_lock"
    BY <1>11 DEF LockTimer, At, Control, Calling
  <2>2. /\ call[a].timer \in Timer /\ call[a].old \in CPU \cup {NULL}
        /\ a \in CPU => rpc[a] = "handler"
    BY <2>1 DEF Called, Types, Call
  <2>3. PICK c \in CPU : ReadBase(a, c)
    BY <1>11, Bounds DEF LockTimer
  <2>4. Reads(a, c)
    BY <2>2, <2>3, ReadBaseReads
  <2>5. Moves(a)
    BY <2>4 DEF Reads
  <2>6. Quiet /\ UNCHANGED <<rpc, fired, online, hpc, dead>>
    BY <1>11 DEF LockTimer, Quiet, Same, wheel, softirq, plug
  <2>9. Found(a)'
    BY <2>4 DEF Reads, Found
  <2> QED
    BY <2>5, <2>6, <2>9, QuietStep DEF Agent
<1>12. ASSUME NEW a \in Agent, LockFirst(a) PROVE Placed'
  <2>1. Called(a) /\ pc[a] = "m_lock1"
    BY <1>12 DEF LockFirst, At, Control, Calling
  <2>2. /\ call[a].timer \in Timer /\ call[a].old \in CPU \cup {NULL}
        /\ a \in CPU => rpc[a] = "handler"
    BY <2>1 DEF Called, Types, Call
  <2>4. Advances(a, "m_lock2")
    BY <1>12, Advancing DEF LockFirst, Places
  <2>5. Moves(a)
    BY <2>4 DEF Advances
  <2>6. Quiet /\ UNCHANGED <<rpc, fired, online, hpc, dead>>
    BY <1>12 DEF LockFirst, Quiet, Same, wheel, softirq, plug
  <2>9. Found(a)'
    BY <2>4 DEF Advances, Found
  <2> QED
    BY <2>5, <2>6, <2>9, QuietStep DEF Agent
<1>13. ASSUME NEW a \in Agent, LockSecond(a) PROVE Placed'
  <2>1. Called(a) /\ pc[a] = "m_lock2"
    BY <1>13 DEF LockSecond, At, Control, Calling
  <2>2. /\ call[a].timer \in Timer /\ call[a].old \in CPU \cup {NULL}
        /\ a \in CPU => rpc[a] = "handler"
    BY <2>1 DEF Called, Types, Call
  <2>3. call[a].new \in CPU
    BY <2>1, Bounds DEF Called, ModSection
  <2>4. \/ /\ Advances(a, "m_do") /\ base[call[a].timer] = call[a].old
           /\ base_lock[IF call[a].old \in {NULL, call[a].new} THEN call[a].new
                        ELSE Other(call[a].new, call[a].old)] = Nobody
        \/ Reads(a, call[a].new)
    BY <1>13, <2>2, <2>3, ReadBaseReads, Advancing DEF LockSecond, Lock, StillOn, Places
  <2>5. Moves(a)
    BY <2>4 DEF Advances, Reads
  <2>6. Quiet /\ UNCHANGED <<rpc, fired, online, hpc, dead>>
    BY <1>13 DEF LockSecond, Quiet, Same, wheel, softirq, plug
  <2>7. ASSUME base[call[a].timer] = call[a].old, call[a].old # NULL,
               base_lock[IF call[a].old \in {NULL, call[a].new} THEN call[a].new
                         ELSE Other(call[a].new, call[a].old)] = Nobody
        PROVE  entry[call[a].timer] # NoList
    <3>1. SUFFICES ASSUME entry[call[a].timer] = NoList PROVE FALSE
      OBVIOUS
    <3>2. call[a].old \in CPU /\ rpc[call[a].old] = "fire"
      BY <2>2, <2>7, <3>1 DEF Placed, Linked
    <3>3. base_lock[call[a].old] = call[a].old
      BY <3>2, Kinds DEF Control, Locked, Holds
    <3>4. base_lock[call[a].old] \in {Nobody, a}
      <4>1. CASE call[a].old = call[a].new
        BY <2>7, <4>1
      <4>2. CASE call[a].old # call[a].new
        <5>1. PICK f \in CPU, o \in CPU :
                /\ f = FirstOf(call[a].new, call[a].old)
                /\ o = Other(call[a].new, call[a].old)
                /\ {f, o} = {call[a].new, call[a].old}
          BY <2>3, <3>2, FirstOfType
        <5>2. base_lock[f] = a
          BY <2>1, <2>7, <4>2, <5>1 DEF Control, Locked, Holds
        <5>3. base_lock[o] = Nobody
          BY <2>7, <4>2, <5>1
        <5>4. call[a].old = f \/ call[a].old = o
          BY <5>1
        <5> QED
          BY <5>2, <5>3, <5>4
      <4> QED
        BY <4>1, <4>2
    <3> QED
      BY <2>2, <3>2, <3>3, <3>4, Kinds
  <2>9. Found(a)'
    <3>1. CASE Reads(a, call[a].new)
      BY <3>1 DEF Reads, Found
    <3>2. CASE Advances(a, "m_do") /\ ~Reads(a, call[a].new)
      <4>1. base'[call[a].timer] = call[a].old
        BY <2>4, <2>6, <3>2 DEF Quiet
      <4>2. call[a].old # NULL => entry'[call[a].timer] # NoList
        BY <2>2, <2>4, <2>6, <2>7, <3>2 DEF Quiet
      <4> QED
        BY <3>2, <4>1, <4>2 DEF Advances, Found
    <3> QED
      BY <2>4, <3>1, <3>2
  <2> QED
    BY <2>5, <2>6, <2>9, QuietStep DEF Agent
<1>14. ASSUME NEW a \in Agent, Install(a) PROVE Placed'
  <2>1. Called(a) /\ pc[a] = "m_do"
    BY <1>14 DEF Install, At, Control, Calling
  <2>2. /\ call[a].timer \in Timer /\ call[a].old \in CPU \cup {NULL}
        /\ a \in CPU => rpc[a] = "handler"
    BY <2>1 DEF Called, Types, Call
  <2>3. PICK t \in Timer, c \in online :
          t = call[a].timer /\ c = call[a].new /\ timer_lock[t] = a
    BY <2>1, <2>2 DEF Called, ModSection
  <2>4. c \in CPU /\ call[a].x \in 0..(Word - 1)
    BY Bounds DEF Types, Call
  <2>5. Links(t, c)
    BY <1>14, <2>3, <2>4, EnqueueLinks DEF Install
  <2>6. Finishes(a)
    BY <1>14, Finishing DEF Install
  <2>7. UNCHANGED <<rpc, fired, online, hpc, dead>>
    BY <1>14 DEF Install, Same, softirq, plug
  <2>8. base[t] = call[a].old
    BY <2>1, <2>3 DEF Placed, Found
  <2>9. base[t] # NULL => base_lock[base[t]] = a
    BY <2>1, <2>2, <2>8 DEF Control, Locked, Holds
  <2>10. \A x \in Agent : x # a /\ pc[x] = "m_do" => call[x].timer # t
    BY <2>3 DEF Control, Calling, Called, ModSection
  <2>11. Found(a)'
    BY <2>6 DEF Finishes, Found
  <2>12. \A x \in Agent : x # a => pc'[x] = pc[x] /\ call'[x] = call[x]
    BY <2>6 DEF Finishes, Moves
  <2> QED
    BY <2>2, <2>5, <2>7, <2>9, <2>10, <2>11, <2>12, LinkStep
<1>15. ASSUME NEW u \in User, DelAgain(u) PROVE Placed'
  <2>2. call[u] \in Call /\ call[u].timer \in Timer /\ call[u].op \in DelOps
    BY <1>15
    DEF DelAgain, At, Control, Calling, Called, ModSection, Types, Call, Agent, DelOps
  <2>1. Probes(u, call[u])
    BY <1>15, <2>2, DelReadProbes DEF DelAgain, Agent
  <2>3. Moves(u)
    BY <2>1 DEF Probes, Answers
  <2>6. Quiet /\ UNCHANGED <<rpc, fired, online, hpc, dead>>
    BY <1>15 DEF DelAgain, Quiet, Same, wheel, softirq, plug
  <2>9. Found(u)'
    BY <2>1 DEF Probes, Answers, Found
  <2> QED
    BY <2>3, <2>6, <2>9, QuietStep DEF Agent
<1>16. ASSUME NEW u \in User, DelLock(u) PROVE Placed'
  <2>2. call[u] \in Call /\ call[u].timer \in Timer /\ call[u].op \in DelOps
    BY <1>16
    DEF DelLock, At, Control, Calling, Called, ModSection, Types, Call, Agent, DelOps
  <2>1. \/ /\ Advances(u, "d_do") /\ base[call[u].timer] = call[u].old
           /\ base_lock[call[u].old] = Nobody
        \/ Probes(u, call[u])
    BY <1>16, <2>2, DelReadProbes, Advancing DEF DelLock, Lock, StillOn, Places, Agent
  <2>3. Moves(u)
    BY <2>1 DEF Advances, Probes, Answers
  <2>4. call[u].old \in CPU
    BY <1>16 DEF DelLock, At, Control, Calling, Called, Agent
  <2>6. Quiet /\ UNCHANGED <<rpc, fired, online, hpc, dead>>
    BY <1>16 DEF DelLock, Quiet, Same, wheel, softirq, plug
  <2>7. ASSUME base[call[u].timer] = call[u].old, base_lock[call[u].old] = Nobody
        PROVE  entry[call[u].timer] # NoList
    <3>1. SUFFICES ASSUME entry[call[u].timer] = NoList PROVE FALSE
      OBVIOUS
    <3>2. rpc[call[u].old] = "fire"
      BY <2>2, <2>4, <2>7, <3>1, Kinds DEF Placed, Linked
    <3>3. base_lock[call[u].old] = call[u].old
      BY <2>4, <3>2, Kinds DEF Control, Locked, Holds
    <3> QED
      BY <2>4, <2>7, <3>3, Kinds
  <2>9. Found(u)'
    BY <2>1, <2>2, <2>6, <2>7 DEF Advances, Probes, Answers, Found, Quiet
  <2> QED
    BY <2>3, <2>6, <2>9, QuietStep DEF Agent
<1>17. ASSUME NEW u \in User, Delete(u) PROVE Placed'
  <2>2. call[u] \in Call /\ call[u].timer \in Timer /\ call[u].op \in DelOps
    BY <1>17
    DEF Delete, At, Control, Calling, Called, ModSection, Types, Call, Agent, DelOps
  <2>1. Answers(u, 1, call[u])
    BY <1>17, <2>2, DeletedAnswers DEF Delete, Agent
  <2>3. PICK t \in Timer : t = call[u].timer
    BY <2>2
  <2>4. UNCHANGED <<rpc, fired, online, hpc, dead>>
    BY <1>17 DEF Delete, Same, softirq, plug
  <2>5. /\ base'[t] = NULL /\ entry'[t] = NoList
        /\ \A x \in Timer : x # t => base'[x] = base[x] /\ entry'[x] = entry[x]
    BY <1>17, <2>3 DEF Delete, Types
  <2>6. base[t] = call[u].old /\ call[u].old \in CPU /\ base_lock[call[u].old] = u
    BY <1>17, <2>3
    DEF Delete, At, Placed, Found, Control, Calling, Called, Locked, Holds, Agent
  <2>7. \A a \in Agent : Found(a)'
    <3>1. base[t] # NULL /\ u \in Agent
      BY <2>6, Kinds
    <3>2. \A a \in Agent : a # u => Found(a)'
      BY <2>1, <2>5, <2>6, <3>1, OthersFound DEF Answers, Moves
    <3>3. Found(u)'
      BY <2>1 DEF Answers, Found
    <3> QED
      BY <3>2, <3>3
  <2>8. Linked'
    <3> SUFFICES ASSUME NEW x \in Timer
                 PROVE  /\ base'[x] = NULL => entry'[x] = NoList
                        /\ base'[x] # NULL /\ entry'[x] = NoList =>
                             rpc[base'[x]] = "fire" /\ fired[base'[x]] = x
      BY <2>4 DEF Linked
    <3> QED
      BY <2>5 DEF Placed, Linked
  <2>9. Firing'
    <3> SUFFICES ASSUME NEW d \in CPU, rpc[d] = "fire"
                 PROVE  base'[fired[d]] = d /\ entry'[fired[d]] = NoList
      BY <2>4 DEF Firing
    <3>1. base[fired[d]] = d /\ entry[fired[d]] = NoList /\ fired[d] \in Timer
      BY DEF Placed, Firing, Control, Running
    <3>2. base_lock[d] = d /\ u # d
      BY Kinds DEF Control, Locked, Holds
    <3> QED
      BY <2>5, <2>6, <3>1, <3>2
  <2>10. OnLiveBase'
    BY <2>4, <2>5 DEF Placed, OnLiveBase
  <2> QED
    BY <2>7, <2>8, <2>9, <2>10 DEF Placed
<1>18. ASSUME NEW u \in User, LookAt(u) PROVE Placed'
  <2>1. Looks(u)
    BY <1>18, LookAtLooks, Bounds DEF Agent
  <2>3. Moves(u)
    BY <2>1 DEF Looks, Advances
  <2>6. Quiet /\ UNCHANGED <<rpc, fired, online, hpc, dead>>
    BY <1>18 DEF LookAt, Quiet, Same, wheel, softirq, plug
  <2>9. Found(u)'
    BY <2>1 DEF Looks, Advances, Found
  <2> QED
    BY <2>3, <2>6, <2>9, QuietStep DEF Agent
<1>19. ASSUME NEW u \in User, WaitEnds(u) PROVE Placed'
  <2>1. Advances(u, "s_pending")
    BY <1>19, Advancing DEF WaitEnds, Places, Agent
  <2>3. Moves(u)
    BY <2>1 DEF Advances
  <2>6. Quiet /\ UNCHANGED <<rpc, fired, online, hpc, dead>>
    BY <1>19 DEF WaitEnds, Quiet, Same, wheel, softirq, plug
  <2>9. Found(u)'
    BY <2>1 DEF Advances, Found
  <2> QED
    BY <2>3, <2>6, <2>9, QuietStep DEF Agent
<1>20. ASSUME NEW u \in User, SyncReturns(u) PROVE Placed'
  <2>2. call[u] \in Call /\ call[u].timer \in Timer /\ call[u].op \in DelOps
    BY <1>20
    DEF SyncReturns, At, Control, Calling, Called, ModSection, Types, Call, Agent,
        DelOps
  <2>1. Finishes(u) \/ Probes(u, call[u])
    BY <1>20, <2>2, DelReadProbes, Finishing DEF SyncReturns, Agent
  <2>3. Moves(u)
    BY <2>1 DEF Finishes, Probes, Answers
  <2>6. Quiet /\ UNCHANGED <<rpc, fired, online, hpc, dead>>
    BY <1>20 DEF SyncReturns, Quiet, Same, wheel, softirq, plug
  <2>9. Found(u)'
    BY <2>1 DEF Finishes, Probes, Answers, Found
  <2> QED
    BY <2>3, <2>6, <2>9, QuietStep DEF Agent
<1>21. ASSUME NEW d \in CPU, NEW n \in CPU, cpu_down(d, n) PROVE Placed'
  <2>1. UNCHANGED <<base, entry, pc, call, rpc, fired>>
    BY <1>21 DEF cpu_down, Plugging, wheel, softirq, calls
  <2>2. online' = online \ {d} /\ hpc' = "lock1" /\ dead' = d /\ hpc = "none"
    BY <1>21 DEF cpu_down
  <2>3. OnLiveBase'
    BY <2>1, <2>2 DEF Placed, OnLiveBase
  <2> QED
    BY <2>1, <2>3 DEF Placed, Found, Linked, Firing
<1>22. ASSUME MigrateLock PROVE Placed'
  <2>1. UNCHANGED <<base, entry, pc, call, rpc, fired, online, dead>>
    BY <1>22 DEF MigrateLock, Plugging, wheel, softirq, calls
  <2>2. hpc' # "none"
    BY <1>22 DEF MigrateLock
  <2> QED
    BY <2>1, <2>2 DEF Placed, Found, Linked, Firing, OnLiveBase
<1>23. ASSUME migrate_timer_list PROVE Placed'
  <2>1. UNCHANGED <<pc, call, rpc, fired, online, dead>> /\ hpc = "move"
    BY <1>23 DEF migrate_timer_list, Plugging, softirq, calls
  <2>2. heir \in online /\ dead \in CPU /\ base_lock[dead] = Migrator
    BY <2>1 DEF Control, Plugged, Locked, Migrates
  <2>3. CASE UNCHANGED wheel /\ hpc' = "lock1"
    BY <2>1, <2>3 DEF wheel, Placed, Found, Linked, Firing, OnLiveBase
  <2>4. CASE \E t \in Left(dead) : Enqueue(t, heir, expires[t]) /\ UNCHANGED hpc
    <3>1. PICK t \in Timer : base[t] = dead /\ Enqueue(t, heir, expires[t]) /\ UNCHANGED hpc
      BY <2>4 DEF Left
    <3>2. heir \in CPU /\ expires[t] \in 0..(Word - 1)
      BY <2>2, Bounds DEF Types
    <3>3. Links(t, heir)
      BY <3>1, <3>2, EnqueueLinks
    <3>4. base[t] # NULL /\ base_lock[base[t]] = Migrator /\ Migrator \notin CPU
      BY <2>2, <3>1, Kinds
    <3> QED
      BY <2>1, <2>2, <3>1, <3>3, <3>4, LinkStep, Kinds
  <2> QED
    BY <1>23, <2>3, <2>4 DEF migrate_timer_list
<1>24. ASSUME MigrateEnds PROVE Placed'
  <2>1. UNCHANGED <<base, entry, pc, call, rpc, fired, online>> /\ hpc = "move"
    BY <1>24 DEF MigrateEnds, Plugging, wheel, softirq, calls
  <2>2. dead \in CPU /\ base_lock[dead] = Migrator
    BY <2>1 DEF Control, Plugged, Locked, Migrates
  <2>3. \A t \in Timer : base[t] # dead
    <3> SUFFICES ASSUME NEW t \in Timer, base[t] = dead PROVE FALSE
      OBVIOUS
    <3>1. entry[t] = NoList
      BY <1>24 DEF MigrateEnds, Left
    <3>2. rpc[dead] = "fire"
      BY <2>2, <3>1, Kinds DEF Placed, Linked
    <3>3. base_lock[dead] = dead
      BY <2>2, <3>2, Kinds DEF Control, Locked, Holds
    <3> QED
      BY <2>2, <3>3, Kinds
  <2>4. OnLiveBase'
    BY <2>1, <2>3 DEF Placed, OnLiveBase
  <2> QED
    BY <2>1, <2>4 DEF Placed, Found, Linked, Firing
<1> QED
  BY <1>0, <1>1, <1>2, <1>3, <1>4, <1>5, <1>6, <1>7, <1>8, <1>9, <1>10, <1>11, <1>12,
     <1>13, <1>14, <1>15, <1>16, <1>17, <1>18, <1>19, <1>20, <1>21, <1>22, <1>23, <1>24, Bounds
  DEF Next, Softirq, Modifying, Deleting, Migrating, Agent

-----------------------------------------------------------------------------
(* del_timer_sync(). *)

(* The step starts no timer that user u is deleting for good. *)
Leaves(u) ==
  /\ call[u].op \in SyncOp /\ call[u].timer \notin periodic
  /\ base[call[u].timer] = NULL
  => base'[call[u].timer] = NULL

(* Then what the user has seen stays true. *)
LEMMA SeenKept ==
  ASSUME NEW u \in User, Seen(u), Leaves(u), pc'[u] = pc[u], call'[u] = call[u],
         UNCHANGED <<periodic, running_timer, twice>>
  PROVE  Seen(u)'
<1>1. call[u].op \in {"first", "single"} => call[u].op \in SyncOp
  BY DEF SyncOp
<1>2. pc[u] \in {"s_look", "s_wait", "s_pending"} => call[u].op \in SyncOp
  BY DEF Seen, SyncOp
<1> QED
  BY <1>1, <1>2 DEF Seen, Leaves

(* A call of del_timer_sync() is about a timer. *)
LEMMA SyncTimer ==
  ASSUME Control, NEW u \in User, call[u].op \in SyncOp
  PROVE  call[u].timer \in Timer
<1>1. Called(u)
  BY DEF Control, Calling, Agent
<1>2. pc[u] # "idle"
  BY <1>1, NoCallType DEF Called, SyncOp
<1> QED
  BY <1>1, <1>2 DEF Called

(* No step but the start of a call sets two callers against each other. *)
LEMMA AloneKept ==
  ASSUME Alone,
         \A u \in User : call'[u].op = "mod" =>
                            call[u].op = "mod" /\ call'[u].timer = call[u].timer,
         \A u \in User : call'[u].op \in SyncOp =>
                            call[u].op \in SyncOp /\ call'[u].timer = call[u].timer
  PROVE  Alone'
BY DEF Alone

(* A step of a caller. *)
LEMMA CallerSees ==
  ASSUME Synced, NEW a \in Agent, Moves(a), UNCHANGED <<periodic, running_timer, twice>>,
         \A u \in User : u # a => Leaves(u), a \in User => Seen(a)', Alone'
  PROVE  Synced'
<1>1. \A u \in User : u # a => Seen(u)'
  BY SeenKept DEF Moves, Agent, Synced
<1>2. Twice'
  BY DEF Synced, Twice
<1> QED
  BY <1>1, <1>2 DEF Synced

(* A softirq that announces another timer, one that is pending. *)
LEMMA SoftirqSees ==
  ASSUME Types, Control, Synced, NEW c \in CPU, NEW r \in Timer \cup {NoTimer},
         running_timer' = [running_timer EXCEPT ![c] = r], Announced(c),
         r \in Timer => base[r] # NULL, UNCHANGED <<pc, call, periodic, base>>
  PROVE  Synced'
<1>1. running_timer'[c] = r /\ \A d \in CPU : d # c => running_timer'[d] = running_timer[d]
  BY DEF Types
<1>2. NoTimer \notin Timer
  BY TimerAssumption
<1>3. Twice'
  <2> SUFFICES ASSUME NEW d \in CPU, NEW e \in CPU, d # e,
                      running_timer'[d] = running_timer'[e], running_timer'[d] # NoTimer
               PROVE  running_timer'[d] \in twice'
    BY DEF Twice
  <2>1. CASE d = c
    BY <1>1, <2>1 DEF Announced
  <2>2. CASE e = c
    BY <1>1, <2>2 DEF Announced
  <2>3. CASE d # c /\ e # c
    <3>1. running_timer[d] \in twice
      BY <1>1, <2>3 DEF Synced, Twice
    <3> QED
      BY <1>1, <2>3, <3>1 DEF Announced
  <2> QED
    BY <2>1, <2>2, <2>3
<1>4. Alone'
  BY DEF Synced, Alone
<1>5. ASSUME NEW u \in User PROVE Seen(u)'
  <2>1. Seen(u) /\ Called(u)
    BY DEF Synced, Control, Calling, Agent
  <2>2. PICK t : t = call[u].timer
    OBVIOUS
  <2>3. ASSUME pc[u] \in {"s_look", "s_wait", "s_pending"}, t \notin periodic
        PROVE  /\ t # NoTimer /\ r # t
               /\ t \notin twice' /\ t \in twice => \A d \in CPU : running_timer'[d] # t
    <3>1. t \in Timer /\ base[t] = NULL
      BY <2>1, <2>2, <2>3 DEF Seen, Called
    <3>2. t # NoTimer /\ r # t
      BY <1>2, <3>1
    <3>3. ASSUME t \notin twice', t \in twice, NEW d \in CPU PROVE running_timer'[d] # t
      <4>1. CASE d = c
        BY <1>1, <3>2, <4>1
      <4>2. CASE d # c
        BY <1>1, <3>2, <3>3, <4>2 DEF Announced
      <4> QED
        BY <4>1, <4>2
    <3> QED
      BY <3>2, <3>3
  <2>4. pc[u] = "s_look" /\ t \notin periodic =>
          \A d \in CPU : d < call[u].cpu => running_timer'[d] # t
    BY <1>1, <2>1, <2>2, <2>3 DEF Seen
  <2>5. pc[u] = "s_wait" /\ t \notin periodic \cup twice' =>
          \A d \in CPU : d # call[u].cpu => running_timer'[d] # t
    BY <1>1, <2>1, <2>2, <2>3 DEF Seen
  <2>6. pc[u] = "s_pending" /\ t \notin periodic \cup twice' =>
          \A d \in CPU : running_timer'[d] # t
    BY <1>1, <2>1, <2>2, <2>3 DEF Seen
  <2> QED
    BY <2>1, <2>2, <2>4, <2>5, <2>6 DEF Seen
<1> QED
  BY <1>3, <1>4, <1>5 DEF Synced

(* The same for the steps of a softirq that announce nothing. *)
LEMMA OthersSee ==
  ASSUME Synced, UNCHANGED <<pc, call, periodic, running_timer, twice>>,
         \A u \in User : Leaves(u)
  PROVE  Synced'
<1>1. \A u \in User : Seen(u)'
  BY SeenKept DEF Synced
<1>2. Twice' /\ Alone'
  BY DEF Synced, Twice, Alone
<1> QED
  BY <1>1, <1>2 DEF Synced

(* del_timer() reads timer->base for call k of user u. *)
LEMMA ProbesSees ==
  ASSUME NEW u \in User, NEW k, Probes(u, k), UNCHANGED <<base, periodic, running_timer>>,
         k.op \in DelOps,
         k.op \in {"first", "single"} => k.timer \notin periodic /\ k.ret = 0,
         k.op = "single" => base[k.timer] = NULL
  PROVE  Seen(u)'
<1>1. CASE base[k.timer] = NULL /\ Answers(u, 0, k)
  <2>1. \A c \in CPU : ~(c < 0)
    <3>1. \A c \in CPU : c \in Nat
      BY Kinds
    <3> QED
      BY <3>1
  <2> QED
    BY <1>1, <2>1, NoCallType DEF Answers, Seen
<1>2. CASE /\ base[k.timer] # NULL /\ pc'[u] = "d_lock"
           /\ call'[u].timer = k.timer /\ call'[u].op = k.op /\ call'[u].ret = k.ret
  BY <1>2 DEF Seen
<1> QED
  BY <1>1, <1>2 DEF Probes

(* Every step keeps what del_timer_sync() has seen. *)
LEMMA SyncedStep == Types /\ Control /\ Synced /\ [Next]_vars => Synced'
<1> SUFFICES ASSUME Types /\ Control /\ Synced, [Next]_vars PROVE Synced'
  OBVIOUS
<1>0. CASE UNCHANGED vars
  BY <1>0 DEF vars, wheel, softirq, calls, Synced, Twice, Alone, Seen
<1>1. ASSUME Tick PROVE Synced'
  BY <1>1, OthersSee DEF Tick, wheel, softirq, calls, Leaves
<1>2. ASSUME NEW c \in CPU, run_timer_softirq(c) PROVE Synced'
  BY <1>2, OthersSee DEF run_timer_softirq, wheel, calls, Leaves
<1>3. ASSUME NEW c \in CPU, RunLoop(c) PROVE Synced'
  BY <1>3, OthersSee DEF RunLoop, wheel, calls, Leaves
<1>4. ASSUME NEW c \in CPU, RunEnds(c) PROVE Synced'
  BY <1>4, SoftirqSees, TimerAssumption DEF RunEnds, wheel, calls
<1>5. ASSUME NEW c \in CPU, Expire(c) PROVE Synced'
  <2>1. PICK t \in Timer : base[t] = c /\ running_timer' = [running_timer EXCEPT ![c] = t]
    BY <1>5 DEF Expire, Work, set_running_timer
  <2>2. base[t] # NULL
    BY <2>1, Kinds
  <2>3. Announced(c) /\ UNCHANGED <<pc, call, periodic, base>>
    BY <1>5 DEF Expire, calls
  <2> QED
    BY <2>1, <2>2, <2>3, SoftirqSees
<1>6. ASSUME NEW c \in CPU, Fire(c) PROVE Synced'
  <2>1. UNCHANGED <<pc, call, periodic, running_timer, twice>>
    BY <1>6 DEF Fire, calls
  <2>2. \A t \in Timer : base[t] = NULL => base'[t] = NULL
    BY <1>6 DEF Fire, Types
  <2>3. \A u \in User : Leaves(u)
    BY <2>2, SyncTimer DEF Leaves
  <2> QED
    BY <2>1, <2>3, OthersSee
<1>7. ASSUME NEW c \in CPU, HandlerReturns(c) PROVE Synced'
  BY <1>7, OthersSee DEF HandlerReturns, wheel, calls, Leaves
<1>8. ASSUME NEW a \in Agent, NEW t \in Timer, NEW delta \in Delta, mod_timer(a, t, delta)
       PROVE  Synced'
  <2>1. Starts(a, t) /\ pc[a] = "idle"
    BY <1>8, ModTimerStarts DEF mod_timer, At
  <2>2. Moves(a)
    BY <2>1 DEF Starts
  <2>3. call[a] = NoCall
    BY <2>1 DEF Control, Calling, Called
  <2>8. UNCHANGED <<periodic, running_timer, twice>>
    BY <1>8 DEF mod_timer, Same, softirq
  <2>4. \A u \in User : Leaves(u)
    BY <1>8 DEF mod_timer, wheel, Leaves
  <2>5. a \in User => Seen(a)'
    BY <2>1, <2>3, NoCallType DEF Starts, Seen
  <2>6. Alone'
    <3> SUFFICES ASSUME NEW u \in User, NEW v \in User, call'[u].op \in SyncOp,
                        call'[v].timer = call'[u].timer, call'[v].op = "mod"
                 PROVE  FALSE
      BY DEF Alone
    <3>1. u # a /\ call'[u] = call[u]
      BY <2>1, <2>3, NoCallType DEF Starts, Moves, SyncOp, Agent
    <3>2. CASE v # a
      BY <2>2, <3>1, <3>2 DEF Moves, Agent, Synced, Alone
    <3>3. CASE v = a
      <4>1. call'[a].timer = t
        BY <2>1, <2>3, <3>3, NoCallType DEF Starts
      <4>2. Callers(t, {"sync", "first", "single"}) = {}
        BY <1>8, <3>3 DEF mod_timer
      <4> QED
        BY <3>1, <3>3, <4>1, <4>2 DEF Callers, SyncOp
    <3> QED
      BY <3>2, <3>3
  <2> QED
    BY <2>2, <2>4, <2>5, <2>6, <2>8, CallerSees
<1>9. ASSUME NEW u \in User, NEW t \in Timer, NEW cpu \in CPU, NEW delta \in Delta,
            add_timer_on(u, t, cpu, delta)
       PROVE  Synced'
  <2>1. UNCHANGED <<pc, call, periodic, running_timer, twice>>
    BY <1>9 DEF add_timer_on, Same, softirq
  <2>2. \A x \in Timer : x # t => base'[x] = base[x]
    BY <1>9 DEF add_timer_on, Enqueue, Types
  <2>3. \A v \in User : Leaves(v)
    <3> SUFFICES ASSUME NEW v \in User, call[v].op \in SyncOp
                 PROVE  call[v].timer \in Timer /\ call[v].timer # t
      BY <2>2 DEF Leaves
    <3>2. call[v].timer \in Timer
      BY SyncTimer
    <3> QED
      BY <1>9, <3>2 DEF add_timer_on, Callers, SyncOp
  <2> QED
    BY <2>1, <2>3, OthersSee
<1>10. ASSUME NEW u \in User, NEW t \in Timer, NEW op \in {"del", "sync", "first"},
            del_timer(u, t, op)
       PROVE  Synced'
  <2>1. PICK k \in Call : k.timer = t /\ k.op = op /\ k.ret = 0 /\ Probes(u, k)
    BY <1>10, DelTimerProbes DEF Agent
  <2>2. UNCHANGED base /\ (op = "first" => t \notin periodic)
    BY <1>10 DEF del_timer, wheel
  <2>8. UNCHANGED <<periodic, running_timer, twice>>
    BY <1>10 DEF del_timer, Same, softirq
  <2>7. \A v \in User : Leaves(v)
    BY <1>10 DEF del_timer, wheel, Leaves
  <2>5. Seen(u)'
    BY <2>1, <2>2, <2>8, ProbesSees DEF DelOps
  <2>6. Moves(u)
    BY <2>1 DEF Probes, Answers
  <2>9. Alone'
    <3> SUFFICES ASSUME NEW x \in User, NEW v \in User, call'[x].op \in SyncOp,
                        call'[v].timer = call'[x].timer, call'[v].op = "mod"
                 PROVE  FALSE
      BY DEF Alone
    <3>1. v # u /\ call'[v] = call[v]
      BY <2>1, <2>6, NoCallType DEF Probes, Answers, Moves, Agent
    <3>2. CASE x # u
      BY <2>6, <3>1, <3>2 DEF Moves, Agent, Synced, Alone
    <3>3. CASE x = u
      <4>1. call'[u].timer = t /\ op \in {"sync", "first"}
        BY <2>1, <3>3, NoCallType DEF Probes, Answers, SyncOp
      <4>2. Callers(t, {"mod"}) = {}
        BY <1>10, <4>1 DEF del_timer
      <4> QED
        BY <3>1, <3>3, <4>1, <4>2 DEF Callers
    <3> QED
      BY <3>2, <3>3
  <2> QED
    BY <2>5, <2>6, <2>7, <2>8, <2>9, CallerSees DEF Agent
<1>11. ASSUME NEW a \in Agent, LockTimer(a) PROVE Synced'
  <2>1. Called(a) /\ pc[a] = "m_lock" /\ call[a].op = "mod" /\ call[a].timer \in Timer
    BY <1>11 DEF LockTimer, At, Control, Calling, Called, ModSection
  <2>2. UNCHANGED base
    BY <1>11 DEF LockTimer, wheel
  <2>8. UNCHANGED <<periodic, running_timer, twice>>
    BY <1>11 DEF LockTimer, Same, softirq
  <2>7. \A v \in User : Leaves(v)
    BY <2>2 DEF Leaves
  <2>3. PICK c \in CPU : ReadBase(a, c)
    BY <1>11, Bounds DEF LockTimer
  <2>4. Reads(a, c)
    BY <2>1, <2>3, ReadBaseReads
  <2>5. a \in User => Seen(a)'
    BY <2>1, <2>4 DEF Reads, Seen
  <2>6. Moves(a)
    BY <2>4 DEF Reads
  <2>9. Alone'
    <3>1. Alone
      BY DEF Synced
    <3>2. call'[a].op = "mod" /\ call'[a].timer = call[a].timer
      BY <2>1, <2>4 DEF Reads
    <3>3. \A v \in User : v # a => call'[v] = call[v]
      BY <2>6 DEF Moves, Agent
    <3>4. "mod" \notin SyncOp
      BY DEF SyncOp
    <3> QED
      BY <2>1, <3>1, <3>2, <3>3, <3>4, AloneKept
  <2> QED
    BY <2>5, <2>6, <2>7, <2>8, <2>9, CallerSees DEF Agent
<1>12. ASSUME NEW a \in Agent, LockFirst(a) PROVE Synced'
  <2>1. Called(a) /\ pc[a] = "m_lock1" /\ call[a].op = "mod" /\ call[a].timer \in Timer
    BY <1>12 DEF LockFirst, At, Control, Calling, Called, ModSection
  <2>2. UNCHANGED base
    BY <1>12 DEF LockFirst, wheel
  <2>8. UNCHANGED <<periodic, running_timer, twice>>
    BY <1>12 DEF LockFirst, Same, softirq
  <2>7. \A v \in User : Leaves(v)
    BY <2>2 DEF Leaves
  <2>4. Advances(a, "m_lock2")
    BY <1>12, Advancing DEF LockFirst, Places
  <2>5. a \in User => Seen(a)'
    BY <2>1, <2>4 DEF Advances, Seen
  <2>6. Moves(a)
    BY <2>4 DEF Advances
  <2>9. Alone'
    <3>1. Alone
      BY DEF Synced
    <3>2. call'[a].op = "mod" /\ call'[a].timer = call[a].timer
      BY <2>1, <2>4 DEF Advances
    <3>3. \A v \in User : v # a => call'[v] = call[v]
      BY <2>6 DEF Moves, Agent
    <3>4. "mod" \notin SyncOp
      BY DEF SyncOp
    <3> QED
      BY <2>1, <3>1, <3>2, <3>3, <3>4, AloneKept
  <2> QED
    BY <2>5, <2>6, <2>7, <2>8, <2>9, CallerSees DEF Agent
<1>13. ASSUME NEW a \in Agent, LockSecond(a) PROVE Synced'
  <2>1. Called(a) /\ pc[a] = "m_lock2" /\ call[a].op = "mod" /\ call[a].timer \in Timer
    BY <1>13 DEF LockSecond, At, Control, Calling, Called, ModSection
  <2>2. UNCHANGED base
    BY <1>13 DEF LockSecond, wheel
  <2>8. UNCHANGED <<periodic, running_timer, twice>>
    BY <1>13 DEF LockSecond, Same, softirq
  <2>7. \A v \in User : Leaves(v)
    BY <2>2 DEF Leaves
  <2>3. call[a].new \in CPU
    BY <2>1, Bounds DEF Called, ModSection
  <2>4. Advances(a, "m_do") \/ Reads(a, call[a].new)
    BY <1>13, <2>1, <2>3, ReadBaseReads, Advancing DEF LockSecond, Places
  <2>5. a \in User => Seen(a)'
    BY <2>1, <2>4 DEF Advances, Reads, Seen
  <2>6. Moves(a)
    BY <2>4 DEF Advances, Reads
  <2>9. Alone'
    <3>1. Alone
      BY DEF Synced
    <3>2. call'[a].op = "mod" /\ call'[a].timer = call[a].timer
      BY <2>1, <2>4 DEF Advances, Reads
    <3>3. \A v \in User : v # a => call'[v] = call[v]
      BY <2>6 DEF Moves, Agent
    <3>4. "mod" \notin SyncOp
      BY DEF SyncOp
    <3> QED
      BY <2>1, <3>1, <3>2, <3>3, <3>4, AloneKept
  <2> QED
    BY <2>5, <2>6, <2>7, <2>8, <2>9, CallerSees DEF Agent
<1>14. ASSUME NEW a \in Agent, Install(a) PROVE Synced'
  <2>1. Called(a) /\ pc[a] = "m_do" /\ call[a].op = "mod" /\ call[a].timer \in Timer
    BY <1>14 DEF Install, At, Control, Calling, Called, ModSection
  <2>2. \A x \in Timer : x # call[a].timer => base'[x] = base[x]
    BY <1>14, <2>1 DEF Install, Enqueue, Types
  <2>3. Finishes(a)
    BY <1>14, Finishing DEF Install
  <2>8. UNCHANGED <<periodic, running_timer, twice>>
    BY <1>14 DEF Install, Same, softirq
  <2>7. \A v \in User : Leaves(v)
    <3> SUFFICES ASSUME NEW v \in User, call[v].op \in SyncOp, call[v].timer \notin periodic
                 PROVE  call[v].timer \in Timer /\ call[v].timer # call[a].timer
      BY <2>2 DEF Leaves
    <3>2. call[v].timer \in Timer
      BY SyncTimer
    <3>3. CASE a \in User
      BY <2>1, <3>2, <3>3 DEF Synced, Alone
    <3>4. CASE a \in CPU
      BY <2>1, <3>2, <3>4 DEF Called
    <3> QED
      BY <3>3, <3>4 DEF Agent
  <2>5. a \in User => Seen(a)'
    BY <2>3, NoCallType DEF Finishes, Seen
  <2>6. Moves(a)
    BY <2>3 DEF Finishes
  <2>9. Alone'
    <3>1. Alone
      BY DEF Synced
    <3>2. call'[a].op # "mod" /\ call'[a].op \notin SyncOp
      BY <2>3, NoCallType DEF Finishes, SyncOp
    <3>3. \A v \in User : v # a => call'[v] = call[v]
      BY <2>6 DEF Moves, Agent
    <3> QED
      BY <3>1, <3>2, <3>3, AloneKept
  <2> QED
    BY <2>5, <2>6, <2>7, <2>8, <2>9, CallerSees DEF Agent
<1>15. ASSUME NEW u \in User, DelAgain(u) PROVE Synced'
  <2>1. call[u] \in Call /\ call[u].timer \in Timer /\ call[u].op \in DelOps
    BY <1>15
    DEF DelAgain, At, Control, Calling, Called, ModSection, Types, Call, Agent, DelOps
  <2>2. Seen(u)
    BY DEF Synced
  <2>3. UNCHANGED base
    BY <1>15 DEF DelAgain, wheel
  <2>4. Probes(u, call[u])
    BY <1>15, <2>1, DelReadProbes DEF DelAgain, Agent
  <2>8. UNCHANGED <<periodic, running_timer, twice>>
    BY <1>15 DEF DelAgain, Same, softirq
  <2>7. \A v \in User : Leaves(v)
    BY <1>15 DEF DelAgain, wheel, Leaves
  <2>5. Seen(u)'
    BY <2>1, <2>2, <2>3, <2>4, <2>8, ProbesSees DEF Seen
  <2>6. Moves(u)
    BY <2>4 DEF Probes, Answers
  <2>9. Alone'
    <3>1. Alone
      BY DEF Synced
    <3>2. \A v \in User : v # u => call'[v] = call[v]
      BY <2>6 DEF Moves, Agent
    <3>3. call'[u].op # "mod"
      BY <2>1, <2>4, <2>6, NoCallType DEF Probes, Answers, DelOps
    <3>4. call'[u].op \in SyncOp => call[u].op \in SyncOp /\ call'[u].timer = call[u].timer
      BY <2>1, <2>4, <2>6, NoCallType DEF Probes, Answers, SyncOp
    <3> QED
      BY <3>1, <3>2, <3>3, <3>4, AloneKept
  <2> QED
    BY <2>5, <2>6, <2>7, <2>8, <2>9, CallerSees DEF Agent
<1>16. ASSUME NEW u \in User, DelLock(u) PROVE Synced'
  <2>1. call[u] \in Call /\ call[u].timer \in Timer /\ call[u].op \in DelOps
    BY <1>16
    DEF DelLock, At, Control, Calling, Called, ModSection, Types, Call, Agent, DelOps
  <2>2. Seen(u)
    BY DEF Synced
  <2>3. UNCHANGED base
    BY <1>16 DEF DelLock, wheel
  <2>4. Advances(u, "d_do") \/ Probes(u, call[u])
    BY <1>16, <2>1, DelReadProbes, Advancing DEF DelLock, Places, Agent
  <2>8. UNCHANGED <<periodic, running_timer, twice>>
    BY <1>16 DEF DelLock, Same, softirq
  <2>7. \A v \in User : Leaves(v)
    BY <1>16 DEF DelLock, wheel, Leaves
  <2>5. Seen(u)'
    <3>1. CASE Advances(u, "d_do")
      <4>1. call[u].op # "single"
        BY <1>16, <2>2 DEF DelLock, At, Seen
      <4> QED
        BY <2>2, <2>8, <3>1, <4>1 DEF Advances, Seen
    <3>2. CASE Probes(u, call[u])
      BY <2>1, <2>2, <2>3, <2>8, <3>2, ProbesSees DEF Seen
    <3> QED
      BY <2>4, <3>1, <3>2
  <2>6. Moves(u)
    BY <2>4 DEF Advances, Probes, Answers
  <2>9. Alone'
    <3>1. Alone
      BY DEF Synced
    <3>2. \A v \in User : v # u => call'[v] = call[v]
      BY <2>6 DEF Moves, Agent
    <3>3. call'[u].op # "mod"
      BY <2>1, <2>4, <2>6, NoCallType DEF Advances, Probes, Answers, DelOps
    <3>4. call'[u].op \in SyncOp => call[u].op \in SyncOp /\ call'[u].timer = call[u].timer
      BY <2>1, <2>4, <2>6, NoCallType DEF Advances, Probes, Answers, SyncOp
    <3> QED
      BY <3>1, <3>2, <3>3, <3>4, AloneKept
  <2> QED
    BY <2>5, <2>6, <2>7, <2>8, <2>9, CallerSees DEF Agent
<1>17. ASSUME NEW u \in User, Delete(u) PROVE Synced'
  <2>1. call[u] \in Call /\ call[u].timer \in Timer /\ call[u].op \in DelOps
    BY <1>17
    DEF Delete, At, Control, Calling, Called, ModSection, Types, Call, Agent, DelOps
  <2>2. Seen(u)
    BY DEF Synced
  <2>3. base'[call[u].timer] = NULL /\ \A t \in Timer : base'[t] \in {base[t], NULL}
    BY <1>17, <2>1 DEF Delete, Types
  <2>4. Answers(u, 1, call[u])
    BY <1>17, <2>1, DeletedAnswers DEF Delete, Agent
  <2>8. UNCHANGED <<periodic, running_timer, twice>>
    BY <1>17 DEF Delete, Same, softirq
  <2>7. \A v \in User : Leaves(v)
    BY <2>3, SyncTimer DEF Leaves
  <2>5. Seen(u)'
    <3>1. \A c \in CPU : ~(c < 0)
      BY Kinds
    <3>2. call[u].op # "single"
      BY <1>17, <2>2 DEF Delete, At, Seen
    <3> QED
      BY <2>3, <2>4, <2>8, <3>1, <3>2, NoCallType DEF Answers, Seen
  <2>6. Moves(u)
    BY <2>4 DEF Answers
  <2>9. Alone'
    <3>1. Alone
      BY DEF Synced
    <3>2. \A v \in User : v # u => call'[v] = call[v]
      BY <2>6 DEF Moves, Agent
    <3>3. call'[u].op # "mod"
      BY <2>1, <2>4, <2>6, NoCallType DEF Answers, DelOps
    <3>4. call'[u].op \in SyncOp => call[u].op \in SyncOp /\ call'[u].timer = call[u].timer
      BY <2>1, <2>4, <2>6, NoCallType DEF Answers, SyncOp
    <3> QED
      BY <3>1, <3>2, <3>3, <3>4, AloneKept
  <2> QED
    BY <2>5, <2>6, <2>7, <2>8, <2>9, CallerSees DEF Agent
<1>18. ASSUME NEW u \in User, LookAt(u) PROVE Synced'
  <2>1. call[u] \in Call /\ call[u].timer \in Timer /\ call[u].op \in DelOps
    BY <1>18
    DEF LookAt, At, Control, Calling, Called, ModSection, Types, Call, Agent, DelOps
  <2>2. Seen(u)
    BY DEF Synced
  <2>3. UNCHANGED base
    BY <1>18 DEF LookAt, wheel
  <2>4. Looks(u) /\ pc[u] = "s_look"
    BY <1>18, LookAtLooks, Bounds DEF Agent, LookAt, At
  <2>8. UNCHANGED <<periodic, running_timer, twice>>
    BY <1>18 DEF LookAt, Same, softirq
  <2>7. \A v \in User : Leaves(v)
    BY <1>18 DEF LookAt, wheel, Leaves
  <2>5. Seen(u)'
    <3> DEFINE t == call[u].timer
    <3>1. /\ call[u].op \in {"sync", "single"} /\ call[u].cpu \in Int
          /\ t \notin periodic => base[t] = NULL
          /\ t \notin periodic => \A c \in CPU : c < call[u].cpu => running_timer[c] # t
      BY <2>1, <2>2, <2>4, TimerAssumption DEF Seen, Call
    <3>2. \A c \in CPU : c \notin online => running_timer[c] # t
      BY <2>1, TimerAssumption DEF Control, Running
    <3>3. CASE Advances(u, "s_pending") /\ \A c \in online : c < call[u].cpu
      <4>1. t \notin periodic => \A c \in CPU : running_timer[c] # t
        BY <3>1, <3>2, <3>3
      <4> QED
        BY <2>2, <2>3, <2>8, <3>1, <3>3, <4>1 DEF Advances, Seen
    <3>4. CASE ~(Advances(u, "s_pending") /\ \A c \in online : c < call[u].cpu)
      <4>1. /\ pc'[u] \in {"s_look", "s_wait"} /\ call'[u].timer = t
            /\ call'[u].op = call[u].op /\ call'[u].ret = call[u].ret
        BY <2>4, <3>4 DEF Looks
      <4>2. PICK i \in online :
              /\ i >= call[u].cpu /\ \A c \in online : c >= call[u].cpu => i <= c
              /\ pc'[u] = "s_wait" => running_timer[i] = t /\ call'[u].cpu = i
              /\ pc'[u] = "s_look" => running_timer[i] # t /\ call'[u].cpu = i + 1
        BY <2>4, <3>4 DEF Looks
      <4>3. i \in CPU /\ i \in Int
        <5>1. i \in CPU
          BY Bounds
        <5> QED
          BY <5>1, Kinds
      <4>4. CASE pc'[u] = "s_wait"
        <5>1. t \notin twice => \A c \in CPU : c # i => running_timer[c] # t
          BY <2>1, <4>2, <4>3, <4>4, TimerAssumption DEF Synced, Twice
        <5>2. call'[u].cpu = i
          BY <4>2, <4>4
        <5> QED
          BY <2>2, <2>3, <2>8, <3>1, <4>1, <4>4, <5>1, <5>2 DEF Seen
      <4>5. CASE pc'[u] = "s_look"
        <5>1. ASSUME t \notin periodic, NEW c \in CPU, c < i + 1 PROVE running_timer[c] # t
          <6>1. c \in Int
            BY Kinds
          <6>2. CASE c < call[u].cpu
            BY <3>1, <5>1, <6>2
          <6>3. CASE c = i
            BY <4>2, <4>5, <6>3
          <6>4. CASE ~(c < call[u].cpu) /\ c # i
            <7>1. c \notin online
              BY <3>1, <4>2, <4>3, <5>1, <6>1, <6>4
            <7> QED
              BY <3>2, <7>1
          <6> QED
            BY <6>2, <6>3, <6>4
        <5>2. PICK n \in Int : n = call'[u].cpu /\ n = i + 1
          BY <4>2, <4>3, <4>5
        <5>3. t \notin periodic => \A c \in CPU : c < n => running_timer[c] # t
          BY <5>1, <5>2
        <5> QED
          BY <2>2, <2>3, <2>8, <3>1, <4>1, <4>5, <5>2, <5>3 DEF Seen
      <4> QED
        BY <4>1, <4>4, <4>5
    <3> QED
      BY <3>3, <3>4
  <2>6. Moves(u)
    BY <2>4 DEF Looks, Advances
  <2>9. Alone'
    <3>1. Alone
      BY DEF Synced
    <3>2. \A v \in User : v # u => call'[v] = call[v]
      BY <2>6 DEF Moves, Agent
    <3>3. call'[u].op # "mod"
      BY <2>1, <2>4, <2>6, NoCallType DEF Looks, Advances, DelOps
    <3>4. call'[u].op \in SyncOp => call[u].op \in SyncOp /\ call'[u].timer = call[u].timer
      BY <2>1, <2>4, <2>6, NoCallType DEF Looks, Advances, SyncOp
    <3> QED
      BY <3>1, <3>2, <3>3, <3>4, AloneKept
  <2> QED
    BY <2>5, <2>6, <2>7, <2>8, <2>9, CallerSees DEF Agent
<1>19. ASSUME NEW u \in User, WaitEnds(u) PROVE Synced'
  <2>1. call[u] \in Call /\ call[u].timer \in Timer /\ call[u].op \in DelOps
    BY <1>19
    DEF WaitEnds, At, Control, Calling, Called, ModSection, Types, Call, Agent, DelOps
  <2>2. Seen(u)
    BY DEF Synced
  <2>3. UNCHANGED base
    BY <1>19 DEF WaitEnds, wheel
  <2>4. Advances(u, "s_pending")
    BY <1>19, Advancing DEF WaitEnds, Places, Agent
  <2>8. UNCHANGED <<periodic, running_timer, twice>>
    BY <1>19 DEF WaitEnds, Same, softirq
  <2>7. \A v \in User : Leaves(v)
    BY <1>19 DEF WaitEnds, wheel, Leaves
  <2>5. Seen(u)'
    BY <1>19, <2>2, <2>3, <2>4, <2>8 DEF WaitEnds, At, Advances, Seen
  <2>6. Moves(u)
    BY <2>4 DEF Advances
  <2>9. Alone'
    <3>1. Alone
      BY DEF Synced
    <3>2. \A v \in User : v # u => call'[v] = call[v]
      BY <2>6 DEF Moves, Agent
    <3>3. call'[u].op # "mod"
      BY <2>1, <2>4, <2>6, NoCallType DEF Advances, DelOps
    <3>4. call'[u].op \in SyncOp => call[u].op \in SyncOp /\ call'[u].timer = call[u].timer
      BY <2>1, <2>4, <2>6, NoCallType DEF Advances, SyncOp
    <3> QED
      BY <3>1, <3>2, <3>3, <3>4, AloneKept
  <2> QED
    BY <2>5, <2>6, <2>7, <2>8, <2>9, CallerSees DEF Agent
<1>20. ASSUME NEW u \in User, SyncReturns(u) PROVE Synced'
  <2>1. call[u] \in Call /\ call[u].timer \in Timer /\ call[u].op \in DelOps
    BY <1>20
    DEF SyncReturns, At, Control, Calling, Called, ModSection, Types, Call, Agent,
        DelOps
  <2>2. Seen(u)
    BY DEF Synced
  <2>3. UNCHANGED base
    BY <1>20 DEF SyncReturns, wheel
  <2>4. Finishes(u) \/ Probes(u, call[u])
    BY <1>20, <2>1, DelReadProbes, Finishing DEF SyncReturns, Agent
  <2>8. UNCHANGED <<periodic, running_timer, twice>>
    BY <1>20 DEF SyncReturns, Same, softirq
  <2>7. \A v \in User : Leaves(v)
    BY <1>20 DEF SyncReturns, wheel, Leaves
  <2>5. Seen(u)'
    <3>1. CASE Finishes(u)
      BY <3>1, NoCallType DEF Finishes, Seen
    <3>2. CASE Probes(u, call[u])
      BY <2>1, <2>2, <2>3, <2>8, <3>2, ProbesSees DEF Seen
    <3> QED
      BY <2>4, <3>1, <3>2
  <2>6. Moves(u)
    BY <2>4 DEF Finishes, Probes, Answers
  <2>9. Alone'
    <3>1. Alone
      BY DEF Synced
    <3>2. \A v \in User : v # u => call'[v] = call[v]
      BY <2>6 DEF Moves, Agent
    <3>3. call'[u].op # "mod"
      BY <2>1, <2>4, <2>6, NoCallType DEF Finishes, Probes, Answers, DelOps
    <3>4. call'[u].op \in SyncOp => call[u].op \in SyncOp /\ call'[u].timer = call[u].timer
      BY <2>1, <2>4, <2>6, NoCallType DEF Finishes, Probes, Answers, SyncOp
    <3> QED
      BY <3>1, <3>2, <3>3, <3>4, AloneKept
  <2> QED
    BY <2>5, <2>6, <2>7, <2>8, <2>9, CallerSees DEF Agent
<1>21. ASSUME NEW d \in CPU, NEW n \in CPU, cpu_down(d, n) PROVE Synced'
  BY <1>21, OthersSee DEF cpu_down, Plugging, wheel, softirq, calls, Leaves
<1>22. ASSUME MigrateLock PROVE Synced'
  BY <1>22, OthersSee DEF MigrateLock, Plugging, wheel, softirq, calls, Leaves
<1>23. ASSUME migrate_timer_list PROVE Synced'
  <2>1. UNCHANGED <<pc, call, periodic, running_timer, twice>>
    BY <1>23 DEF migrate_timer_list, Plugging, softirq, calls
  <2>2. dead \in CPU
    BY <1>23 DEF migrate_timer_list, Control, Plugged
  <2>3. \A x \in Timer : base[x] = NULL => base'[x] = NULL
    BY <1>23, <2>2, Kinds DEF migrate_timer_list, Left, Enqueue, wheel, Types
  <2>4. \A v \in User : Leaves(v)
    BY <2>3, SyncTimer DEF Leaves
  <2> QED
    BY <2>1, <2>4, OthersSee
<1>24. ASSUME MigrateEnds PROVE Synced'
  BY <1>24, OthersSee DEF MigrateEnds, Plugging, wheel, softirq, calls, Leaves
<1> QED
  BY <1>0, <1>1, <1>2, <1>3, <1>4, <1>5, <1>6, <1>7, <1>8, <1>9, <1>10, <1>11, <1>12,
     <1>13, <1>14, <1>15, <1>16, <1>17, <1>18, <1>19, <1>20, <1>21, <1>22, <1>23, <1>24, Bounds
  DEF Next, Softirq, Modifying, Deleting, Migrating, Agent

-----------------------------------------------------------------------------
(* The theorems. *)

(* The parts of Control together. *)
LEMMA ControlStep == Types /\ Control /\ [Next]_vars => Control'
BY CallingStep, RunningStep, PluggedStep, LockedStep DEF Control

(* Nothing is under way at boot. *)
LEMMA InitHolds == Init => IInv
<1> SUFFICES ASSUME Init PROVE IInv
  OBVIOUS
<1>1. Types /\ InStep
  BY TypesInit
<1>2. \A a \in Agent : pc[a] = "idle" /\ call[a] = NoCall
  BY DEF Init
<1>3. \A c \in CPU : rpc[c] = "idle" /\ running_timer[c] = NoTimer /\ fired[c] = NoTimer
  BY DEF Init
<1>4. hpc = "none" /\ dead = NULL /\ heir = NULL
  BY DEF Init
<1>5. \A t \in Timer : base[t] = NULL /\ entry[t] = NoList
  BY DEF Init
<1>6. Control
  <2>1. Calling
    BY <1>2, NoCallType DEF Calling, Called, ModSection
  <2>2. Running /\ Plugged
    BY <1>3, <1>4 DEF Running, Plugged
  <2>3. Locked
    BY <1>2, <1>3, <1>4 DEF Locked, Holds, Migrates
  <2> QED
    BY <2>1, <2>2, <2>3 DEF Control
<1>7. Placed
  BY <1>2, <1>3, <1>5 DEF Placed, Found, Linked, Firing, OnLiveBase
<1>8. Synced
  <2>1. \A u \in User : pc[u] = "idle" /\ call[u] = NoCall
    BY <1>2 DEF Agent
  <2>2. Twice
    BY <1>3 DEF Twice
  <2>3. Alone /\ \A u \in User : Seen(u)
    BY <2>1, NoCallType DEF Alone, Seen, SyncOp
  <2> QED
    BY <2>2, <2>3 DEF Synced
<1> QED
  BY <1>1, <1>6, <1>7, <1>8 DEF IInv

(* The invariant is inductive: it holds at boot, and every step of a timer  *)
(* interrupt, a softirq, a caller and a migration keeps it.                 *)
THEOREM Invariance == Spec => []IInv
<1>1. IInv /\ [Next]_vars => IInv'
  <2> SUFFICES ASSUME IInv, [Next]_vars PROVE IInv'
    OBVIOUS
  <2>1. Types /\ InStep /\ Control /\ Placed /\ Synced
    BY DEF IInv
  <2>2. Types' /\ InStep'
    BY <2>1, TypesStep, InStepStep DEF Control
  <2>3. Control' /\ Placed' /\ Synced'
    BY <2>1, ControlStep, PlacedStep, SyncedStep
  <2> QED
    BY <2>2, <2>3 DEF IInv
<1> QED
  BY InitHolds, <1>1, PTL DEF Spec

(* Types, whatever the number of CPUs and the size of the wheel; and no     *)
(* online CPU's base gets ahead of jiffies by more than the turn it has     *)
(* done, across the wrap (timer_jiffies, __run_timers).                     *)
THEOREM TypeCorrect == Spec => []TypeOK
<1>1. IInv => TypeOK
  BY InStepTypeOK DEF IInv
<1> QED
  BY Invariance, <1>1, PTL

(* A timer is unlinked only under the lock of the base it is on, though     *)
(* __mod_timer() and del_timer() choose the lock by a base they have read   *)
(* without one; and it is linked exactly while it is pending.               *)
THEOREM UnlinkedUnderLock == Spec => []UnlinksWhatItLocked
<1>1. IInv => UnlinksWhatItLocked
  <2> SUFFICES ASSUME IInv PROVE UnlinksWhatItLocked
    OBVIOUS
  <2>1. Types /\ Control /\ Placed
    BY DEF IInv
  <2>2. ASSUME NEW a \in Agent, pc[a] \in {"m_do", "d_do"}
        PROVE  /\ base[call[a].timer] = call[a].old
               /\ call[a].old # NULL => /\ base_lock[call[a].old] = a
                                        /\ entry[call[a].timer] # NoList
    <3>1. call[a].old \in CPU \cup {NULL}
      BY <2>1 DEF Types, Call
    <3>2. call[a].old # NULL => base_lock[call[a].old] = a
      BY <2>1, <2>2, <3>1 DEF Control, Locked, Holds
    <3> QED
      BY <2>1, <2>2, <3>2 DEF Placed, Found
  <2> QED
    BY <2>1, <2>2 DEF UnlinksWhatItLocked, Placed, Linked
<1> QED
  BY Invariance, <1>1, PTL

(* When del_timer_sync() is about to return, the handler of a timer that    *)
(* does not restart itself, and that no two bases have announced, runs on   *)
(* no CPU: its one pass over the online CPUs was enough.  The single shot   *)
(* form finds the timer off the wheel and has nothing to report.            *)
THEOREM SyncIsComplete == Spec => []SyncWaitsForHandler
<1>1. IInv => SyncWaitsForHandler
  <2> SUFFICES ASSUME IInv, NEW u \in User, pc[u] = "s_pending"
               PROVE  LET t == call[u].timer
                      IN  /\ base[t] = NULL /\ t \notin periodic \cup twice
                               => \A c \in CPU : fired[c] # t
                          /\ call[u].op = "single" => base[t] = NULL /\ call[u].ret = 0
    BY DEF SyncWaitsForHandler
  <2>1. Seen(u) /\ Called(u) /\ Running /\ Types
    BY DEF IInv, Synced, Control, Calling, Agent
  <2>2. call[u].timer \in Timer /\ NoTimer \notin Timer
    BY <2>1, TimerAssumption DEF Called
  <2>3. \A c \in CPU : fired[c] \in {NoTimer, running_timer[c]}
    BY <2>1 DEF Running, Types
  <2>4. call[u].timer \notin periodic \cup twice =>
          \A c \in CPU : running_timer[c] # call[u].timer
    BY <2>1 DEF Seen
  <2>5. call[u].op = "single" => base[call[u].timer] = NULL /\ call[u].ret = 0
    BY <2>1 DEF Seen
  <2> QED
    BY <2>2, <2>3, <2>4, <2>5
<1> QED
  BY Invariance, <1>1, PTL

(* When no CPU is going down, every pending timer is on the wheel of a CPU  *)
(* that is up: migrate_timers() has missed none, and no caller has put one  *)
(* back.                                                                    *)
THEOREM DeadCPUIsEmpty == Spec => []NoTimerOnDeadCPU
<1>1. IInv => NoTimerOnDeadCPU
  BY DEF IInv, Placed, OnLiveBase, NoTimerOnDeadCPU
<1> QED
  BY Invariance, <1>1, PTL

-----------------------------------------------------------------------------
(* The subsets of m + n things are those of the first m and of the other n. *)
LEMMA PowerSum ==
  ASSUME NEW m \in Nat, NEW n \in Nat
  PROVE  2 ^ (m + n) = 2 ^ m * 2 ^ n
<1> DEFINE A == 1..m
           B == (m + 1)..(m + n)
           C == 1..(m + n)
           F == [X \in SUBSET C |-> <<X \cap A, X \cap B>>]
<1>1. /\ IsFiniteSet(A) /\ Cardinality(A) = m
      /\ IsFiniteSet(B) /\ Cardinality(B) = n
      /\ IsFiniteSet(C) /\ Cardinality(C) = m + n
  <2>1. IsFiniteSet(A) /\ Cardinality(A) = IF 1 > m THEN 0 ELSE m - 1 + 1
    BY FS_Interval
  <2>2. IsFiniteSet(B) /\ Cardinality(B) = IF m + 1 > m + n THEN 0 ELSE m + n - (m + 1) + 1
    BY FS_Interval
  <2>3. IsFiniteSet(C) /\ Cardinality(C) = IF 1 > m + n THEN 0 ELSE m + n - 1 + 1
    BY FS_Interval
  <2> QED
    BY <2>1, <2>2, <2>3
<1>2. /\ IsFiniteSet(SUBSET A) /\ Cardinality(SUBSET A) = 2 ^ m
      /\ IsFiniteSet(SUBSET B) /\ Cardinality(SUBSET B) = 2 ^ n
      /\ IsFiniteSet(SUBSET C) /\ Cardinality(SUBSET C) = 2 ^ (m + n)
  <2> HIDE DEF A, B, C
  <2> QED
    BY <1>1, FS_SUBSET
<1>3. C = A \cup B /\ A \cap B = {}
  OBVIOUS
<1>4. F \in Bijection(SUBSET C, (SUBSET A) \X (SUBSET B))
  <2> HIDE DEF A, B, C
  <2>1. F \in [SUBSET C -> (SUBSET A) \X (SUBSET B)]
    OBVIOUS
  <2>2. ASSUME NEW X \in SUBSET C, NEW Y \in SUBSET C, F[X] = F[Y] PROVE X = Y
    <3>1. X \cap A = Y \cap A /\ X \cap B = Y \cap B
      BY <2>2
    <3> QED
      BY <1>3, <3>1
  <2>3. ASSUME NEW p \in (SUBSET A) \X (SUBSET B) PROVE \E X \in SUBSET C : F[X] = p
    <3>1. PICK X, Y : X \in SUBSET A /\ Y \in SUBSET B /\ p = <<X, Y>>
      OBVIOUS
    <3>2. X \cup Y \in SUBSET C /\ (X \cup Y) \cap A = X /\ (X \cup Y) \cap B = Y
      BY <1>3, <3>1
    <3>3. F[X \cup Y] = <<X, Y>>
      BY <3>2
    <3> QED
      BY <3>1, <3>2, <3>3
  <2> HIDE DEF F
  <2> QED
    BY <2>1, <2>2, <2>3, Fun_IsBij
<1>5. ExistsBijection(SUBSET C, (SUBSET A) \X (SUBSET B))
  BY <1>4 DEF ExistsBijection
<1>6. Cardinality((SUBSET A) \X (SUBSET B)) = Cardinality(SUBSET C)
  BY <1>2, <1>5, FS_Bijection
<1>7. Cardinality((SUBSET A) \X (SUBSET B)) = Cardinality(SUBSET A) * Cardinality(SUBSET B)
  BY <1>2, FS_Product
<1> QED
  BY <1>2, <1>6, <1>7

LEMMA PowerGrows ==
  ASSUME NEW n \in Nat \ {0}
  PROVE  2 ^ n \in Nat /\ 2 ^ n >= 2
<1>1. IsFiniteSet(1..n) /\ Cardinality(1..n) = n
  <2>1. IsFiniteSet(1..n) /\ Cardinality(1..n) = IF 1 > n THEN 0 ELSE n - 1 + 1
    BY FS_Interval
  <2> QED
    BY <2>1
<1>2. IsFiniteSet(SUBSET (1..n)) /\ Cardinality(SUBSET (1..n)) = 2 ^ n
  BY <1>1, FS_SUBSET
<1>3. 2 ^ n \in Nat \ {0}
  BY PowerOfTwo
<1>4. 2 ^ n # 1
  <2>1. SUFFICES ASSUME 2 ^ n = 1 PROVE FALSE
    OBVIOUS
  <2>2. IsFiniteSet({{}}) /\ Cardinality({{}}) = 1
    BY FS_Singleton
  <2>3. {{}} \in SUBSET (SUBSET (1..n))
    OBVIOUS
  <2>4. Cardinality(SUBSET (1..n)) = Cardinality({{}}) => SUBSET (1..n) = {{}}
    BY <1>2, <2>3, FS_Subset
  <2>5. SUBSET (1..n) = {{}}
    BY <1>2, <2>1, <2>2, <2>4
  <2>6. 1..n \in SUBSET (1..n) /\ 1 \in 1..n
    OBVIOUS
  <2> QED
    BY <2>5, <2>6
<1> QED
  BY <1>3, <1>4

(* Division, ... *)
LEMMA Division ==
  ASSUME NEW x \in Int, NEW s \in Nat \ {0}
  PROVE  /\ x \div s \in Int /\ x % s \in 0..(s - 1)
         /\ x = s * (x \div s) + (x % s)
OBVIOUS

(* ... products of positive numbers ... *)
LEMMA Scaling ==
  ASSUME NEW s \in Nat \ {0}, NEW a \in Int, NEW b \in Int
  PROVE  /\ a < b <=> s * a < s * b
         /\ a <= b <=> s * a <= s * b
OBVIOUS

(* ... and the only quotient and remainder. *)
LEMMA Quotient ==
  ASSUME NEW s \in Nat \ {0}, NEW q \in Int, NEW r \in 0..(s - 1), NEW x, x = s * q + r
  PROVE  x \div s = q /\ x % s = r
<1>1. x \in Int
  OBVIOUS
<1>2. PICK k \in Int, e \in 0..(s - 1) : k = x \div s /\ e = x % s /\ x = s * k + e
  BY <1>1, Division
<1>3. s * (k - q) = r - e
  BY <1>2
<1>4. ~(k - q < 0) /\ ~(0 < k - q)
  <2>1. k - q < 0 => k - q <= -1
    OBVIOUS
  <2>2. 0 < k - q => 1 <= k - q
    OBVIOUS
  <2>3. k - q <= -1 <=> s * (k - q) <= s * (-1)
    BY Scaling
  <2>4. 1 <= k - q <=> s * 1 <= s * (k - q)
    BY Scaling
  <2>5. s * (-1) = -s /\ s * 1 = s
    OBVIOUS
  <2> QED
    BY <1>2, <1>3, <2>1, <2>2, <2>3, <2>4, <2>5
<1>5. k = q
  BY <1>4
<1>6. e = r
  BY <1>2, <1>5
<1> QED
  BY <1>2, <1>5, <1>6

(* A level of the wheel reaches 2^TVN_BITS times as far as the one below. *)
LEMMA SpanNext ==
  ASSUME NEW l \in Nat \ {0}
  PROVE  Span(l + 1) = Span(l) * 2 ^ TVN_BITS
<1>1. PICK r \in Nat, n \in Nat : r = TVR_BITS /\ n = TVN_BITS
  BY TimerAssumption
<1>2. PICK k \in Nat : k = (l - 1) * n
  <2>1. l - 1 \in Nat
    OBVIOUS
  <2> QED
    BY <2>1, Product
<1>3. (l + 1 - 1) * n = k + n
  BY <1>2
<1>4. r + (l + 1 - 1) * n = (r + k) + n
  BY <1>3
<1>5. 2 ^ ((r + k) + n) = 2 ^ (r + k) * 2 ^ n
  BY PowerSum
<1> QED
  BY <1>1, <1>2, <1>4, <1>5 DEF Span

LEMMA SpanFirst == Span(1) = 2 ^ TVR_BITS
<1>1. PICK r \in Nat, n \in Nat : r = TVR_BITS /\ n = TVN_BITS
  BY TimerAssumption
<1>2. r + (1 - 1) * n = r
  OBVIOUS
<1> QED
  BY <1>1, <1>2 DEF Span

LEMMA SpanLast == Span(LEVELS) = Word
BY DEF Span, Word

(* and is a multiple of every one below. *)
LEMMA SpanMultiple ==
  ASSUME NEW j \in Nat \ {0}, NEW l \in Nat \ {0}, j <= l
  PROVE  \E f \in Nat \ {0} : Span(l) = Span(j) * f
<1>1. PICK r \in Nat, n \in Nat : r = TVR_BITS /\ n = TVN_BITS
  BY TimerAssumption
<1>2. l - j \in Nat /\ j - 1 \in Nat
  OBVIOUS
<1>3. PICK k \in Nat, m \in Nat : k = (j - 1) * n /\ m = (l - j) * n
  BY <1>2, Product
<1>4. (l - 1) * n = k + m
  BY <1>3
<1>5. r + (l - 1) * n = (r + k) + m
  BY <1>4
<1>6. 2 ^ ((r + k) + m) = 2 ^ (r + k) * 2 ^ m /\ 2 ^ m \in Nat \ {0}
  BY PowerSum, PowerOfTwo
<1> QED
  BY <1>1, <1>3, <1>5, <1>6 DEF Span
(* A remainder, and a quotient, of a remainder. *)
LEMMA Nested ==
  ASSUME NEW s \in Nat \ {0}, NEW f \in Nat \ {0}, NEW w, w = s * f, NEW p \in Int
  PROVE  /\ (p % w) % s = p % s
         /\ p \div s = f * (p \div w) + ((p % w) \div s)
<1>1. w \in Nat \ {0}
  OBVIOUS
<1>2. PICK k \in Int, x \in 0..(w - 1) : k = p \div w /\ x = p % w /\ p = w * k + x
  BY <1>1, Division
<1>3. PICK q \in Int, r \in 0..(s - 1) : q = x \div s /\ r = x % s /\ x = s * q + r
  <2>1. x \in Int
    BY <1>1
  <2> QED
    BY <2>1, Division
<1>4. PICK j \in Int : j = f * k
  OBVIOUS
<1>5. w * k = s * j
  BY <1>4
<1>6. p = s * (j + q) + r
  BY <1>2, <1>3, <1>5
<1>7. p \div s = j + q /\ p % s = r
  BY <1>6, Quotient
<1> QED
  BY <1>2, <1>3, <1>4, <1>7

LEMMA Multiples ==
  ASSUME NEW n \in Nat \ {0}, NEW a \in Int, NEW b \in Int
  PROVE  (n * a + b) % n = b % n
<1>1. PICK q \in Int, r \in 0..(n - 1) : q = b \div n /\ r = b % n /\ b = n * q + r
  BY Division
<1>2. PICK x \in Int : x = n * a + b
  OBVIOUS
<1>3. a + q \in Int /\ x = n * (a + q) + r
  BY <1>1, <1>2
<1>4. x % n = r
  BY <1>3, Quotient
<1> QED
  BY <1>1, <1>2, <1>4

LEMMA Aligned ==
  ASSUME NEW s \in Nat \ {0}, NEW q \in Int
  PROVE  (s * q) % s = 0 /\ (s * q) \div s = q
<1>1. 0 \in 0..(s - 1) /\ s * q = s * q + 0
  OBVIOUS
<1> QED
  BY <1>1, Quotient

(* The factors of a level. *)
LEMMA SpanBelow ==
  ASSUME NEW l \in 1..LEVELS, l # 1
  PROVE  \E s \in Nat \ {0}, n \in Nat \ {0} :
           /\ s = Span(l - 1) /\ n = 2 ^ TVN_BITS /\ Span(l) = s * n /\ n >= 2
<1>1. l - 1 \in Nat \ {0} /\ l - 1 + 1 = l /\ TVN_BITS \in Nat \ {0}
  BY TimerAssumption
<1>2. Span(l - 1) \in Nat \ {0} /\ Span(l - 1 + 1) = Span(l - 1) * 2 ^ TVN_BITS
  BY <1>1, SpanType, SpanNext
<1>3. 2 ^ TVN_BITS \in Nat /\ 2 ^ TVN_BITS >= 2
  BY <1>1, PowerGrows
<1> QED
  BY <1>1, <1>2, <1>3

(* The list of a time is that of the word it is stored in. *)
LEMMA IndexOfWord ==
  ASSUME NEW l \in 1..LEVELS, NEW p \in Int
  PROVE  Index(l, p % Word) = Index(l, p)
<1>1. l \in Nat \ {0} /\ LEVELS \in Nat \ {0} /\ l <= LEVELS
  BY TimerAssumption
<1>2. PICK f \in Nat \ {0} : Word = Span(l) * f
  BY <1>1, SpanMultiple, SpanLast
<1>3. CASE l = 1
  <2>1. Span(l) \in Nat \ {0} /\ Span(l) = 2 ^ TVR_BITS
    BY <1>3, SpanFirst, SpanType
  <2>2. (p % Word) % Span(l) = p % Span(l)
    BY <1>2, <2>1, Nested, ZenonT(60)
  <2> QED
    BY <1>3, <2>1, <2>2 DEF Index
<1>4. CASE l # 1
  <2>1. PICK s \in Nat \ {0}, n \in Nat \ {0} :
           s = Span(l - 1) /\ n = 2 ^ TVN_BITS /\ Span(l) = s * n /\ n >= 2
    BY <1>4, SpanBelow
  <2>2. PICK g \in Nat \ {0} : g = n * f
    OBVIOUS
  <2>3. Word = s * g
    BY <1>2, <2>1, <2>2
  <2>4. p \div s = g * (p \div Word) + ((p % Word) \div s)
    BY <2>3, Nested, ZenonT(60)
  <2>5. PICK k \in Int, b \in Int : k = p \div Word /\ b = (p % Word) \div s
    <3>1. p \div Word \in Int /\ p % Word \in Int
      BY WordType
    <3> QED
      BY <3>1
  <2>6. g * k = n * (f * k)
    BY <2>2
  <2>7. f * k \in Int
    OBVIOUS
  <2>8. (n * (f * k) + b) % n = b % n
    BY <2>7, Multiples
  <2>9. (p \div s) % n = b % n
    BY <2>4, <2>5, <2>6, <2>8
  <2> QED
    BY <1>4, <2>1, <2>5, <2>9 DEF Index
<1> QED
  BY <1>3, <1>4

(* All levels up to l are at their first list when the time is a multiple   *)
(* of what they span.                                                       *)
LEMMA IndexZero ==
  ASSUME NEW l \in 1..LEVELS, NEW x \in Int
  PROVE  (\A k \in 1..l : Index(k, x) = 0) <=> x % Span(l) = 0
<1>0. LEVELS \in Nat \ {0} /\ l \in Nat \ {0}
  BY TimerAssumption
<1>1. ASSUME x % Span(l) = 0, NEW k \in 1..l PROVE Index(k, x) = 0
  <2>1. k \in Nat \ {0} /\ k <= l /\ k \in 1..LEVELS
    BY <1>0
  <2>2. PICK f \in Nat \ {0} : Span(l) = Span(k) * f
    BY <1>0, <2>1, SpanMultiple
  <2>3. PICK u \in Nat \ {0} : u = Span(k)
    BY <2>1, SpanType
  <2>4. PICK q \in Int : x = Span(l) * q
    <3>1. Span(l) \in Nat \ {0}
      BY <1>0, SpanType
    <3>2. x \div Span(l) \in Int /\ x = Span(l) * (x \div Span(l)) + (x % Span(l))
      BY <3>1, Division
    <3>3. Span(l) * (x \div Span(l)) \in Int
      BY <3>1, <3>2
    <3> QED
      BY <1>1, <3>2, <3>3
  <2>5. PICK j \in Int : j = f * q
    OBVIOUS
  <2>6. x = u * j
    BY <2>2, <2>3, <2>4, <2>5
  <2>7. CASE k = 1
    BY <2>3, <2>6, <2>7, Aligned, SpanFirst DEF Index
  <2>8. CASE k # 1
    <3>1. PICK s \in Nat \ {0}, n \in Nat \ {0} :
             s = Span(k - 1) /\ n = 2 ^ TVN_BITS /\ Span(k) = s * n /\ n >= 2
      BY <2>1, <2>8, SpanBelow
    <3>2. n * j \in Int /\ x = s * (n * j)
      BY <2>3, <2>6, <3>1
    <3>3. x \div s = n * j
      BY <3>2, Aligned
    <3>4. (x \div s) % n = 0
      BY <3>3, Aligned
    <3> QED
      BY <2>8, <3>1, <3>4 DEF Index
  <2> QED
    BY <2>7, <2>8
<1>2. ASSUME \A k \in 1..l : Index(k, x) = 0, x % Span(l) # 0 PROVE FALSE
  <2> DEFINE S == {m \in 1..l : x % Span(m) # 0}
  <2>1. S \subseteq Nat /\ S # {}
    BY <1>0, <1>2
  <2>2. PICK m \in S : \A k \in S : m <= k
    BY <2>1, Least
  <2>3. m \in 1..l /\ x % Span(m) # 0 /\ m \in 1..LEVELS /\ Index(m, x) = 0
    BY <1>0, <1>2, <2>2
  <2>4. CASE m = 1
    BY <2>3, <2>4, SpanFirst DEF Index
  <2>5. CASE m # 1
    <3>1. PICK s \in Nat \ {0}, n \in Nat \ {0} :
             s = Span(m - 1) /\ n = 2 ^ TVN_BITS /\ Span(m) = s * n /\ n >= 2
      BY <2>3, <2>5, SpanBelow
    <3>2. m - 1 \in 1..l /\ ~(m <= m - 1)
      BY <1>0, <2>3, <2>5
    <3>3. x % s = 0
      BY <2>2, <3>1, <3>2
    <3>4. PICK q \in Int : q = x \div s /\ x = s * q
      <4>1. x \div s \in Int /\ x = s * (x \div s) + (x % s)
        BY Division
      <4>2. s * (x \div s) \in Int
        BY <4>1
      <4> QED
        BY <3>3, <4>1, <4>2
    <3>5. q % n = 0
      BY <2>3, <2>5, <3>1, <3>4 DEF Index
    <3>6. PICK j \in Int : q = n * j
      <4>1. q \div n \in Int /\ q = n * (q \div n) + (q % n)
        BY Division
      <4>2. n * (q \div n) \in Int
        BY <4>1
      <4> QED
        BY <3>5, <4>1, <4>2
    <3>7. s * n \in Nat \ {0} /\ x = (s * n) * j
      BY <3>4, <3>6
    <3>8. x % (s * n) = 0
      BY <3>7, Aligned
    <3> QED
      BY <2>3, <3>1, <3>8
  <2> QED
    BY <2>4, <2>5
<1> QED
  BY <1>1, <1>2
-----------------------------------------------------------------------------
(* The wheel. *)

(* When the list of level l that time a belongs to is due: the first level  *)
(* at a itself, the others when they are cascaded.                          *)
Start(l, a) == IF l = 1 THEN a ELSE Span(l - 1) * (a \div Span(l - 1))

(* List e of a base that has got to p is the right one for time a: the loop *)
(* comes to it, and not before its time.                                    *)
Slot(e, p, a) ==
  \E l \in 1..LEVELS :
    e = <<l, Index(l, a)>> /\ p <= Start(l, a) /\ Start(l, a) < p + Span(l)

LEMMA StartFacts ==
  ASSUME NEW l \in 1..LEVELS, NEW a \in Int
  PROVE  Start(l, a) \in Int /\ Start(l, a) <= a
<1>1. CASE l = 1
  BY <1>1 DEF Start
<1>2. CASE l # 1
  <2>1. PICK s \in Nat \ {0}, n \in Nat \ {0} :
           s = Span(l - 1) /\ n = 2 ^ TVN_BITS /\ Span(l) = s * n /\ n >= 2
    BY <1>2, SpanBelow
  <2>2. PICK q \in Int, r \in 0..(s - 1) : q = a \div s /\ r = a % s /\ a = s * q + r
    BY Division
  <2>3. s * q \in Int /\ s * q <= a
    BY <2>2
  <2> QED
    BY <1>2, <2>1, <2>2, <2>3 DEF Start
<1> QED
  BY <1>1, <1>2

(* internal_add_timer() picks the lowest level that reaches far enough. *)
LEMMA LevelFits ==
  ASSUME NEW l \in 1..LEVELS, NEW p \in Int, NEW a \in Int, a - p >= 0, a - p < Span(l),
         l = 1 \/ Span(l - 1) <= a - p
  PROVE  /\ p <= Start(l, a) /\ Start(l, a) < p + Span(l)
         /\ l # 1 => p < Start(l, a)
<1>1. CASE l = 1
  BY <1>1, SpanType DEF Start
<1>2. CASE l # 1
  <2>1. PICK s \in Nat \ {0}, n \in Nat \ {0} :
           s = Span(l - 1) /\ n = 2 ^ TVN_BITS /\ Span(l) = s * n /\ n >= 2
    BY <1>2, SpanBelow
  <2>2. PICK q \in Int, r \in 0..(s - 1) : q = a \div s /\ r = a % s /\ a = s * q + r
    BY Division
  <2>3. PICK u \in Nat, v \in Int : u = Span(l) /\ v = s * q
    BY <2>1
  <2>4. s <= a - p /\ a - p < u /\ a = v + r
    BY <1>2, <2>1, <2>2, <2>3
  <2>5. p < v /\ v < p + u
    BY <2>4
  <2>6. Start(l, a) = v
    BY <1>2, <2>1, <2>2, <2>3 DEF Start
  <2> QED
    BY <2>3, <2>5, <2>6
<1> QED
  BY <1>1, <1>2

(* A list of a higher level is due exactly when the loop is at its start.   *)
LEMMA AtStart ==
  ASSUME NEW l \in 1..LEVELS, l # 1, NEW p \in Int, NEW a \in Int,
         p <= Start(l, a), Start(l, a) < p + Span(l)
  PROVE  (p % Span(l - 1) = 0 /\ Index(l, p) = Index(l, a)) <=> Start(l, a) = p
<1>1. PICK s \in Nat \ {0}, n \in Nat \ {0} :
         s = Span(l - 1) /\ n = 2 ^ TVN_BITS /\ Span(l) = s * n /\ n >= 2
  BY SpanBelow
<1>2. PICK q \in Int, r \in 0..(s - 1) : q = a \div s /\ r = a % s /\ a = s * q + r
  BY Division
<1>3. PICK k \in Int, e \in 0..(s - 1) : k = p \div s /\ e = p % s /\ p = s * k + e
  BY Division
<1>4. Start(l, a) = s * q
  BY <1>1, <1>2 DEF Start
<1>5. Index(l, p) = k % n /\ Index(l, a) = q % n
  BY <1>1, <1>2, <1>3 DEF Index
<1>6. ASSUME s * q = p PROVE e = 0 /\ k % n = q % n
  <2>1. p % s = 0 /\ p \div s = q
    BY <1>6, Aligned
  <2> QED
    BY <1>3, <2>1
<1>7. ASSUME e = 0, k % n = q % n PROVE s * q = p
  <2>1. PICK i \in Int, x \in 0..(n - 1) : i = k \div n /\ x = k % n /\ k = n * i + x
    BY Division
  <2>2. PICK j \in Int, y \in 0..(n - 1) : j = q \div n /\ y = q % n /\ q = n * j + y
    BY Division, ZenonT(60)
  <2>3. x = y
    BY <1>7, <2>1, <2>2
  <2>4. p = s * k
    BY <1>3, <1>7
  <2>5. s * k <= s * q /\ s * q < s * k + s * n
    BY <1>1, <1>4, <2>4
  <2>6. s * k + s * n = s * (k + n)
    OBVIOUS
  <2>7. k <= q /\ q < k + n
    BY <2>5, <2>6, Scaling
  <2>8. n * i <= n * j /\ n * j < n * i + n
    BY <2>1, <2>2, <2>3, <2>7
  <2>9. n * i + n = n * (i + 1)
    OBVIOUS
  <2>10. i <= j /\ j < i + 1
    BY <2>8, <2>9, Scaling
  <2>11. i = j
    BY <2>10
  <2> QED
    BY <2>1, <2>2, <2>3, <2>4, <2>11
<1> QED
  BY <1>1, <1>3, <1>4, <1>5, <1>6, <1>7

(* The list of the first level that the loop is at has what is due now. *)
LEMMA AtFirst ==
  ASSUME NEW p \in Int, NEW a \in Int, p <= a, a < p + Span(1), Index(1, p) = Index(1, a)
  PROVE  a = p
<1>1. PICK s \in Nat \ {0} : s = Span(1) /\ s = 2 ^ TVR_BITS
  BY SpanType, SpanFirst
<1>2. PICK q \in Int, r \in 0..(s - 1) : q = a \div s /\ r = a % s /\ a = s * q + r
  BY Division
<1>3. PICK k \in Int, e \in 0..(s - 1) : k = p \div s /\ e = p % s /\ p = s * k + e
  BY Division
<1>4. e = r
  BY <1>1, <1>2, <1>3 DEF Index
<1>5. s * k <= s * q /\ s * q < s * k + s
  <2>1. PICK u \in Int, v \in Int : u = s * k /\ v = s * q
    OBVIOUS
  <2>2. u + e <= v + e /\ v + e < u + e + s
    BY <1>1, <1>2, <1>3, <1>4, <2>1
  <2> QED
    BY <2>1, <2>2
<1>6. s * k + s = s * (k + 1)
  OBVIOUS
<1>7. k <= q /\ q < k + 1
  BY <1>5, <1>6, Scaling
<1>8. k = q
  BY <1>7
<1> QED
  BY <1>2, <1>3, <1>4, <1>8
(* All levels but the last reach half of the range at most. *)
LEMMA HalfSpan ==
  ASSUME NEW l \in 1..(LEVELS - 1)
  PROVE  Span(l) \in Nat /\ Span(l) <= Word \div 2
<1>1. LEVELS \in Nat \ {0} /\ l \in Nat \ {0} /\ l + 1 \in 1..LEVELS /\ l + 1 # 1
      /\ l + 1 - 1 = l /\ l + 1 <= LEVELS /\ l + 1 \in Nat \ {0}
  BY TimerAssumption
<1>2. PICK s \in Nat \ {0}, n \in Nat \ {0} :
         s = Span(l) /\ n = 2 ^ TVN_BITS /\ Span(l + 1) = s * n /\ n >= 2
  <2>1. PICK m \in 1..LEVELS : m = l + 1 /\ m # 1 /\ m - 1 = l
    BY <1>1
  <2>2. PICK s \in Nat \ {0}, n \in Nat \ {0} :
           s = Span(m - 1) /\ n = 2 ^ TVN_BITS /\ Span(m) = s * n /\ n >= 2
    BY <2>1, SpanBelow
  <2> QED
    BY <2>1, <2>2
<1>3. PICK f \in Nat \ {0} : Word = Span(l + 1) * f
  BY <1>1, SpanMultiple, SpanLast
<1>4. PICK w \in Nat \ {0} : w = Word
  BY WordType
<1>5. s * n >= s * 2
  BY <1>2, Scaling
<1>6. (s * n) * f >= s * n
  <2>1. s * n \in Nat \ {0}
    OBVIOUS
  <2>2. (s * n) * 1 <= (s * n) * f
    BY <2>1, Scaling
  <2> QED
    BY <2>1, <2>2
<1>7. w = (s * n) * f
  BY <1>2, <1>3, <1>4
<1>8. w >= s * 2
  BY <1>5, <1>6, <1>7
<1>9. s <= w \div 2
  BY <1>8
<1> QED
  BY <1>2, <1>4, <1>9

(* What internal_add_timer() gets for its idx. *)
LEMMA DistanceOf ==
  ASSUME NEW p \in Int, NEW a \in Int, NEW z \in Int, z >= 0, z < Word,
         z = a - p \/ z = a - p + Word
  PROVE  ((a % Word) - (p % Word)) % Word = z
<1>1. PICK w \in Nat \ {0} : w = Word
  BY WordType
<1>2. PICK q \in Int, r \in 0..(w - 1) : q = a \div w /\ r = a % w /\ a = w * q + r
  BY Division
<1>3. PICK k \in Int, e \in 0..(w - 1) : k = p \div w /\ e = p % w /\ p = w * k + e
  BY Division, ZenonT(60)
<1>4. PICK d \in Int : d = r - e
  BY <1>1
<1>5. z \in 0..(w - 1)
  BY <1>1
<1>6. CASE z = a - p
  <2>1. d = w * (k - q) + z
    BY <1>2, <1>3, <1>4, <1>6
  <2>2. d % w = z
    BY <1>5, <2>1, Quotient
  <2> QED
    BY <1>1, <1>2, <1>3, <1>4, <2>2
<1>7. CASE z = a - p + w
  <2>1. d = w * (k - q - 1) + z
    BY <1>2, <1>3, <1>4, <1>7
  <2>2. d % w = z
    BY <1>5, <2>1, Quotient
  <2> QED
    BY <1>1, <1>2, <1>3, <1>4, <2>2
<1> QED
  BY <1>1, <1>6, <1>7

(* A timer that expires at a gets linked in a list for time a, and in a     *)
(* higher level one that the loop has still to come to.                     *)
LEMMA AddedInTime ==
  ASSUME NEW c \in CPU, NEW p \in Int, NEW a \in Int, timer_jiffies[c] = p % Word,
         a - p >= 0, a - p < Word \div 2
  PROVE  \E l \in 1..LEVELS :
           /\ internal_add_timer(c, a % Word) = <<l, Index(l, a)>>
           /\ p <= Start(l, a) /\ Start(l, a) < p + Span(l)
           /\ l # 1 => p < Start(l, a)
<1>1. LEVELS \in Nat \ {0} /\ Word \in Nat \ {0}
  BY TimerAssumption, WordType
<1> DEFINE idx == Distance(c, a % Word)
           fits == {l \in 1..(LEVELS - 1) : idx < Span(l)}
<1>2. idx = a - p
  <2>1. a - p < Word
    BY <1>1
  <2> QED
    BY <2>1, DistanceOf DEF Distance
<1>3. CASE fits # {}
  <2>1. fits \subseteq Nat
    BY <1>1
  <2>2. \E m \in fits : \A n \in fits : m <= n
    <3> HIDE DEF fits
    <3> QED
      BY <1>3, <2>1, Least
  <2>3. PICK l \in fits : /\ l = CHOOSE k \in fits : \A j \in fits : k <= j
                          /\ \A j \in fits : l <= j
    <3> HIDE DEF fits
    <3> QED
      BY <2>2
  <2>4. l \in 1..LEVELS /\ l \in 1..(LEVELS - 1) /\ idx < Span(l)
    BY <1>1, <2>3
  <2>5. internal_add_timer(c, a % Word) = <<l, Index(l, a % Word)>>
    BY <1>3, <2>3 DEF internal_add_timer
  <2>6. l = 1 \/ Span(l - 1) <= idx
    <3>1. SUFFICES ASSUME l # 1, ~(Span(l - 1) <= idx) PROVE FALSE
      OBVIOUS
    <3>2. l - 1 \in 1..(LEVELS - 1) /\ ~(l <= l - 1)
      BY <1>1, <2>4, <3>1
    <3>3. Span(l - 1) \in Nat
      BY <3>2, HalfSpan
    <3>4. l - 1 \in fits
      BY <1>2, <3>1, <3>2, <3>3
    <3> QED
      BY <2>3, <3>2, <3>4
  <2>7. Index(l, a % Word) = Index(l, a)
    BY <2>4, IndexOfWord
  <2> HIDE DEF idx, fits
  <2> QED
    BY <1>2, <2>4, <2>5, <2>6, <2>7, LevelFits
<1>4. CASE fits = {}
  <2>1. ~(Signed(idx) < 0)
    <3>1. idx % Word = idx
      BY <1>1, <1>2
    <3> QED
      BY <1>1, <1>2, <3>1 DEF Signed
  <2>2. internal_add_timer(c, a % Word) = <<LEVELS, Index(LEVELS, a % Word)>>
    BY <1>4, <2>1 DEF internal_add_timer
  <2>3. LEVELS \in 1..LEVELS
    BY <1>1
  <2>4. Index(LEVELS, a % Word) = Index(LEVELS, a)
    BY <2>3, IndexOfWord
  <2>5. a - p < Span(LEVELS)
    BY <1>1, SpanLast
  <2>6. LEVELS = 1 \/ Span(LEVELS - 1) <= a - p
    <3>1. SUFFICES ASSUME LEVELS # 1 PROVE Span(LEVELS - 1) <= a - p
      OBVIOUS
    <3>2. LEVELS - 1 \in 1..(LEVELS - 1)
      BY <1>1, <3>1
    <3>3. Span(LEVELS - 1) \in Nat
      BY <3>2, HalfSpan
    <3> QED
      BY <1>2, <1>4, <3>2, <3>3
  <2>7. p <= Start(LEVELS, a) /\ Start(LEVELS, a) < p + Span(LEVELS)
        /\ (LEVELS # 1 => p < Start(LEVELS, a))
    BY <2>3, <2>5, <2>6, LevelFits
  <2> QED
    BY <2>2, <2>3, <2>4, <2>7
<1> QED
  BY <1>3, <1>4

(* One whose time the base is past gets linked where the loop is. *)
LEMMA AddedLate ==
  ASSUME NEW c \in CPU, NEW x \in Int, NEW z \in Int, z < 0, z >= -(Word \div 2),
         Distance(c, x) = z + Word
  PROVE  internal_add_timer(c, x) = <<1, Index(1, timer_jiffies[c])>>
<1>1. LEVELS \in Nat \ {0}
  BY TimerAssumption
<1>2. PICK w \in Nat \ {0} : w = Word
  BY WordType
<1>3. PICK i \in Nat : i = Distance(c, x) /\ i = z + w
  BY <1>2
<1>4. i >= w \div 2 /\ i < w
  BY <1>2, <1>3
<1>5. i % w = i
  BY <1>4
<1>6. Signed(i) = i - w
  BY <1>2, <1>4, <1>5 DEF Signed
<1>7. Signed(i) < 0
  BY <1>4, <1>6
<1>8. {l \in 1..(LEVELS - 1) : i < Span(l)} = {}
  BY <1>2, <1>4, HalfSpan
<1> QED
  BY <1>3, <1>7, <1>8 DEF internal_add_timer
(* Where an expiring list of the first level, and a cascaded one, is. *)
Current(c) == <<1, Index(1, timer_jiffies[c])>>

LEMMA Pairs ==
  ASSUME NEW i, NEW j, NEW k, NEW l, <<i, j>> = <<k, l>>
  PROVE  i = k /\ j = l
OBVIOUS

(* A base has got to p: which lists it cascades in this turn. *)
LEMMA CascadedAt ==
  ASSUME NEW c \in CPU, NEW p \in Int, timer_jiffies[c] = p % Word, NEW l \in 1..LEVELS, NEW i
  PROVE  <<l, i>> \in Cascaded(c) <=> l # 1 /\ p % Span(l - 1) = 0 /\ i = Index(l, p)
<1>1. LEVELS \in Nat \ {0} /\ Word \in Nat \ {0}
  BY TimerAssumption, WordType
<1>2. PICK x \in Int : x = timer_jiffies[c] /\ x = p % Word
  BY <1>1
<1>3. Index(l, x) = Index(l, p)
  BY <1>2, IndexOfWord
<1>4. ASSUME l # 1 PROVE Cascades(c, l) <=> p % Span(l - 1) = 0
  <2>1. PICK m \in 1..LEVELS : m = l - 1 /\ m \in Nat \ {0} /\ m <= LEVELS
    BY <1>1, <1>4
  <2>2. Cascades(c, l) <=> x % Span(m) = 0
    BY <1>2, <2>1, IndexZero DEF Cascades
  <2>3. PICK f \in Nat \ {0} : Word = Span(m) * f
    BY <1>1, <2>1, SpanMultiple, SpanLast
  <2>4. x % Span(m) = p % Span(m)
    <3>1. PICK s \in Nat \ {0} : s = Span(m)
      BY <2>1, SpanType
    <3>2. (p % Word) % s = p % s
      BY <2>3, <3>1, Nested, ZenonT(60)
    <3> QED
      BY <1>2, <3>1, <3>2
  <2> QED
    BY <2>1, <2>2, <2>4
<1>5. l # 1 => l \in 2..LEVELS
  BY <1>1
<1>6. ASSUME <<l, i>> \in Cascaded(c) PROVE l # 1 /\ Cascades(c, l) /\ i = Index(l, x)
  <2>1. PICK m \in {k \in 2..LEVELS : Cascades(c, k)} : <<l, i>> = <<m, Index(m, x)>>
    BY <1>2, <1>6 DEF Cascaded
  <2>2. l = m /\ i = Index(m, x)
    BY <2>1, Pairs
  <2> QED
    BY <1>1, <2>1, <2>2
<1>7. ASSUME l # 1, Cascades(c, l), i = Index(l, x) PROVE <<l, i>> \in Cascaded(c)
  BY <1>2, <1>5, <1>7 DEF Cascaded
<1> QED
  BY <1>3, <1>4, <1>6, <1>7

(* The current list has the timers that are due now, ... *)
LEMMA CurrentIsDue ==
  ASSUME NEW c \in CPU, NEW p \in Int, NEW a \in Int, timer_jiffies[c] = p % Word,
         NEW e, Slot(e, p, a), e = Current(c)
  PROVE  a = p
<1>1. 1 \in 1..LEVELS
  BY TimerAssumption
<1>2. PICK l \in 1..LEVELS :
         e = <<l, Index(l, a)>> /\ p <= Start(l, a) /\ Start(l, a) < p + Span(l)
  BY DEF Slot
<1>3. Current(c) = <<1, Index(1, p)>>
  BY <1>1, IndexOfWord DEF Current
<1>4. <<l, Index(l, a)>> = <<1, Index(1, p)>>
  BY <1>2, <1>3
<1>5. l = 1 /\ Index(l, a) = Index(1, p)
  BY <1>4, Pairs
<1>6. Start(l, a) = a
  BY <1>5 DEF Start
<1> QED
  BY <1>2, <1>5, <1>6, AtFirst

(* ... the cascaded lists those of the lists below them, ... *)
LEMMA CascadedIsNear ==
  ASSUME NEW c \in CPU, NEW p \in Int, NEW a \in Int, timer_jiffies[c] = p % Word,
         NEW e, Slot(e, p, a), e \in Cascaded(c)
  PROVE  a - p >= 0 /\ a - p < Word \div 2 /\ e[1] # 1
<1>1. PICK l \in 1..LEVELS :
         e = <<l, Index(l, a)>> /\ p <= Start(l, a) /\ Start(l, a) < p + Span(l)
  BY DEF Slot
<1>2. l # 1 /\ p % Span(l - 1) = 0 /\ Index(l, a) = Index(l, p)
  BY <1>1, CascadedAt
<1>3. Start(l, a) = p
  BY <1>1, <1>2, AtStart
<1>4. PICK m \in 1..(LEVELS - 1) : m = l - 1
  BY <1>2, TimerAssumption
<1>5. PICK s \in Nat \ {0} : s = Span(m)
  BY <1>4, SpanType, TimerAssumption
<1>6. s <= Word \div 2
  BY <1>4, <1>5, HalfSpan
<1>7. PICK q \in Int, r \in 0..(s - 1) : q = a \div s /\ r = a % s /\ a = s * q + r
  BY Division
<1>8. p = s * q
  BY <1>2, <1>3, <1>4, <1>5, <1>7 DEF Start
<1>9. a - p = r
  BY <1>7, <1>8
<1>10. e[1] # 1
  BY <1>1, <1>2
<1>11. PICK h \in Int : h = Word \div 2
  BY WordType
<1>12. r < h
  BY <1>6, <1>11
<1> QED
  BY <1>9, <1>10, <1>11, <1>12

(* ... and all others those of later turns. *)
LEMMA OthersAreLater ==
  ASSUME NEW c \in CPU, NEW p \in Int, NEW a \in Int, timer_jiffies[c] = p % Word,
         NEW e, Slot(e, p, a), e \notin Cascaded(c), e # Current(c)
  PROVE  Slot(e, p + 1, a)
<1>1. PICK l \in 1..LEVELS :
         e = <<l, Index(l, a)>> /\ p <= Start(l, a) /\ Start(l, a) < p + Span(l)
  BY DEF Slot
<1>2. l \in Nat \ {0} /\ Start(l, a) \in Int /\ Span(l) \in Int
  BY <1>1, StartFacts, SpanType, TimerAssumption
<1>3. Start(l, a) # p
  <2>1. CASE l = 1
    <3>1. Current(c) = <<1, Index(1, p)>>
      BY <2>1, IndexOfWord DEF Current
    <3>2. Start(l, a) = a
      BY <2>1 DEF Start
    <3> QED
      BY <1>1, <2>1, <3>1, <3>2
  <2>2. CASE l # 1
    <3>1. Start(l, a) = p => p % Span(l - 1) = 0 /\ Index(l, p) = Index(l, a)
      BY <1>1, <2>2, AtStart
    <3> QED
      BY <1>1, <2>2, <3>1, CascadedAt
  <2> QED
    BY <2>1, <2>2
<1>4. p + 1 <= Start(l, a) /\ Start(l, a) < p + 1 + Span(l)
  BY <1>1, <1>2, <1>3
<1> QED
  BY <1>1, <1>4 DEF Slot

(* What internal_add_timer() links is due now, or later. *)
LEMMA AddedSlot ==
  ASSUME NEW c \in CPU, NEW p \in Int, NEW a \in Int, timer_jiffies[c] = p % Word,
         a - p >= 0, a - p < Word \div 2, NEW e, e = internal_add_timer(c, a % Word)
  PROVE  Slot(e, p, a) /\ (e = Current(c) \/ Slot(e, p + 1, a))
<1>1. PICK l \in 1..LEVELS : /\ e = <<l, Index(l, a)>>
                             /\ p <= Start(l, a) /\ Start(l, a) < p + Span(l)
                             /\ l # 1 => p < Start(l, a)
  BY AddedInTime
<1>2. Slot(e, p, a)
  BY <1>1 DEF Slot
<1>3. l \in Nat \ {0} /\ Start(l, a) \in Int /\ Span(l) \in Int
  BY <1>1, StartFacts, SpanType, TimerAssumption
<1>4. ASSUME e # Current(c) PROVE Slot(e, p + 1, a)
  <2>1. Start(l, a) # p
    <3>1. ASSUME l = 1, a = p PROVE FALSE
      <4>1. Current(c) = <<1, Index(1, p)>>
        BY <3>1, IndexOfWord DEF Current
      <4> QED
        BY <1>1, <1>4, <3>1, <4>1
    <3>2. l = 1 => Start(l, a) = a
      BY DEF Start
    <3> QED
      BY <1>1, <1>3, <3>1, <3>2
  <2>2. p + 1 <= Start(l, a) /\ Start(l, a) < p + 1 + Span(l)
    BY <1>1, <1>3, <2>1
  <2> QED
    BY <1>1, <2>2 DEF Slot
<1> QED
  BY <1>2, <1>4
-----------------------------------------------------------------------------
(* Time. *)

(* A signed difference, modulo the range, ... *)
LEMMA SignedForm ==
  ASSUME NEW x \in Int
  PROVE  /\ Signed(x) \in Int /\ \E k \in Int : Signed(x) = x + Word * k
         /\ Signed(x) < Word \div 2 /\ Signed(x) >= (Word \div 2) - Word
<1>1. PICK w \in Nat \ {0} : w = Word
  BY WordType
<1>2. PICK q \in Int, r \in 0..(w - 1) : q = x \div w /\ r = x % w /\ x = w * q + r
  BY Division
<1>3. Signed(x) = IF r < w \div 2 THEN r ELSE r - w
  BY <1>1, <1>2 DEF Signed
<1>4. PICK h \in Int : h = w \div 2 /\ h >= 0 /\ h < w
  OBVIOUS
<1>5. r = x + w * (-q) /\ r - w = x + w * (-q - 1)
  BY <1>2
<1>6. -q \in Int /\ -q - 1 \in Int
  OBVIOUS
<1>7. CASE r < h
  BY <1>1, <1>3, <1>4, <1>5, <1>6, <1>7
<1>8. CASE ~(r < h)
  BY <1>1, <1>3, <1>4, <1>5, <1>6, <1>8
<1> QED
  BY <1>7, <1>8

(* ... is the one in its range. *)
LEMMA SignedUnique ==
  ASSUME NEW x \in Int, NEW y \in Int, NEW k \in Int, y = x + Word * k,
         y < Word \div 2, y >= (Word \div 2) - Word
  PROVE  Signed(x) = y
<1>1. PICK w \in Nat \ {0} : w = Word
  BY WordType
<1>2. PICK h \in Int : h = w \div 2 /\ h >= 0 /\ h < w
  OBVIOUS
<1>3. y < h /\ y >= h - w /\ y = x + w * k
  BY <1>1, <1>2
<1>4. CASE y >= 0
  <2>1. PICK m \in Int, r \in Int : m = -k /\ r = y
    OBVIOUS
  <2>2. w * m = -(w * k) /\ w * m \in Int /\ w * k \in Int
    BY <2>1
  <2>3. PICK wm \in Int, wk \in Int : wm = w * m /\ wk = w * k /\ wm = -wk
    BY <2>2
  <2>5. r \in 0..(w - 1) /\ x = wm + r
    BY <1>2, <1>3, <1>4, <2>1, <2>3
  <2>6. x = w * m + r
    BY <2>3, <2>5
  <2>7. x % w = r
    BY <2>5, <2>6, Quotient
  <2>4. x % w = y
    BY <2>1, <2>7
  <2> QED
    BY <1>1, <1>2, <1>3, <2>4 DEF Signed
<1>5. CASE y < 0
  <2>1. PICK m \in Int, r \in Int : m = -k - 1 /\ r = y + w
    OBVIOUS
  <2>5. w * m = -(w * k) - w
    BY <2>1
  <2>6. r \in 0..(w - 1) /\ x = w * m + r
    BY <1>2, <1>3, <1>5, <2>1, <2>5
  <2>7. x % w = r
    BY <2>6, Quotient
  <2>2. x % w = y + w
    BY <2>1, <2>7
  <2>3. ~(y + w < h)
    BY <1>2, <1>3
  <2>4. Signed(x) = y + w - w
    BY <1>1, <1>2, <2>2, <2>3 DEF Signed
  <2> QED
    BY <2>4
<1> QED
  BY <1>4, <1>5

(* jiffies and now tell the same time. *)
Clock == jiffies = (now + INITIAL_JIFFIES) % Word

(* Where the base of CPU c has got to, and its timer_jiffies. *)
Place(c) == Reached(c) + INITIAL_JIFFIES

LEMMA PlaceOf ==
  ASSUME Types, Clock, NEW c \in CPU
  PROVE  /\ Reached(c) \in Int /\ Place(c) \in Int
         /\ timer_jiffies[c] = Place(c) % Word
<1>1. PICK w \in Nat \ {0} : w = Word
  BY WordType
<1>2. PICK j \in 0..(w - 1), x \in 0..(w - 1), n \in Nat, i \in Nat :
         j = jiffies /\ x = timer_jiffies[c] /\ n = now /\ i = INITIAL_JIFFIES
  BY <1>1, TimerAssumption DEF Types
<1>3. PICK q \in Int, r \in 0..(w - 1) : q = (n + i) \div w /\ r = (n + i) % w /\ n + i = w * q + r
  <2>1. n + i \in Int
    OBVIOUS
  <2> QED
    BY <2>1, Division
<1>4. r = j
  BY <1>1, <1>2, <1>3 DEF Clock
<1>5. PICK s \in Int : s = Signed(j - x)
  BY <1>2, SignedType
<1>6. PICK k \in Int : s = (j - x) + w * k
  <2>1. j - x \in Int
    OBVIOUS
  <2> QED
    BY <1>1, <1>5, <2>1, SignedForm
<1>7. PICK p \in Int : p = n - s + i
  OBVIOUS
<1>8. Reached(c) = n - s /\ Place(c) = p
  BY <1>2, <1>5, <1>7 DEF Reached, Place
<1>9. p = w * (q - k) + x /\ q - k \in Int
  BY <1>3, <1>4, <1>6, <1>7
<1>10. p % w = x
  BY <1>9, Quotient
<1> QED
  BY <1>1, <1>2, <1>8, <1>10

(* A jiffy passes and the base stays where it is, ... *)
LEMMA TickStays ==
  ASSUME NEW j \in 0..(Word - 1), NEW b \in 0..(Word - 1), NEW i, i = (j + 1) % Word,
         Signed(j - b) + 1 < Word \div 2
  PROVE  Signed(i - b) = Signed(j - b) + 1
<1>1. PICK w \in Nat \ {0} : w = Word
  BY WordType
<1>2. j \in 0..(w - 1) /\ b \in 0..(w - 1) /\ j - b \in Int /\ j + 1 \in Int
  BY <1>1
<1>3. PICK s \in Int : s = Signed(j - b)
  BY <1>2, SignedType
<1>4. PICK k \in Int : s = (j - b) + w * k
  BY <1>1, <1>2, <1>3, SignedForm
<1>5. s >= (w \div 2) - w
  BY <1>1, <1>2, <1>3, SignedForm
<1>6. PICK q \in Int, r \in 0..(w - 1) : q = (j + 1) \div w /\ r = (j + 1) % w /\ j + 1 = w * q + r
  BY <1>2, Division
<1>7. i = r /\ i - b \in Int
  BY <1>1, <1>2, <1>6
<1>8. s + 1 = (i - b) + w * (k + q) /\ k + q \in Int /\ s + 1 \in Int
  <2>1. w * (k + q) = w * k + w * q
    OBVIOUS
  <2>2. w * k \in Int /\ w * q \in Int
    OBVIOUS
  <2>3. PICK wk \in Int, wq \in Int : wk = w * k /\ wq = w * q
    BY <2>2
  <2>4. s + 1 = (i - b) + (wk + wq)
    BY <1>2, <1>4, <1>6, <1>7, <2>3
  <2> QED
    BY <2>1, <2>3, <2>4
<1>9. s + 1 < Word \div 2 /\ s + 1 >= (Word \div 2) - Word
  BY <1>1, <1>3, <1>5
<1>10. Signed(i - b) = s + 1
  BY <1>1, <1>7, <1>8, <1>9, SignedUnique
<1> QED
  BY <1>3, <1>10

(* ... or the base makes a turn. *)
LEMMA TurnMoves ==
  ASSUME NEW j \in 0..(Word - 1), NEW b \in 0..(Word - 1), NEW i, i = (b + 1) % Word,
         Signed(j - b) >= 0
  PROVE  Signed(j - i) = Signed(j - b) - 1
<1>1. PICK w \in Nat \ {0} : w = Word
  BY WordType
<1>2. j \in 0..(w - 1) /\ b \in 0..(w - 1) /\ j - b \in Int /\ b + 1 \in Int
  BY <1>1
<1>3. PICK s \in Int : s = Signed(j - b)
  BY <1>2, SignedType
<1>4. PICK k \in Int : s = (j - b) + w * k
  BY <1>1, <1>2, <1>3, SignedForm
<1>5. s < w \div 2
  BY <1>1, <1>2, <1>3, SignedForm
<1>6. PICK q \in Int, r \in 0..(w - 1) : q = (b + 1) \div w /\ r = (b + 1) % w /\ b + 1 = w * q + r
  BY <1>2, Division
<1>7. i = r /\ j - i \in Int
  BY <1>1, <1>2, <1>6
<1>8. s - 1 = (j - i) + w * (k - q) /\ k - q \in Int /\ s - 1 \in Int
  BY <1>4, <1>6, <1>7
<1>9. s - 1 < Word \div 2 /\ s - 1 >= (Word \div 2) - Word
  <2>1. s >= 0
    BY <1>3
  <2> QED
    BY <1>1, <1>5, <2>1
<1>10. Signed(j - i) = s - 1
  BY <1>1, <1>7, <1>8, <1>9, SignedUnique
<1> QED
  BY <1>3, <1>10

(* A time is near enough to jiffies for its distance to tell the past from  *)
(* the future, on a base that lags too.                                     *)
InRange(x) == Signed(x - jiffies) \in (1 - (Word \div 2))..((Word \div 2) - 1 - MaxLag)

(* What gets linked on an online CPU runs when it is due. *)
LEMMA EnqueuedInTime ==
  ASSUME Types, InStep, Clock, NEW c \in online, NEW x \in 0..(Word - 1), InRange(x),
         NEW e, e = internal_add_timer(c, x)
  PROVE  /\ Due(c, x) \in Int /\ Slot(e, Place(c), Due(c, x) + INITIAL_JIFFIES)
         /\ e[1] # 1 => x = (Due(c, x) + INITIAL_JIFFIES) % Word
<1>1. PICK w \in Nat \ {0} : w = Word
  BY WordType
<1>2. c \in CPU
  BY TimerAssumption DEF Types
<1>3. PICK j \in 0..(w - 1), b \in 0..(w - 1), n \in Nat, i \in Nat :
         j = jiffies /\ b = timer_jiffies[c] /\ n = now /\ i = INITIAL_JIFFIES
  BY <1>1, <1>2, TimerAssumption DEF Types
<1>4. PICK h \in Int, m \in Nat : h = w \div 2 /\ h <= w /\ m = MaxLag
  BY <1>1, TimerAssumption
<1>5. x \in 0..(w - 1) /\ x - j \in Int /\ j - b \in Int
  BY <1>1
<1>6. PICK s \in Int : s = Signed(x - j) /\ s >= 1 - h /\ s <= h - 1 - m
  <2>1. Signed(x - jiffies) \in (1 - h)..(h - 1 - m)
    BY <1>1, <1>4 DEF InRange
  <2> QED
    BY <1>3, <1>4, <2>1
<1>7. PICK g \in Int : g = Signed(j - b) /\ g >= -1 /\ g <= m
  <2>1. Signed(jiffies - timer_jiffies[c]) \in -1..m
    BY <1>4 DEF InStep
  <2> QED
    BY <1>3, <1>4, <2>1
<1>8. PICK p \in Int : p = Place(c) /\ b = p % Word
  BY <1>2, <1>3, PlaceOf
<1>9. Reached(c) = n - g /\ p = n - g + i
  BY <1>3, <1>7, <1>8 DEF Reached, Place
<1>10. PICK a \in Int : a = n + s + i
  OBVIOUS
<1>11. a % w = x
  <2>1. PICK k \in Int : s = (x - j) + w * k
    BY <1>1, <1>5, <1>6, SignedForm
  <2>2. n + i \in Int
    OBVIOUS
  <2>3. PICK q \in Int, r \in 0..(w - 1) :
           q = (n + i) \div w /\ r = (n + i) % w /\ n + i = w * q + r
    BY <2>2, Division
  <2>4. r = j
    BY <1>1, <1>3, <2>3 DEF Clock
  <2>5. PICK f \in Int : f = k + q
    OBVIOUS
  <2>6. w * f = w * k + w * q /\ w * k \in Int /\ w * q \in Int
    BY <2>5
  <2>7. PICK wk \in Int, wq \in Int : wk = w * k /\ wq = w * q
    BY <2>6
  <2>8. a = wk + wq + x
    BY <1>5, <1>10, <2>1, <2>3, <2>4, <2>7
  <2>9. a = w * f + x
    BY <2>6, <2>7, <2>8
  <2> QED
    BY <1>5, <2>9, Quotient
<1>12. a - p = s + g /\ s + g < h /\ s + g >= -h
  BY <1>6, <1>7, <1>9, <1>10
<1>13. Due(c, x) = IF n + s > n - g THEN n + s ELSE n - g
  BY <1>3, <1>6, <1>9 DEF Due
<1>14. CASE s + g >= 0
  <2>1. Due(c, x) = n + s
    BY <1>13, <1>14
  <2>2. Due(c, x) + INITIAL_JIFFIES = a
    BY <1>3, <1>10, <2>1
  <2>3. a - p >= 0 /\ a - p < Word \div 2
    BY <1>1, <1>4, <1>12, <1>14
  <2>4. e = internal_add_timer(c, a % Word) /\ timer_jiffies[c] = p % Word
    BY <1>1, <1>3, <1>8, <1>11
  <2>5. Slot(e, p, a)
    BY <1>2, <2>3, <2>4, AddedSlot
  <2>6. Due(c, x) \in Int
    BY <2>1
  <2> QED
    BY <1>1, <1>8, <1>11, <2>2, <2>5, <2>6
<1>15. CASE s + g < 0
  <2>1. Due(c, x) = n - g
    BY <1>13, <1>15
  <2>2. Due(c, x) + INITIAL_JIFFIES = p
    BY <1>3, <1>9, <2>1
  <2>3. PICK y \in Int, z \in Int : y = s + g /\ z = a - p + w /\ z = y + w /\ z >= 0 /\ z < w
    BY <1>4, <1>12, <1>15
  <2>4. ((a % Word) - (p % Word)) % Word = z
    BY <1>1, <2>3, DistanceOf
  <2>5. Distance(c, x) = y + Word
    BY <1>1, <1>3, <1>8, <1>11, <2>3, <2>4 DEF Distance
  <2>6. y < 0 /\ y >= -(Word \div 2)
    BY <1>1, <1>4, <1>12, <1>15, <2>3
  <2>7. e = <<1, Index(1, timer_jiffies[c])>>
    BY <1>2, <1>5, <2>3, <2>5, <2>6, AddedLate
  <2>8. 1 \in 1..LEVELS
    BY TimerAssumption
  <2>9. e = <<1, Index(1, p)>>
    BY <1>3, <1>8, <2>7, <2>8, IndexOfWord
  <2>10. Start(1, p) = p /\ Span(1) \in Nat \ {0}
    BY SpanType DEF Start
  <2>11. p <= Start(1, p) /\ Start(1, p) < p + Span(1)
    BY <2>10
  <2>12. Slot(e, p, p)
    BY <2>8, <2>9, <2>11 DEF Slot
  <2>13. e[1] = 1
    BY <2>9
  <2>14. Due(c, x) \in Int
    BY <2>1
  <2> QED
    BY <1>8, <2>2, <2>12, <2>13, <2>14
<1> QED
  BY <1>12, <1>14, <1>15

(* A timer set as far ahead as callers may is. *)
LEMMA SetInRange ==
  ASSUME Types, NEW delta \in Delta, NEW x, x = (jiffies + delta) % Word
  PROVE  x \in 0..(Word - 1) /\ InRange(x)
<1>1. PICK w \in Nat \ {0} : w = Word
  BY WordType
<1>2. PICK d \in Int, m \in Nat, h \in Int :
         d = delta /\ m = MaxLag /\ h = w \div 2 /\ d + m < h /\ d >= 1 - h
  BY <1>1, TimerAssumption
<1>3. PICK j \in 0..(w - 1) : j = jiffies
  BY <1>1 DEF Types
<1>4. j + d \in Int
  OBVIOUS
<1>5. PICK q \in Int, r \in 0..(w - 1) :
         q = (j + d) \div w /\ r = (j + d) % w /\ j + d = w * q + r
  BY <1>4, Division
<1>6. x = r
  BY <1>1, <1>2, <1>3, <1>5
<1>7. x - j \in Int /\ d = (x - j) + Word * q
  <2>1. PICK v \in Int : v = w * q
    OBVIOUS
  <2>2. x - j \in Int /\ d = (x - j) + v
    BY <1>5, <1>6, <2>1
  <2> QED
    BY <1>1, <2>1, <2>2
<1>8. d < Word \div 2 /\ d >= (Word \div 2) - Word
  BY <1>1, <1>2
<1>9. Signed(x - j) = d
  BY <1>7, <1>8, SignedUnique
<1>10. d \in (1 - h)..(h - 1 - m)
  BY <1>2
<1> QED
  BY <1>1, <1>2, <1>3, <1>6, <1>9, <1>10 DEF InRange

(* When timer t runs: what is spliced off is due in the turn just made, and *)
(* what is linked waits in the list of its time, which the loop has still   *)
(* to come to; in the first level that may be one that was set late.        *)
OnTime(t) ==
  base[t] # NULL =>
    /\ entry[t] = WorkList => due[t] = Reached(base[t]) - 1 /\ due[t] <= now
    /\ entry[t] \notin {NoList, WorkList} =>
         /\ Slot(entry[t], Place(base[t]), due[t] + INITIAL_JIFFIES)
         /\ entry[t][1] # 1 => expires[t] = (due[t] + INITIAL_JIFFIES) % Word

Timed == \A t \in Timer : OnTime(t)

(* No call of __mod_timer() and no migration lasts so long that jiffies     *)
(* gets half of its range away from the time it is about to set: from the   *)
(* caller's expires, from an expires that migrate_timers() moves, or from   *)
(* the dead CPU's base.                                                     *)
Prompt ==
  /\ \A a \in Agent : pc[a] = "m_do" => InRange(call[a].x)
  /\ hpc # "none" => /\ Signed(jiffies - timer_jiffies[dead]) < (Word \div 2) - 1
                     /\ \A t \in Timer : base[t] = dead => InRange(expires[t])

(* A timer that is left alone, on a base that is, stays on time. *)
LEMMA OnTimeKept ==
  ASSUME Types, Types', NEW t \in Timer, OnTime(t), now' >= now,
         base'[t] = base[t], entry'[t] = entry[t], expires'[t] = expires[t],
         due'[t] = due[t], \A c \in CPU : base[t] = c => Reached(c)' = Reached(c)
  PROVE  OnTime(t)'
<1>1. SUFFICES ASSUME base[t] # NULL PROVE OnTime(t)'
  BY DEF OnTime
<1>2. PICK c \in CPU : c = base[t] /\ c = base'[t]
  BY <1>1 DEF Types
<1>3. Reached(c)' = Reached(c) /\ Place(c)' = Place(c)
  BY <1>2 DEF Place
<1>4. due[t] \in Int /\ now \in Int /\ now' \in Int
  BY DEF Types
<1>5. ASSUME entry[t] = WorkList PROVE due'[t] = Reached(c)' - 1 /\ due'[t] <= now'
  <2>1. due[t] = Reached(c) - 1 /\ due[t] <= now
    BY <1>1, <1>2, <1>5 DEF OnTime
  <2>2. due'[t] = Reached(c)' - 1
    BY <1>3, <2>1
  <2> QED
    BY <1>4, <2>1, <2>2
<1>6. entry[t] \notin {NoList, WorkList} =>
        /\ Slot(entry'[t], Place(c)', due'[t] + INITIAL_JIFFIES)
        /\ entry'[t][1] # 1 => expires'[t] = (due'[t] + INITIAL_JIFFIES) % Word
  BY <1>1, <1>2, <1>3 DEF OnTime
<1> QED
  BY <1>2, <1>5, <1>6 DEF OnTime

(* A timer that gets linked on an online CPU is on time. *)
LEMMA OnTimeLinked ==
  ASSUME Types, InStep, Clock, Timed, Types', NEW t \in Timer, NEW c \in online,
         NEW x \in 0..(Word - 1), InRange(x), Enqueue(t, c, x), expires'[t] = x,
         \A s \in Timer : s # t => expires'[s] = expires[s],
         UNCHANGED <<now, jiffies, timer_jiffies>>
  PROVE  Timed'
<1>1. c \in CPU /\ c # NULL
  BY Kinds, Bounds DEF Types
<1>2. \A b \in CPU : Reached(b)' = Reached(b) /\ Place(b)' = Place(b)
  BY DEF Reached, Place
<1>3. PICK e : e = internal_add_timer(c, x)
  OBVIOUS
<1>4. PICK d \in Int : d = Due(c, x) /\ Slot(e, Place(c), d + INITIAL_JIFFIES)
                       /\ (e[1] # 1 => x = (d + INITIAL_JIFFIES) % Word)
  BY <1>3, EnqueuedInTime
<1>5. e # WorkList
  <2>1. OnWheel(e)
    <3>1. x \in Int
      BY WordType
    <3> QED
      BY <1>1, <1>3, <3>1, AddsToWheel DEF Types
  <2>2. PICK l \in 1..LEVELS : \E i \in Level(l) : e = <<l, i>>
    BY <2>1 DEF OnWheel
  <2>5. PICK i : e = <<l, i>>
    BY <2>2
  <2>3. l # 0
    OBVIOUS
  <2>4. <<l, i>> # <<0, 1>>
    BY <2>3, Pairs
  <2> QED
    BY <2>4, <2>5 DEF WorkList
<1>6. entry'[t] = e /\ base'[t] = c /\ due'[t] = d
  BY <1>3, <1>4 DEF Enqueue, Types
<1>7. OnTime(t)'
  <2>1. Slot(entry'[t], Place(c)', due'[t] + INITIAL_JIFFIES)
    BY <1>1, <1>2, <1>4, <1>6
  <2>2. entry'[t][1] # 1 => expires'[t] = (due'[t] + INITIAL_JIFFIES) % Word
    BY <1>4, <1>6
  <2>3. entry'[t] # WorkList
    BY <1>5, <1>6
  <2> QED
    BY <1>6, <2>1, <2>2, <2>3 DEF OnTime
<1>8. ASSUME NEW s \in Timer, s # t PROVE OnTime(s)'
  <2>1. base'[s] = base[s] /\ entry'[s] = entry[s] /\ due'[s] = due[s] /\ expires'[s] = expires[s]
    BY <1>8 DEF Enqueue, Types
  <2>2. now' >= now
    BY DEF Types
  <2> QED
    BY <1>2, <2>1, <2>2, OnTimeKept DEF Timed
<1> QED
  BY <1>7, <1>8 DEF Timed

(* A step that only takes timers off, where it has any effect. *)
LEMMA OnTimeOff ==
  ASSUME Types, Timed, Types', UNCHANGED <<now, jiffies, timer_jiffies, expires>>,
         \A t \in Timer : \/ /\ base'[t] = base[t] /\ entry'[t] = entry[t]
                             /\ due'[t] = due[t]
                          \/ entry'[t] = NoList
  PROVE  Timed'
<1> SUFFICES ASSUME NEW t \in Timer PROVE OnTime(t)'
  BY DEF Timed
<1>1. \A b \in CPU : Reached(b)' = Reached(b)
  BY DEF Reached
<1>2. now' >= now
  BY DEF Types
<1>3. CASE entry'[t] = NoList
  BY <1>3 DEF OnTime, NoList, WorkList
<1>4. CASE base'[t] = base[t] /\ entry'[t] = entry[t] /\ due'[t] = due[t]
  BY <1>1, <1>2, <1>4, OnTimeKept DEF Timed
<1> QED
  BY <1>3, <1>4

(* A jiffy passes: jiffies and now still agree, ... *)
LEMMA ClockTicks == Types /\ Clock /\ Tick => Clock'
<1> SUFFICES ASSUME Types, Clock, Tick PROVE Clock'
  OBVIOUS
<1>1. PICK w \in Nat \ {0} : w = Word
  BY WordType
<1>2. PICK j \in 0..(w - 1), n \in Nat, i \in Nat : j = jiffies /\ n = now /\ i = INITIAL_JIFFIES
  BY <1>1, TimerAssumption DEF Types
<1>3. n + i \in Int /\ j + 1 \in Int
  OBVIOUS
<1>4. PICK q \in Int, r \in 0..(w - 1) :
         q = (n + i) \div w /\ r = (n + i) % w /\ n + i = w * q + r
  BY <1>3, Division
<1>5. PICK k \in Int, e \in 0..(w - 1) :
         k = (j + 1) \div w /\ e = (j + 1) % w /\ j + 1 = w * k + e
  BY <1>3, Division
<1>6. r = j
  BY <1>1, <1>2, <1>4 DEF Clock
<1>7. PICK x \in Int, f \in Int : x = n + 1 + i /\ f = q + k
  OBVIOUS
<1>8. w * f = w * q + w * k /\ w * q \in Int /\ w * k \in Int
  BY <1>7
<1>9. PICK u \in Int, v \in Int : u = w * q /\ v = w * k
  BY <1>8
<1>10. x = u + v + e
  BY <1>4, <1>5, <1>6, <1>7, <1>9
<1>11. x = w * f + e
  BY <1>8, <1>9, <1>10
<1>12. x % w = e
  BY <1>11, Quotient
<1>13. jiffies' = e /\ now' = n + 1
  BY <1>1, <1>2, <1>5 DEF Tick
<1> QED
  BY <1>1, <1>2, <1>7, <1>12, <1>13 DEF Clock

(* ... and no base moves, ... *)
LEMMA TickPlace ==
  ASSUME Types, Tick, NEW c \in CPU, Signed(jiffies - timer_jiffies[c]) + 1 < Word \div 2
  PROVE  Reached(c)' = Reached(c)
<1>1. PICK j \in 0..(Word - 1), b \in 0..(Word - 1), n \in Nat :
         j = jiffies /\ b = timer_jiffies[c] /\ n = now
  BY DEF Types
<1>2. PICK i : i = jiffies' /\ i = (j + 1) % Word
  BY <1>1 DEF Tick
<1>3. PICK s \in Int : s = Signed(j - b)
  <2>1. j - b \in Int
    BY WordType
  <2> QED
    BY <2>1, SignedType
<1>4. Signed(i - b) = s + 1
  BY <1>1, <1>2, <1>3, TickStays
<1>5. now' = n + 1 /\ timer_jiffies'[c] = b
  BY <1>1 DEF Tick, softirq
<1>6. Reached(c)' = (n + 1) - (s + 1)
  BY <1>2, <1>4, <1>5 DEF Reached
<1>7. Reached(c) = n - s
  BY <1>1, <1>3 DEF Reached
<1> QED
  BY <1>6, <1>7

(* ... until the loop makes a turn. *)
LEMMA TurnPlace ==
  ASSUME Types, NEW c \in CPU, RunLoop(c)
  PROVE  /\ Reached(c)' = Reached(c) + 1 /\ Reached(c) \in Int /\ Reached(c) <= now
         /\ \A b \in CPU : b # c => Reached(b)' = Reached(b)
<1>1. PICK j \in 0..(Word - 1), b \in 0..(Word - 1), n \in Nat :
         j = jiffies /\ b = timer_jiffies[c] /\ n = now
  BY DEF Types
<1>2. PICK i : i = timer_jiffies'[c] /\ i = (b + 1) % Word
  BY <1>1 DEF RunLoop, Types
<1>3. PICK s \in Int : s = Signed(j - b) /\ s >= 0
  <2>1. j - b \in Int
    BY WordType
  <2>2. Signed(j - b) >= 0
    BY <1>1 DEF RunLoop, Behind
  <2> QED
    BY <2>1, <2>2, SignedType
<1>4. Signed(j - i) = s - 1
  BY <1>2, <1>3, TurnMoves
<1>5. now' = n /\ jiffies' = j
  BY <1>1 DEF RunLoop, time
<1>6. Reached(c)' = n - (s - 1)
  BY <1>2, <1>4, <1>5 DEF Reached
<1>7. Reached(c) = n - s
  BY <1>1, <1>3 DEF Reached
<1>8. ASSUME NEW d \in CPU, d # c PROVE Reached(d)' = Reached(d)
  <2>1. timer_jiffies'[d] = timer_jiffies[d] /\ now' = now /\ jiffies' = jiffies
    BY <1>8 DEF RunLoop, time, Types
  <2> QED
    BY <2>1 DEF Reached
<1> QED
  BY <1>1, <1>3, <1>6, <1>7, <1>8

(* A turn splices off what is due in it, and every other timer waits in a   *)
(* list that a later turn comes to.                                         *)
LEMMA TurnOnTime ==
  ASSUME Types, Clock, Types', NEW c \in CPU, RunLoop(c), NEW t \in Timer, OnTime(t)
  PROVE  OnTime(t)'
<1>1. /\ Reached(c)' = Reached(c) + 1 /\ Reached(c) \in Int /\ Reached(c) <= now
      /\ \A b \in CPU : b # c => Reached(b)' = Reached(b)
  BY TurnPlace
<1>2. /\ base'[t] = base[t] /\ expires'[t] = expires[t] /\ due'[t] = due[t] /\ now' = now
      /\ entry'[t] = Spliced(c, t)
  BY DEF RunLoop, time
<1>3. CASE base[t] # c
  <2>1. entry'[t] = entry[t]
    BY <1>2, <1>3 DEF Spliced
  <2>2. now' >= now
    BY <1>2 DEF Types
  <2> QED
    BY <1>1, <1>2, <1>3, <2>1, <2>2, OnTimeKept
<1>4. CASE base[t] = c /\ entry[t] = NoList
  <2>1. entry'[t] = NoList
    BY <1>2, <1>4, SplicedKeeps DEF Types
  <2> QED
    BY <2>1 DEF OnTime, NoList, WorkList
<1>5. CASE base[t] = c /\ entry[t] # NoList
  <2>1. entry[t] # WorkList
    BY <1>5 DEF RunLoop, Work
  <2>2. c # NULL
    BY Kinds
  <2>3. PICK p \in Int, i \in Nat, r \in Int :
           p = Place(c) /\ i = INITIAL_JIFFIES /\ r = Reached(c) /\ p = r + i
    BY <1>1, PlaceOf, TimerAssumption DEF Place
  <2>4. timer_jiffies[c] = p % Word
    BY <2>3, PlaceOf
  <2>5. PICK d \in Int, a \in Int : d = due[t] /\ a = d + i
    BY DEF Types
  <2>6. PICK e : e = entry[t]
    OBVIOUS
  <2>7. Slot(e, p, a) /\ (e[1] # 1 => expires[t] = a % Word)
    BY <1>5, <2>1, <2>2, <2>3, <2>5, <2>6 DEF OnTime
  <2>8. Place(c)' = p + 1
    BY <1>1, <2>3 DEF Place
  <2>9. PICK f : f = IF e \in Cascaded(c) THEN internal_add_timer(c, expires[t]) ELSE e
    OBVIOUS
  <2>10. /\ Slot(f, p, a) /\ (f = Current(c) \/ Slot(f, p + 1, a))
         /\ f[1] # 1 => expires[t] = a % Word
    <3>1. CASE e \in Cascaded(c)
      <4>1. a - p >= 0 /\ a - p < Word \div 2 /\ e[1] # 1
        BY <2>4, <2>7, <3>1, CascadedIsNear
      <4>2. f = internal_add_timer(c, a % Word) /\ expires[t] = a % Word
        BY <2>7, <2>9, <3>1, <4>1
      <4> QED
        BY <2>4, <4>1, <4>2, AddedSlot
    <3>2. CASE e \notin Cascaded(c)
      <4>1. f = e
        BY <2>9, <3>2
      <4>2. f = Current(c) \/ Slot(f, p + 1, a)
        BY <2>4, <2>7, <3>2, <4>1, OthersAreLater
      <4> QED
        BY <2>7, <4>1, <4>2
    <3> QED
      BY <3>1, <3>2
  <2>11. entry'[t] = IF f = Current(c) THEN WorkList ELSE f
    BY <1>2, <1>5, <2>6, <2>9 DEF Spliced, Current
  <2>12. CASE f = Current(c)
    <3>1. a = p
      BY <2>4, <2>10, <2>12, CurrentIsDue
    <3>2. d = r /\ d <= now
      BY <1>1, <2>3, <2>5, <3>1
    <3>3. entry'[t] = WorkList
      BY <2>11, <2>12
    <3>4. Reached(c)' = r + 1
      BY <1>1, <2>3
    <3>5. due'[t] = Reached(c)' - 1 /\ due'[t] <= now'
      BY <1>2, <2>5, <3>2, <3>4
    <3> QED
      BY <1>2, <1>5, <3>3, <3>5 DEF OnTime
  <2>13. CASE f # Current(c)
    <3>1. entry'[t] = f
      BY <2>11, <2>13
    <3>2. Slot(f, p + 1, a)
      BY <2>10, <2>13
    <3>3. f # WorkList
      <4>1. PICK l \in 1..LEVELS : f = <<l, Index(l, a)>>
        BY <2>10 DEF Slot
      <4>2. l # 0
        OBVIOUS
      <4>3. <<l, Index(l, a)>> # <<0, 1>>
        BY <4>2, Pairs
      <4> QED
        BY <4>1, <4>3 DEF WorkList
    <3>4. Slot(entry'[t], Place(c)', due'[t] + INITIAL_JIFFIES)
      BY <1>2, <2>3, <2>5, <2>8, <3>1, <3>2
    <3>5. entry'[t][1] # 1 => expires'[t] = (due'[t] + INITIAL_JIFFIES) % Word
      BY <1>2, <2>3, <2>5, <2>10, <3>1
    <3> QED
      BY <1>2, <1>5, <3>1, <3>3, <3>4, <3>5 DEF OnTime
  <2> QED
    BY <2>12, <2>13
<1> QED
  BY <1>3, <1>4, <1>5

(* Every step keeps timers on time. *)
LEMMA TimedStep ==
  ASSUME Types, InStep, Control, Placed, Types', Clock, Timed, Prompt, [Next]_vars
  PROVE  Clock' /\ Timed'
<1> DEFINE Still == UNCHANGED <<now, jiffies, timer_jiffies, expires, base, entry, due>>
<1>0. ASSUME UNCHANGED <<now, jiffies>> PROVE Clock'
  BY <1>0 DEF Clock
<1>1. ASSUME Still PROVE Clock' /\ Timed'
  <2>1. Timed'
    BY <1>1, OnTimeOff
  <2> QED
    BY <1>0, <1>1, <2>1
<1>2. ASSUME Tick PROVE Clock' /\ Timed'
  <2>1. Clock'
    BY <1>2, ClockTicks
  <2>2. ASSUME NEW t \in Timer PROVE OnTime(t)'
    <3>1. /\ base'[t] = base[t] /\ entry'[t] = entry[t] /\ expires'[t] = expires[t]
          /\ due'[t] = due[t]
      BY <1>2 DEF Tick, wheel
    <3>2. now' >= now
      BY <1>2 DEF Tick, Types
    <3>3. ASSUME NEW c \in CPU, base[t] = c PROVE Reached(c)' = Reached(c)
      <4>1. c # NULL
        BY Kinds
      <4>2. c \in online \/ (hpc # "none" /\ c = dead)
        BY <3>3, <4>1 DEF Placed, OnLiveBase
      <4>3. PICK s \in Int, h \in Int :
               s = Signed(jiffies - timer_jiffies[c]) /\ h = Word \div 2
        <5>1. jiffies - timer_jiffies[c] \in Int /\ Word \div 2 \in Int
          BY WordType DEF Types
        <5> QED
          BY <5>1, SignedType
      <4>4. CASE c \in online
        <5>1. now - Reached(c) < MaxLag /\ now \in Int
          BY <1>2, <4>4 DEF Tick, Types
        <5>2. s < MaxLag /\ MaxLag \in Nat /\ MaxLag < h
          BY <4>3, <5>1, TimerAssumption DEF Reached
        <5> QED
          BY <1>2, <4>3, <5>2, TickPlace
      <4>5. CASE hpc # "none" /\ c = dead
        <5>1. s < h - 1
          BY <4>3, <4>5 DEF Prompt
        <5> QED
          BY <1>2, <4>3, <5>1, TickPlace
      <4> QED
        BY <4>2, <4>4, <4>5
    <3> QED
      BY <3>1, <3>2, <3>3, OnTimeKept DEF Timed
  <2> QED
    BY <2>1, <2>2 DEF Timed
<1>3. ASSUME NEW c \in CPU, RunLoop(c) PROVE Clock' /\ Timed'
  <2>1. UNCHANGED <<now, jiffies>>
    BY <1>3 DEF RunLoop, time
  <2>2. Timed'
    BY <1>3, TurnOnTime DEF Timed
  <2> QED
    BY <1>0, <2>1, <2>2
<1>4. ASSUME NEW c \in CPU, Expire(c) PROVE Clock' /\ Timed'
  <2>1. UNCHANGED <<now, jiffies, timer_jiffies, expires>> /\ UNCHANGED <<base, due>>
    BY <1>4 DEF Expire, time
  <2>2. \A t \in Timer : entry'[t] = entry[t] \/ entry'[t] = NoList
    BY <1>4 DEF Expire, Types, Work
  <2> QED
    BY <1>0, <2>1, <2>2, OnTimeOff
<1>5. ASSUME NEW c \in CPU, Fire(c) PROVE Clock' /\ Timed'
  <2>1. UNCHANGED <<now, jiffies, timer_jiffies, expires>> /\ entry' = entry
    BY <1>5 DEF Fire, time
  <2>2. PICK s : s = fired[c] /\ s \in Timer
    BY <1>5 DEF Fire, Control, Running
  <2>3. entry'[s] = NoList
    BY <1>5, <2>1, <2>2 DEF Fire, Placed, Firing
  <2>4. \A t \in Timer : t # s => base'[t] = base[t] /\ due'[t] = due[t]
    BY <1>5, <2>2 DEF Fire, Types
  <2> QED
    BY <1>0, <2>1, <2>3, <2>4, OnTimeOff
<1>6. ASSUME NEW u \in User, Delete(u) PROVE Clock' /\ Timed'
  <2>1. UNCHANGED <<now, jiffies, timer_jiffies, expires>>
    BY <1>6 DEF Delete, Same, time, softirq
  <2>2. \A t \in Timer : \/ base'[t] = base[t] /\ entry'[t] = entry[t] /\ due'[t] = due[t]
                         \/ entry'[t] = NoList
    BY <1>6 DEF Delete, Types
  <2> QED
    BY <1>0, <2>1, <2>2, OnTimeOff
<1>7. ASSUME NEW a \in Agent, Install(a) PROVE Clock' /\ Timed'
  <2>1. UNCHANGED <<now, jiffies, timer_jiffies>>
    BY <1>7 DEF Install, Same, time, softirq
  <2>2. pc[a] = "m_do" /\ call[a] \in Call
    BY <1>7 DEF Install, At, Types
  <2>3. PICK t \in Timer, c \in online, x \in 0..(Word - 1) :
           t = call[a].timer /\ c = call[a].new /\ x = call[a].x
    BY <2>2 DEF Control, Calling, Called, ModSection, Call
  <2>4. InRange(x)
    BY <2>2, <2>3 DEF Prompt
  <2>5. Enqueue(t, c, x) /\ expires' = [expires EXCEPT ![t] = x]
    BY <1>7, <2>3 DEF Install
  <2>6. expires'[t] = x /\ \A s \in Timer : s # t => expires'[s] = expires[s]
    BY <2>5 DEF Types
  <2> QED
    BY <1>0, <2>1, <2>4, <2>5, <2>6, OnTimeLinked
<1>8. ASSUME NEW u \in User, NEW t \in Timer, NEW cpu \in CPU, NEW delta \in Delta,
             add_timer_on(u, t, cpu, delta)
      PROVE  Clock' /\ Timed'
  <2>1. UNCHANGED <<now, jiffies, timer_jiffies>> /\ cpu \in online
    BY <1>8 DEF add_timer_on, Same, time, softirq
  <2>2. PICK x : x = (jiffies + delta) % Word
    OBVIOUS
  <2>3. x \in 0..(Word - 1) /\ InRange(x)
    BY <2>2, SetInRange
  <2>4. Enqueue(t, cpu, x) /\ expires' = [expires EXCEPT ![t] = x]
    BY <1>8, <2>2 DEF add_timer_on
  <2>5. expires'[t] = x /\ \A s \in Timer : s # t => expires'[s] = expires[s]
    BY <2>4 DEF Types
  <2> QED
    BY <1>0, <2>1, <2>3, <2>4, <2>5, OnTimeLinked
<1>9. ASSUME migrate_timer_list PROVE Clock' /\ Timed'
  <2>1. UNCHANGED <<now, jiffies, timer_jiffies>> /\ hpc = "move"
    BY <1>9 DEF migrate_timer_list, Plugging, time, softirq
  <2>2. PICK t \in Left(dead) :
          \/ Enqueue(t, heir, expires[t]) /\ UNCHANGED expires
          \/ UNCHANGED wheel
    BY <1>9 DEF migrate_timer_list
  <2>3. CASE UNCHANGED wheel
    BY <1>1, <2>1, <2>3 DEF wheel
  <2>4. CASE Enqueue(t, heir, expires[t]) /\ UNCHANGED expires
    <3>1. t \in Timer /\ base[t] = dead /\ heir \in online
      BY <2>1 DEF Left, Control, Plugged
    <3>2. PICK x \in 0..(Word - 1) : x = expires[t] /\ InRange(x)
      BY <2>1, <3>1 DEF Prompt, Types
    <3>3. Enqueue(t, heir, x) /\ expires'[t] = x
      BY <2>4, <3>2
    <3>4. \A s \in Timer : s # t => expires'[s] = expires[s]
      BY <2>4
    <3> QED
      BY <1>0, <2>1, <3>1, <3>2, <3>3, <3>4, OnTimeLinked
  <2> QED
    BY <2>2, <2>3, <2>4
<1>10. ASSUME UNCHANGED vars PROVE Still
  BY <1>10 DEF vars, time, wheel, softirq
<1>11. ASSUME NEW c \in CPU, run_timer_softirq(c) \/ RunEnds(c) \/ HandlerReturns(c) PROVE Still
  BY <1>11 DEF run_timer_softirq, RunEnds, HandlerReturns, time, wheel
<1>12. ASSUME NEW a \in Agent, NEW t \in Timer, NEW delta \in Delta, mod_timer(a, t, delta)
       PROVE  Still
  BY <1>12 DEF mod_timer, Same, time, wheel, softirq
<1>13. ASSUME NEW u \in User, NEW t \in Timer, NEW op \in {"del", "sync", "first"},
              del_timer(u, t, op)
       PROVE  Still
  BY <1>13 DEF del_timer, Same, time, wheel, softirq
<1>14. ASSUME NEW a \in Agent, LockTimer(a) \/ LockFirst(a) \/ LockSecond(a) PROVE Still
  BY <1>14 DEF LockTimer, LockFirst, LockSecond, Same, time, wheel, softirq
<1>15. ASSUME NEW u \in User,
              DelAgain(u) \/ DelLock(u) \/ LookAt(u) \/ WaitEnds(u) \/ SyncReturns(u)
       PROVE  Still
  BY <1>15 DEF DelAgain, DelLock, LookAt, WaitEnds, SyncReturns, Same, time, wheel, softirq
<1>16. ASSUME NEW d \in CPU, NEW n \in CPU, cpu_down(d, n) PROVE Still
  BY <1>16 DEF cpu_down, Plugging, time, wheel, softirq
<1>17. ASSUME MigrateLock \/ MigrateEnds PROVE Still
  BY <1>17 DEF MigrateLock, MigrateEnds, Plugging, time, wheel, softirq
<1> HIDE DEF Still
<1> QED
  BY <1>1, <1>2, <1>3, <1>4, <1>5, <1>6, <1>7, <1>8, <1>9, <1>10, <1>11, <1>12, <1>13,
     <1>14, <1>15, <1>16, <1>17, Bounds
  DEF Next, Softirq, Modifying, Deleting, Migrating, Agent

(* Timers that are on time run on time. *)
LEMMA TimedRuns == Types /\ Clock /\ Timed => RunsOnTime
<1> SUFFICES ASSUME Types, Clock, Timed, NEW t \in Timer, base[t] # NULL
             PROVE  /\ entry[t] \notin {NoList, WorkList} => due[t] >= Reached(base[t])
                    /\ entry[t] = WorkList => due[t] = Reached(base[t]) - 1 /\ due[t] <= now
  BY DEF RunsOnTime
<1>1. OnTime(t)
  BY DEF Timed
<1>2. PICK c \in CPU : c = base[t]
  BY DEF Types
<1>3. ASSUME entry[t] \notin {NoList, WorkList} PROVE due[t] >= Reached(c)
  <2>1. PICK p \in Int, i \in Nat, r \in Int :
           p = Place(c) /\ i = INITIAL_JIFFIES /\ r = Reached(c) /\ p = r + i
    BY PlaceOf, TimerAssumption DEF Place
  <2>2. PICK d \in Int, a \in Int : d = due[t] /\ a = d + i
    BY DEF Types
  <2>3. Slot(entry[t], p, a)
    BY <1>1, <1>2, <1>3, <2>1, <2>2 DEF OnTime
  <2>4. PICK l \in 1..LEVELS : p <= Start(l, a)
    BY <2>3 DEF Slot
  <2>5. Start(l, a) \in Int /\ Start(l, a) <= a
    BY StartFacts
  <2>6. p <= a
    BY <2>4, <2>5
  <2> QED
    BY <2>1, <2>2, <2>6
<1> QED
  BY <1>1, <1>2, <1>3 DEF OnTime

(* Through the cascades of the wheel, the wrap of jiffies, a base that      *)
(* lags and moves between bases, a timer runs in the turn of its base for   *)
(* the jiffy it was set to (internal_add_timer, cascade, __run_timers), as  *)
(* long as no call that sets a timer takes half of the range of jiffies:    *)
(* expires, computed before the call waited, would by then stand for        *)
(* another time.                                                            *)
THEOREM TimersRunOnTime == Spec /\ []Prompt => []RunsOnTime
<1>1. Init => Clock /\ Timed
  <2> SUFFICES ASSUME Init PROVE Clock /\ Timed
    OBVIOUS
  <2>1. Timed
    BY DEF Init, Timed, OnTime
  <2>2. now + INITIAL_JIFFIES = INITIAL_JIFFIES
    BY TimerAssumption DEF Init
  <2> QED
    BY <2>1, <2>2 DEF Init, Clock
<1>2. IInv /\ IInv' /\ Prompt /\ (Clock /\ Timed) /\ [Next]_vars => (Clock /\ Timed)'
  BY TimedStep DEF IInv
<1>3. IInv /\ (Clock /\ Timed) => RunsOnTime
  BY TimedRuns DEF IInv
<1> QED
  BY Invariance, <1>1, <1>2, <1>3, PTL DEF Spec

-----------------------------------------------------------------------------
(* Locks. *)

(* Every lock that is taken has a holder who will give it back. *)
Owned ==
  /\ \A b \in CPU : /\ \A a \in Agent : base_lock[b] = a => Holds(a, b)
                    /\ base_lock[b] = Migrator => Migrates(b)
  /\ \A t \in Timer, a \in Agent :
       timer_lock[t] = a => pc[a] \in ModSection /\ call[a].timer = t

(* It is so after a step of one call that takes and gives back locks, ... *)
LEMMA OwnedByCaller ==
  ASSUME Types, Owned, NEW a \in Agent, Moves(a), UNCHANGED <<rpc, hpc, heir, dead>>,
         \A b \in CPU : base_lock'[b] \in {Nobody, a, base_lock[b]},
         \A b \in CPU : base_lock'[b] = a => Holds(a, b)',
         \A t \in Timer : timer_lock'[t] \in {Nobody, a, timer_lock[t]},
         \A t \in Timer : timer_lock'[t] = a => pc'[a] \in ModSection /\ call'[a].timer = t
  PROVE  Owned'
<1>1. ASSUME NEW b \in CPU, NEW x \in Agent, base_lock'[b] = x PROVE Holds(x, b)'
  <2>1. CASE x = a
    BY <1>1, <2>1
  <2>2. CASE x # a
    <3>1. base_lock[b] = x
      BY <1>1, <2>2, Kinds
    <3>2. Holds(x, b) /\ pc'[x] = pc[x] /\ call'[x] = call[x]
      BY <2>2, <3>1 DEF Owned, Moves
    <3> QED
      BY <3>2 DEF Holds
  <2> QED
    BY <2>1, <2>2
<1>2. ASSUME NEW b \in CPU, base_lock'[b] = Migrator PROVE Migrates(b)'
  <2>1. base_lock[b] = Migrator
    BY <1>2, Kinds
  <2> QED
    BY <2>1 DEF Owned, Migrates
<1>3. ASSUME NEW t \in Timer, NEW x \in Agent, timer_lock'[t] = x
      PROVE  pc'[x] \in ModSection /\ call'[x].timer = t
  <2>1. CASE x = a
    BY <1>3, <2>1
  <2>2. CASE x # a
    <3>1. timer_lock[t] = x
      BY <1>3, <2>2, Kinds
    <3> QED
      BY <2>2, <3>1 DEF Moves, Owned
  <2> QED
    BY <2>1, <2>2
<1> QED
  BY <1>1, <1>2, <1>3 DEF Owned

(* ... after one of a call that has none and takes none, ... *)
LEMMA OwnedByOthers ==
  ASSUME Types, Owned, NEW a \in Agent, Moves(a), pc[a] \notin ModSection \cup {"d_do"},
         UNCHANGED <<rpc, hpc, heir, dead, base_lock, timer_lock>>
  PROVE  Owned'
<1>1. \A b \in CPU : base_lock'[b] = a => Holds(a, b)'
  BY DEF Owned, Holds, ModSection
<1>2. \A t \in Timer : timer_lock'[t] # a
  BY Kinds DEF Owned
<1> QED
  BY <1>1, <1>2, OwnedByCaller

(* ... after one of a softirq, ... *)
LEMMA OwnedBySoftirq ==
  ASSUME Types, Owned, NEW c \in CPU, UNCHANGED <<pc, call, timer_lock, hpc, heir, dead>>,
         \A d \in CPU : d # c => rpc'[d] = rpc[d],
         \A b \in CPU : base_lock'[b] \in {Nobody, c, base_lock[b]},
         \A b \in CPU : base_lock'[b] = c => Holds(c, b)'
  PROVE  Owned'
<1>0. c \in Agent
  BY Kinds
<1>1. ASSUME NEW b \in CPU, NEW x \in Agent, base_lock'[b] = x PROVE Holds(x, b)'
  <2>1. CASE x = c
    BY <1>1, <2>1
  <2>2. CASE x # c
    <3>1. base_lock[b] = x
      BY <1>1, <2>2, Kinds
    <3>2. Holds(x, b)
      BY <3>1 DEF Owned
    <3> QED
      BY <2>2, <3>2 DEF Holds
  <2> QED
    BY <2>1, <2>2
<1>2. ASSUME NEW b \in CPU, base_lock'[b] = Migrator PROVE Migrates(b)'
  <2>1. base_lock[b] = Migrator
    BY <1>0, <1>2, Kinds
  <2> QED
    BY <2>1 DEF Owned, Migrates
<1> QED
  BY <1>1, <1>2 DEF Owned

(* ... and after one of migrate_timers(). *)
LEMMA OwnedByMigrator ==
  ASSUME Types, Owned, UNCHANGED <<pc, call, timer_lock, rpc>>,
         \A b \in CPU : base_lock'[b] \in {Nobody, Migrator, base_lock[b]},
         \A b \in CPU : base_lock'[b] = Migrator => Migrates(b)'
  PROVE  Owned'
<1>1. ASSUME NEW b \in CPU, NEW x \in Agent, base_lock'[b] = x PROVE Holds(x, b)'
  <2>1. base_lock[b] = x
    BY <1>1, Kinds
  <2>2. Holds(x, b)
    BY <2>1 DEF Owned
  <2> QED
    BY <2>2 DEF Holds
<1> QED
  BY <1>1 DEF Owned

(* Every step keeps the locks owned. *)
LEMMA OwnedStep == Types /\ Control /\ Owned /\ [Next]_vars => Owned'
<1> SUFFICES ASSUME Types /\ Control /\ Owned, [Next]_vars PROVE Owned'
  OBVIOUS
<1>c. Calling /\ Running /\ Plugged /\ Locked
  BY DEF Control
<1>i. \A c \in CPU : rpc[c] # "handler" => pc[c] = "idle"
  BY <1>c, Kinds DEF Calling, Called
<1>h. ASSUME NEW c \in CPU, NEW b \in CPU, base_lock[b] = c, rpc[c] \in {"run", "fire"}
      PROVE  b = c
  <2>1. Holds(c, b) /\ pc[c] = "idle"
    BY <1>h, <1>i, Kinds DEF Owned
  <2> QED
    BY <2>1 DEF Holds
<1>0. ASSUME UNCHANGED <<pc, call, rpc, hpc, heir, dead, base_lock, timer_lock>> PROVE Owned'
  BY <1>0 DEF Owned, Holds, Migrates
<1>1. CASE UNCHANGED vars
  BY <1>0, <1>1 DEF vars, softirq, calls, plug
<1>2. ASSUME Tick PROVE Owned'
  BY <1>0, <1>2 DEF Tick, softirq, calls, plug
<1>3. ASSUME NEW c \in CPU, RunLoop(c) PROVE Owned'
  BY <1>0, <1>3 DEF RunLoop, calls, plug
<1>4. ASSUME NEW u \in User, NEW t \in Timer, NEW cpu \in CPU, NEW delta \in Delta,
            add_timer_on(u, t, cpu, delta)
       PROVE  Owned'
  BY <1>0, <1>4 DEF add_timer_on, Same, softirq, plug
<1>5. ASSUME NEW c \in CPU, run_timer_softirq(c) \/ HandlerReturns(c) PROVE Owned'
  <2>1. /\ rpc' = [rpc EXCEPT ![c] = "run"] /\ Lock(c, c) /\ rpc[c] \notin {"run", "fire"}
        /\ pc[c] = "idle" /\ UNCHANGED <<pc, call, timer_lock, hpc, heir, dead>>
    BY <1>5, <1>i DEF run_timer_softirq, HandlerReturns, Goto, calls, plug
  <2>2. /\ base_lock'[c] = c /\ \A b \in CPU : b # c => base_lock'[b] = base_lock[b]
    BY <2>1, Locking, Kinds
  <2>3. rpc'[c] = "run" /\ \A d \in CPU : d # c => rpc'[d] = rpc[d]
    BY <2>1 DEF Types
  <2>4. ASSUME NEW b \in CPU, base_lock'[b] = c PROVE b = c
    <3>1. SUFFICES ASSUME b # c PROVE FALSE
      OBVIOUS
    <3>2. base_lock[b] = c /\ c \in Agent
      BY <2>2, <2>4, <3>1, Kinds
    <3>3. Holds(c, b)
      BY <3>2 DEF Owned
    <3> QED
      BY <2>1, <3>1, <3>3 DEF Holds
  <2>5. \A b \in CPU : base_lock'[b] = c => Holds(c, b)'
    BY <2>3, <2>4 DEF Holds
  <2> QED
    BY <2>1, <2>2, <2>3, <2>5, OwnedBySoftirq
<1>6. ASSUME NEW c \in CPU, RunEnds(c) \/ Fire(c) PROVE Owned'
  <2>1. /\ Unlock({c}) /\ rpc[c] \in {"run", "fire"}
        /\ UNCHANGED <<pc, call, timer_lock, hpc, heir, dead>>
        /\ \E l : rpc' = [rpc EXCEPT ![c] = l]
    BY <1>6 DEF RunEnds, Fire, Goto, calls, plug
  <2>2. \A b \in CPU : base_lock'[b] = IF b = c THEN Nobody ELSE base_lock[b]
    BY <2>1, Unlocking
  <2>3. \A d \in CPU : d # c => rpc'[d] = rpc[d]
    BY <2>1 DEF Types
  <2>4. \A b \in CPU : base_lock'[b] # c
    BY <1>h, <2>1, <2>2, Kinds
  <2> QED
    BY <2>1, <2>2, <2>3, <2>4, OwnedBySoftirq
<1>7. ASSUME NEW c \in CPU, Expire(c) PROVE Owned'
  <2>1. /\ rpc[c] = "run" /\ rpc' = [rpc EXCEPT ![c] = "fire"]
        /\ UNCHANGED <<pc, call, timer_lock, hpc, heir, dead, base_lock>>
    BY <1>7 DEF Expire, Goto, calls, plug
  <2>2. rpc'[c] = "fire" /\ \A d \in CPU : d # c => rpc'[d] = rpc[d]
    BY <2>1 DEF Types
  <2>3. \A b \in CPU : base_lock'[b] = c => Holds(c, b)'
    BY <1>h, <2>1, <2>2 DEF Holds
  <2> QED
    BY <2>1, <2>2, <2>3, OwnedBySoftirq
<1>8. ASSUME NEW a \in Agent, NEW t \in Timer, NEW delta \in Delta, mod_timer(a, t, delta)
       PROVE  Owned'
  <2>1. Moves(a) /\ pc[a] = "idle"
    BY <1>8, ModTimerStarts DEF mod_timer, At, Starts
  <2>2. UNCHANGED <<rpc, hpc, heir, dead, base_lock, timer_lock>>
    BY <1>8 DEF mod_timer, Same, softirq, plug
  <2> QED
    BY <2>1, <2>2, OwnedByOthers DEF ModSection
<1>9. ASSUME NEW u \in User, NEW t \in Timer, NEW op \in {"del", "sync", "first"},
            del_timer(u, t, op)
       PROVE  Owned'
  <2>1. Moves(u) /\ pc[u] = "idle" /\ u \in Agent
    BY <1>9, DelTimerProbes DEF del_timer, At, Probes, Answers, Agent
  <2>2. UNCHANGED <<rpc, hpc, heir, dead, base_lock, timer_lock>>
    BY <1>9 DEF del_timer, Same, softirq, plug
  <2> QED
    BY <2>1, <2>2, OwnedByOthers DEF ModSection
<1>10. ASSUME NEW a \in Agent, LockTimer(a) PROVE Owned'
  <2>0. pc[a] = "m_lock" /\ call[a].timer \in Timer
    BY <1>10, <1>c DEF LockTimer, At, Calling, Called
  <2>1. PICK c \in online : ReadBase(a, c)
    BY <1>10 DEF LockTimer
  <2>2. Reads(a, c)
    BY <2>0, <2>1, ReadBaseReads, Bounds
  <2>3. UNCHANGED <<rpc, hpc, heir, dead, base_lock>>
    BY <1>10 DEF LockTimer, Same, softirq, plug
  <2>4. timer_lock' = [timer_lock EXCEPT ![call[a].timer] = a]
    BY <1>10 DEF LockTimer
  <2>5. \A t \in Timer : timer_lock[t] # a
    BY <2>0 DEF Owned, ModSection
  <2>6. \A t \in Timer : /\ timer_lock'[t] \in {Nobody, a, timer_lock[t]}
                         /\ timer_lock'[t] = a => t = call[a].timer
    BY <2>4, <2>5 DEF Types
  <2>7. \A b \in CPU : base_lock'[b] = a => Holds(a, b)'
    BY <2>0, <2>3 DEF Owned, Holds
  <2>8. Moves(a) /\ pc'[a] \in ModSection /\ call'[a].timer = call[a].timer
    BY <2>2 DEF Reads, ModSection
  <2> QED
    BY <2>3, <2>6, <2>7, <2>8, OwnedByCaller
<1>11. ASSUME NEW a \in Agent, LockFirst(a) PROVE Owned'
  <2>0. /\ pc[a] = "m_lock1" /\ call[a].new \in CPU /\ call[a].old \in CPU
        /\ call[a].old \notin {NULL, call[a].new}
    <3>1. pc[a] = "m_lock1" /\ Called(a) /\ call[a] \in Call
      BY <1>11, <1>c DEF LockFirst, At, Calling, Types
    <3>2. call[a].old \in CPU \cup {NULL} /\ call[a].old \notin {NULL, call[a].new}
          /\ call[a].new \in online
      BY <3>1 DEF Called, Call, ModSection
    <3> QED
      BY <3>1, <3>2, Bounds
  <2>1. Advances(a, "m_lock2")
    BY <1>11, Advancing DEF LockFirst, Places
  <2>2. UNCHANGED <<rpc, hpc, heir, dead, timer_lock>>
    BY <1>11 DEF LockFirst, Same, softirq, plug
  <2>3. PICK f \in CPU : f = FirstOf(call[a].new, call[a].old)
    BY <2>0, FirstOfType
  <2>4. Lock(f, a)
    BY <1>11, <2>3 DEF LockFirst
  <2>5. \A b \in CPU : b # f => base_lock'[b] = base_lock[b]
    BY <2>3, <2>4, Locking
  <2>6. base_lock'[f] = a
    BY <2>3, <2>4, Locking
  <2>7. ASSUME NEW b \in CPU, base_lock'[b] = a PROVE Holds(a, b)'
    <3>1. CASE b = f
      BY <2>0, <2>1, <2>3, <3>1 DEF Advances, Holds
    <3>2. CASE b # f
      <4>1. Holds(a, b)
        BY <2>5, <2>7, <3>2 DEF Owned
      <4> QED
        BY <2>0, <2>2, <4>1 DEF Holds
    <3> QED
      BY <3>1, <3>2
  <2>8. Moves(a) /\ pc'[a] \in ModSection /\ call'[a] = call[a]
    BY <2>1 DEF Advances, ModSection
  <2>9. \A t \in Timer : timer_lock'[t] = a => call'[a].timer = t
    BY <2>2, <2>8 DEF Owned
  <2>10. \A b \in CPU : base_lock'[b] \in {Nobody, a, base_lock[b]}
    BY <2>5, <2>6
  <2> QED
    BY <2>2, <2>7, <2>8, <2>9, <2>10, OwnedByCaller
<1>12. ASSUME NEW a \in Agent, LockSecond(a) PROVE Owned'
  <2>0. /\ pc[a] = "m_lock2" /\ call[a].new \in CPU /\ call[a].old \in CPU \cup {NULL}
        /\ call[a].timer \in Timer
    <3>1. pc[a] = "m_lock2" /\ Called(a) /\ call[a] \in Call
      BY <1>12, <1>c DEF LockSecond, At, Calling, Types
    <3>2. call[a].old \in CPU \cup {NULL} /\ call[a].new \in online /\ call[a].timer \in Timer
      BY <3>1 DEF Called, Call, ModSection
    <3> QED
      BY <3>1, <3>2, Bounds
  <2>1. PICK n \in CPU, o \in CPU \cup {NULL} : n = call[a].new /\ o = call[a].old
    BY <2>0
  <2>2. UNCHANGED <<rpc, hpc, heir, dead, timer_lock>>
    BY <1>12 DEF LockSecond, Same, softirq, plug
  <2>3. ASSUME NEW b \in CPU, base_lock[b] = a
        PROVE  \/ a = b /\ rpc[b] \in {"run", "fire"}
               \/ o \notin {NULL, n} /\ b = FirstOf(n, o)
    BY <2>0, <2>1, <2>3 DEF Owned, Holds
  <2>4. PICK l \in CPU : /\ l = IF o \in {NULL, n} THEN n ELSE Other(n, o)
                         /\ l \in {n, o}
    BY <2>1, FirstOfType
  <2>5. \/ Lock(l, a) /\ Advances(a, "m_do")
        \/ Unlock({n, o}) /\ ReadBase(a, n)
    BY <1>12, <2>1, <2>4, Advancing DEF LockSecond, Places
  <2>6. \A t \in Timer : timer_lock'[t] = a => call[a].timer = t
    BY <2>2 DEF Owned
  <2>7. CASE Lock(l, a) /\ Advances(a, "m_do")
    <3>1. \A b \in CPU : b # l => base_lock'[b] = base_lock[b]
      BY <2>4, <2>7, Locking
    <3>2. base_lock'[l] = a
      BY <2>4, <2>7, Locking
    <3>3. Moves(a) /\ pc'[a] = "m_do" /\ call'[a] = call[a]
      BY <2>7 DEF Advances
    <3>4. ASSUME NEW b \in CPU, base_lock'[b] = a PROVE Holds(a, b)'
      <4>1. CASE b \in {n, o}
        BY <2>1, <3>3, <4>1 DEF Holds
      <4>2. CASE b \notin {n, o}
        <5>1. base_lock[b] = a
          BY <2>4, <3>1, <3>4, <4>2
        <5>2. o \notin {NULL, n} => FirstOf(n, o) \in {n, o}
          BY <2>1, FirstOfType
        <5>3. a = b /\ rpc[b] \in {"run", "fire"}
          BY <2>3, <4>2, <5>1, <5>2
        <5> QED
          BY <2>2, <5>3 DEF Holds
      <4> QED
        BY <4>1, <4>2
    <3>5. \A b \in CPU : base_lock'[b] \in {Nobody, a, base_lock[b]}
      BY <3>1, <3>2
    <3>6. pc'[a] \in ModSection /\ \A t \in Timer : timer_lock'[t] = a => call'[a].timer = t
      BY <2>6, <3>3 DEF ModSection
    <3> QED
      BY <2>2, <3>3, <3>4, <3>5, <3>6, OwnedByCaller
  <2>8. CASE Unlock({n, o}) /\ ReadBase(a, n)
    <3>1. Reads(a, n)
      BY <2>0, <2>1, <2>8, ReadBaseReads
    <3>2. Moves(a) /\ pc'[a] \in ModSection /\ call'[a].timer = call[a].timer
      BY <3>1 DEF Reads, ModSection
    <3>3. \A b \in CPU : base_lock'[b] = IF b \in {n, o} THEN Nobody ELSE base_lock[b]
      BY <2>8, Unlocking
    <3>4. ASSUME NEW b \in CPU, base_lock'[b] = a PROVE Holds(a, b)'
      <4>1. b \notin {n, o} /\ base_lock[b] = a
        BY <3>3, <3>4, Kinds
      <4>2. o \notin {NULL, n} => FirstOf(n, o) \in {n, o}
        BY <2>1, FirstOfType
      <4>3. a = b /\ rpc[b] \in {"run", "fire"}
        BY <2>3, <4>1, <4>2
      <4> QED
        BY <2>2, <4>3 DEF Holds
    <3>5. \A b \in CPU : base_lock'[b] \in {Nobody, a, base_lock[b]}
      BY <3>3
    <3>6. \A t \in Timer : timer_lock'[t] = a => call'[a].timer = t
      BY <2>6, <3>2
    <3> QED
      BY <2>2, <3>2, <3>4, <3>5, <3>6, OwnedByCaller
  <2> QED
    BY <2>5, <2>7, <2>8
<1>13. ASSUME NEW a \in Agent, Install(a) PROVE Owned'
  <2>0. pc[a] = "m_do" /\ call[a].timer \in Timer
    BY <1>13, <1>c DEF Install, At, Calling, Called
  <2>1. Finishes(a)
    BY <1>13, Finishing DEF Install
  <2>2. UNCHANGED <<rpc, hpc, heir, dead>>
    BY <1>13 DEF Install, Same, softirq, plug
  <2>3. \A b \in CPU : base_lock'[b] = IF b \in {call[a].new, call[a].old} THEN Nobody
                                        ELSE base_lock[b]
    BY <1>13, Unlocking DEF Install
  <2>4. ASSUME NEW b \in CPU, base_lock'[b] = a PROVE Holds(a, b)'
    <3>1. base_lock[b] = a /\ b # call[a].new /\ b # call[a].old
      BY <2>3, <2>4, Kinds
    <3>2. Holds(a, b)
      BY <3>1 DEF Owned
    <3>3. a = b /\ rpc[b] \in {"run", "fire"}
      BY <2>0, <3>1, <3>2 DEF Holds
    <3> QED
      BY <2>2, <3>3 DEF Holds
  <2>5. timer_lock' = [timer_lock EXCEPT ![call[a].timer] = Nobody]
    BY <1>13 DEF Install
  <2>6. \A t \in Timer : timer_lock'[t] = IF t = call[a].timer THEN Nobody ELSE timer_lock[t]
    BY <2>5 DEF Types
  <2>7. \A t \in Timer : timer_lock'[t] # a
    BY <2>6, Kinds DEF Owned
  <2>8. Moves(a)
    BY <2>1 DEF Finishes
  <2>9. \A b \in CPU : base_lock'[b] \in {Nobody, a, base_lock[b]}
    BY <2>3
  <2>10. \A t \in Timer : timer_lock'[t] \in {Nobody, a, timer_lock[t]}
    BY <2>6
  <2> QED
    BY <2>2, <2>4, <2>7, <2>8, <2>9, <2>10, OwnedByCaller
<1>14. ASSUME NEW u \in User, DelAgain(u) PROVE Owned'
  <2>1. call[u] \in Call /\ call[u].timer \in Timer /\ call[u].op \in DelOps
    BY <1>14, <1>c DEF DelAgain, At, Calling, Called, ModSection, Types, Call, Agent, DelOps
  <2>2. Moves(u)
    BY <1>14, <2>1, DelReadProbes DEF DelAgain, Agent, Probes, Answers
  <2>3. pc[u] = "d_read" /\ u \in Agent
    BY <1>14 DEF DelAgain, At, Agent
  <2>4. UNCHANGED <<rpc, hpc, heir, dead, base_lock, timer_lock>>
    BY <1>14 DEF DelAgain, Same, softirq, plug
  <2> QED
    BY <2>2, <2>3, <2>4, OwnedByOthers DEF ModSection
<1>15. ASSUME NEW u \in User, LookAt(u) PROVE Owned'
  <2>2. Moves(u)
    BY <1>15, LookAtLooks, Bounds DEF Agent, Looks, Advances
  <2>3. pc[u] = "s_look" /\ u \in Agent
    BY <1>15 DEF LookAt, At, Agent
  <2>4. UNCHANGED <<rpc, hpc, heir, dead, base_lock, timer_lock>>
    BY <1>15 DEF LookAt, Same, softirq, plug
  <2> QED
    BY <2>2, <2>3, <2>4, OwnedByOthers DEF ModSection
<1>16. ASSUME NEW u \in User, WaitEnds(u) PROVE Owned'
  <2>2. Moves(u)
    BY <1>16, Advancing DEF WaitEnds, Places, Agent, Advances
  <2>3. pc[u] = "s_wait" /\ u \in Agent
    BY <1>16 DEF WaitEnds, At, Agent
  <2>4. UNCHANGED <<rpc, hpc, heir, dead, base_lock, timer_lock>>
    BY <1>16 DEF WaitEnds, Same, softirq, plug
  <2> QED
    BY <2>2, <2>3, <2>4, OwnedByOthers DEF ModSection
<1>17. ASSUME NEW u \in User, SyncReturns(u) PROVE Owned'
  <2>1. call[u] \in Call /\ call[u].timer \in Timer /\ call[u].op \in DelOps
    BY <1>17, <1>c
    DEF SyncReturns, At, Calling, Called, ModSection, Types, Call, Agent, DelOps
  <2>2. Moves(u)
    BY <1>17, <2>1, DelReadProbes, Finishing
    DEF SyncReturns, Agent, Probes, Answers, Finishes
  <2>3. pc[u] = "s_pending" /\ u \in Agent
    BY <1>17 DEF SyncReturns, At, Agent
  <2>4. UNCHANGED <<rpc, hpc, heir, dead, base_lock, timer_lock>>
    BY <1>17 DEF SyncReturns, Same, softirq, plug
  <2> QED
    BY <2>2, <2>3, <2>4, OwnedByOthers DEF ModSection
<1>18. ASSUME NEW u \in User, DelLock(u) PROVE Owned'
  <2>0. pc[u] = "d_lock" /\ u \in Agent /\ Called(u)
    BY <1>18, <1>c DEF DelLock, At, Agent, Calling
  <2>1. call[u] \in Call /\ call[u].timer \in Timer /\ call[u].op \in DelOps
    BY <1>18, <1>c DEF DelLock, At, Calling, Called, ModSection, Types, Call, Agent, DelOps
  <2>2. UNCHANGED <<rpc, hpc, heir, dead, timer_lock>>
    BY <1>18 DEF DelLock, Same, softirq, plug
  <2>3. PICK b \in CPU : b = call[u].old
    BY <2>0 DEF Called
  <2>4. \/ Lock(b, u) /\ Advances(u, "d_do")
        \/ Probes(u, call[u]) /\ UNCHANGED base_lock
    BY <1>18, <2>1, <2>3, DelReadProbes, Advancing DEF DelLock, Places, Agent
  <2>5. CASE Probes(u, call[u]) /\ UNCHANGED base_lock
    <3>1. Moves(u)
      BY <2>5 DEF Probes, Answers
    <3> QED
      BY <2>0, <2>2, <2>5, <3>1, OwnedByOthers DEF ModSection
  <2>6. CASE Lock(b, u) /\ Advances(u, "d_do")
    <3>1. \A d \in CPU : d # b => base_lock'[d] = base_lock[d]
      BY <2>0, <2>3, <2>6, Locking
    <3>2. base_lock'[b] = u
      BY <2>0, <2>3, <2>6, Locking
    <3>3. Moves(u) /\ pc'[u] = "d_do" /\ call'[u] = call[u]
      BY <2>6 DEF Advances
    <3>4. ASSUME NEW d \in CPU, base_lock'[d] = u PROVE Holds(u, d)'
      <4>1. CASE d = b
        BY <2>3, <3>3, <4>1 DEF Holds
      <4>2. CASE d # b
        <5>1. Holds(u, d)
          BY <2>0, <3>1, <3>4, <4>2 DEF Owned
        <5> QED
          BY <2>0, <2>2, <5>1 DEF Holds
      <4> QED
        BY <4>1, <4>2
    <3>5. \A d \in CPU : base_lock'[d] \in {Nobody, u, base_lock[d]}
      BY <3>1, <3>2
    <3>6. \A t \in Timer : timer_lock'[t] # u
      BY <2>0, <2>2 DEF Owned, ModSection
    <3> QED
      BY <2>0, <2>2, <3>3, <3>4, <3>5, <3>6, OwnedByCaller
  <2> QED
    BY <2>4, <2>5, <2>6
<1>19. ASSUME NEW u \in User, Delete(u) PROVE Owned'
  <2>0. pc[u] = "d_do" /\ u \in Agent
    BY <1>19 DEF Delete, At, Agent
  <2>1. call[u] \in Call /\ call[u].timer \in Timer /\ call[u].op \in DelOps
    BY <1>19, <1>c DEF Delete, At, Calling, Called, ModSection, Types, Call, Agent, DelOps
  <2>2. Moves(u)
    BY <1>19, <2>1, DeletedAnswers DEF Delete, Agent, Answers
  <2>3. UNCHANGED <<rpc, hpc, heir, dead, timer_lock>>
    BY <1>19 DEF Delete, Same, softirq, plug
  <2>4. \A b \in CPU : base_lock'[b] = IF b \in {call[u].old} THEN Nobody ELSE base_lock[b]
    BY <1>19, Unlocking DEF Delete
  <2>5. ASSUME NEW b \in CPU, base_lock'[b] = u PROVE Holds(u, b)'
    <3>1. base_lock[b] = u /\ b # call[u].old
      BY <2>0, <2>4, <2>5, Kinds
    <3>2. Holds(u, b)
      BY <2>0, <3>1 DEF Owned
    <3>3. u = b /\ rpc[b] \in {"run", "fire"}
      BY <2>0, <3>1, <3>2 DEF Holds
    <3> QED
      BY <2>3, <3>3 DEF Holds
  <2>6. \A t \in Timer : timer_lock'[t] # u
    BY <2>0, <2>3 DEF Owned, ModSection
  <2>7. \A b \in CPU : base_lock'[b] \in {Nobody, u, base_lock[b]}
    BY <2>4
  <2> QED
    BY <2>0, <2>2, <2>3, <2>5, <2>6, <2>7, OwnedByCaller
<1>20. ASSUME NEW d \in CPU, NEW n \in CPU, cpu_down(d, n) PROVE Owned'
  <2>1. \A b \in CPU : base_lock'[b] = Nobody
    BY <1>20 DEF cpu_down
  <2>2. UNCHANGED <<pc, call, timer_lock>>
    BY <1>20 DEF cpu_down, Plugging, calls
  <2> QED
    BY <2>1, <2>2, Kinds DEF Owned
<1>21. ASSUME MigrateLock PROVE Owned'
  <2>0. heir \in CPU /\ dead \in CPU
    BY <1>21, <1>c, Bounds DEF MigrateLock, Plugged
  <2>1. UNCHANGED <<pc, call, timer_lock, rpc, heir, dead>>
    BY <1>21 DEF MigrateLock, Plugging, calls, softirq
  <2>2. PICK f \in CPU, o \in CPU : f = FirstOf(heir, dead) /\ o = Other(heir, dead)
                                   /\ {f, o} = {heir, dead}
    BY <2>0, FirstOfType
  <2>3. \/ hpc = "lock1" /\ Lock(f, Migrator) /\ hpc' = "lock2"
        \/ hpc = "lock2" /\ Lock(o, Migrator) /\ hpc' = "move"
    BY <1>21, <2>2 DEF MigrateLock
  <2>4. PICK l \in CPU : /\ Lock(l, Migrator)
                         /\ \/ hpc = "lock1" /\ l = f /\ hpc' = "lock2"
                            \/ hpc = "lock2" /\ l = o /\ hpc' = "move"
    BY <2>3
  <2>5. base_lock'[l] = Migrator /\ \A b \in CPU : b # l => base_lock'[b] = base_lock[b]
    BY <2>4, Locking
  <2>6. ASSUME NEW b \in CPU, base_lock'[b] = Migrator PROVE Migrates(b)'
    <3>1. CASE b = l
      BY <2>1, <2>2, <2>4, <3>1 DEF Migrates
    <3>2. CASE b # l
      <4>1. Migrates(b)
        BY <2>5, <2>6, <3>2 DEF Owned
      <4> QED
        BY <2>1, <2>2, <2>4, <4>1 DEF Migrates
    <3> QED
      BY <3>1, <3>2
  <2>7. \A b \in CPU : base_lock'[b] \in {Nobody, Migrator, base_lock[b]}
    BY <2>5
  <2> QED
    BY <2>1, <2>6, <2>7, OwnedByMigrator
<1>22. ASSUME migrate_timer_list \/ MigrateEnds PROVE Owned'
  <2>1. UNCHANGED <<pc, call, timer_lock, rpc>> /\ hpc = "move"
    BY <1>22 DEF migrate_timer_list, MigrateEnds, Plugging, calls, softirq
  <2>2. \/ UNCHANGED <<base_lock, hpc, heir, dead>>
        \/ Unlock({dead, heir})
    BY <1>22 DEF migrate_timer_list, MigrateEnds
  <2>3. CASE UNCHANGED <<base_lock, hpc, heir, dead>>
    BY <1>0, <2>1, <2>3
  <2>4. CASE Unlock({dead, heir})
    <3>1. \A b \in CPU : base_lock'[b] = IF b \in {dead, heir} THEN Nobody ELSE base_lock[b]
      BY <2>4, Unlocking
    <3>2. \A b \in CPU : base_lock[b] = Migrator => b \in {dead, heir}
      BY <2>1 DEF Owned, Migrates
    <3>3. \A b \in CPU : base_lock'[b] # Migrator
      BY <3>1, <3>2, Kinds
    <3> QED
      BY <2>1, <3>1, <3>3, OwnedByMigrator
  <2> QED
    BY <2>2, <2>3, <2>4
<1> QED
  BY <1>1, <1>2, <1>3, <1>4, <1>5, <1>6, <1>7, <1>8, <1>9, <1>10, <1>11, <1>12, <1>13,
     <1>14, <1>15, <1>16, <1>17, <1>18, <1>19, <1>20, <1>21, <1>22, Bounds
  DEF Next, Softirq, Modifying, Deleting, Migrating, Agent

(* The base whose lock __mod_timer() waits for, ... *)
Wants(a) ==
  LET new == call[a].new  old == call[a].old
  IN  IF pc[a] = "m_lock1" THEN FirstOf(new, old)
      ELSE IF old \in {NULL, new} THEN new ELSE Other(new, old)

(* ... and whether another has it; the same for migrate_timers().           *)
Blocked(a) == pc[a] \in {"m_lock1", "m_lock2"} /\ base_lock[Wants(a)] # Nobody
MigratorBlocked ==
  \/ hpc = "lock1" /\ base_lock[FirstOf(heir, dead)] # Nobody
  \/ hpc = "lock2" /\ base_lock[Other(heir, dead)] # Nobody

SomeHolderUnblocked ==
  (\E c \in CPU : base_lock[c] # Nobody) \/ (\E t \in Timer : timer_lock[t] # Nobody) =>
    \/ \E c \in CPU : rpc[c] \in {"run", "fire"}
    \/ \E a \in Agent : pc[a] \in ModSection /\ ~Blocked(a)
    \/ \E u \in User : pc[u] = "d_do"
    \/ hpc # "none" /\ ~MigratorBlocked

(* Of two bases, the one locked last is the lower. *)
LEMMA OtherIsLower ==
  ASSUME NEW m \in CPU, NEW n \in CPU, m # n
  PROVE  Other(m, n) \in CPU /\ Other(m, n) < FirstOf(m, n)
<1>1. m \in Nat /\ n \in Nat
  BY Kinds
<1> QED
  BY <1>1 DEF FirstOf, Other

(* Who has the lowest of the locks that are taken waits for none of them. *)
LEMMA LocksInOrder == Types /\ Control /\ Owned => SomeHolderUnblocked
<1> SUFFICES ASSUME Types, Control, Owned,
                    ~(\E c \in CPU : rpc[c] \in {"run", "fire"}),
                    ~(\E a \in Agent : pc[a] \in ModSection /\ ~Blocked(a)),
                    ~(\E u \in User : pc[u] = "d_do"),
                    ~(hpc # "none" /\ ~MigratorBlocked)
             PROVE  /\ \A c \in CPU : base_lock[c] = Nobody
                    /\ \A t \in Timer : timer_lock[t] = Nobody
  BY DEF SomeHolderUnblocked
<1>1. Calling /\ Plugged
  BY DEF Control
<1>2. ASSUME NEW a \in Agent, pc[a] \in ModSection
      PROVE  /\ call[a].new \in CPU /\ call[a].old \in CPU \cup {NULL}
             /\ Wants(a) \in CPU /\ base_lock[Wants(a)] # Nobody
             /\ pc[a] \in {"m_lock1", "m_lock2"}
  <2>1. Called(a) /\ call[a] \in Call
    BY <1>1 DEF Calling, Types
  <2>2. PICK n \in CPU, o \in CPU \cup {NULL} : n = call[a].new /\ o = call[a].old
    BY <1>2, <2>1, Bounds DEF Called, Call
  <2>3. Blocked(a)
    BY <1>2
  <2>4. pc[a] = "m_lock1" => o \notin {NULL, n}
    BY <2>1, <2>2 DEF Called
  <2>5. o \notin {NULL, n} => FirstOf(n, o) \in CPU /\ Other(n, o) \in CPU
    BY <2>2, FirstOfType
  <2>6. Wants(a) \in CPU
    BY <2>2, <2>4, <2>5 DEF Wants
  <2> QED
    BY <2>2, <2>3, <2>6 DEF Blocked
<1>3. \A c \in CPU : base_lock[c] = Nobody
  <2> DEFINE S == {b \in CPU : base_lock[b] # Nobody}
  <2>1. SUFFICES ASSUME S # {} PROVE FALSE
    OBVIOUS
  <2>2. S \subseteq Nat
    BY Kinds
  <2>3. PICK b \in S : \A d \in S : b <= d
    <3> HIDE DEF S
    <3> QED
      BY <2>1, <2>2, Least
  <2>4. b \in CPU /\ b \in Nat /\ base_lock[b] \in Agent \cup {Migrator}
    BY <2>2, <2>3 DEF Types
  <2>5. ASSUME NEW d \in CPU, d < b PROVE base_lock[d] = Nobody
    <3>1. d \in Nat
      BY Kinds
    <3>2. ~(b <= d)
      BY <2>4, <2>5, <3>1
    <3> QED
      BY <2>3, <3>2
  <2>6. CASE base_lock[b] \in Agent
    <3>1. PICK a \in Agent : a = base_lock[b] /\ Holds(a, b)
      BY <2>4, <2>6 DEF Owned
    <3>2. pc[a] # "d_do"
      BY <1>1 DEF Calling, Called, ModSection, Agent
    <3>3. pc[a] # "m_do"
      BY <1>2 DEF ModSection
    <3>4. /\ pc[a] = "m_lock2" /\ call[a].old \notin {NULL, call[a].new}
          /\ b = FirstOf(call[a].new, call[a].old)
      BY <2>4, <3>1, <3>2, <3>3 DEF Holds
    <3>5. /\ call[a].new \in CPU /\ call[a].old \in CPU
          /\ base_lock[Wants(a)] # Nobody /\ Wants(a) = Other(call[a].new, call[a].old)
      BY <1>2, <3>4 DEF Wants, ModSection
    <3>6. Wants(a) \in CPU /\ Wants(a) < b
      BY <3>4, <3>5, OtherIsLower
    <3> QED
      BY <2>5, <3>5, <3>6
  <2>7. CASE base_lock[b] = Migrator
    <3>1. Migrates(b)
      BY <2>4, <2>7 DEF Owned
    <3>2. hpc # "none"
      BY <3>1 DEF Migrates
    <3>3. dead \in CPU /\ heir \in CPU /\ heir # dead
      BY <1>1, <3>2, Bounds DEF Plugged
    <3>4. MigratorBlocked
      BY <3>2
    <3>5. hpc = "lock2" /\ b = FirstOf(heir, dead) /\ base_lock[Other(heir, dead)] # Nobody
      BY <3>1, <3>4 DEF Migrates, MigratorBlocked
    <3>6. Other(heir, dead) \in CPU /\ Other(heir, dead) < b
      BY <3>3, <3>5, OtherIsLower
    <3> QED
      BY <2>5, <3>5, <3>6
  <2> QED
    BY <2>4, <2>6, <2>7
<1>4. ASSUME NEW t \in Timer, timer_lock[t] # Nobody PROVE FALSE
  <2>1. PICK a \in Agent : timer_lock[t] = a
    BY <1>4 DEF Types
  <2>2. pc[a] \in ModSection
    BY <2>1 DEF Owned
  <2> QED
    BY <1>2, <1>3, <2>2
<1> QED
  BY <1>3, <1>4

(* __mod_timer(), which takes a timer's lock and then the locks of two      *)
(* bases, and migrate_timers(), which takes two bases' and then tries the   *)
(* timers', never all wait for one another: while locks are taken, some     *)
(* holder does not wait for a lock.                                         *)
THEOREM NoLockCycle == Spec => []SomeHolderUnblocked
<1>1. Init => Owned
  BY Kinds DEF Init, Owned
<1>2. IInv /\ Owned /\ [Next]_vars => Owned'
  BY OwnedStep DEF IInv
<1>3. IInv /\ Owned => SomeHolderUnblocked
  BY LocksInOrder DEF IInv
<1> QED
  BY Invariance, <1>1, <1>2, <1>3, PTL DEF Spec
=============================================================================
