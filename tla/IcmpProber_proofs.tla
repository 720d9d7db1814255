--------------------------- MODULE IcmpProber_proofs ---------------------------
(***************************************************************************)
(* Proofs about IcmpProber, for any number of hops, any window and delay,  *)
(* and a sequence space that the assumption leaves room in.                *)
(***************************************************************************)
EXTENDS IcmpProber, FiniteSetTheorems, FunctionTheorems, TLAPS

-----------------------------------------------------------------------------
(* Arithmetic of the sequence counter.                                     *)

LEMMA DivisionEquation ==
  ASSUME NEW n \in Nat \ {0}, NEW a \in Nat
  PROVE  \E q \in Nat : a = n * q + (a % n) /\ a % n \in 0 .. n - 1
<1>1. PICK q \in Nat : q = a \div n
  OBVIOUS
<1>2. PICK r \in 0 .. n - 1 : r = a % n
  OBVIOUS
<1>3. a = n * q + r
  BY <1>1, <1>2
<1> QED BY <1>2, <1>3

LEMMA Remainder ==
  ASSUME NEW n \in Nat \ {0}, NEW q \in Nat, NEW r \in 0 .. n - 1
  PROVE  (n * q + r) % n = r
OBVIOUS

LEMMA NextModulo ==
  ASSUME NEW n \in Nat \ {0}, NEW a \in Nat
  PROVE  (a + 1) % n = IF (a % n) + 1 = n THEN 0 ELSE (a % n) + 1
<1>1. PICK q \in Nat : a = n * q + (a % n) /\ a % n \in 0 .. n - 1
  BY DivisionEquation
<1>2. PICK r \in 0 .. n - 1 : r = a % n
  BY <1>1
<1>3. CASE r + 1 = n
  <2>1. n * (q + 1) = n * q + n
    BY Z3
  <2>2. n * q \in Nat
    BY Z3
  <2>3. a + 1 = n * (q + 1) + 0
    BY <1>1, <1>2, <1>3, <2>1, <2>2
  <2>4. (n * (q + 1) + 0) % n = 0
    BY Remainder
  <2> QED BY <1>2, <1>3, <2>3, <2>4
<1>4. CASE r + 1 # n
  <2>1. n * q \in Nat
    BY Z3
  <2>2. a + 1 = n * q + (r + 1) /\ r + 1 \in 0 .. n - 1
    BY <1>1, <1>2, <1>4, <2>1
  <2>3. (n * q + (r + 1)) % n = r + 1
    BY <2>2, Remainder
  <2> QED BY <1>2, <1>4, <2>2, <2>3
<1> QED BY <1>3, <1>4

LEMMA NearAndCongruent ==
  ASSUME NEW n \in Nat \ {0}, NEW a \in Nat, NEW b \in Nat,
         a % n = b % n, a - b < n, b - a < n
  PROVE  a = b
<1>1. PICK p \in Nat : a = n * p + (a % n) /\ a % n \in 0 .. n - 1
  BY DivisionEquation
<1>2. PICK q \in Nat : b = n * q + (b % n)
  BY DivisionEquation
<1>3. PICK r \in 0 .. n - 1 : r = a % n
  BY <1>1
<1>4. a = n * p + r /\ b = n * q + r
  BY <1>1, <1>2, <1>3
<1>5. ASSUME p > q PROVE FALSE
  <2>1. PICK d \in Nat : p = q + 1 + d
    BY <1>5
  <2>2. n * p = n * q + n + n * d /\ n * d \in Nat /\ n * q \in Nat
    BY <2>1, Z3
  <2> QED BY <1>4, <2>2
<1>6. ASSUME q > p PROVE FALSE
  <2>1. PICK d \in Nat : q = p + 1 + d
    BY <1>6
  <2>2. n * q = n * p + n + n * d /\ n * d \in Nat /\ n * p \in Nat
    BY <2>1, Z3
  <2> QED BY <1>4, <2>2
<1>7. p = q
  BY <1>5, <1>6
<1> QED BY <1>4, <1>7

LEMMA SweepsReach ==
  ASSUME NEW k \in Nat, NEW a \in Nat, NEW b \in Nat, NEW c \in Nat, a <= b, c <= k
  PROVE  k * a + c <= k * (b + 1)
<1>1. PICK d \in Nat : b = a + d
  BY Z3
<1>2. k * (b + 1) = k * a + k * d + k
  BY <1>1, Z3
<1>3. k * d \in Nat /\ k * a \in Nat
  BY <1>1, Z3
<1> QED BY <1>1, <1>2, <1>3, Z3

LEMMA OneSweepMore ==
  ASSUME NEW k \in Nat, NEW a \in Nat
  PROVE  k * (a + 1) = k * a + k /\ k * a \in Nat /\ k * (a + 1) \in Nat
BY Z3

\* No number comes round to a probe that may still be answered or awaited.
LEMMA SpaceIsWide ==
  /\ SeqSpace \in Nat \ {0}
  /\ \A a \in 0 .. MaxDelay, c \in 0 .. MaxHops : MaxHops * a + c <= SeqSpace
  /\ \A a \in 0 .. Window + 1, c \in 0 .. MaxHops : MaxHops * a + c <= SeqSpace
<1>1. /\ MaxHops \in Nat \ {0} /\ Window \in Nat \ {0} /\ MaxDelay \in Nat
      /\ SeqSpace \in Nat
  BY BooksAssumption, IcmpAssumption
<1>2. PICK p, q \in Nat : p = MaxHops * (MaxDelay + 1) /\ q = MaxHops * (Window + 2)
  BY <1>1, OneSweepMore
<1>3. p <= SeqSpace /\ q <= SeqSpace
  BY <1>2, IcmpAssumption
<1>4. \A a \in 0 .. MaxDelay, c \in 0 .. MaxHops : MaxHops * a + c <= p
  BY <1>1, <1>2, SweepsReach
<1>5. \A a \in 0 .. Window + 1, c \in 0 .. MaxHops : MaxHops * a + c <= q
  <2> SUFFICES ASSUME NEW a \in 0 .. Window + 1, NEW c \in 0 .. MaxHops
               PROVE  MaxHops * a + c <= q
    OBVIOUS
  <2>1. MaxHops * a + c <= MaxHops * (Window + 1 + 1)
    BY <1>1, SweepsReach
  <2>2. Window + 1 + 1 = Window + 2
    BY <1>1
  <2> QED BY <1>2, <2>1, <2>2
<1>6. \A a \in Nat, c \in Nat : MaxHops * a + c \in Nat
  BY <1>1, OneSweepMore
<1>7. SeqSpace # 0
  <2>1. MaxHops * 0 + MaxHops <= p
    BY <1>1, <1>4
  <2>2. MaxHops * 0 = 0
    BY <1>1
  <2> QED BY <1>1, <1>3, <2>1, <2>2
<1> QED BY <1>1, <1>2, <1>3, <1>4, <1>5, <1>6, <1>7

-----------------------------------------------------------------------------
(* The invariant.                                                          *)

Probes == [seq : Nat, ttl : TTLs, id : Nat, age : Nat]
Waves == [seq : Nat, id : Nat, age : Nat]
Runs == [pc : {"send", "emit", "waiting", "closing", "returned"}, ttl : TTLs,
         limit : TTLs, failures : Nat, bad : Nat, fatal : BOOLEAN]

TypeInv ==
  /\ nextSeq \in Nat /\ issued \in Nat /\ terminus \in 0 .. MaxHops
  /\ inflight \subseteq Probes /\ wire \subseteq Waves
  /\ run \in Runs /\ run.ttl <= run.limit
  /\ sweeps \in Nat /\ lastOut \in Nat

\* Probes of the sweep that are out.
Progress == IF run.pc = "send" THEN run.ttl - 1 ELSE run.limit

\* How far back a probe is that is so many ticks old.
Numbered(x) ==
  /\ x.id < issued
  /\ x.seq = (x.id % SeqSpace) + 1
  /\ issued - x.id <= MaxHops * x.age + Progress

(***************************************************************************)
(* A sequence number is the probe's place in the count, modulo the space,  *)
(* and an age bounds how many probes went after it; nothing is kept beyond *)
(* the window, nor answered beyond the delay.                              *)
(***************************************************************************)
NumberInv ==
  /\ nextSeq = (issued % SeqSpace) + 1
  /\ \A p \in inflight : Numbered(p) /\ p.age <= Window + 1
  /\ run.pc = "waiting" => \A p \in inflight : p.age <= Window
  /\ \A w \in wire : Numbered(w) /\ w.age <= MaxDelay

\* No two probes that are awaited or may be answered have one number.
LEMMA NumbersTellApart ==
  ASSUME TypeInv, NumberInv, NEW x \in inflight \cup wire, NEW y \in inflight \cup wire,
         x.seq = y.seq
  PROVE  x.id = y.id
<1>1. /\ x.id \in Nat /\ y.id \in Nat /\ x.age \in Nat /\ y.age \in Nat /\ issued \in Nat
  BY DEF TypeInv, Probes, Waves
<1>2. Progress \in 0 .. MaxHops
  BY BooksAssumption DEF Progress, TypeInv, Runs, TTLs
<1>3. Numbered(x) /\ Numbered(y)
  BY DEF NumberInv
<1>4. MaxHops * x.age + Progress <= SeqSpace /\ MaxHops * y.age + Progress <= SeqSpace
  <2>1. x.age \in 0 .. MaxDelay \/ x.age \in 0 .. Window + 1
    BY <1>1, BooksAssumption, IcmpAssumption DEF NumberInv
  <2>2. y.age \in 0 .. MaxDelay \/ y.age \in 0 .. Window + 1
    BY <1>1, BooksAssumption, IcmpAssumption DEF NumberInv
  <2> QED BY <1>2, <2>1, <2>2, SpaceIsWide
<1>5. PICK i, j \in Nat : i = MaxHops * x.age + Progress /\ j = MaxHops * y.age + Progress
  BY <1>1, <1>2, OneSweepMore, BooksAssumption
<1>6. /\ x.id < issued /\ issued - x.id <= i /\ x.seq = (x.id % SeqSpace) + 1
      /\ y.id < issued /\ issued - y.id <= j /\ y.seq = (y.id % SeqSpace) + 1
  BY <1>3, <1>5 DEF Numbered
<1>7. i <= SeqSpace /\ j <= SeqSpace
  BY <1>4, <1>5
<1>8. SeqSpace \in Nat \ {0}
  BY SpaceIsWide
<1>9. x.id % SeqSpace = y.id % SeqSpace
  <2>1. PICK r, s \in Nat : r = x.id % SeqSpace /\ s = y.id % SeqSpace
    BY <1>1, <1>8
  <2>2. x.seq = r + 1 /\ y.seq = s + 1
    BY <1>6, <2>1
  <2>3. r + 1 = s + 1
    BY <2>2
  <2>4. r = s
    BY <2>3
  <2> QED BY <2>1, <2>4
<1>10. x.id - y.id < SeqSpace /\ y.id - x.id < SeqSpace
  BY <1>1, <1>6, <1>7, <1>8
<1> HIDE DEF TypeInv, NumberInv
<1> QED BY <1>1, <1>8, <1>9, <1>10, NearAndCongruent

-----------------------------------------------------------------------------
(* Types.                                                                  *)

LEMMA LimitType ==
  ASSUME NEW t \in 0 .. MaxHops
  PROVE  SweepLimit(t) \in TTLs /\ 1 <= SweepLimit(t)
BY BooksAssumption DEF SweepLimit, TTLs

LEMMA SweepingType ==
  ASSUME NEW t \in 0 .. MaxHops, NEW n \in Nat
  PROVE  LET r == Sweeping(t, n)
         IN  /\ r \in Runs /\ r.ttl = 1 /\ r.ttl <= r.limit /\ r.pc = "send"
             /\ r.failures = 0 /\ r.bad = n /\ r.fatal = FALSE
BY LimitType, BooksAssumption DEF Sweeping, Runs, TTLs

LEMMA InitType == Init => TypeInv
<1> SUFFICES ASSUME Init PROVE TypeInv
  OBVIOUS
<1>1. 0 \in 0 .. MaxHops
  BY BooksAssumption
<1>2. run = Sweeping(0, 0)
  BY DEF Init
<1>3. run \in Runs /\ run.ttl <= run.limit
  BY <1>1, <1>2, SweepingType
<1> QED BY <1>1, <1>3 DEF Init, TypeInv

\* What a send does to Run.
LEMMA SendRun ==
  ASSUME TypeInv, NEW ok \in BOOLEAN, Send(ok)
  PROVE  /\ run' \in Runs /\ run'.ttl <= run'.limit /\ run'.limit = run.limit
         /\ run.pc = "send" /\ run.ttl \in TTLs /\ run.limit \in TTLs
         /\ run'.bad = run.bad /\ run'.fatal = run.fatal
         /\ run'.failures = run.failures + (IF ok THEN 0 ELSE 1)
         /\ \/ /\ run.ttl < run.limit /\ run'.pc = "send" /\ run'.ttl = run.ttl + 1
               /\ sweeps' = sweeps
            \/ /\ run.ttl = run.limit /\ run'.pc = "emit" /\ sweeps' = sweeps + 1
<1> DEFINE n == run.failures + (IF ok THEN 0 ELSE 1)
<1>1. run \in Runs /\ run.ttl <= run.limit /\ run.pc = "send" /\ n \in Nat
  BY DEF TypeInv, Send, Runs
<1>2. run.ttl \in 1 .. MaxHops /\ run.limit \in 1 .. MaxHops /\ MaxHops \in Nat
  BY <1>1, BooksAssumption DEF Runs, TTLs
<1>3. CASE run.ttl < run.limit
  <2>1. run' = [run EXCEPT !.ttl = @ + 1, !.failures = n] /\ sweeps' = sweeps
    BY <1>3 DEF Send
  <2>2. run.ttl + 1 \in TTLs /\ run.ttl + 1 <= run.limit
    BY <1>2, <1>3 DEF TTLs
  <2>3. /\ run'.pc = "send" /\ run'.ttl = run.ttl + 1 /\ run'.limit = run.limit
        /\ run'.failures = n /\ run'.bad = run.bad /\ run'.fatal = run.fatal
    BY <1>1, <2>1 DEF Runs
  <2>4. run' \in Runs
    <3>1. PICK r \in Runs : r = [run EXCEPT !.ttl = run.ttl + 1]
      BY <1>1, <2>2 DEF Runs
    <3>2. run' = [r EXCEPT !.failures = n]
      BY <1>1, <2>1, <3>1 DEF Runs
    <3> HIDE DEF n
    <3> QED BY <1>1, <3>2 DEF Runs
  <2> QED BY <1>1, <1>2, <1>3, <2>1, <2>2, <2>3, <2>4 DEF TTLs
<1>4. CASE ~(run.ttl < run.limit)
  <2>1. run' = [run EXCEPT !.pc = "emit", !.failures = n] /\ sweeps' = sweeps + 1
    BY <1>4 DEF Send
  <2>2. /\ run'.pc = "emit" /\ run'.ttl = run.ttl /\ run'.limit = run.limit
        /\ run'.failures = n /\ run'.bad = run.bad /\ run'.fatal = run.fatal
    BY <1>1, <2>1 DEF Runs
  <2>3. run' \in Runs
    <3>1. PICK r \in Runs : r = [run EXCEPT !.pc = "emit"]
      BY <1>1 DEF Runs
    <3>2. run' = [r EXCEPT !.failures = n]
      BY <1>1, <2>1, <3>1 DEF Runs
    <3> HIDE DEF n
    <3> QED BY <1>1, <3>2 DEF Runs
  <2> QED BY <1>1, <1>2, <1>4, <2>1, <2>2, <2>3 DEF TTLs
<1> QED BY <1>3, <1>4

LEMMA EmitRun ==
  ASSUME TypeInv, NEW cut \in 0 .. issued, Emit(cut)
  PROVE  /\ run' \in Runs /\ run'.ttl = run.ttl /\ run'.limit = run.limit
         /\ run.pc = "emit"
         /\ run'.bad = BadSweeps(run.bad) /\ run'.fatal = (run'.bad > SendThreshold)
         /\ run'.pc = IF run'.fatal THEN "closing" ELSE "waiting"
<1> DEFINE b == BadSweeps(run.bad)
           f == b > SendThreshold
<1>1. run \in Runs /\ run.pc = "emit"
  BY DEF TypeInv, Emit
<1>2. b \in Nat /\ f \in BOOLEAN
  BY <1>1 DEF BadSweeps, Runs
<1>3. run' = [run EXCEPT !.pc = IF f THEN "closing" ELSE "waiting", !.bad = b, !.fatal = f]
  BY DEF Emit
<1> HIDE DEF b, f
<1>4. PICK r \in Runs : r = [run EXCEPT !.pc = IF f THEN "closing" ELSE "waiting"]
  BY <1>1, <1>2 DEF Runs
<1>5. PICK q \in Runs : q = [r EXCEPT !.bad = b]
  BY <1>2 DEF Runs
<1>6. run' = [q EXCEPT !.fatal = f]
  BY <1>1, <1>3, <1>4, <1>5 DEF Runs
<1>7. run' \in Runs
  BY <1>2, <1>6 DEF Runs
<1>8. /\ run'.ttl = run.ttl /\ run'.limit = run.limit /\ run'.bad = b /\ run'.fatal = f
      /\ run'.pc = IF f THEN "closing" ELSE "waiting"
  BY <1>1, <1>3 DEF Runs
<1> QED BY <1>1, <1>2, <1>7, <1>8 DEF b, f

\* The steps that only end something.
Ending == SeeDone \/ Return \/ RecvExit \/ Cancel

LEMMA EndingEffect ==
  ASSUME TypeInv, Ending
  PROVE  /\ run' \in Runs
         /\ run'.ttl = run.ttl /\ run'.limit = run.limit /\ run'.bad = run.bad
         /\ run'.failures = run.failures /\ run'.fatal = run.fatal
         /\ \/ run'.pc = run.pc
            \/ run.pc \in {"waiting", "closing"} /\ run'.pc \in {"closing", "returned"}
         /\ UNCHANGED <<nextSeq, inflight, hops, terminus, wire, issued, sweeps, lastOut,
                        strayed>>
BY DEF TypeInv, Ending, SeeDone, Return, RecvExit, Cancel, Runs

LEMMA OlderType ==
  ASSUME NEW P \in SUBSET Probes
  PROVE  Older(P) \in SUBSET Probes
<1> SUFFICES ASSUME NEW p \in P PROVE [p EXCEPT !.age = IF @ > Window THEN @ ELSE @ + 1] \in Probes
  BY DEF Older
<1>1. p \in Probes /\ p.age + 1 \in Nat /\ p.age \in Nat
  BY DEF Probes
<1> QED BY <1>1 DEF Probes

LEMMA NextType == TypeInv /\ [Next]_vars => TypeInv'
<1> SUFFICES ASSUME TypeInv, [Next]_vars PROVE TypeInv'
  OBVIOUS
<1>1. ASSUME NEW ok \in BOOLEAN, Send(ok) PROVE TypeInv'
  <2>1. /\ run' \in Runs /\ run'.ttl <= run'.limit
        /\ sweeps' = sweeps \/ sweeps' = sweeps + 1
    BY <1>1, SendRun
  <2>2. /\ nextSeq \in Nat /\ issued \in Nat /\ run.ttl \in TTLs /\ sweeps \in Nat
        /\ lastOut \in Nat /\ inflight \subseteq Probes /\ wire \subseteq Waves
        /\ SeqSpace \in Nat
    BY IcmpAssumption DEF TypeInv, Runs
  <2>3. /\ nextSeq' \in Nat /\ issued' \in Nat /\ terminus' = terminus
    BY <1>1, <2>2 DEF Send, SeqAfter
  <2>4. [seq |-> nextSeq, ttl |-> run.ttl, id |-> issued, age |-> 0] \in Probes
    BY <2>2 DEF Probes
  <2>5. inflight' \subseteq Probes
    BY <1>1, <2>2, <2>4 DEF Send
  <2>6. [seq |-> nextSeq, id |-> issued, age |-> 0] \in Waves
    BY <2>2 DEF Waves
  <2>7. wire' \subseteq Waves /\ lastOut' \in Nat
    BY <1>1, <2>2, <2>6 DEF Send
  <2> QED BY <2>1, <2>2, <2>3, <2>5, <2>7 DEF TypeInv
<1>2. ASSUME NEW cut \in 0 .. issued, Emit(cut) PROVE TypeInv'
  <2>1. run' \in Runs /\ run'.ttl <= run'.limit
    BY <1>2, EmitRun DEF TypeInv
  <2>2. /\ UNCHANGED <<nextSeq, issued, terminus, wire, sweeps, lastOut>>
        /\ inflight' \subseteq inflight
    BY <1>2 DEF Emit
  <2> QED BY <2>1, <2>2 DEF TypeInv
<1>3. CASE Tick
  <2>1. run.bad \in Nat /\ terminus \in 0 .. MaxHops
    BY DEF TypeInv, Runs
  <2>2. run' \in Runs /\ run'.ttl <= run'.limit
    BY <1>3, <2>1, SweepingType DEF Tick
  <2>3. inflight' \subseteq Probes
    BY <1>3, OlderType DEF Tick, TypeInv
  <2>4. wire' \subseteq Waves
    <3> SUFFICES ASSUME NEW w \in wire PROVE [w EXCEPT !.age = @ + 1] \in Waves
      BY <1>3 DEF Tick
    <3> QED BY DEF TypeInv, Waves
  <2> QED BY <1>3, <2>2, <2>3, <2>4 DEF Tick, TypeInv
<1>4. ASSUME NEW m \in Messages, Fold(m) PROVE TypeInv'
  <2>1. /\ UNCHANGED <<nextSeq, issued, wire, run, sweeps, lastOut>>
        /\ inflight' \subseteq inflight
    BY <1>4 DEF Fold
  <2>2. terminus' \in 0 .. MaxHops
    <3> DEFINE mine == {p \in inflight : p.seq = m.answers.seq}
    <3>1. mine # {} => (CHOOSE p \in mine : TRUE) \in Probes
      BY DEF TypeInv
    <3>2. mine # {} => (CHOOSE p \in mine : TRUE).ttl \in TTLs
      BY <3>1 DEF Probes
    <3>3. \/ terminus' = terminus
          \/ mine # {} /\ terminus' = Nearest(terminus, (CHOOSE p \in mine : TRUE).ttl)
      BY <1>4 DEF Fold
    <3> HIDE DEF mine
    <3> QED BY <3>2, <3>3 DEF TypeInv, Nearest, TTLs
  <2> QED BY <2>1, <2>2 DEF TypeInv
<1>5. CASE Ending
  BY <1>5, EndingEffect DEF TypeInv
<1>6. CASE UNCHANGED vars
  BY <1>6 DEF vars, proberVars, TypeInv
<1> QED BY <1>1, <1>2, <1>3, <1>4, <1>5, <1>6 DEF Next, RunStep, RecvStep, Ending

-----------------------------------------------------------------------------
(* Numbers and ages.                                                       *)

LEMMA InitNumbers == Init => NumberInv
<1> SUFFICES ASSUME Init PROVE NumberInv
  OBVIOUS
<1>1. SeqSpace \in Nat \ {0}
  BY SpaceIsWide
<1>2. 0 % SeqSpace = 0
  BY <1>1
<1> QED BY <1>2 DEF Init, NumberInv, Sweeping

\* Probes keep their place when nothing is sent and no sweep begins.
LEMMA PlacesKept ==
  ASSUME NEW x, Numbered(x), UNCHANGED <<issued, Progress>>
  PROVE  Numbered(x)'
BY DEF Numbered

LEMMA SendNumbers ==
  ASSUME TypeInv, NumberInv, NEW ok \in BOOLEAN, Send(ok)
  PROVE  NumberInv'
<1>1. /\ issued \in Nat /\ issued' = issued + 1 /\ MaxHops \in Nat
      /\ nextSeq' = SeqAfter(nextSeq) /\ nextSeq = (issued % SeqSpace) + 1
  BY BooksAssumption DEF TypeInv, NumberInv, Send
<1>2. SeqSpace \in Nat \ {0}
  BY SpaceIsWide
<1>3. PICK c \in Nat : c = Progress /\ Progress' = c + 1
  <2>1. /\ run.ttl \in 1 .. MaxHops /\ run.pc = "send" /\ run'.limit = run.limit
        /\ \/ run'.pc = "send" /\ run'.ttl = run.ttl + 1
           \/ run.ttl = run.limit /\ run'.pc = "emit"
    BY SendRun DEF TTLs
  <2>2. PICK t \in Nat \ {0} : t = run.ttl
    BY <1>1, <2>1
  <2>3. Progress = t - 1 /\ Progress' = t
    BY <2>1, <2>2 DEF Progress
  <2> QED BY <2>2, <2>3
<1>4. nextSeq' = (issued' % SeqSpace) + 1
  <2>1. PICK r \in Nat : r = issued % SeqSpace
    BY <1>1, <1>2
  <2>2. (issued + 1) % SeqSpace = IF r + 1 = SeqSpace THEN 0 ELSE r + 1
    BY <1>1, <1>2, <2>1, NextModulo
  <2>3. nextSeq = r + 1
    BY <1>1, <2>1
  <2>4. nextSeq' = IF r + 1 = SeqSpace THEN 1 ELSE r + 2
    BY <1>1, <2>3 DEF SeqAfter
  <2>5. nextSeq' = (IF r + 1 = SeqSpace THEN 0 ELSE r + 1) + 1
    BY <2>4
  <2> QED BY <1>1, <2>2, <2>5
<1>5. ASSUME NEW x \in inflight \cup wire PROVE Numbered(x)'
  <2>1. x.id \in Nat /\ x.age \in Nat /\ Numbered(x)
    BY DEF TypeInv, Probes, Waves, NumberInv
  <2>2. PICK d \in Nat : d = MaxHops * x.age
    BY <1>1, <2>1, OneSweepMore
  <2>3. x.id < issued' /\ issued' - x.id <= d + Progress'
    BY <1>1, <1>3, <2>1, <2>2 DEF Numbered
  <2> QED BY <2>1, <2>2, <2>3 DEF Numbered
<1>6. ASSUME NEW x, x.id = issued, x.seq = nextSeq, x.age = 0 PROVE Numbered(x)'
  <2>1. MaxHops * x.age = 0
    BY <1>1, <1>6
  <2>2. x.id < issued' /\ issued' - x.id <= 0 + Progress'
    BY <1>1, <1>3, <1>6
  <2> QED BY <1>1, <1>6, <2>1, <2>2 DEF Numbered
<1>7. /\ \A p \in inflight' : p \in inflight \/ (p.id = issued /\ p.seq = nextSeq /\ p.age = 0)
      /\ \A w \in wire' : w \in wire \/ (w.id = issued /\ w.seq = nextSeq /\ w.age = 0)
  <2>1. \A p \in inflight' :
          \/ p \in inflight
          \/ p = [seq |-> nextSeq, ttl |-> run.ttl, id |-> issued, age |-> 0]
    BY DEF Send
  <2>2. \A w \in wire' : w \in wire \/ w = [seq |-> nextSeq, id |-> issued, age |-> 0]
    BY DEF Send
  <2>3. ASSUME NEW p \in inflight', p \notin inflight
        PROVE  p.id = issued /\ p.seq = nextSeq /\ p.age = 0
    BY <2>1, <2>3
  <2>4. ASSUME NEW w \in wire', w \notin wire
        PROVE  w.id = issued /\ w.seq = nextSeq /\ w.age = 0
    BY <2>2, <2>4
  <2> QED BY <2>3, <2>4
<1>8. run'.pc # "waiting"
  BY SendRun
<1>9. \A p \in inflight' : Numbered(p)' /\ p.age <= Window + 1
  BY <1>5, <1>6, <1>7, BooksAssumption DEF NumberInv
<1>10. \A w \in wire' : Numbered(w)' /\ w.age <= MaxDelay
  BY <1>5, <1>6, <1>7, IcmpAssumption DEF NumberInv
<1> QED BY <1>4, <1>8, <1>9, <1>10 DEF NumberInv

LEMMA EmitNumbers ==
  ASSUME TypeInv, NumberInv, NEW cut \in 0 .. issued, Emit(cut)
  PROVE  NumberInv'
<1>1. /\ UNCHANGED <<nextSeq, issued, wire>>
      /\ inflight' = inflight \ Expired(inflight, cut)
  BY DEF Emit
<1>2. Progress' = Progress
  BY EmitRun DEF Progress
<1>3. \A p \in inflight' : p \in inflight /\ p.age \in Nat /\ p.age <= Window
  BY <1>1, BooksAssumption DEF Expired, TypeInv, Probes
<1>4. \A p \in inflight' : Numbered(p)' /\ p.age <= Window + 1
  BY <1>1, <1>2, <1>3, PlacesKept, BooksAssumption DEF NumberInv
<1>5. \A w \in wire' : Numbered(w)' /\ w.age <= MaxDelay
  BY <1>1, <1>2, PlacesKept DEF NumberInv
<1> QED BY <1>1, <1>3, <1>4, <1>5 DEF NumberInv

LEMMA TickNumbers ==
  ASSUME TypeInv, NumberInv, Tick
  PROVE  NumberInv'
<1>1. /\ UNCHANGED <<nextSeq, issued>> /\ inflight' = Older(inflight)
      /\ wire' = {[w EXCEPT !.age = @ + 1] : w \in {v \in wire : v.age < MaxDelay}}
      /\ run.pc = "waiting" /\ issued \in Nat
      /\ MaxHops \in Nat \ {0} /\ Window \in Nat \ {0} /\ MaxDelay \in Nat
  BY BooksAssumption, IcmpAssumption DEF Tick, TypeInv
<1>2. Progress' = 0 /\ run'.pc = "send"
  <2>1. run' = Sweeping(terminus, run.bad) /\ terminus \in 0 .. MaxHops /\ run.bad \in Nat
    BY DEF Tick, TypeInv, Runs
  <2>2. run'.ttl = 1 /\ run'.pc = "send"
    BY <2>1, SweepingType
  <2> QED BY <2>2 DEF Progress
<1>3. Progress \in 1 .. MaxHops
  BY <1>1 DEF Progress, TypeInv, Runs, TTLs
<1>4. ASSUME NEW x \in inflight \cup wire, NEW y, y.id = x.id, y.seq = x.seq,
             y.age = x.age + 1
      PROVE  Numbered(y)'
  <2>1. x.id \in Nat /\ x.age \in Nat /\ Numbered(x)
    BY DEF TypeInv, Probes, Waves, NumberInv
  <2>2. PICK d \in Nat : d = MaxHops * x.age
    BY <1>1, <2>1, OneSweepMore
  <2>3. MaxHops * (x.age + 1) = d + MaxHops
    BY <1>1, <2>1, <2>2, OneSweepMore
  <2>4. issued - x.id <= d + Progress
    BY <2>1, <2>2 DEF Numbered
  <2>5. issued - x.id <= d + MaxHops + 0
    BY <1>1, <1>3, <2>1, <2>4
  <2> QED BY <1>1, <1>2, <1>4, <2>1, <2>3, <2>5 DEF Numbered
<1>5. ASSUME NEW y \in inflight' PROVE Numbered(y)' /\ y.age <= Window + 1
  <2>1. PICK p \in inflight : y = [p EXCEPT !.age = IF @ > Window THEN @ ELSE @ + 1]
    BY <1>1 DEF Older
  <2>2. p \in Probes /\ p.age \in Nat /\ p.age <= Window
    BY <1>1 DEF TypeInv, Probes, NumberInv
  <2>3. y.id = p.id /\ y.seq = p.seq /\ y.age = p.age + 1
    BY <1>1, <2>1, <2>2 DEF Probes
  <2> QED BY <1>1, <1>4, <2>2, <2>3
<1>6. ASSUME NEW y \in wire' PROVE Numbered(y)' /\ y.age <= MaxDelay
  <2>1. PICK w \in wire : w.age < MaxDelay /\ y = [w EXCEPT !.age = @ + 1]
    BY <1>1
  <2>2. w \in Waves /\ w.age \in Nat
    BY DEF TypeInv, Waves
  <2>3. y.id = w.id /\ y.seq = w.seq /\ y.age = w.age + 1
    BY <2>1, <2>2 DEF Waves
  <2>4. y.age <= MaxDelay
    BY <1>1, <2>1, <2>2, <2>3
  <2>5. Numbered(y)'
    BY <1>4, <2>3
  <2> QED BY <2>4, <2>5
<1> QED BY <1>1, <1>2, <1>5, <1>6 DEF NumberInv

LEMMA NextNumbers == TypeInv /\ NumberInv /\ [Next]_vars => NumberInv'
<1> SUFFICES ASSUME TypeInv, NumberInv, [Next]_vars PROVE NumberInv'
  OBVIOUS
<1>1. ASSUME NEW ok \in BOOLEAN, Send(ok) PROVE NumberInv'
  BY <1>1, SendNumbers
<1>2. ASSUME NEW cut \in 0 .. issued, Emit(cut) PROVE NumberInv'
  BY <1>2, EmitNumbers
<1>3. CASE Tick
  BY <1>3, TickNumbers
<1>4. ASSUME NEW m \in Messages, Fold(m) PROVE NumberInv'
  <2>1. UNCHANGED <<nextSeq, issued, wire, run>> /\ inflight' \subseteq inflight
    BY <1>4 DEF Fold
  <2>2. Progress' = Progress
    BY <2>1 DEF Progress
  <2> QED BY <2>1, <2>2, PlacesKept DEF NumberInv
<1>5. CASE Ending
  <2>1. UNCHANGED <<nextSeq, issued, wire, inflight>>
    BY <1>5, EndingEffect
  <2>2. Progress' = Progress /\ (run'.pc = "waiting" => run.pc = "waiting")
    BY <1>5, EndingEffect DEF Progress
  <2> QED BY <2>1, <2>2, PlacesKept DEF NumberInv
<1>6. CASE UNCHANGED vars
  <2>1. UNCHANGED <<nextSeq, issued, wire, inflight, run>>
    BY <1>6 DEF vars, proberVars
  <2>2. Progress' = Progress
    BY <2>1 DEF Progress
  <2> QED BY <2>1, <2>2, PlacesKept DEF NumberInv
<1> QED BY <1>1, <1>2, <1>3, <1>4, <1>5, <1>6 DEF Next, RunStep, RecvStep, Ending

-----------------------------------------------------------------------------
\* A reply that finds a probe finds its own.
LEMMA FoldFindsItsOwn ==
  ASSUME TypeInv, NumberInv, strayed = FALSE, NEW m \in Messages, Fold(m)
  PROVE  strayed' = FALSE
<1>1. m.answers.id # Foreign
  BY DEF Fold, ParseReply
<1>2. m.answers \in wire
  BY <1>1 DEF Messages
<1>3. ASSUME NEW p \in inflight, p.seq = m.answers.seq PROVE p.id = m.answers.id
  BY <1>2, <1>3, NumbersTellApart
<1> QED BY <1>3 DEF Fold

\* probe_unix.go:19-25, 202-214, 278-302: for any path length, window and delay
\* that the sequence space is wide enough for, no reply is credited to another
\* probe than its own, however often the numbers have come round.
THEOREM NoReplyStrays == Spec => []RepliesCreditTheirProbe
<1> DEFINE Inv == TypeInv /\ NumberInv /\ strayed = FALSE
<1>1. Init => Inv
  BY InitType, InitNumbers DEF Init
<1>2. Inv /\ [Next]_vars => Inv'
  <2> SUFFICES ASSUME Inv, [Next]_vars PROVE Inv'
    OBVIOUS
  <2>1. TypeInv' /\ NumberInv'
    BY NextType, NextNumbers
  <2>2. strayed' = FALSE
    <3>1. ASSUME NEW m \in Messages, Fold(m) PROVE strayed' = FALSE
      BY <3>1, FoldFindsItsOwn
    <3>2. ASSUME NEW ok \in BOOLEAN, Send(ok) PROVE strayed' = FALSE
      BY <3>2 DEF Send
    <3>3. ASSUME NEW cut \in 0 .. issued, Emit(cut) PROVE strayed' = FALSE
      BY <3>3 DEF Emit
    <3>4. CASE Ending
      BY <3>4, EndingEffect
    <3>5. CASE Tick \/ UNCHANGED vars
      BY <3>5 DEF Tick, vars
    <3> QED BY <3>1, <3>2, <3>3, <3>4, <3>5 DEF Next, RunStep, RecvStep, Ending
  <2> QED BY <2>1, <2>2
<1>3. Inv => RepliesCreditTheirProbe
  BY DEF RepliesCreditTheirProbe
<1> HIDE DEF Inv
<1> QED BY <1>1, <1>2, <1>3, PTL DEF Spec

-----------------------------------------------------------------------------
(* The table: what is open per hop is what the in-flight table holds.      *)

\* Sets of probes told apart by their ids.
Unique(S) == \A x, y \in S : x.id = y.id => x = y
Ids(S) == {x.id : x \in S}

LEMMA SameIdsSameCount ==
  ASSUME NEW S, NEW T, IsFiniteSet(S), Unique(S), Unique(T), Ids(S) = Ids(T)
  PROVE  IsFiniteSet(T) /\ Cardinality(T) = Cardinality(S)
<1> DEFINE f == [x \in S |-> CHOOSE y \in T : y.id = x.id]
<1>1. \A x \in S : f[x] \in T /\ f[x].id = x.id
  BY DEF Ids
<1>2. f \in [S -> T]
  BY <1>1
<1>3. \A a, b \in S : f[a] = f[b] => a = b
  <2> SUFFICES ASSUME NEW a \in S, NEW b \in S, f[a] = f[b] PROVE a = b
    OBVIOUS
  <2>1. a.id = b.id
    BY <1>1
  <2> QED BY <2>1 DEF Unique
<1>4. \A y \in T : \E x \in S : f[x] = y
  <2> SUFFICES ASSUME NEW y \in T PROVE \E x \in S : f[x] = y
    OBVIOUS
  <2>1. PICK x \in S : x.id = y.id
    BY DEF Ids
  <2>2. f[x] \in T /\ f[x].id = y.id
    BY <1>1, <2>1
  <2> QED BY <2>2 DEF Unique
<1> HIDE DEF f
<1>5. f \in Bijection(S, T)
  BY <1>2, <1>3, <1>4, Fun_IsBij
<1>6. ExistsBijection(S, T)
  BY <1>5, Fun_ExistsBij
<1> QED BY <1>6, FS_Bijection

OfHop(P, t) == {p \in P : p.ttl = t}

LEMMA OfHopFinite ==
  ASSUME NEW P, IsFiniteSet(P), NEW t
  PROVE  /\ IsFiniteSet(OfHop(P, t)) /\ Cardinality(OfHop(P, t)) \in Nat
         /\ OfHop(P, t) \subseteq P
<1>1. OfHop(P, t) \in SUBSET P
  BY DEF OfHop
<1> QED BY <1>1, FS_Subset, FS_CardinalityType

\* What is taken out of a set is taken out of its count.
LEMMA OfHopWithout ==
  ASSUME NEW P, IsFiniteSet(P), NEW Q \in SUBSET P, NEW t
  PROVE  Cardinality(OfHop(P \ Q, t)) = Cardinality(OfHop(P, t)) - Cardinality(OfHop(Q, t))
<1>1. OfHop(P \ Q, t) = OfHop(P, t) \ OfHop(Q, t)
  BY DEF OfHop
<1>2. OfHop(P, t) \cap OfHop(Q, t) = OfHop(Q, t)
  BY DEF OfHop
<1>3. IsFiniteSet(OfHop(P, t))
  BY OfHopFinite
<1> HIDE DEF OfHop
<1> QED BY <1>1, <1>2, <1>3, FS_Difference

LEMMA OfHopWith ==
  ASSUME NEW P, IsFiniteSet(P), NEW p, p \notin P, NEW t
  PROVE  Cardinality(OfHop(P \cup {p}, t)) =
           Cardinality(OfHop(P, t)) + (IF p.ttl = t THEN 1 ELSE 0)
<1>1. IsFiniteSet(OfHop(P, t)) /\ p \notin OfHop(P, t) /\ Cardinality(OfHop(P, t)) \in Nat
  BY OfHopFinite
<1>2. CASE p.ttl = t
  <2>1. OfHop(P \cup {p}, t) = OfHop(P, t) \cup {p}
    BY <1>2 DEF OfHop
  <2> HIDE DEF OfHop
  <2> QED BY <1>1, <1>2, <2>1, FS_AddElement
<1>3. CASE p.ttl # t
  <2>1. OfHop(P \cup {p}, t) = OfHop(P, t)
    BY <1>3 DEF OfHop
  <2> QED BY <1>1, <1>3, <2>1
<1> QED BY <1>2, <1>3

\* An age changes neither the ids nor the hops.
LEMMA OlderCounts ==
  ASSUME NEW P \in SUBSET Probes, IsFiniteSet(P), Unique(P)
  PROVE  /\ IsFiniteSet(Older(P)) /\ Unique(Older(P))
         /\ \A t : Cardinality(OfHop(Older(P), t)) = Cardinality(OfHop(P, t))
<1> DEFINE g(p) == [p EXCEPT !.age = IF @ > Window THEN @ ELSE @ + 1]
<1>1. \A p \in P : g(p).id = p.id /\ g(p).ttl = p.ttl
  BY DEF Probes
<1>2. Older(P) = {g(p) : p \in P}
  BY DEF Older
<1> HIDE DEF g
<1>3. Unique(Older(P))
  BY <1>1, <1>2 DEF Unique
<1>4. Ids(Older(P)) = Ids(P)
  BY <1>1, <1>2 DEF Ids
<1>5. IsFiniteSet(Older(P))
  BY <1>3, <1>4, SameIdsSameCount
<1>6. ASSUME NEW t PROVE Cardinality(OfHop(Older(P), t)) = Cardinality(OfHop(P, t))
  <2>1. IsFiniteSet(OfHop(P, t))
    BY OfHopFinite
  <2>2. Unique(OfHop(P, t)) /\ Unique(OfHop(Older(P), t))
    BY <1>3 DEF Unique, OfHop
  <2>3. Ids(OfHop(P, t)) = Ids(OfHop(Older(P), t))
    BY <1>1, <1>2 DEF Ids, OfHop
  <2> QED BY <2>1, <2>2, <2>3, SameIdsSameCount
<1> QED BY <1>3, <1>5, <1>6

(***************************************************************************)
(* The counters of a hop: as many awaited as the table holds for it, and   *)
(* never fewer sent than awaited and answered.                             *)
(***************************************************************************)
Hops == [sent : Int, recv : Int, inflight : Int]

TableInv ==
  /\ IsFiniteSet(inflight) /\ Unique(inflight)
  /\ hops \in [TTLs -> Hops]
  /\ \A t \in TTLs : /\ hops[t].inflight = Cardinality(OfHop(inflight, t))
                     /\ Lost(hops[t]) >= 0

LEMMA RegisteredStep ==
  ASSUME NEW h \in Hops
  PROVE  /\ Registered(h) \in Hops /\ Registered(h).inflight = h.inflight + 1
         /\ Lost(Registered(h)) = Lost(h)
         /\ Registered(h).sent = h.sent + 1 /\ Registered(h).recv = h.recv
<1>1. PICK a, b \in Int : a = h.sent + 1 /\ b = h.inflight + 1
  BY DEF Hops
<1>2. PICK g : g = Registered(h)
  OBVIOUS
<1>3. g = [h EXCEPT !.sent = a, !.inflight = b]
  <2>1. g = [h EXCEPT !.sent = h.sent + 1, !.inflight = h.inflight + 1]
    BY <1>2 DEF Registered
  <2> QED BY <1>1, <2>1
<1>4. g \in Hops /\ g.sent = a /\ g.inflight = b /\ g.recv = h.recv
  BY <1>3 DEF Hops
<1>5. h.sent \in Int /\ h.recv \in Int /\ h.inflight \in Int
  BY DEF Hops
<1>6. Lost(g) = Lost(h)
  <2> HIDE DEF Hops
  <2> QED BY <1>1, <1>4, <1>5 DEF Lost
<1> QED BY <1>1, <1>2, <1>4, <1>6

LEMMA RecordedStep ==
  ASSUME NEW h \in Hops
  PROVE  /\ Recorded(h) \in Hops /\ Recorded(h).inflight = h.inflight - 1
         /\ Lost(Recorded(h)) = Lost(h)
         /\ Recorded(h).sent = h.sent /\ Recorded(h).recv = h.recv + 1
<1>1. PICK a, b \in Int : a = h.recv + 1 /\ b = h.inflight - 1
  BY DEF Hops
<1>2. PICK g : g = Recorded(h)
  OBVIOUS
<1>3. g = [h EXCEPT !.recv = a, !.inflight = b]
  <2>1. g = [h EXCEPT !.recv = h.recv + 1, !.inflight = h.inflight - 1]
    BY <1>2 DEF Recorded
  <2> QED BY <1>1, <2>1
<1>4. g \in Hops /\ g.recv = a /\ g.inflight = b /\ g.sent = h.sent
  BY <1>3 DEF Hops
<1>5. h.sent \in Int /\ h.recv \in Int /\ h.inflight \in Int
  BY DEF Hops
<1>6. Lost(g) = Lost(h)
  <2> HIDE DEF Hops
  <2> QED BY <1>1, <1>4, <1>5 DEF Lost
<1> QED BY <1>1, <1>2, <1>4, <1>6

LEMMA GivenUpStep ==
  ASSUME NEW h \in Hops, NEW n \in Nat
  PROVE  /\ GivenUp(h, n) \in Hops /\ GivenUp(h, n).inflight = h.inflight - n
         /\ Lost(GivenUp(h, n)) = Lost(h) + n /\ Lost(h) \in Int
         /\ GivenUp(h, n).sent = h.sent /\ GivenUp(h, n).recv = h.recv
<1>1. /\ GivenUp(h, n) \in Hops /\ GivenUp(h, n).inflight = h.inflight - n
      /\ GivenUp(h, n).sent = h.sent /\ GivenUp(h, n).recv = h.recv
  BY DEF GivenUp, Hops
<1>2. h.sent \in Int /\ h.recv \in Int /\ h.inflight \in Int
  BY DEF Hops
<1> HIDE DEF Hops
<1> QED BY <1>1, <1>2 DEF Lost

\* The number Run takes is nobody's.
LEMMA NumberIsFree ==
  ASSUME TypeInv, NumberInv, run.pc = "send", NEW p \in inflight
  PROVE  p.seq # nextSeq /\ p.id # issued
<1>1. /\ p.id \in Nat /\ p.age \in Nat /\ issued \in Nat /\ Numbered(p)
      /\ p.age \in 0 .. Window + 1
  BY BooksAssumption DEF TypeInv, Probes, NumberInv
<1>2. SeqSpace \in Nat \ {0}
  BY SpaceIsWide
<1>3. run.ttl \in 1 .. MaxHops /\ MaxHops \in Nat
  BY BooksAssumption DEF TypeInv, Runs, TTLs
<1>4. PICK d \in Nat : d = MaxHops * p.age
  BY <1>1, <1>3, OneSweepMore
<1>5. d + run.ttl <= SeqSpace
  <2>1. MaxHops * p.age + run.ttl <= SeqSpace
    BY <1>1, <1>3, SpaceIsWide
  <2> QED BY <1>4, <2>1
<1>6. /\ issued - p.id <= d + (run.ttl - 1) /\ p.id < issued
      /\ p.seq = (p.id % SeqSpace) + 1
  BY <1>1, <1>4 DEF Numbered, Progress
<1>7. issued - p.id < SeqSpace /\ p.id - issued < SeqSpace
  BY <1>1, <1>2, <1>3, <1>4, <1>5, <1>6
<1>8. p.id % SeqSpace # issued % SeqSpace
  <2> HIDE DEF TypeInv, NumberInv
  <2> QED BY <1>1, <1>2, <1>6, <1>7, NearAndCongruent
<1>9. p.seq # nextSeq
  <2>1. PICK r, q \in Nat : r = p.id % SeqSpace /\ q = issued % SeqSpace
    BY <1>1, <1>2
  <2>2. p.seq = r + 1 /\ nextSeq = q + 1 /\ r # q
    BY <1>6, <1>8, <2>1 DEF NumberInv
  <2>3. r + 1 # q + 1
    BY <2>2
  <2> QED BY <2>2, <2>3
<1> QED BY <1>1, <1>6, <1>9

LEMMA InitTable == Init => TableInv
<1> SUFFICES ASSUME Init PROVE TableInv
  OBVIOUS
<1>1. NewHop \in Hops /\ NewHop.inflight = 0 /\ Lost(NewHop) = 0
  BY DEF NewHop, Hops, Lost
<1>2. inflight = {} /\ hops = [t \in TTLs |-> NewHop]
  BY DEF Init
<1>3. \A t : OfHop(inflight, t) = {}
  BY <1>2 DEF OfHop
<1> QED BY <1>1, <1>2, <1>3, FS_EmptySet DEF TableInv, Unique

\* What a send, a reply and a prune do to table and counters.
LEMMA SendTable ==
  ASSUME TypeInv, NumberInv, TableInv, NEW ok \in BOOLEAN, Send(ok)
  PROVE  LET p == [seq |-> nextSeq, ttl |-> run.ttl, id |-> issued, age |-> 0]
         IN  /\ inflight' = inflight \cup {p} /\ p \notin inflight
             /\ \A q \in inflight : q.id # issued
             /\ run.ttl \in TTLs
             /\ hops' = [hops EXCEPT ![run.ttl] = Registered(hops[run.ttl])]
<1>1. run.pc = "send" /\ run.ttl \in TTLs
  BY SendRun
<1>2. \A q \in inflight : q.seq # nextSeq /\ q.id # issued
  BY <1>1, NumberIsFree
<1>3. /\ inflight' = {q \in inflight : q.seq # nextSeq}
           \cup {[seq |-> nextSeq, ttl |-> run.ttl, id |-> issued, age |-> 0]}
      /\ hops' = [hops EXCEPT ![run.ttl] = Registered(hops[run.ttl])]
  BY DEF Send
<1>4. {q \in inflight : q.seq # nextSeq} = inflight
  BY <1>2
<1>5. [seq |-> nextSeq, ttl |-> run.ttl, id |-> issued, age |-> 0] \notin inflight
  BY <1>2
<1> QED BY <1>1, <1>2, <1>3, <1>4, <1>5

LEMMA SendKeepsTable ==
  ASSUME TypeInv, NumberInv, TableInv, NEW ok \in BOOLEAN, Send(ok)
  PROVE  TableInv'
<1> DEFINE p == [seq |-> nextSeq, ttl |-> run.ttl, id |-> issued, age |-> 0]
<1>1. /\ inflight' = inflight \cup {p} /\ p \notin inflight
      /\ \A q \in inflight : q.id # p.id
      /\ p.ttl = run.ttl /\ run.ttl \in TTLs
      /\ hops' = [hops EXCEPT ![run.ttl] = Registered(hops[run.ttl])]
  BY SendTable
<1> HIDE DEF p
<1>2. IsFiniteSet(inflight) /\ Unique(inflight) /\ hops \in [TTLs -> Hops]
  BY DEF TableInv
<1>3. IsFiniteSet(inflight') /\ Unique(inflight')
  BY <1>1, <1>2, FS_AddElement DEF Unique
<1>4. Registered(hops[run.ttl]) \in Hops
  BY <1>1, <1>2, RegisteredStep
<1>5. hops' \in [TTLs -> Hops]
  BY <1>1, <1>2, <1>4
<1>6. ASSUME NEW t \in TTLs
      PROVE  hops'[t].inflight = Cardinality(OfHop(inflight', t)) /\ Lost(hops'[t]) >= 0
  <2>1. /\ Cardinality(OfHop(inflight', t)) =
             Cardinality(OfHop(inflight, t)) + (IF run.ttl = t THEN 1 ELSE 0)
        /\ Cardinality(OfHop(inflight, t)) \in Nat
    BY <1>1, <1>2, OfHopWith, OfHopFinite
  <2>2. /\ hops[t] \in Hops /\ hops[t].inflight = Cardinality(OfHop(inflight, t))
        /\ Lost(hops[t]) >= 0
    BY <1>2 DEF TableInv
  <2>3. hops'[t] = IF run.ttl = t THEN Registered(hops[t]) ELSE hops[t]
    BY <1>1, <1>2
  <2>4. /\ Registered(hops[t]).inflight = hops[t].inflight + 1
        /\ Lost(Registered(hops[t])) = Lost(hops[t]) /\ hops[t].inflight \in Int
    BY <2>2, RegisteredStep DEF Hops
  <2>5. PICK c \in Nat : c = Cardinality(OfHop(inflight, t))
    BY <2>1
  <2> QED BY <2>1, <2>2, <2>3, <2>4, <2>5
<1> QED BY <1>3, <1>5, <1>6 DEF TableInv

\* At most one probe has the number of a reply.
LEMMA FoldTable ==
  ASSUME TypeInv, NumberInv, TableInv, NEW m \in Messages, Fold(m)
  PROVE  \/ UNCHANGED <<inflight, hops>>
         \/ \E p \in inflight :
              /\ inflight' = inflight \ {p} /\ p.ttl \in TTLs
              /\ hops' = [hops EXCEPT ![p.ttl] = Recorded(hops[p.ttl])]
<1> DEFINE mine == {p \in inflight : p.seq = m.answers.seq}
<1>1. /\ inflight' = inflight \ mine
      /\ hops' = [t \in TTLs |-> IF \E p \in mine : p.ttl = t THEN Recorded(hops[t])
                                                              ELSE hops[t]]
      /\ hops \in [TTLs -> Hops]
  BY DEF Fold, TableInv
<1>2. CASE mine = {}
  BY <1>1, <1>2
<1>3. CASE mine # {}
  <2>1. PICK p \in mine : TRUE
    BY <1>3
  <2>2. ASSUME NEW q \in mine PROVE q = p
    <3>1. q.id = p.id
      BY <2>1, <2>2, NumbersTellApart
    <3> QED BY <2>1, <2>2, <3>1 DEF TableInv, Unique
  <2>3. mine = {p} /\ p \in inflight
    BY <2>1, <2>2
  <2>4. p.ttl \in TTLs
    BY <2>3 DEF TypeInv, Probes
  <2> HIDE DEF mine
  <2>5. hops' = [t \in TTLs |-> IF p.ttl = t THEN Recorded(hops[t]) ELSE hops[t]]
    BY <1>1, <2>3
  <2>6. hops' = [hops EXCEPT ![p.ttl] = Recorded(hops[p.ttl])]
    BY <1>1, <2>4, <2>5
  <2> QED BY <1>1, <2>3, <2>4, <2>6
<1> QED BY <1>2, <1>3

LEMMA FoldKeepsTable ==
  ASSUME TypeInv, NumberInv, TableInv, NEW m \in Messages, Fold(m)
  PROVE  TableInv'
<1>1. CASE UNCHANGED <<inflight, hops>>
  BY <1>1 DEF TableInv
<1>2. ASSUME NEW p \in inflight, p.ttl \in TTLs, inflight' = inflight \ {p},
             hops' = [hops EXCEPT ![p.ttl] = Recorded(hops[p.ttl])]
      PROVE  TableInv'
  <2>1. IsFiniteSet(inflight) /\ Unique(inflight) /\ hops \in [TTLs -> Hops]
    BY DEF TableInv
  <2>2. IsFiniteSet(inflight') /\ Unique(inflight') /\ p \notin inflight'
        /\ inflight = inflight' \cup {p}
    BY <1>2, <2>1, FS_RemoveElement DEF Unique
  <2>3. Recorded(hops[p.ttl]) \in Hops
    BY <1>2, <2>1, RecordedStep
  <2>4. hops' \in [TTLs -> Hops]
    BY <1>2, <2>1, <2>3
  <2>5. ASSUME NEW t \in TTLs
        PROVE  hops'[t].inflight = Cardinality(OfHop(inflight', t)) /\ Lost(hops'[t]) >= 0
    <3>1. /\ Cardinality(OfHop(inflight, t)) =
               Cardinality(OfHop(inflight', t)) + (IF p.ttl = t THEN 1 ELSE 0)
          /\ Cardinality(OfHop(inflight', t)) \in Nat
      BY <2>2, OfHopWith, OfHopFinite
    <3>2. /\ hops[t] \in Hops /\ hops[t].inflight = Cardinality(OfHop(inflight, t))
          /\ Lost(hops[t]) >= 0
      BY <2>1 DEF TableInv
    <3>3. hops'[t] = IF p.ttl = t THEN Recorded(hops[t]) ELSE hops[t]
      BY <1>2, <2>1
    <3>4. /\ Recorded(hops[t]).inflight = hops[t].inflight - 1
          /\ Lost(Recorded(hops[t])) = Lost(hops[t]) /\ hops[t].inflight \in Int
      BY <3>2, RecordedStep DEF Hops
    <3>5. PICK c \in Nat : c = Cardinality(OfHop(inflight', t))
      BY <3>1
    <3> QED BY <3>1, <3>2, <3>3, <3>4, <3>5
  <2> QED BY <2>2, <2>4, <2>5 DEF TableInv
<1> QED BY <1>1, <1>2, FoldTable

LEMMA EmitKeepsTable ==
  ASSUME TypeInv, TableInv, NEW cut \in 0 .. issued, Emit(cut)
  PROVE  TableInv'
<1>1. PICK gone \in SUBSET inflight :
        /\ gone = Expired(inflight, cut)
        /\ inflight' = inflight \ gone /\ hops' = AfterPrune(hops, gone)
  BY DEF Emit, Expired
<1>2. IsFiniteSet(inflight) /\ Unique(inflight) /\ hops \in [TTLs -> Hops]
  BY DEF TableInv
<1>3. IsFiniteSet(inflight') /\ Unique(inflight') /\ IsFiniteSet(gone)
  BY <1>1, <1>2, FS_Subset DEF Unique
<1>4. \A t \in TTLs : hops'[t] = GivenUp(hops[t], Cardinality(OfHop(gone, t)))
  BY <1>1 DEF AfterPrune, OfHop
<1>5. \A t : Cardinality(OfHop(gone, t)) \in Nat
  BY <1>3, OfHopFinite
<1> HIDE DEF OfHop, Hops
<1>6. ASSUME NEW t \in TTLs PROVE hops'[t] \in Hops
  <2>1. hops[t] \in Hops
    BY <1>2
  <2>2. PICK n \in Nat : n = Cardinality(OfHop(gone, t))
    BY <1>5
  <2>3. GivenUp(hops[t], n) \in Hops
    BY <2>1, <2>2, GivenUpStep
  <2> QED BY <1>4, <2>2, <2>3
<1>7. hops' \in [TTLs -> Hops]
  <2>1. hops' = [t \in TTLs |-> hops'[t]]
    BY <1>1 DEF AfterPrune
  <2> HIDE DEF Hops
  <2> QED BY <1>6, <2>1
<1>8. ASSUME NEW t \in TTLs
      PROVE  hops'[t].inflight = Cardinality(OfHop(inflight', t)) /\ Lost(hops'[t]) >= 0
  <2>1. Cardinality(OfHop(inflight', t)) =
          Cardinality(OfHop(inflight, t)) - Cardinality(OfHop(gone, t))
    BY <1>1, <1>2, OfHopWithout
  <2>2. /\ hops[t] \in Hops /\ hops[t].inflight = Cardinality(OfHop(inflight, t))
        /\ Lost(hops[t]) >= 0
    BY <1>2 DEF TableInv
  <2>3. PICK n \in Nat : n = Cardinality(OfHop(gone, t))
    BY <1>5
  <2>4. /\ GivenUp(hops[t], n).inflight = hops[t].inflight - n
        /\ Lost(GivenUp(hops[t], n)) = Lost(hops[t]) + n /\ Lost(hops[t]) \in Int
    BY <2>2, <2>3, GivenUpStep
  <2> QED BY <1>4, <2>1, <2>2, <2>3, <2>4
<1> QED BY <1>3, <1>7, <1>8 DEF TableInv

LEMMA NextTable == TypeInv /\ NumberInv /\ TableInv /\ [Next]_vars => TableInv'
<1> SUFFICES ASSUME TypeInv, NumberInv, TableInv, [Next]_vars PROVE TableInv'
  OBVIOUS
<1>1. ASSUME NEW ok \in BOOLEAN, Send(ok) PROVE TableInv'
  BY <1>1, SendKeepsTable
<1>2. ASSUME NEW cut \in 0 .. issued, Emit(cut) PROVE TableInv'
  BY <1>2, EmitKeepsTable
<1>3. CASE Tick
  <2>1. inflight' = Older(inflight) /\ hops' = hops
    BY <1>3 DEF Tick
  <2>2. inflight \in SUBSET Probes /\ IsFiniteSet(inflight) /\ Unique(inflight)
    BY DEF TypeInv, TableInv
  <2>3. /\ IsFiniteSet(inflight') /\ Unique(inflight')
        /\ \A t : Cardinality(OfHop(inflight', t)) = Cardinality(OfHop(inflight, t))
    BY <2>1, <2>2, OlderCounts
  <2> QED BY <2>1, <2>3 DEF TableInv
<1>4. ASSUME NEW m \in Messages, Fold(m) PROVE TableInv'
  BY <1>4, FoldKeepsTable
<1>5. CASE Ending
  BY <1>5, EndingEffect DEF TableInv
<1>6. CASE UNCHANGED vars
  BY <1>6 DEF vars, proberVars, TableInv
<1> QED BY <1>1, <1>2, <1>3, <1>4, <1>5, <1>6 DEF Next, RunStep, RecvStep, Ending

LEMMA TableIsWellFormed == TypeInv /\ NumberInv /\ TableInv => TypeOK
<1> SUFFICES ASSUME TypeInv, NumberInv, TableInv PROVE TypeOK
  OBVIOUS
<1>1. nextSeq \in 1 .. SeqSpace
  <2>1. SeqSpace \in Nat \ {0} /\ issued \in Nat
    BY SpaceIsWide DEF TypeInv
  <2>2. PICK r \in 0 .. SeqSpace - 1 : r = issued % SeqSpace
    BY <2>1
  <2>3. nextSeq = r + 1
    BY <2>2 DEF NumberInv
  <2> QED BY <2>1, <2>3
<1>2. \A t \in TTLs : Lost(hops[t]) >= 0 /\ hops[t].inflight >= 0
  <2> SUFFICES ASSUME NEW t \in TTLs PROVE Lost(hops[t]) >= 0 /\ hops[t].inflight >= 0
    OBVIOUS
  <2>1. Cardinality(OfHop(inflight, t)) \in Nat
    BY OfHopFinite DEF TableInv
  <2> QED BY <2>1 DEF TableInv
<1>3. \A p, q \in inflight : p.seq = q.seq => p = q
  BY NumbersTellApart DEF TableInv, Unique
<1> QED BY <1>1, <1>2, <1>3 DEF TypeOK, TypeInv

-----------------------------------------------------------------------------
(* Sweeps without a probe out.                                             *)

(***************************************************************************)
(* The failures of a sweep are all its probes exactly when none of them    *)
(* left, and the bad sweeps are those since one that did leave.            *)
(***************************************************************************)
BlackInv ==
  /\ run.pc = "send" =>
       /\ run.failures <= run.ttl - 1 /\ run.bad <= SendThreshold
       /\ IF run.failures = run.ttl - 1 THEN Blackout = run.bad ELSE lastOut = sweeps + 1
  /\ run.pc = "emit" =>
       /\ run.failures <= run.limit /\ run.bad <= SendThreshold
       /\ Blackout = IF run.failures = run.limit THEN run.bad + 1 ELSE 0
  /\ run.pc = "waiting" => Blackout = run.bad /\ run.bad <= SendThreshold
  /\ run.fatal => run.pc \in {"closing", "returned"} /\ Blackout > SendThreshold

LEMMA InitBlack == Init => BlackInv
<1> SUFFICES ASSUME Init PROVE BlackInv
  OBVIOUS
<1>1. /\ run.pc = "send" /\ run.failures = 0 /\ run.ttl = 1 /\ run.bad = 0
      /\ run.fatal = FALSE /\ sweeps = 0 /\ lastOut = 0
  BY DEF Init, Sweeping
<1> QED BY <1>1, IcmpAssumption DEF BlackInv, Blackout

LEMMA SendBlack ==
  ASSUME TypeInv, BlackInv, NEW ok \in BOOLEAN, Send(ok)
  PROVE  BlackInv'
<1>1. /\ run.pc = "send" /\ run.ttl \in Nat /\ run.limit \in Nat /\ run.failures \in Nat
      /\ run.bad \in Nat /\ sweeps \in Nat /\ lastOut \in Nat /\ SendThreshold \in Nat
      /\ run.fatal \in BOOLEAN
  BY SendRun, BooksAssumption, IcmpAssumption DEF TypeInv, Runs, TTLs
<1>2. /\ run.failures <= run.ttl - 1 /\ run.bad <= SendThreshold /\ ~run.fatal
      /\ IF run.failures = run.ttl - 1 THEN sweeps - lastOut = run.bad ELSE lastOut = sweeps + 1
  BY <1>1 DEF BlackInv, Blackout
<1>3. /\ run'.limit = run.limit /\ run'.bad = run.bad /\ run'.fatal = run.fatal
      /\ run'.failures = run.failures + (IF ok THEN 0 ELSE 1)
      /\ \/ /\ run'.pc = "send" /\ run'.ttl = run.ttl + 1 /\ sweeps' = sweeps
         \/ /\ run.ttl = run.limit /\ run'.pc = "emit" /\ sweeps' = sweeps + 1
  BY SendRun
<1>4. lastOut' = IF ok THEN sweeps + 1 ELSE lastOut
  BY DEF Send
<1>5. CASE run'.pc = "send"
  <2>1. /\ run'.failures <= run'.ttl - 1
        /\ IF run'.failures = run'.ttl - 1 THEN sweeps' - lastOut' = run'.bad
                                          ELSE lastOut' = sweeps' + 1
    BY <1>1, <1>2, <1>3, <1>4, <1>5
  <2> QED BY <1>2, <1>3, <1>5, <2>1 DEF BlackInv, Blackout
<1>6. CASE run'.pc = "emit"
  <2>1. /\ run'.failures <= run'.limit
        /\ sweeps' - lastOut' = IF run'.failures = run'.limit THEN run'.bad + 1 ELSE 0
    BY <1>1, <1>2, <1>3, <1>4, <1>6
  <2> QED BY <1>2, <1>3, <1>6, <2>1 DEF BlackInv, Blackout
<1> QED BY <1>3, <1>5, <1>6

LEMMA NextBlack == TypeInv /\ BlackInv /\ [Next]_vars => BlackInv'
<1> SUFFICES ASSUME TypeInv, BlackInv, [Next]_vars PROVE BlackInv'
  OBVIOUS
<1>1. ASSUME NEW ok \in BOOLEAN, Send(ok) PROVE BlackInv'
  BY <1>1, SendBlack
<1>2. ASSUME NEW cut \in 0 .. issued, Emit(cut) PROVE BlackInv'
  <2>1. /\ run.failures \in Nat /\ run.bad \in Nat /\ sweeps \in Nat /\ lastOut \in Nat
        /\ SendThreshold \in Nat
    BY IcmpAssumption DEF TypeInv, Runs
  <2>2. sweeps' - lastOut' = IF run.failures = run.limit THEN run.bad + 1 ELSE 0
    BY <1>2, EmitRun DEF BlackInv, Blackout, Emit
  <2>3. run'.bad = IF run.failures = run.limit THEN run.bad + 1 ELSE 0
    BY <1>2, EmitRun DEF BadSweeps
  <2>4. /\ run'.fatal = (run'.bad > SendThreshold)
        /\ run'.pc = IF run'.fatal THEN "closing" ELSE "waiting"
    BY <1>2, EmitRun
  <2>5. Blackout' = run'.bad
    BY <2>2, <2>3 DEF Blackout
  <2>6. run'.bad \in Nat
    BY <2>1, <2>3
  <2>7. CASE run'.bad > SendThreshold
    <3>1. run'.fatal /\ run'.pc = "closing"
      BY <2>4, <2>7, Zenon
    <3>2. Blackout' > SendThreshold
      BY <2>5, <2>7
    <3> QED BY <3>1, <3>2 DEF BlackInv
  <2>8. CASE ~(run'.bad > SendThreshold)
    <3>1. ~run'.fatal /\ run'.pc = "waiting"
      BY <2>4, <2>8, Zenon
    <3>2. run'.bad <= SendThreshold
      BY <2>1, <2>6, <2>8
    <3> QED BY <2>5, <3>1, <3>2 DEF BlackInv
  <2> QED BY <2>7, <2>8
<1>3. CASE Tick
  <2>1. run.bad \in Nat /\ terminus \in 0 .. MaxHops /\ run.pc = "waiting"
    BY <1>3 DEF TypeInv, Runs, Tick
  <2>2. /\ run'.ttl = 1 /\ run'.pc = "send" /\ run'.failures = 0 /\ run'.bad = run.bad
        /\ run'.fatal = FALSE
    BY <1>3, <2>1, SweepingType DEF Tick
  <2>3. UNCHANGED <<sweeps, lastOut>>
    BY <1>3 DEF Tick
  <2> QED BY <2>1, <2>2, <2>3 DEF BlackInv, Blackout
<1>4. ASSUME NEW m \in Messages, Fold(m) PROVE BlackInv'
  BY <1>4 DEF Fold, BlackInv, Blackout
<1>5. CASE Ending
  BY <1>5, EndingEffect DEF BlackInv, Blackout
<1>6. CASE UNCHANGED vars
  BY <1>6 DEF vars, proberVars, BlackInv, Blackout
<1> QED BY <1>1, <1>2, <1>3, <1>4, <1>5, <1>6 DEF Next, RunStep, RecvStep, Ending

\* probe_unix.go:134-165: for any threshold, the prober gives up exactly when
\* more sweeps than it failed in a row, and keeps a well-formed table: no hop
\* has fewer probes sent than answered and awaited, no number two of them.
THEOREM GivesUpWhenBlackedOut == Spec => []BlackoutEscalates
<1> DEFINE Inv == TypeInv /\ NumberInv /\ TableInv /\ BlackInv
<1>1. Init => Inv
  BY InitType, InitNumbers, InitTable, InitBlack
<1>2. Inv /\ [Next]_vars => Inv'
  BY NextType, NextNumbers, NextTable, NextBlack
<1>3. Inv => BlackoutEscalates
  <2> SUFFICES ASSUME Inv PROVE BlackoutEscalates
    OBVIOUS
  <2>1. TypeOK
    BY TableIsWellFormed
  <2>2. run.fatal => Blackout > SendThreshold
    BY DEF BlackInv
  <2>3. run.pc = "waiting" => Blackout <= SendThreshold
    BY DEF BlackInv
  <2>4. run.pc = "send" => Blackout <= SendThreshold
    <3>1. sweeps \in Nat /\ lastOut \in Nat /\ SendThreshold \in Nat
      BY IcmpAssumption DEF TypeInv
    <3> QED BY <3>1 DEF BlackInv, Blackout
  <2> QED BY <2>1, <2>2, <2>3, <2>4 DEF BlackoutEscalates
<1> HIDE DEF Inv
<1> QED BY <1>1, <1>2, <1>3, PTL DEF Spec

-----------------------------------------------------------------------------
(* The table implements HopLedger.                                         *)

Seen(p) == [id |-> p.id, ttl |-> p.ttl, age |-> p.age]
Open(P) == {Seen(p) : p \in P}
Sent == [t \in TTLs |-> hops[t].sent]
Recv == [t \in TTLs |-> hops[t].recv]
LostOf == [t \in TTLs |-> Lost(hops[t])]

\* Both modules take Cardinality from FiniteSets.
LEMMA SameCardinality == \A S : Ledger!Cardinality(S) = Cardinality(S)
BY DEF Ledger!Cardinality, Cardinality

\* One probe counts once, for its own hop.
LEMMA PlusOne ==
  ASSUME NEW f, NEW q
  PROVE  Ledger!Plus(f, {q}) = [t \in TTLs |-> f[t] + (IF q.ttl = t THEN 1 ELSE 0)]
<1> SUFFICES ASSUME NEW t \in TTLs
             PROVE  Cardinality({p \in {q} : p.ttl = t}) = IF q.ttl = t THEN 1 ELSE 0
  BY SameCardinality DEF Ledger!Plus
<1>1. CASE q.ttl = t
  <2>1. {p \in {q} : p.ttl = t} = {q}
    BY <1>1
  <2> QED BY <1>1, <2>1, FS_Singleton
<1>2. CASE q.ttl # t
  <2>1. {p \in {q} : p.ttl = t} = {}
    BY <1>2
  <2> QED BY <1>2, <2>1, FS_EmptySet
<1> QED BY <1>1, <1>2

\* What the ledger sees of some probes counts as they do.
LEMMA SeenCounts ==
  ASSUME NEW P, IsFiniteSet(P), Unique(P), NEW t
  PROVE  Cardinality({q \in Open(P) : q.ttl = t}) = Cardinality(OfHop(P, t))
<1>1. IsFiniteSet(OfHop(P, t))
  BY OfHopFinite
<1>2. Unique(OfHop(P, t)) /\ Unique({q \in Open(P) : q.ttl = t})
  BY DEF Unique, OfHop, Open, Seen
<1>3. Ids(OfHop(P, t)) = Ids({q \in Open(P) : q.ttl = t})
  <2>1. \A p : Seen(p).id = p.id /\ Seen(p).ttl = p.ttl
    BY DEF Seen
  <2>2. {q \in Open(P) : q.ttl = t} = {Seen(p) : p \in OfHop(P, t)}
    <3> HIDE DEF Seen
    <3> QED BY <2>1 DEF Open, OfHop
  <2> HIDE DEF Seen, OfHop
  <2> QED BY <2>1, <2>2 DEF Ids
<1> QED BY <1>1, <1>2, <1>3, SameIdsSameCount

\* Taking probes out of the table takes them out of the ledger.
LEMMA OpenWithout ==
  ASSUME NEW P, Unique(P), NEW Q \in SUBSET P
  PROVE  Open(P \ Q) = Open(P) \ Open(Q) /\ Open(P) \ Open(P \ Q) = Open(Q)
<1>1. ASSUME NEW x \in P, NEW y \in P, Seen(x) = Seen(y) PROVE x = y
  <2>1. x.id = y.id
    BY <1>1 DEF Seen
  <2> QED BY <2>1 DEF Unique
<1> HIDE DEF Seen
<1> QED BY <1>1 DEF Open

LEMMA SendMaps ==
  ASSUME TypeInv, NumberInv, TableInv, NEW ok \in BOOLEAN, Send(ok)
  PROVE  Ledger!Send
<1> DEFINE p == [seq |-> nextSeq, ttl |-> run.ttl, id |-> issued, age |-> 0]
<1>1. /\ inflight' = inflight \cup {p} /\ run.ttl \in TTLs
      /\ \A q \in inflight : q.id # issued
      /\ hops' = [hops EXCEPT ![run.ttl] = Registered(hops[run.ttl])]
  BY SendTable
<1>2. PICK q : q = [id |-> issued, ttl |-> run.ttl, age |-> 0]
  OBVIOUS
<1>3. Open(inflight)' = Open(inflight) \cup {q}
  <2>1. Seen(p) = q
    BY <1>2 DEF Seen
  <2> HIDE DEF p, Seen
  <2> QED BY <1>1, <2>1 DEF Open
<1>4. \A x \in Open(inflight) : x.id # q.id
  BY <1>1, <1>2 DEF Open, Seen
<1>5. q.age = 0 /\ q.ttl = run.ttl /\ q \in Open(inflight)' \ Open(inflight)
  BY <1>2, <1>3, <1>4
<1>6. hops \in [TTLs -> Hops]
  BY DEF TableInv
<1>7. ASSUME NEW t \in TTLs
      PROVE  /\ hops'[t].sent = hops[t].sent + (IF run.ttl = t THEN 1 ELSE 0)
             /\ hops'[t].recv = hops[t].recv /\ Lost(hops'[t]) = Lost(hops[t])
  <2>1. hops'[t] = IF run.ttl = t THEN Registered(hops[t]) ELSE hops[t]
    BY <1>1, <1>6
  <2>2. hops[t] \in Hops /\ hops[t].sent \in Int
    BY <1>6 DEF Hops
  <2>3. /\ Registered(hops[t]).sent = hops[t].sent + 1
        /\ Registered(hops[t]).recv = hops[t].recv
        /\ Lost(Registered(hops[t])) = Lost(hops[t])
    BY <2>2, RegisteredStep
  <2> QED BY <2>1, <2>2, <2>3
<1>8. Sent' = Ledger!Plus(Sent, {q}) /\ Recv' = Recv /\ LostOf' = LostOf
  BY <1>5, <1>7, PlusOne DEF Sent, Recv, LostOf
<1> QED BY <1>3, <1>4, <1>5, <1>8 DEF Ledger!Send, Open, Seen, Sent, Recv, LostOf

LEMMA FoldMaps ==
  ASSUME TypeInv, NumberInv, TableInv, NEW m \in Messages, Fold(m)
  PROVE  Ledger!Answer \/ UNCHANGED Ledger!ledger
<1>1. CASE UNCHANGED <<inflight, hops>>
  BY <1>1 DEF Ledger!ledger
<1>2. ASSUME NEW p \in inflight, p.ttl \in TTLs, inflight' = inflight \ {p},
             hops' = [hops EXCEPT ![p.ttl] = Recorded(hops[p.ttl])]
      PROVE  Ledger!Answer
  <2>1. hops \in [TTLs -> Hops] /\ Unique(inflight)
    BY DEF TableInv
  <2>2. PICK q : q = Seen(p)
    OBVIOUS
  <2>3. q \in Open(inflight) /\ q.ttl = p.ttl
    BY <1>2, <2>2 DEF Open, Seen
  <2>4. Open(inflight)' = Open(inflight) \ {q}
    <3>1. Open({p}) = {q} /\ {p} \in SUBSET inflight
      BY <1>2, <2>2 DEF Open
    <3>2. Open(inflight \ {p}) = Open(inflight) \ Open({p})
      BY <2>1, <3>1, OpenWithout
    <3> QED BY <1>2, <3>1, <3>2 DEF Open
  <2>5. ASSUME NEW t \in TTLs
        PROVE  /\ hops'[t].recv = hops[t].recv + (IF p.ttl = t THEN 1 ELSE 0)
               /\ hops'[t].sent = hops[t].sent /\ Lost(hops'[t]) = Lost(hops[t])
    <3>1. hops'[t] = IF p.ttl = t THEN Recorded(hops[t]) ELSE hops[t]
      BY <1>2, <2>1
    <3>2. hops[t] \in Hops /\ hops[t].recv \in Int
      BY <2>1 DEF Hops
    <3>3. /\ Recorded(hops[t]).sent = hops[t].sent
          /\ Recorded(hops[t]).recv = hops[t].recv + 1
          /\ Lost(Recorded(hops[t])) = Lost(hops[t])
      BY <3>2, RecordedStep
    <3> QED BY <3>1, <3>2, <3>3
  <2>6. Recv' = Ledger!Plus(Recv, {q}) /\ Sent' = Sent /\ LostOf' = LostOf
    BY <2>3, <2>5, PlusOne DEF Sent, Recv, LostOf
  <2> QED BY <2>3, <2>4, <2>6 DEF Ledger!Answer, Open, Seen, Sent, Recv, LostOf
<1> QED BY <1>1, <1>2, FoldTable

LEMMA EmitMaps ==
  ASSUME TypeInv, TableInv, NEW cut \in 0 .. issued, Emit(cut)
  PROVE  Ledger!Expire
<1>1. PICK gone \in SUBSET inflight :
        /\ gone = Expired(inflight, cut)
        /\ inflight' = inflight \ gone /\ hops' = AfterPrune(hops, gone)
  BY DEF Emit, Expired
<1>2. IsFiniteSet(inflight) /\ Unique(inflight) /\ hops \in [TTLs -> Hops]
  BY DEF TableInv
<1>3. IsFiniteSet(gone) /\ Unique(gone)
  BY <1>1, <1>2, FS_Subset DEF Unique
<1>4. /\ Open(inflight)' = Open(inflight) \ Open(gone)
      /\ Open(inflight) \ Open(inflight)' = Open(gone)
  <2>1. /\ Open(inflight \ gone) = Open(inflight) \ Open(gone)
        /\ Open(inflight) \ Open(inflight \ gone) = Open(gone)
    BY <1>1, <1>2, OpenWithout
  <2>2. Open(inflight)' = Open(inflight \ gone)
    BY <1>1 DEF Open
  <2> QED BY <2>1, <2>2
<1>5. \A q \in Open(gone) : q.age >= Window
  <2> SUFFICES ASSUME NEW p \in gone PROVE p.age >= Window
    BY DEF Open, Seen
  <2>1. p.age \in Nat /\ Window \in Nat /\ (p.age > Window \/ p.age = Window)
    BY <1>1, BooksAssumption DEF TypeInv, Probes, Expired
  <2> QED BY <2>1
<1>6. ASSUME NEW t \in TTLs
      PROVE  /\ hops'[t].sent = hops[t].sent /\ hops'[t].recv = hops[t].recv
             /\ Lost(hops'[t]) = Lost(hops[t])
                                   + Cardinality({q \in Open(gone) : q.ttl = t})
  <2>1. hops'[t] = GivenUp(hops[t], Cardinality(OfHop(gone, t))) /\ hops[t] \in Hops
    BY <1>1, <1>2 DEF AfterPrune, OfHop
  <2>2. PICK n \in Nat : n = Cardinality(OfHop(gone, t))
    BY <1>3, OfHopFinite
  <2>3. /\ GivenUp(hops[t], n).sent = hops[t].sent
        /\ GivenUp(hops[t], n).recv = hops[t].recv
        /\ Lost(GivenUp(hops[t], n)) = Lost(hops[t]) + n
    BY <2>1, <2>2, GivenUpStep
  <2>4. n = Cardinality({q \in Open(gone) : q.ttl = t})
    BY <1>3, <2>2, SeenCounts
  <2> QED BY <2>1, <2>2, <2>3, <2>4
<1>7. LostOf' = Ledger!Plus(LostOf, Open(gone)) /\ Sent' = Sent /\ Recv' = Recv
  BY <1>6, SameCardinality DEF Ledger!Plus, Sent, Recv, LostOf
<1> QED BY <1>4, <1>5, <1>7 DEF Ledger!Expire, Open, Seen, Sent, Recv, LostOf

LEMMA TickMaps ==
  ASSUME TypeInv, Tick
  PROVE  Ledger!Pass
<1> DEFINE older(p) == [p EXCEPT !.age = IF @ > Window THEN @ ELSE @ + 1]
<1>1. inflight' = Older(inflight) /\ hops' = hops /\ inflight \subseteq Probes
  BY DEF Tick, TypeInv
<1>2. \A p \in inflight : Seen(older(p)) = older(Seen(p))
  BY <1>1 DEF Seen, Probes
<1>3. inflight' = {older(p) : p \in inflight}
  BY <1>1 DEF Older
<1>4. Open(inflight)' = {older(q) : q \in Open(inflight)}
  <2>1. Open(inflight)' = Open(inflight')
    BY DEF Open, Seen
  <2> HIDE DEF Seen, older
  <2>2. Open(inflight') = {Seen(older(p)) : p \in inflight}
    BY <1>3 DEF Open
  <2>3. {older(q) : q \in Open(inflight)} = {older(Seen(p)) : p \in inflight}
    BY DEF Open
  <2> QED BY <1>2, <2>1, <2>2, <2>3
<1> QED BY <1>1, <1>4 DEF Ledger!Pass, Open, Seen

\* probe_unix.go:46-60, 284-343: for any path, window and delay, every step of
\* the prober is one of HopLedger's or leaves its view alone: what was sent stays
\* open until it is answered, once, or lost, never before the window has passed.
THEOREM TableImplementsLedger == Spec => ImplementsHopLedger
<1> DEFINE Inv == TypeInv /\ NumberInv /\ TableInv
<1>1. Init => Inv
  BY InitType, InitNumbers, InitTable
<1>2. Inv /\ [Next]_vars => Inv'
  BY NextType, NextNumbers, NextTable
<1>3. Init => Ledger!LedgerInit
  <2> SUFFICES ASSUME Init PROVE Ledger!LedgerInit
    OBVIOUS
  <2>1. /\ inflight = {} /\ hops = [t \in TTLs |-> NewHop]
        /\ NewHop.sent = 0 /\ NewHop.recv = 0 /\ Lost(NewHop) = 0
    BY DEF Init, NewHop, Lost
  <2>2. Open(inflight) = {}
    BY <2>1 DEF Open
  <2>3. Sent = Ledger!None /\ Recv = Ledger!None /\ LostOf = Ledger!None
    BY <2>1 DEF Sent, Recv, LostOf, Ledger!None
  <2> QED BY <2>2, <2>3 DEF Ledger!LedgerInit, Open, Seen, Sent, Recv, LostOf
<1>4. Inv /\ [Next]_vars => [Ledger!LedgerNext]_Ledger!ledger
  <2> SUFFICES ASSUME Inv, [Next]_vars PROVE [Ledger!LedgerNext]_Ledger!ledger
    OBVIOUS
  <2>1. ASSUME NEW ok \in BOOLEAN, Send(ok) PROVE Ledger!LedgerNext
    BY <2>1, SendMaps DEF Ledger!LedgerNext
  <2>2. ASSUME NEW cut \in 0 .. issued, Emit(cut) PROVE Ledger!LedgerNext
    BY <2>2, EmitMaps DEF Ledger!LedgerNext
  <2>3. CASE Tick
    BY <2>3, TickMaps DEF Ledger!LedgerNext
  <2>4. ASSUME NEW m \in Messages, Fold(m)
        PROVE  Ledger!LedgerNext \/ UNCHANGED Ledger!ledger
    BY <2>4, FoldMaps DEF Ledger!LedgerNext
  <2>5. CASE Ending
    BY <2>5, EndingEffect DEF Ledger!ledger
  <2>6. CASE UNCHANGED vars
    BY <2>6 DEF vars, proberVars, Ledger!ledger
  <2> QED BY <2>1, <2>2, <2>3, <2>4, <2>5, <2>6 DEF Next, RunStep, RecvStep, Ending
<1> HIDE DEF Inv
<1> QED BY <1>1, <1>2, <1>3, <1>4, PTL DEF Spec, ImplementsHopLedger, Ledger!LedgerSpec
=============================================================================
