---------------------------- MODULE TcpProber_proofs ----------------------------
(***************************************************************************)
(* Proofs about TcpProber, for any number of hops, any window and delay,   *)
(* and any range that covers them.                                         *)
(***************************************************************************)
EXTENDS TcpProber, FiniteSetTheorems, FunctionTheorems, TLAPS

(***************************************************************************)
(* What the theorems ask of the range: it covers the settle window and two *)
(* sweeps, as at an interval of a second or more (a window of two sweeps   *)
(* in a range of four); and an answer that comes at all comes before its   *)
(* port does again.                                                        *)
(***************************************************************************)
WindowFits == Window + 2 <= RangeFactor
DelayFits == MaxDelay < RangeFactor

(***************************************************************************)
(* Types, and what a goroutine's step has to do with ports: it is to get   *)
(* one (Unallocated), or holds one (Holding).                              *)
(***************************************************************************)
Probes == [port : Ports, ttl : TTLs, id : Nat, age : Nat]
Goroutines ==
  [pc : {"idle", "alloc", "register", "dialing", "unreachable", "refused"},
   port : Ports \cup {NoPort}, id : Nat]
Runs == [pc : {"sweep", "waiting", "closing"}, allFailed : BOOLEAN, bad : Nat]

TypeInv ==
  /\ portCursor \in Ports /\ issued \in Nat /\ terminus \in 0 .. MaxHops
  /\ inflight \subseteq Probes /\ wire \subseteq Probes
  /\ \A p \in inflight : p.age <= Window + 1
  /\ \A w \in wire : w.age <= MaxDelay
  /\ probe \in [TTLs -> Goroutines] /\ run \in Runs /\ tick \in BOOLEAN
  /\ strayed \in BOOLEAN

Unallocated == {t \in TTLs : probe[t].pc = "alloc"}
Holding == {t \in TTLs : probe[t].pc \notin {"idle", "alloc"}}
Left == Cardinality(Unallocated)

\* How many ports ago a cursor was at this one.
Behind(cursor, port) ==
  IF port < cursor THEN cursor - port ELSE cursor - port + RangeSize

\* The ports handed out since a probe of that age left.
Reach(age) == IF tick THEN MaxHops * age ELSE MaxHops * (age + 1) - Left

(***************************************************************************)
(* Goroutines hold ports of this sweep, each another one.                  *)
(***************************************************************************)
HoldInv ==
  /\ \A t \in TTLs : probe[t].pc \in {"idle", "alloc"} => probe[t].port = NoPort
  /\ \A t \in Holding : probe[t].port \in Ports
        /\ Behind(portCursor, probe[t].port) <= MaxHops - Left
  /\ \A t, u \in Holding : probe[t].port = probe[u].port => t = u
  /\ tick => \A t \in TTLs : probe[t].pc = "idle" \/ Dialing(t)
  /\ run.pc # "sweep" => \A t \in TTLs : probe[t].pc = "idle"

\* Before it registers its port nobody in P has it, and afterwards only its own
\* probe.
Own(t, P) ==
  IF probe[t].pc = "register" THEN \A p \in P : p.port # probe[t].port
  ELSE \A p \in P : p.port = probe[t].port => p.id = probe[t].id /\ p.ttl = t

(***************************************************************************)
(* A probe in the table is not further behind the cursor than the sweeps   *)
(* since its own can have moved it; one too old for that is pruned at the  *)
(* end of the sweep under way, before the next can come round to it.       *)
(***************************************************************************)
PlaceInv ==
  /\ \A p \in inflight : (tick /\ run.pc = "sweep" /\ p.age > Window)
                           \/ Behind(portCursor, p.port) <= Reach(p.age)
  /\ \A p, q \in inflight : p.port = q.port => p.id = q.id
  /\ \A p \in inflight : p.id < issued
  /\ run.pc # "sweep" /\ ~tick => \A p \in inflight : p.age <= Window
  /\ \A t \in Holding : Own(t, inflight)

(***************************************************************************)
(* The same for answers under way: their port is nobody else's.            *)
(***************************************************************************)
WireInv ==
  /\ \A w \in wire : Behind(portCursor, w.port) <= Reach(w.age)
  /\ \A w \in wire, p \in inflight : w.port = p.port => w.id = p.id
  /\ \A w \in wire : w.id \in Nat
  /\ \A t \in Holding : Own(t, wire)
  /\ ~strayed

-----------------------------------------------------------------------------
(* The range.                                                              *)

LEMMA SweepsReach ==
  ASSUME NEW k \in Nat, NEW a \in Nat, NEW b \in Nat, a <= b
  PROVE  k * a \in Nat /\ k * b \in Nat /\ k * a <= k * b
<1>1. PICK d \in Nat : b = a + d
  BY Z3
<1>2. k * b = k * a + k * d
  BY <1>1, Z3
<1>3. k * d \in Nat /\ k * a \in Nat
  BY <1>1, Z3
<1> QED BY <1>2, <1>3, Z3

LEMMA OneSweepMore ==
  ASSUME NEW k \in Nat, NEW a \in Nat
  PROVE  k * (a + 1) = k * a + k /\ k * a \in Nat /\ k * (a + 1) \in Nat
BY Z3

LEMMA RangeType ==
  /\ RangeSize \in Nat \ {0} /\ MaxHops \in Nat \ {0} /\ MaxHops <= RangeSize
  /\ Ports = 0 .. RangeSize - 1 /\ NoPort \notin Ports
<1>1. /\ MaxHops \in Nat \ {0} /\ Window \in Nat /\ RangeFactor \in Nat
  BY BooksAssumption, TcpAssumption
<1>2. PICK n \in Nat : n = SweepsPerWindow /\ n >= 1
  BY <1>1 DEF SweepsPerWindow
<1>3. MaxHops * 1 <= MaxHops * n /\ MaxHops * n \in Nat
  BY <1>1, <1>2, SweepsReach
<1>4. MaxHops * 1 = MaxHops
  BY <1>1
<1> QED BY <1>1, <1>2, <1>3, <1>4, NoneAssumption DEF RangeSize, Ports

\* No port comes round while a probe that old is awaited.
LEMMA WindowReach ==
  ASSUME WindowFits, NEW a \in 0 .. Window + 1
  PROVE  MaxHops * (a + 1) \in Nat /\ MaxHops * a \in Nat
         /\ MaxHops * (a + 1) = MaxHops * a + MaxHops /\ MaxHops * (a + 1) <= RangeSize
<1>1. /\ MaxHops \in Nat /\ Window \in Nat /\ RangeFactor \in Nat
  BY BooksAssumption, TcpAssumption
<1>2. PICK n \in Nat : n = SweepsPerWindow /\ a + 1 <= n
  BY <1>1 DEF SweepsPerWindow, WindowFits
<1>3. MaxHops * (a + 1) <= MaxHops * n
  BY <1>1, <1>2, SweepsReach
<1> QED BY <1>1, <1>2, <1>3, OneSweepMore DEF RangeSize

\* Nor while it may be answered.
LEMMA DelayReach ==
  ASSUME DelayFits, NEW a \in 0 .. MaxDelay
  PROVE  MaxHops * (a + 1) \in Nat /\ MaxHops * a \in Nat
         /\ MaxHops * (a + 1) = MaxHops * a + MaxHops /\ MaxHops * (a + 1) <= RangeSize
<1>1. /\ MaxHops \in Nat /\ Window \in Nat /\ RangeFactor \in Nat /\ MaxDelay \in Nat
  BY BooksAssumption, TcpAssumption
<1>2. PICK n \in Nat : n = SweepsPerWindow /\ a + 1 <= n
  BY <1>1 DEF SweepsPerWindow, DelayFits
<1>3. MaxHops * (a + 1) <= MaxHops * n
  BY <1>1, <1>2, SweepsReach
<1> QED BY <1>1, <1>2, <1>3, OneSweepMore DEF RangeSize

LEMMA BehindRange ==
  ASSUME portCursor \in Ports, NEW q \in Ports
  PROVE  Behind(portCursor, q) \in 1 .. RangeSize
         /\ (Behind(portCursor, q) = RangeSize <=> q = portCursor)
BY RangeType DEF Behind

\* Ports are told apart by how far back they are.
LEMMA BehindTellsApart ==
  ASSUME portCursor \in Ports, NEW q \in Ports,
         NEW r \in Ports, Behind(portCursor, q) = Behind(portCursor, r)
  PROVE  q = r
BY RangeType DEF Behind

LEMMA NextPort ==
  ASSUME portCursor \in Ports
  PROVE  /\ (portCursor + 0) % RangeSize = portCursor
         /\ (portCursor + 0 + 1) % RangeSize =
              IF portCursor + 1 = RangeSize THEN 0 ELSE portCursor + 1
<1>1. PICK n \in Nat \ {0} : n = RangeSize
  BY RangeType
<1>2. PICK c \in 0 .. n - 1 : c = portCursor
  BY <1>1, RangeType
<1>3. c % n = c
  BY <1>1, <1>2
<1>4. CASE c + 1 = n
  <2>1. n % n = 0
    BY <1>1
  <2> QED BY <1>1, <1>2, <1>3, <1>4, <2>1
<1>5. CASE c + 1 # n
  <2>1. c + 1 \in 0 .. n - 1
    BY <1>2, <1>5
  <2>2. (c + 1) % n = c + 1
    BY <2>1
  <2> QED BY <1>1, <1>2, <1>3, <1>5, <2>2
<1> QED BY <1>4, <1>5

\* The cursor moves on by one.
LEMMA CursorMoves ==
  ASSUME portCursor \in Ports,
         portCursor' = IF portCursor + 1 = RangeSize THEN 0 ELSE portCursor + 1
  PROVE  /\ portCursor' \in Ports
         /\ \A q \in Ports : Behind(portCursor', q) =
               IF q = portCursor THEN 1 ELSE Behind(portCursor, q) + 1
BY RangeType DEF Behind

-----------------------------------------------------------------------------
(* The table: what is open per hop is what the in-flight table holds.      *)

\* Sets of probes told apart by their ids.
Unique(S) == \A x, y \in S : x.id = y.id => x = y
Ids(S) == {x.id : x \in S}

LEMMA SameIdsSameCount ==
  ASSUME NEW S, NEW T, IsFiniteSet(S), Unique(S), Unique(T), Ids(S) = Ids(T)
  PROVE  IsFiniteSet(T) /\ Cardinality(T) = Cardinality(S)
<1> DEFINE f == [x \in S |-> CHOOSE y \in T : y.id = x.id]
<1>1. \A x \in S : f[x] \in T /\ f[x].id = x.id
  BY DEF Ids
<1>2. f \in [S -> T]
  BY <1>1
<1>3. \A a, b \in S : f[a] = f[b] => a = b
  <2> SUFFICES ASSUME NEW a \in S, NEW b \in S, f[a] = f[b] PROVE a = b
    OBVIOUS
  <2>1. a.id = b.id
    BY <1>1
  <2> QED BY <2>1 DEF Unique
<1>4. \A y \in T : \E x \in S : f[x] = y
  <2> SUFFICES ASSUME NEW y \in T PROVE \E x \in S : f[x] = y
    OBVIOUS
  <2>1. PICK x \in S : x.id = y.id
    BY DEF Ids
  <2>2. f[x] \in T /\ f[x].id = y.id
    BY <1>1, <2>1
  <2> QED BY <2>2 DEF Unique
<1> HIDE DEF f
<1>5. f \in Bijection(S, T)
  BY <1>2, <1>3, <1>4, Fun_IsBij
<1>6. ExistsBijection(S, T)
  BY <1>5, Fun_ExistsBij
<1> QED BY <1>6, FS_Bijection

OfHop(P, t) == {p \in P : p.ttl = t}

LEMMA OfHopFinite ==
  ASSUME NEW P, IsFiniteSet(P), NEW t
  PROVE  /\ IsFiniteSet(OfHop(P, t)) /\ Cardinality(OfHop(P, t)) \in Nat
         /\ OfHop(P, t) \subseteq P
<1>1. OfHop(P, t) \in SUBSET P
  BY DEF OfHop
<1> QED BY <1>1, FS_Subset, FS_CardinalityType

\* What is taken out of a set is taken out of its count.
LEMMA OfHopWithout ==
  ASSUME NEW P, IsFiniteSet(P), NEW Q \in SUBSET P, NEW t
  PROVE  Cardinality(OfHop(P \ Q, t))
         = Cardinality(OfHop(P, t)) - Cardinality(OfHop(Q, t))
<1>1. OfHop(P \ Q, t) = OfHop(P, t) \ OfHop(Q, t)
  BY DEF OfHop
<1>2. OfHop(P, t) \cap OfHop(Q, t) = OfHop(Q, t)
  BY DEF OfHop
<1>3. IsFiniteSet(OfHop(P, t))
  BY OfHopFinite
<1> HIDE DEF OfHop
<1> QED BY <1>1, <1>2, <1>3, FS_Difference

LEMMA OfHopWith ==
  ASSUME NEW P, IsFiniteSet(P), NEW p, p \notin P, NEW t
  PROVE  Cardinality(OfHop(P \cup {p}, t)) =
           Cardinality(OfHop(P, t)) + (IF p.ttl = t THEN 1 ELSE 0)
<1>1. IsFiniteSet(OfHop(P, t)) /\ p \notin OfHop(P, t)
      /\ Cardinality(OfHop(P, t)) \in Nat
  BY OfHopFinite
<1>2. CASE p.ttl = t
  <2>1. OfHop(P \cup {p}, t) = OfHop(P, t) \cup {p}
    BY <1>2 DEF OfHop
  <2> HIDE DEF OfHop
  <2> QED BY <1>1, <1>2, <2>1, FS_AddElement
<1>3. CASE p.ttl # t
  <2>1. OfHop(P \cup {p}, t) = OfHop(P, t)
    BY <1>3 DEF OfHop
  <2> QED BY <1>1, <1>3, <2>1
<1> QED BY <1>2, <1>3

\* An age changes neither the ids nor the hops.
LEMMA OlderCounts ==
  ASSUME NEW P \in SUBSET Probes, IsFiniteSet(P), Unique(P)
  PROVE  /\ IsFiniteSet(Older(P)) /\ Unique(Older(P))
         /\ \A t : Cardinality(OfHop(Older(P), t)) = Cardinality(OfHop(P, t))
<1> DEFINE g(p) == [p EXCEPT !.age = IF @ > Window THEN @ ELSE @ + 1]
<1>1. \A p \in P : g(p).id = p.id /\ g(p).ttl = p.ttl
  BY DEF Probes
<1>2. Older(P) = {g(p) : p \in P}
  BY DEF Older
<1> HIDE DEF g
<1>3. Unique(Older(P))
  BY <1>1, <1>2 DEF Unique
<1>4. Ids(Older(P)) = Ids(P)
  BY <1>1, <1>2 DEF Ids
<1>5. IsFiniteSet(Older(P))
  BY <1>3, <1>4, SameIdsSameCount
<1>6. ASSUME NEW t PROVE Cardinality(OfHop(Older(P), t)) = Cardinality(OfHop(P, t))
  <2>1. IsFiniteSet(OfHop(P, t))
    BY OfHopFinite
  <2>2. Unique(OfHop(P, t)) /\ Unique(OfHop(Older(P), t))
    BY <1>3 DEF Unique, OfHop
  <2>3. Ids(OfHop(P, t)) = Ids(OfHop(Older(P), t))
    BY <1>1, <1>2 DEF Ids, OfHop
  <2> QED BY <2>1, <2>2, <2>3, SameIdsSameCount
<1> QED BY <1>3, <1>5, <1>6

(***************************************************************************)
(* The counters of a hop: as many awaited as the table holds for it, and   *)
(* never fewer sent than awaited and answered.                             *)
(***************************************************************************)
Hops == [sent : Int, recv : Int, inflight : Int]

TableInv ==
  /\ IsFiniteSet(inflight) /\ Unique(inflight)
  /\ hops \in [TTLs -> Hops]
  /\ \A t \in TTLs : /\ hops[t].inflight = Cardinality(OfHop(inflight, t))
                     /\ Lost(hops[t]) >= 0

LEMMA RegisteredStep ==
  ASSUME NEW h \in Hops
  PROVE  /\ Registered(h) \in Hops /\ Registered(h).inflight = h.inflight + 1
         /\ Lost(Registered(h)) = Lost(h)
         /\ Registered(h).sent = h.sent + 1 /\ Registered(h).recv = h.recv
<1>1. PICK a, b \in Int : a = h.sent + 1 /\ b = h.inflight + 1
  BY DEF Hops
<1>2. PICK g : g = Registered(h)
  OBVIOUS
<1>3. g = [h EXCEPT !.sent = a, !.inflight = b]
  <2>1. g = [h EXCEPT !.sent = h.sent + 1, !.inflight = h.inflight + 1]
    BY <1>2 DEF Registered
  <2> QED BY <1>1, <2>1
<1>4. g \in Hops /\ g.sent = a /\ g.inflight = b /\ g.recv = h.recv
  BY <1>3 DEF Hops
<1>5. h.sent \in Int /\ h.recv \in Int /\ h.inflight \in Int
  BY DEF Hops
<1>6. Lost(g) = Lost(h)
  <2> HIDE DEF Hops
  <2> QED BY <1>1, <1>4, <1>5 DEF Lost
<1> QED BY <1>1, <1>2, <1>4, <1>6

LEMMA RecordedStep ==
  ASSUME NEW h \in Hops
  PROVE  /\ Recorded(h) \in Hops /\ Recorded(h).inflight = h.inflight - 1
         /\ Lost(Recorded(h)) = Lost(h)
         /\ Recorded(h).sent = h.sent /\ Recorded(h).recv = h.recv + 1
<1>1. PICK a, b \in Int : a = h.recv + 1 /\ b = h.inflight - 1
  BY DEF Hops
<1>2. PICK g : g = Recorded(h)
  OBVIOUS
<1>3. g = [h EXCEPT !.recv = a, !.inflight = b]
  <2>1. g = [h EXCEPT !.recv = h.recv + 1, !.inflight = h.inflight - 1]
    BY <1>2 DEF Recorded
  <2> QED BY <1>1, <2>1
<1>4. g \in Hops /\ g.recv = a /\ g.inflight = b /\ g.sent = h.sent
  BY <1>3 DEF Hops
<1>5. h.sent \in Int /\ h.recv \in Int /\ h.inflight \in Int
  BY DEF Hops
<1>6. Lost(g) = Lost(h)
  <2> HIDE DEF Hops
  <2> QED BY <1>1, <1>4, <1>5 DEF Lost
<1> QED BY <1>1, <1>2, <1>4, <1>6

LEMMA RolledBackStep ==
  ASSUME NEW h \in Hops
  PROVE  /\ RolledBack(h) \in Hops /\ RolledBack(h).inflight = h.inflight - 1
         /\ Lost(RolledBack(h)) = Lost(h)
         /\ RolledBack(h).sent = h.sent - 1 /\ RolledBack(h).recv = h.recv
<1>1. PICK a, b \in Int : a = h.sent - 1 /\ b = h.inflight - 1
  BY DEF Hops
<1>2. PICK g : g = RolledBack(h)
  OBVIOUS
<1>3. g = [h EXCEPT !.sent = a, !.inflight = b]
  <2>1. g = [h EXCEPT !.sent = h.sent - 1, !.inflight = h.inflight - 1]
    BY <1>2 DEF RolledBack
  <2> QED BY <1>1, <2>1
<1>4. g \in Hops /\ g.sent = a /\ g.inflight = b /\ g.recv = h.recv
  BY <1>3 DEF Hops
<1>5. h.sent \in Int /\ h.recv \in Int /\ h.inflight \in Int
  BY DEF Hops
<1>6. Lost(g) = Lost(h)
  <2> HIDE DEF Hops
  <2> QED BY <1>1, <1>4, <1>5 DEF Lost
<1> QED BY <1>1, <1>2, <1>4, <1>6

LEMMA GivenUpStep ==
  ASSUME NEW h \in Hops, NEW n \in Nat
  PROVE  /\ GivenUp(h, n) \in Hops /\ GivenUp(h, n).inflight = h.inflight - n
         /\ Lost(GivenUp(h, n)) = Lost(h) + n /\ Lost(h) \in Int
         /\ GivenUp(h, n).sent = h.sent /\ GivenUp(h, n).recv = h.recv
<1>1. /\ GivenUp(h, n) \in Hops /\ GivenUp(h, n).inflight = h.inflight - n
      /\ GivenUp(h, n).sent = h.sent /\ GivenUp(h, n).recv = h.recv
  BY DEF GivenUp, Hops
<1>2. h.sent \in Int /\ h.recv \in Int /\ h.inflight \in Int
  BY DEF Hops
<1> HIDE DEF Hops
<1> QED BY <1>1, <1>2 DEF Lost

-----------------------------------------------------------------------------
(* The goroutines.                                                         *)

LEMMA LeftType ==
  /\ IsFiniteSet(Unallocated) /\ Left \in 0 .. MaxHops
<1>1. MaxHops \in Nat
  BY RangeType
<1>2. IsFiniteSet(TTLs) /\ Cardinality(TTLs) = MaxHops
  BY <1>1, FS_Interval DEF TTLs
<1>3. Unallocated \in SUBSET TTLs
  BY DEF Unallocated
<1>4. IsFiniteSet(Unallocated) /\ Cardinality(Unallocated) <= MaxHops
  BY <1>2, <1>3, FS_Subset
<1> QED BY <1>1, <1>4, FS_CardinalityType DEF Left

\* A step of one goroutine.
LEMMA OneMoves ==
  ASSUME probe \in [TTLs -> Goroutines], NEW t \in TTLs, NEW g \in Goroutines,
         probe' = [probe EXCEPT ![t] = g], g.pc # "alloc"
  PROVE  /\ probe' \in [TTLs -> Goroutines] /\ probe'[t] = g
         /\ \A u \in TTLs \ {t} : probe'[u] = probe[u]
         /\ Unallocated' = Unallocated \ {t}
         /\ Holding' = IF g.pc = "idle" THEN Holding \ {t} ELSE Holding \cup {t}
<1>1. /\ probe' \in [TTLs -> Goroutines] /\ probe'[t] = g
      /\ \A u \in TTLs \ {t} : probe'[u] = probe[u]
  OBVIOUS
<1>2. \A u \in TTLs : u \in Unallocated' <=> u \in Unallocated \ {t}
  BY <1>1 DEF Unallocated
<1>3. \A u \in TTLs : u \in Holding' <=>
        u \in (IF g.pc = "idle" THEN Holding \ {t} ELSE Holding \cup {t})
  BY <1>1 DEF Holding
<1>4. Unallocated' = Unallocated \ {t}
  BY <1>2 DEF Unallocated
<1>5. Holding' = IF g.pc = "idle" THEN Holding \ {t} ELSE Holding \cup {t}
  BY <1>3 DEF Holding
<1> QED BY <1>1, <1>4, <1>5

LEMMA NoProbeType ==
  NoProbe \in Goroutines /\ NoProbe.pc = "idle" /\ NoProbe.port = NoPort
BY DEF NoProbe, Goroutines

\* The next port is nobody's.
LEMMA CursorIsFree ==
  ASSUME TypeInv, HoldInv, PlaceInv, WindowFits, NEW t \in TTLs, probe[t].pc = "alloc"
  PROVE  /\ tick = FALSE /\ Left \in 1 .. MaxHops
         /\ \A p \in inflight : p.port # portCursor
         /\ \A u \in Holding : probe[u].port # portCursor
<1>1. tick = FALSE
  BY DEF HoldInv, TypeInv, Dialing
<1>2. Left \in 1 .. MaxHops
  <2>1. t \in Unallocated
    BY DEF Unallocated
  <2>2. Left # 0
    BY <2>1, LeftType, FS_EmptySet DEF Left
  <2> QED BY <2>2, LeftType, RangeType
<1>3. PICK n \in 1 .. MaxHops : n = Left
  BY <1>2
<1>4. ASSUME NEW p \in inflight, p.port = portCursor PROVE FALSE
  <2>1. p.age \in 0 .. Window + 1 /\ portCursor \in Ports
    BY BooksAssumption DEF TypeInv, Probes
  <2>2. Behind(portCursor, portCursor) <= MaxHops * (p.age + 1) - n
    BY <1>1, <1>3, <1>4 DEF PlaceInv, Reach
  <2>3. Behind(portCursor, portCursor) = RangeSize
    BY <2>1, BehindRange
  <2>4. PICK m \in Nat : m = MaxHops * (p.age + 1) /\ m <= RangeSize
    BY <2>1, WindowReach
  <2> QED BY <1>3, <2>2, <2>3, <2>4, RangeType
<1>5. ASSUME NEW u \in Holding, probe[u].port = portCursor PROVE FALSE
  <2>1. Behind(portCursor, portCursor) <= MaxHops - n /\ portCursor \in Ports
    BY <1>3, <1>5 DEF HoldInv, TypeInv
  <2>2. Behind(portCursor, portCursor) = RangeSize
    BY <2>1, BehindRange
  <2> QED BY <1>3, <2>1, <2>2, RangeType
<1> QED BY <1>1, <1>2, <1>4, <1>5

\* nextSrcPort finds it at once.
LEMMA AllocateEffect ==
  ASSUME TypeInv, HoldInv, PlaceInv, WindowFits, NEW t \in TTLs, Allocate(t)
  PROVE  /\ probe[t].pc = "alloc" /\ tick = FALSE /\ Left \in 1 .. MaxHops
         /\ Left' = Left - 1
         /\ probe' \in [TTLs -> Goroutines] /\ Holding' = Holding \cup {t}
         /\ \A u \in TTLs \ {t} : probe'[u] = probe[u]
         /\ probe'[t].pc = "register" /\ probe'[t].port = portCursor
         /\ portCursor' \in Ports
         /\ \A q \in Ports : Behind(portCursor', q) =
               IF q = portCursor THEN 1 ELSE Behind(portCursor, q) + 1
         /\ \A p \in inflight : p.port # portCursor
         /\ \A u \in Holding : probe[u].port # portCursor
         /\ UNCHANGED <<inflight, hops, terminus, run, tick, wire,
                     issued, sweeps, strayed>>
<1>1. /\ probe[t].pc = "alloc" /\ tick = FALSE /\ Left \in 1 .. MaxHops
      /\ \A p \in inflight : p.port # portCursor
      /\ \A u \in Holding : probe[u].port # portCursor
  BY CursorIsFree DEF Allocate
<1>2. portCursor \in Ports /\ probe \in [TTLs -> Goroutines]
  BY DEF TypeInv
<1>3. FirstFree(portCursor) = 0
  <2> DEFINE Walks(k) == /\ k < RangeSize => ~Busy((portCursor + k) % RangeSize)
                         /\ \A j \in 0 .. k - 1 : Busy((portCursor + j) % RangeSize)
  <2>1. ~Busy((portCursor + 0) % RangeSize)
    BY <1>1, <1>2, NextPort DEF Busy
  <2>2. Walks(0)
    BY <2>1
  <2>3. \A k \in 0 .. RangeSize : Walks(k) => k = 0
    <3> SUFFICES ASSUME NEW k \in 0 .. RangeSize, Walks(k), k # 0 PROVE FALSE
      OBVIOUS
    <3>1. 0 \in 0 .. k - 1
      BY RangeType
    <3> QED BY <2>1, <3>1
  <2>4. FirstFree(portCursor) = CHOOSE k \in 0 .. RangeSize : Walks(k)
    BY DEF FirstFree
  <2>5. 0 \in 0 .. RangeSize
    BY RangeType
  <2> HIDE DEF Walks
  <2> QED BY <2>2, <2>3, <2>4, <2>5
<1>4. /\ probe' = [probe EXCEPT ![t].pc = "register",
                                ![t].port = (portCursor + 0) % RangeSize]
      /\ portCursor' = (portCursor + 0 + 1) % RangeSize
      /\ UNCHANGED <<inflight, hops, terminus, run, tick, wire,
                  issued, sweeps, strayed>>
  BY <1>3, RangeType DEF Allocate
<1>5. PICK g \in Goroutines :
        g = [probe[t] EXCEPT !.pc = "register", !.port = portCursor]
  BY <1>2 DEF Goroutines
<1>6. g.pc = "register" /\ g.port = portCursor
  BY <1>2, <1>5 DEF Goroutines
<1>7. probe' = [probe EXCEPT ![t] = g]
  BY <1>2, <1>4, <1>5, NextPort
<1>8. /\ probe' \in [TTLs -> Goroutines] /\ probe'[t] = g
      /\ \A u \in TTLs \ {t} : probe'[u] = probe[u]
      /\ Unallocated' = Unallocated \ {t} /\ Holding' = Holding \cup {t}
  BY <1>2, <1>6, <1>7, OneMoves
<1>9. Left' = Left - 1
  <2>1. t \in Unallocated
    BY <1>1 DEF Unallocated
  <2> QED BY <1>8, <2>1, LeftType, FS_RemoveElement DEF Left
<1>10. /\ portCursor' \in Ports
       /\ \A q \in Ports : Behind(portCursor', q) =
             IF q = portCursor THEN 1 ELSE Behind(portCursor, q) + 1
  BY <1>2, <1>4, NextPort, CursorMoves
<1> QED BY <1>1, <1>4, <1>6, <1>8, <1>9, <1>10

\* What is registered is new to the table.
LEMMA RegisterEffect ==
  ASSUME TypeInv, HoldInv, PlaceInv, NEW t \in TTLs,
         NEW start \in DialStarts \cup {"refused"}, Register(t, start)
  PROVE  /\ probe[t].pc = "register" /\ t \in Holding /\ tick = FALSE
         /\ run.pc = "sweep"
         /\ start \in {"dialing", "unreachable", "refused"}
         /\ Left' = Left /\ Holding' = Holding
         /\ probe' \in [TTLs -> Goroutines]
         /\ \A u \in TTLs \ {t} : probe'[u] = probe[u]
         /\ probe'[t].pc = start /\ probe'[t].port = probe[t].port
         /\ probe'[t].id = issued
         /\ probe[t].port \in Ports
         /\ \E p \in Probes :
              /\ p = [port |-> probe[t].port, ttl |-> t, id |-> issued, age |-> 0]
              /\ p.port = probe[t].port /\ p.ttl = t /\ p.id = issued /\ p.age = 0
              /\ inflight' = inflight \cup {p}
              /\ wire' \in {wire, wire \cup {p}}
              /\ \A q \in inflight : q.id # p.id /\ q.port # p.port
         /\ hops' = [hops EXCEPT ![t] = Registered(hops[t])]
         /\ run' \in Runs /\ run'.pc = run.pc
         /\ issued' = issued + 1
         /\ UNCHANGED <<portCursor, terminus, tick, sweeps, strayed>>
<1>1. probe[t].pc = "register" /\ probe \in [TTLs -> Goroutines] /\ issued \in Nat
  BY DEF Register, TypeInv
<1>2. t \in Holding /\ start \in {"dialing", "unreachable", "refused"}
  BY <1>1, TcpAssumption DEF Holding
<1>3. probe[t].port \in Ports /\ tick = FALSE /\ run.pc = "sweep"
  BY <1>1, <1>2 DEF HoldInv, Dialing, TypeInv
<1>4. PICK g \in Goroutines : g = [probe[t] EXCEPT !.pc = start, !.id = issued]
  BY <1>1, <1>2 DEF Goroutines
<1>5. g.pc = start /\ g.port = probe[t].port /\ g.id = issued
  BY <1>1, <1>4 DEF Goroutines
<1>6. probe' = [probe EXCEPT ![t] = g]
  <2>1. probe' = [probe EXCEPT ![t].pc = start, ![t].id = issued]
    BY DEF Register
  <2> QED BY <1>1, <1>4, <2>1
<1>7. /\ probe' \in [TTLs -> Goroutines] /\ probe'[t] = g
      /\ \A u \in TTLs \ {t} : probe'[u] = probe[u]
      /\ Unallocated' = Unallocated \ {t}
      /\ Holding' = IF g.pc = "idle" THEN Holding \ {t} ELSE Holding \cup {t}
  BY <1>1, <1>2, <1>5, <1>6, OneMoves
<1>8. Left' = Left /\ Holding' = Holding
  <2>1. t \notin Unallocated
    BY <1>1 DEF Unallocated
  <2> QED BY <1>2, <1>5, <1>7, <2>1 DEF Left
<1>9. PICK p \in Probes :
        /\ p = [port |-> probe[t].port, ttl |-> t, id |-> issued, age |-> 0]
        /\ p.port = probe[t].port /\ p.ttl = t /\ p.id = issued /\ p.age = 0
  <2> DEFINE new == [port |-> probe[t].port, ttl |-> t, id |-> issued, age |-> 0]
  <2>1. new \in Probes
    BY <1>1, <1>3 DEF Probes
  <2>2. new.port = probe[t].port /\ new.ttl = t /\ new.id = issued /\ new.age = 0
    OBVIOUS
  <2> QED BY <2>1, <2>2
<1>10. \A q \in inflight : q.id # p.id /\ q.port # p.port
  <2>1. \A q \in inflight : q.id \in Nat /\ q.id < issued
    BY DEF PlaceInv, TypeInv, Probes
  <2>2. \A q \in inflight : q.port # p.port
    BY <1>1, <1>2, <1>9 DEF PlaceInv, Own
  <2> QED BY <1>1, <1>9, <2>1, <2>2
<1>11. /\ inflight' = {q \in inflight : q.port # probe[t].port} \cup {p}
       /\ wire' = IF start = "dialing" THEN wire \cup {p} ELSE wire
       /\ hops' = [hops EXCEPT ![t] = Registered(hops[t])]
       /\ run' = [run EXCEPT !.allFailed = @ /\ start = "refused"]
       /\ issued' = issued + 1
       /\ UNCHANGED <<portCursor, terminus, tick, sweeps, strayed>>
  BY <1>9 DEF Register
<1>12. inflight' = inflight \cup {p}
  BY <1>9, <1>10, <1>11
<1>13. run' \in Runs /\ run'.pc = run.pc
  BY <1>11 DEF TypeInv, Runs
<1> QED BY <1>1, <1>2, <1>3, <1>5, <1>7, <1>8, <1>9, <1>10, <1>11, <1>12, <1>13

\* A goroutine ends with its dial.
Dialed(t) == Reached(t) \/ Silent(t) \/ Refused(t)

LEMMA DialedEffect ==
  ASSUME TypeInv, HoldInv, PlaceInv, TableInv, NEW t \in TTLs, Dialed(t)
  PROVE  /\ Left' = Left /\ Holding' = Holding \ {t}
         /\ probe' \in [TTLs -> Goroutines] /\ probe'[t] = NoProbe
         /\ \A u \in TTLs \ {t} : probe'[u] = probe[u]
         /\ inflight' \subseteq inflight /\ terminus' \in 0 .. MaxHops
         /\ UNCHANGED <<portCursor, run, tick, wire, issued, sweeps>>
         /\ strayed' = strayed
         /\ \/ UNCHANGED <<inflight, hops>>
            \/ \E p \in inflight :
                 /\ inflight' = inflight \ {p} /\ p.ttl = t
                 /\ \/ hops' = [hops EXCEPT ![t] = Recorded(hops[t])]
                    \/ hops' = [hops EXCEPT ![t] = RolledBack(hops[t])]
<1>1. /\ probe[t].pc \in {"dialing", "unreachable", "refused"}
      /\ probe' = [probe EXCEPT ![t] = NoProbe]
      /\ UNCHANGED <<portCursor, run, tick, wire, issued, sweeps>>
  BY DEF Dialed, Reached, Silent, Refused, Dialing
<1>2. probe \in [TTLs -> Goroutines]
  BY DEF TypeInv
<1>3. /\ probe' \in [TTLs -> Goroutines] /\ probe'[t] = NoProbe
      /\ \A u \in TTLs \ {t} : probe'[u] = probe[u]
      /\ Unallocated' = Unallocated \ {t} /\ Holding' = Holding \ {t}
  <2> HIDE DEF NoProbe
  <2> QED BY <1>1, <1>2, NoProbeType, OneMoves
<1>4. Left' = Left
  <2>1. t \notin Unallocated
    BY <1>1 DEF Unallocated
  <2> QED BY <1>3, <2>1 DEF Left
<1>5. \A p \in Mine(t) : p \in inflight /\ p.id = probe[t].id /\ p.ttl = t
  <2>1. t \in Holding /\ probe[t].pc # "register"
    BY <1>1 DEF Holding
  <2> QED BY <2>1 DEF PlaceInv, Own, Mine
<1>6. Mine(t) = {} \/ \E p \in inflight : Mine(t) = {p} /\ p.ttl = t
  <2> SUFFICES ASSUME Mine(t) # {} PROVE \E p \in inflight : Mine(t) = {p} /\ p.ttl = t
    OBVIOUS
  <2>1. PICK p \in Mine(t) : TRUE
    OBVIOUS
  <2>2. ASSUME NEW q \in Mine(t) PROVE q = p
    BY <1>5, <2>1, <2>2 DEF Mine, TableInv, Unique
  <2> QED BY <1>5, <2>1, <2>2
<1>7. CASE Silent(t)
  <2>1. UNCHANGED <<inflight, hops, terminus, strayed>> /\ terminus \in 0 .. MaxHops
    BY <1>7 DEF Silent, TypeInv
  <2> QED BY <1>1, <1>3, <1>4, <2>1
<1>8. CASE Reached(t)
  <2>1. strayed' = strayed
    <3>1. strayed' = (strayed \/ \E p \in Mine(t) : p.id # probe[t].id)
      BY <1>8 DEF Reached
    <3>2. ~\E p \in Mine(t) : p.id # probe[t].id
      BY <1>5
    <3>3. strayed \in BOOLEAN
      BY DEF TypeInv
    <3> QED BY <3>1, <3>2, <3>3, Zenon
  <2>2. terminus' \in 0 .. MaxHops
    BY <1>8, RangeType DEF Reached, TypeInv, Nearest, TTLs
  <2>3. CASE Mine(t) = {}
    BY <1>1, <1>3, <1>4, <1>8, <2>1, <2>2, <2>3 DEF Reached
  <2>4. CASE Mine(t) # {}
    <3>1. PICK p \in inflight : Mine(t) = {p} /\ p.ttl = t
      BY <1>6, <2>4
    <3>2. inflight' = inflight \ {p} /\ hops' = [hops EXCEPT ![t] = Recorded(hops[t])]
      BY <1>8, <2>4, <3>1 DEF Reached
    <3> QED BY <1>1, <1>3, <1>4, <2>1, <2>2, <3>1, <3>2
  <2> QED BY <2>3, <2>4
<1>9. CASE Refused(t)
  <2>1. strayed' = strayed /\ terminus' \in 0 .. MaxHops
    BY <1>9 DEF Refused, TypeInv
  <2>2. CASE Mine(t) = {}
    <3>1. inflight' = inflight /\ hops' = [hops EXCEPT ![t] = hops[t]]
      BY <1>9, <2>2 DEF Refused
    <3>2. hops' = hops
      BY <3>1 DEF TableInv
    <3> QED BY <1>1, <1>3, <1>4, <2>1, <3>1, <3>2
  <2>3. CASE Mine(t) # {}
    <3>1. PICK p \in inflight : Mine(t) = {p} /\ p.ttl = t
      BY <1>6, <2>3
    <3>2. inflight' = inflight \ {p} /\ hops' = [hops EXCEPT ![t] = RolledBack(hops[t])]
      BY <1>9, <2>3, <3>1 DEF Refused
    <3> QED BY <1>1, <1>3, <1>4, <2>1, <3>1, <3>2
  <2> QED BY <2>2, <2>3
<1> QED BY <1>7, <1>8, <1>9 DEF Dialed

\* The rest of Run.
LEMMA EmitEffect ==
  ASSUME TypeInv, NEW cut \in 0 .. issued, Emit(cut)
  PROVE  /\ run.pc = "sweep" /\ run'.pc \in {"waiting", "closing"} /\ run' \in Runs
         /\ \A t \in TTLs : probe[t].pc = "idle"
         /\ inflight' \subseteq inflight /\ \A p \in inflight' : p.age <= Window
         /\ UNCHANGED <<portCursor, terminus, probe, tick, wire,
                     issued, sweeps, strayed>>
<1> DEFINE b == IF run.allFailed THEN run.bad + 1 ELSE 0
           pc == IF b > SendThreshold THEN "closing" ELSE "waiting"
<1>1. run.pc = "sweep" /\ \A t \in TTLs : probe[t].pc = "idle"
  BY DEF Emit
<1>2. b \in Nat /\ pc \in {"waiting", "closing"}
  BY DEF TypeInv, Runs
<1>3. run' = [pc |-> pc, allFailed |-> TRUE, bad |-> b]
  BY DEF Emit
<1> HIDE DEF b, pc
<1>4. run' \in Runs /\ run'.pc = pc
  BY <1>2, <1>3 DEF Runs
<1>5. /\ inflight' = inflight \ Expired(inflight, cut)
      /\ UNCHANGED <<portCursor, terminus, probe, tick, wire, issued, sweeps, strayed>>
  BY DEF Emit
<1>6. \A p \in inflight' : p \in inflight /\ p.age <= Window
  BY <1>5, BooksAssumption DEF Expired, TypeInv, Probes
<1> QED BY <1>1, <1>2, <1>4, <1>5, <1>6

LEMMA StartedEffect ==
  ASSUME NEW term \in 0 .. MaxHops, probe' = Started(term)
  PROVE  /\ probe' \in [TTLs -> Goroutines] /\ Holding' = {}
         /\ \A t \in TTLs : probe'[t].pc \in {"idle", "alloc"}
               /\ probe'[t].port = NoPort
<1>1. \A t \in TTLs :
        [NoProbe EXCEPT !.pc = IF t <= SweepLimit(term) THEN "alloc" ELSE "idle"]
          \in {g \in Goroutines : g.pc \in {"idle", "alloc"} /\ g.port = NoPort}
  BY NoProbeType DEF Goroutines
<1>2. probe' \in [TTLs -> Goroutines]
  BY <1>1 DEF Started
<1>3. \A t \in TTLs : probe'[t].pc \in {"idle", "alloc"} /\ probe'[t].port = NoPort
  BY <1>1 DEF Started
<1> QED BY <1>2, <1>3 DEF Holding

\* Steps that move neither goroutine nor table.
Pausing == SeeDone \/ UNCHANGED vars

LEMMA PausingEffect ==
  ASSUME TypeInv, Pausing
  PROVE  /\ run' \in Runs
         /\ (run'.pc = run.pc \/ (run.pc = "waiting" /\ run'.pc = "closing"))
         /\ UNCHANGED <<portCursor, inflight, hops, terminus, probe, tick, wire, issued,
                        sweeps, strayed>>
<1>1. CASE SeeDone
  <2>1. run.pc = "waiting" /\ run \in Runs /\ run' = [run EXCEPT !.pc = "closing"]
    BY <1>1 DEF SeeDone, TypeInv
  <2>2. run' \in Runs /\ run'.pc = "closing"
    BY <2>1 DEF Runs
  <2> QED BY <1>1, <2>1, <2>2 DEF SeeDone
<1>2. CASE UNCHANGED vars
  <2>1. UNCHANGED <<portCursor, inflight, hops, terminus, run, probe, tick, wire, issued,
                    sweeps, strayed>>
    BY <1>2 DEF vars
  <2>2. run' \in Runs /\ run'.pc = run.pc
    BY <2>1 DEF TypeInv
  <2> QED BY <2>1, <2>2
<1> QED BY <1>1, <1>2 DEF Pausing

LEMMA OlderType ==
  ASSUME NEW P \in SUBSET Probes, NEW q \in Older(P)
  PROVE  q \in Probes /\ \E p \in P :
           /\ q.port = p.port /\ q.ttl = p.ttl /\ q.id = p.id
           /\ q.age = IF p.age > Window THEN p.age ELSE p.age + 1
<1>1. PICK p \in P : q = [p EXCEPT !.age = IF @ > Window THEN @ ELSE @ + 1]
  BY DEF Older
<1>2. p \in Probes /\ p.age \in Nat
  BY DEF Probes
<1>3. PICK n \in Nat : n = IF p.age > Window THEN p.age ELSE p.age + 1
  BY <1>2
<1>4. q = [p EXCEPT !.age = n]
  BY <1>1, <1>3
<1>5. q \in Probes /\ q.port = p.port /\ q.ttl = p.ttl /\ q.id = p.id /\ q.age = n
  BY <1>2, <1>4 DEF Probes
<1> QED BY <1>3, <1>5

LEMMA TickEffect ==
  ASSUME TypeInv, Tick
  PROVE  /\ tick = FALSE /\ tick' = TRUE
         /\ \A t \in TTLs : probe[t].pc = "idle" \/ Dialing(t)
         /\ \A q \in inflight' : q \in Probes /\ \E p \in inflight :
              /\ q.port = p.port /\ q.ttl = p.ttl /\ q.id = p.id
              /\ q.age = IF p.age > Window THEN p.age ELSE p.age + 1
         /\ \A q \in wire' : q \in Probes /\ \E w \in wire :
              /\ q.port = w.port /\ q.ttl = w.ttl /\ q.id = w.id /\ q.age = w.age + 1
              /\ w.age < MaxDelay
         /\ UNCHANGED <<portCursor, hops, terminus, run, probe, issued, sweeps, strayed>>
<1>1. /\ tick = FALSE /\ tick' = TRUE
      /\ \A t \in TTLs : probe[t].pc = "idle" \/ Dialing(t)
      /\ inflight' = Older(inflight)
      /\ wire' = {[w EXCEPT !.age = @ + 1] : w \in {v \in wire : v.age < MaxDelay}}
      /\ UNCHANGED <<portCursor, hops, terminus, run, probe, issued, sweeps, strayed>>
  BY DEF Tick, TypeInv
<1>2. inflight \in SUBSET Probes /\ wire \subseteq Probes
  BY DEF TypeInv
<1>3. \A q \in inflight' : q \in Probes /\ \E p \in inflight :
        /\ q.port = p.port /\ q.ttl = p.ttl /\ q.id = p.id
        /\ q.age = IF p.age > Window THEN p.age ELSE p.age + 1
  BY <1>1, <1>2, OlderType
<1>4. ASSUME NEW q \in wire'
      PROVE  q \in Probes /\ \E w \in wire :
               /\ q.port = w.port /\ q.ttl = w.ttl /\ q.id = w.id /\ q.age = w.age + 1
               /\ w.age < MaxDelay
  <2>1. PICK w \in wire : w.age < MaxDelay /\ q = [w EXCEPT !.age = @ + 1]
    BY <1>1
  <2>2. w \in Probes /\ w.age + 1 \in Nat
    BY <1>2 DEF Probes
  <2>3. q \in Probes /\ q.port = w.port /\ q.ttl = w.ttl /\ q.id = w.id
        /\ q.age = w.age + 1
    BY <2>1, <2>2 DEF Probes
  <2> QED BY <2>1, <2>3
<1> QED BY <1>1, <1>3, <1>4

LEMMA FoldEffect ==
  ASSUME TypeInv, PlaceInv, TableInv, NEW m \in Messages, Fold(m)
  PROVE  /\ inflight' \subseteq inflight /\ m.about \in wire
         /\ strayed' = (strayed \/ \E p \in inflight : p.port = m.about.port
                                                       /\ p.id # m.about.id)
         /\ UNCHANGED <<portCursor, terminus, run, probe, tick, wire, issued, sweeps>>
         /\ \/ UNCHANGED <<inflight, hops>>
            \/ \E p \in inflight :
                 /\ inflight' = inflight \ {p}
                 /\ hops' = [hops EXCEPT ![p.ttl] = Recorded(hops[p.ttl])]
<1> DEFINE mine == {p \in inflight : p.port = m.about.port}
<1>1. /\ inflight' = inflight \ mine
      /\ hops' = [t \in TTLs |-> IF \E p \in mine : p.ttl = t THEN Recorded(hops[t])
                                                              ELSE hops[t]]
      /\ hops \in [TTLs -> Hops]
      /\ strayed' = (strayed \/ \E p \in mine : p.id # m.about.id)
      /\ UNCHANGED <<portCursor, terminus, run, probe, tick, wire, issued, sweeps>>
  BY DEF Fold, TableInv
<1>2. m.about \in wire
  <2>1. m.about.id # Foreign
    BY DEF Fold, ParseTCPReply
  <2> QED BY <2>1 DEF Messages
<1>3. CASE mine = {}
  <2>1. inflight' = inflight /\ hops' = hops
    BY <1>1, <1>3
  <2> QED BY <1>1, <1>2, <2>1
<1>4. CASE mine # {}
  <2>1. PICK p \in mine : TRUE
    BY <1>4
  <2>2. ASSUME NEW q \in mine PROVE q = p
    <3>1. q.id = p.id
      BY <2>1, <2>2 DEF PlaceInv
    <3> QED BY <2>1, <2>2, <3>1 DEF TableInv, Unique
  <2>3. mine = {p} /\ p \in inflight
    BY <2>1, <2>2
  <2>4. p.ttl \in TTLs
    BY <2>3 DEF TypeInv, Probes
  <2>5. strayed' = (strayed \/ \E q \in inflight : q.port = m.about.port
                                                   /\ q.id # m.about.id)
    BY <1>1
  <2>6. hops' = [t \in TTLs |-> IF p.ttl = t THEN Recorded(hops[t]) ELSE hops[t]]
    <3> HIDE DEF mine
    <3> QED BY <1>1, <2>3
  <2>7. hops' = [hops EXCEPT ![p.ttl] = Recorded(hops[p.ttl])]
    BY <1>1, <2>4, <2>6
  <2>8. inflight' = inflight \ {p}
    BY <1>1, <2>3
  <2> QED BY <1>1, <1>2, <2>3, <2>5, <2>7, <2>8
<1> QED BY <1>1, <1>2, <1>3, <1>4

LEMMA InitType == Init => TypeInv
<1> SUFFICES ASSUME Init PROVE TypeInv
  OBVIOUS
<1>1. 0 \in 0 .. MaxHops /\ 0 \in Ports
  BY RangeType
<1>2. probe \in [TTLs -> Goroutines]
  <2>1. probe = Started(0)
    BY DEF Init
  <2>2. \A t \in TTLs :
          [NoProbe EXCEPT !.pc =
            IF t <= SweepLimit(0) THEN "alloc" ELSE "idle"] \in Goroutines
    BY NoProbeType DEF Goroutines
  <2> QED BY <2>1, <2>2 DEF Started
<1>3. run \in Runs
  BY DEF Init, Sweeping, Runs
<1> QED BY <1>1, <1>2, <1>3 DEF Init, TypeInv

LEMMA NextType ==
  ASSUME WindowFits, TypeInv, HoldInv, PlaceInv, TableInv, [Next]_vars
  PROVE  TypeInv'
<1>1. ASSUME NEW t \in TTLs, Allocate(t) PROVE TypeInv'
  BY <1>1, AllocateEffect DEF TypeInv
<1>2. ASSUME NEW t \in TTLs,
      NEW start \in DialStarts \cup {"refused"}, Register(t, start)
      PROVE  TypeInv'
  <2>1. PICK p \in Probes :
          /\ p.age = 0 /\ inflight' = inflight \cup {p}
          /\ wire' \in {wire, wire \cup {p}}
    BY <1>2, RegisterEffect
  <2>2. /\ probe' \in [TTLs -> Goroutines] /\ run' \in Runs /\ issued' = issued + 1
        /\ UNCHANGED <<portCursor, terminus, tick, strayed>>
    BY <1>2, RegisterEffect
  <2>3. MaxDelay \in Nat /\ Window \in Nat
    BY BooksAssumption, TcpAssumption
  <2> QED BY <2>1, <2>2, <2>3 DEF TypeInv
<1>3. ASSUME NEW t \in TTLs, Dialed(t) PROVE TypeInv'
  <2>1. /\ probe' \in [TTLs -> Goroutines] /\ inflight' \subseteq inflight
        /\ terminus' \in 0 .. MaxHops
        /\ UNCHANGED <<portCursor, run, tick, wire, issued, strayed>>
    BY <1>3, DialedEffect
  <2> QED BY <2>1 DEF TypeInv
<1>4. ASSUME NEW cut \in 0 .. issued, Emit(cut) PROVE TypeInv'
  <2>1. /\ run' \in Runs /\ inflight' \subseteq inflight
        /\ UNCHANGED <<portCursor, terminus, probe, tick, wire, issued, strayed>>
    BY <1>4, EmitEffect
  <2> QED BY <2>1 DEF TypeInv
<1>5. CASE TakeTick
  <2>1. terminus \in 0 .. MaxHops /\ run.bad \in Nat
    BY DEF TypeInv, Runs
  <2>2. probe' \in [TTLs -> Goroutines]
    BY <1>5, <2>1, StartedEffect DEF TakeTick
  <2>3. run' \in Runs
    BY <1>5, <2>1 DEF TakeTick, Sweeping, Runs
  <2> QED BY <1>5, <2>2, <2>3 DEF TakeTick, TypeInv
<1>6. CASE Pausing
  BY <1>6, PausingEffect DEF TypeInv
<1>7. ASSUME NEW m \in Messages, Fold(m) PROVE TypeInv'
  <2>1. strayed' \in BOOLEAN
    BY <1>7 DEF Fold, TypeInv
  <2> QED BY <1>7, <2>1, FoldEffect DEF TypeInv
<1>8. CASE Tick
  <2>1. /\ \A q \in inflight' : q \in Probes /\ q.age <= Window + 1
        /\ \A q \in wire' : q \in Probes /\ q.age <= MaxDelay
    <3>1. Window \in Nat /\ MaxDelay \in Nat
      BY BooksAssumption, TcpAssumption
    <3>2. ASSUME NEW q \in inflight' PROVE q \in Probes /\ q.age <= Window + 1
      <4>1. PICK p \in inflight : q.age = IF p.age > Window THEN p.age ELSE p.age + 1
        BY <1>8, TickEffect
      <4>2. p.age \in Nat /\ p.age <= Window + 1
        BY DEF TypeInv, Probes
      <4> QED BY <1>8, <3>1, <4>1, <4>2, TickEffect
    <3>3. ASSUME NEW q \in wire' PROVE q \in Probes /\ q.age <= MaxDelay
      <4>1. PICK w \in wire : q.age = w.age + 1 /\ w.age < MaxDelay
        BY <1>8, TickEffect
      <4>2. w.age \in Nat
        BY DEF TypeInv, Probes
      <4> QED BY <1>8, <3>1, <4>1, <4>2, TickEffect
    <3> QED BY <3>2, <3>3
  <2> QED BY <1>8, <2>1, TickEffect DEF TypeInv
<1> QED BY <1>1, <1>2, <1>3, <1>4, <1>5, <1>6, <1>7, <1>8 DEF Next, Dialed, Pausing

-----------------------------------------------------------------------------
(* The ports the goroutines hold.                                          *)

LEMMA InitHold == Init => HoldInv
<1> SUFFICES ASSUME Init PROVE HoldInv
  OBVIOUS
<1>1. \A t \in TTLs : probe[t].pc \in {"idle", "alloc"} /\ probe[t].port = NoPort
  <2>1. probe = Started(0) /\ MaxHops \in Nat
    BY RangeType DEF Init
  <2> QED BY <2>1 DEF Started, NoProbe
<1>2. Holding = {}
  BY <1>1 DEF Holding
<1>3. run.pc = "sweep" /\ tick = FALSE
  BY DEF Init, Sweeping
<1> QED BY <1>1, <1>2, <1>3 DEF HoldInv

LEMMA NextHold ==
  ASSUME WindowFits, TypeInv, HoldInv, PlaceInv, TableInv, [Next]_vars
  PROVE  HoldInv'
<1>1. ASSUME NEW t \in TTLs, Allocate(t) PROVE HoldInv'
  <2>1. PICK n \in 1 .. MaxHops : n = Left
    BY <1>1, AllocateEffect
  <2>2. /\ Left' = n - 1 /\ tick' = FALSE /\ Holding' = Holding \cup {t}
        /\ \A u \in TTLs \ {t} : probe'[u] = probe[u]
        /\ probe[t].pc = "alloc"
        /\ probe'[t].pc = "register" /\ probe'[t].port = portCursor
        /\ run' = run /\ portCursor \in Ports
    BY <1>1, <2>1, AllocateEffect DEF TypeInv
  <2>3. t \notin Holding
    BY <2>2 DEF Holding
  <2>4. Behind(portCursor', probe'[t].port) = 1
    BY <1>1, <2>2, AllocateEffect
  <2>5. 1 <= MaxHops - Left'
    BY <2>1, <2>2, RangeType
  <2>6. ASSUME NEW u \in Holding
        PROVE  /\ u # t /\ probe'[u].port = probe[u].port /\ probe[u].port \in Ports
               /\ probe[u].port # portCursor
               /\ Behind(portCursor', probe'[u].port) <= MaxHops - Left'
    <3>1. u # t /\ u \in TTLs /\ probe'[u] = probe[u]
      BY <2>2, <2>3 DEF Holding
    <3>2. PICK q \in Ports : q = probe[u].port /\ Behind(portCursor, q) <= MaxHops - n
      BY <2>1 DEF HoldInv
    <3>3. q # portCursor /\ Behind(portCursor', q) = Behind(portCursor, q) + 1
      BY <1>1, <3>2, AllocateEffect
    <3>4. Behind(portCursor, q) \in 1 .. RangeSize
      BY <2>2, BehindRange
    <3>5. probe'[u].port = q
      BY <3>1, <3>2
    <3> QED BY <2>1, <2>2, <3>1, <3>2, <3>3, <3>4, <3>5, RangeType
  <2>7. \A u \in Holding' : probe'[u].port \in Ports
                            /\ Behind(portCursor', probe'[u].port) <= MaxHops - Left'
    <3>1. 1 <= MaxHops - Left'
      BY <2>5
    <3> QED BY <2>2, <2>4, <2>6, <3>1
  <2>8. \A u, v \in Holding' : probe'[u].port = probe'[v].port => u = v
    BY <2>2, <2>6 DEF HoldInv
  <2>9. \A u \in TTLs : probe'[u].pc \in {"idle", "alloc"} => probe'[u].port = NoPort
    BY <2>2 DEF HoldInv
  <2>10. run'.pc = "sweep"
    BY <2>2 DEF HoldInv, TypeInv, Runs
  <2> QED BY <2>2, <2>7, <2>8, <2>9, <2>10 DEF HoldInv
<1>2. ASSUME NEW t \in TTLs,
      NEW start \in DialStarts \cup {"refused"}, Register(t, start)
      PROVE  HoldInv'
  <2>1. /\ Left' = Left /\ Holding' = Holding /\ t \in Holding
        /\ \A u \in TTLs \ {t} : probe'[u] = probe[u]
        /\ probe'[t].pc = start /\ probe'[t].port = probe[t].port
        /\ start \in {"dialing", "unreachable", "refused"}
        /\ run'.pc = "sweep" /\ tick' = FALSE
        /\ portCursor' = portCursor
    BY <1>2, RegisterEffect
  <2>2. \A u \in TTLs : probe'[u].port = probe[u].port
    BY <2>1
  <2>4. \A u \in Holding' : probe'[u].port \in Ports
                            /\ Behind(portCursor', probe'[u].port) <= MaxHops - Left'
    <3> SUFFICES ASSUME NEW u \in Holding
                 PROVE  probe'[u].port \in Ports
                        /\ Behind(portCursor', probe'[u].port) <= MaxHops - Left'
      BY <2>1
    <3>1. u \in TTLs
      BY DEF Holding
    <3> QED BY <2>1, <2>2, <3>1 DEF HoldInv
  <2>5. \A u, v \in Holding' : probe'[u].port = probe'[v].port => u = v
    BY <2>1, <2>2 DEF HoldInv, Holding
  <2>6. \A u \in TTLs : probe'[u].pc \in {"idle", "alloc"} => probe'[u].port = NoPort
    BY <2>1 DEF HoldInv
  <2> QED BY <2>1, <2>4, <2>5, <2>6 DEF HoldInv
<1>3. ASSUME NEW t \in TTLs, Dialed(t) PROVE HoldInv'
  <2>1. /\ Left' = Left /\ Holding' = Holding \ {t}
        /\ \A u \in TTLs \ {t} : probe'[u] = probe[u]
        /\ probe'[t].pc = "idle" /\ probe'[t].port = NoPort
        /\ UNCHANGED <<portCursor, run, tick>>
    BY <1>3, DialedEffect, NoProbeType
  <2>2. \A u \in Holding' : probe'[u].port \in Ports
                            /\ Behind(portCursor', probe'[u].port) <= MaxHops - Left'
    <3> SUFFICES ASSUME NEW u \in Holding, u # t
                 PROVE  probe'[u].port \in Ports
                        /\ Behind(portCursor', probe'[u].port) <= MaxHops - Left'
      BY <2>1
    <3>1. probe'[u] = probe[u]
      BY <2>1 DEF Holding
    <3> QED BY <2>1, <3>1 DEF HoldInv
  <2>3. \A u, v \in Holding' : probe'[u].port = probe'[v].port => u = v
    BY <2>1 DEF HoldInv, Holding
  <2>4. \A u \in TTLs : probe'[u].pc \in {"idle", "alloc"} => probe'[u].port = NoPort
    BY <2>1 DEF HoldInv
  <2>5. tick' => \A u \in TTLs : probe'[u].pc = "idle" \/ Dialing(u)'
    BY <2>1 DEF HoldInv, Dialing
  <2>6. run'.pc # "sweep" => \A u \in TTLs : probe'[u].pc = "idle"
    BY <2>1 DEF HoldInv
  <2> QED BY <2>2, <2>3, <2>4, <2>5, <2>6 DEF HoldInv
<1>4. CASE UNCHANGED <<probe, portCursor>> /\ (tick' => tick \/ Tick)
             /\ (run'.pc # "sweep"
                   => run.pc # "sweep" \/ \A t \in TTLs : probe[t].pc = "idle")
  <2>1. Left' = Left /\ Holding' = Holding
    BY <1>4 DEF Left, Unallocated, Holding
  <2>2. tick' => \A t \in TTLs : probe'[t].pc = "idle" \/ Dialing(t)'
    BY <1>4 DEF HoldInv, Dialing, Tick
  <2>3. run'.pc # "sweep" => \A t \in TTLs : probe'[t].pc = "idle"
    BY <1>4 DEF HoldInv
  <2> QED BY <1>4, <2>1, <2>2, <2>3 DEF HoldInv
<1>5. CASE TakeTick
  <2>1. /\ Holding' = {} /\ \A t \in TTLs : probe'[t].port = NoPort
    BY <1>5, StartedEffect DEF TakeTick, TypeInv
  <2>2. tick' = FALSE /\ run'.pc = "sweep"
    BY <1>5 DEF TakeTick, Sweeping
  <2> QED BY <2>1, <2>2 DEF HoldInv
<1>6. CASE Pausing
  BY <1>4, <1>6, PausingEffect DEF HoldInv
<1>7. ASSUME NEW m \in Messages, Fold(m) PROVE HoldInv'
  BY <1>4, <1>7, FoldEffect
<1>8. ASSUME NEW cut \in 0 .. issued, Emit(cut) PROVE HoldInv'
  BY <1>4, <1>8, EmitEffect
<1>9. CASE Tick
  BY <1>4, <1>9, TickEffect
<1> QED BY <1>1, <1>2, <1>3, <1>5, <1>6, <1>7, <1>8, <1>9 DEF Next, Dialed, Pausing

-----------------------------------------------------------------------------
(* The ports in the table.                                                 *)

LEMMA InitPlace == Init => PlaceInv
<1> SUFFICES ASSUME Init PROVE PlaceInv
  OBVIOUS
<1>1. inflight = {} /\ run.pc = "sweep"
  BY DEF Init, Sweeping
<1> QED BY <1>1 DEF PlaceInv, Own

\* A probe is as far back as its age allows, a step later too, when one port was
\* handed out and one goroutine fewer waits for one.
LEMMA OneFurther ==
  ASSUME TypeInv, HoldInv, PlaceInv, WindowFits, NEW t \in TTLs, Allocate(t),
         NEW x \in Probes, x.port # portCursor,
         Behind(portCursor, x.port) <= Reach(x.age)
  PROVE  Behind(portCursor', x.port) <= Reach(x.age)'
<1>1. PICK n \in 1 .. MaxHops : n = Left
  BY AllocateEffect
<1>2. tick = FALSE /\ tick' = FALSE /\ Left' = n - 1
  BY <1>1, AllocateEffect
<1>3. PICK q \in Ports : q = x.port
  BY DEF Probes
<1>4. /\ Behind(portCursor', q) = Behind(portCursor, q) + 1
      /\ Behind(portCursor, q) \in 1 .. RangeSize
  BY <1>3, AllocateEffect, BehindRange DEF TypeInv
<1>5. PICK m \in Nat : m = MaxHops * (x.age + 1)
  BY RangeType, OneSweepMore DEF Probes
<1>6. Behind(portCursor, q) <= m - n
  BY <1>1, <1>2, <1>3, <1>5 DEF Reach
<1>7. Behind(portCursor', q) <= m - (n - 1)
  BY <1>1, <1>4, <1>6, RangeType
<1> QED BY <1>2, <1>3, <1>5, <1>7 DEF Reach

LEMMA AllocatePlace ==
  ASSUME TypeInv, HoldInv, PlaceInv, WindowFits, NEW t \in TTLs, Allocate(t)
  PROVE  PlaceInv'
<1>1. /\ tick = FALSE /\ UNCHANGED <<inflight, run, issued, tick>>
      /\ \A p \in inflight : p.port # portCursor
      /\ Holding' = Holding \cup {t} /\ probe[t].pc = "alloc"
      /\ \A u \in TTLs \ {t} : probe'[u] = probe[u]
      /\ probe'[t].pc = "register" /\ probe'[t].port = portCursor
  BY AllocateEffect
<1>2. \A p \in inflight : Behind(portCursor', p.port) <= Reach(p.age)'
  <2> SUFFICES ASSUME NEW p \in inflight
               PROVE  Behind(portCursor', p.port) <= Reach(p.age)'
    OBVIOUS
  <2>1. p \in Probes /\ p.port # portCursor
        /\ Behind(portCursor, p.port) <= Reach(p.age)
    BY <1>1 DEF PlaceInv, TypeInv
  <2> QED BY <2>1, OneFurther
<1>3. \A u \in Holding' : Own(u, inflight)'
  <2>1. Own(t, inflight)'
    BY <1>1 DEF Own
  <2>2. ASSUME NEW u \in Holding PROVE Own(u, inflight)'
    <3>1. u # t /\ u \in TTLs
      BY <1>1 DEF Holding
    <3>2. probe'[u] = probe[u] /\ inflight' = inflight /\ Own(u, inflight)
      BY <1>1, <3>1 DEF PlaceInv
    <3> QED BY <3>2 DEF Own
  <2> QED BY <1>1, <2>1, <2>2
<1> QED BY <1>1, <1>2, <1>3 DEF PlaceInv

LEMMA RegisterPlace ==
  ASSUME TypeInv, HoldInv, PlaceInv, WindowFits, NEW t \in TTLs,
         NEW start \in DialStarts \cup {"refused"}, Register(t, start)
  PROVE  PlaceInv'
<1>1. /\ tick = FALSE /\ tick' = FALSE /\ run.pc = "sweep" /\ run'.pc = "sweep"
      /\ Left' = Left /\ Holding' = Holding /\ t \in Holding /\ portCursor' = portCursor
      /\ \A u \in TTLs \ {t} : probe'[u] = probe[u]
      /\ probe'[t].pc # "register" /\ probe'[t].port = probe[t].port
      /\ probe'[t].id = issued
      /\ issued' = issued + 1 /\ issued \in Nat
  BY RegisterEffect DEF TypeInv
<1>2. PICK p \in Probes :
        /\ p.port = probe[t].port /\ p.ttl = t /\ p.id = issued /\ p.age = 0
        /\ inflight' = inflight \cup {p}
        /\ \A q \in inflight : q.id # p.id /\ q.port # p.port
  BY RegisterEffect
<1>3. \A x : Reach(x)' = Reach(x)
  BY <1>1 DEF Reach
<1>4. Behind(portCursor, p.port) <= Reach(p.age)
  <2>1. PICK n \in 0 .. MaxHops : n = Left
    BY LeftType
  <2>2. Reach(p.age) = MaxHops - n
    <3>1. MaxHops * (0 + 1) = MaxHops
      BY RangeType
    <3> QED BY <1>1, <1>2, <2>1, <3>1 DEF Reach
  <2> QED BY <1>1, <1>2, <2>1, <2>2 DEF HoldInv
<1>5. \A q \in inflight' : Behind(portCursor', q.port) <= Reach(q.age)'
  BY <1>1, <1>2, <1>3, <1>4 DEF PlaceInv
<1>6. \A q, r \in inflight' : q.port = r.port => q.id = r.id
  BY <1>2 DEF PlaceInv
<1>7. \A q \in inflight' : q.id < issued'
  <2>1. \A q \in inflight : q.id \in Nat /\ q.id < issued
    BY DEF PlaceInv, TypeInv, Probes
  <2> QED BY <1>1, <1>2, <2>1
<1>8. \A u \in Holding' : Own(u, inflight)'
  <2>1. Own(t, inflight)'
    BY <1>1, <1>2 DEF Own
  <2>2. ASSUME NEW u \in Holding, u # t PROVE Own(u, inflight)'
    <3>1. probe'[u] = probe[u] /\ Own(u, inflight)
      BY <1>1, <2>2 DEF PlaceInv, Holding
    <3>2. p.port # probe[u].port
      BY <1>1, <1>2, <2>2 DEF HoldInv
    <3> QED BY <1>2, <3>1, <3>2 DEF Own
  <2> QED BY <1>1, <2>1, <2>2
<1> QED BY <1>1, <1>5, <1>6, <1>7, <1>8 DEF PlaceInv

\* Fewer probes, fewer goroutines.
LEMMA LessPlace ==
  ASSUME TypeInv, PlaceInv, inflight' \subseteq inflight, Left' = Left,
         UNCHANGED <<portCursor, issued, tick>>,
         \A u \in Holding' : u \in Holding /\ probe'[u] = probe[u],
         \/ run'.pc = run.pc
         \/ run.pc = "waiting" /\ run'.pc = "closing"
         \/ run.pc = "sweep" /\ \A p \in inflight' : p.age \in Nat /\ p.age <= Window
  PROVE  PlaceInv'
<1>1. \A x : Reach(x)' = Reach(x)
  BY DEF Reach
<1>2. \A p \in inflight' : \/ tick' /\ run'.pc = "sweep" /\ p.age > Window
                           \/ Behind(portCursor', p.port) <= Reach(p.age)'
  <2> SUFFICES ASSUME NEW p \in inflight',
                      ~(tick' /\ run'.pc = "sweep" /\ p.age > Window)
               PROVE  Behind(portCursor', p.port) <= Reach(p.age)'
    OBVIOUS
  <2>1. p \in inflight /\ p.age \in Nat /\ Window \in Nat
    BY BooksAssumption DEF TypeInv, Probes
  <2>2. ~(tick /\ run.pc = "sweep" /\ p.age > Window)
    BY <2>1
  <2> QED BY <1>1, <2>1, <2>2 DEF PlaceInv
<1>3. \A u \in Holding' : Own(u, inflight)'
  <2> SUFFICES ASSUME NEW u \in Holding' PROVE Own(u, inflight)'
    OBVIOUS
  <2>1. probe'[u] = probe[u] /\ Own(u, inflight)
    BY DEF PlaceInv
  <2> QED BY <2>1 DEF Own
<1>4. (run'.pc # "sweep" /\ ~tick') => \A p \in inflight' : p.age <= Window
  BY DEF PlaceInv
<1>5. /\ \A p, q \in inflight' : p.port = q.port => p.id = q.id
      /\ \A p \in inflight' : p.id < issued'
  BY DEF PlaceInv
<1> QED BY <1>2, <1>3, <1>4, <1>5 DEF PlaceInv

LEMMA TakeTickPlace ==
  ASSUME TypeInv, HoldInv, PlaceInv, WindowFits, TakeTick
  PROVE  PlaceInv'
<1>1. /\ run.pc = "waiting" /\ tick = TRUE /\ tick' = FALSE /\ run'.pc = "sweep"
      /\ UNCHANGED <<portCursor, inflight, issued>>
  BY DEF TakeTick, Sweeping, TypeInv
<1>2. Holding' = {}
  BY StartedEffect DEF TakeTick, TypeInv
<1>3. PICK n \in 0 .. MaxHops : n = Left'
  <2>1. IsFiniteSet(Unallocated') /\ Cardinality(Unallocated') <= MaxHops
    <3>1. IsFiniteSet(TTLs) /\ Cardinality(TTLs) = MaxHops
      BY RangeType, FS_Interval DEF TTLs
    <3>2. Unallocated' \in SUBSET TTLs
      BY DEF Unallocated
    <3> QED BY <3>1, <3>2, FS_Subset
  <2> QED BY <2>1, FS_CardinalityType, RangeType DEF Left
<1>4. ASSUME NEW p \in inflight PROVE Behind(portCursor', p.port) <= Reach(p.age)'
  <2>1. p.age \in 0 .. Window + 1 /\ p.port \in Ports
    BY BooksAssumption DEF TypeInv, Probes
  <2>2. PICK m \in Nat : m = MaxHops * p.age /\ MaxHops * (p.age + 1) = m + MaxHops
    BY <2>1, WindowReach
  <2>3. Behind(portCursor, p.port) <= m
    BY <1>1, <2>2 DEF PlaceInv, Reach
  <2>4. Reach(p.age)' = (m + MaxHops) - n
    <3>1. Reach(p.age)' = MaxHops * (p.age + 1) - n
      BY <1>1, <1>3 DEF Reach
    <3> QED BY <2>2, <3>1
  <2>5. Behind(portCursor, p.port) \in 1 .. RangeSize
    BY <2>1, BehindRange DEF TypeInv
  <2> QED BY <1>1, <1>3, <2>2, <2>3, <2>4, <2>5, RangeType
<1> QED BY <1>1, <1>2, <1>4 DEF PlaceInv

LEMMA TickPlace ==
  ASSUME TypeInv, HoldInv, PlaceInv, WindowFits, Tick
  PROVE  PlaceInv'
<1>1. /\ tick = FALSE /\ tick' = TRUE /\ UNCHANGED <<portCursor, run, probe, issued>>
      /\ Window \in Nat
  BY TickEffect, BooksAssumption
<1>2. Left = 0
  <2>1. \A t \in TTLs : probe[t].pc # "alloc"
    BY TickEffect DEF Dialing
  <2>2. Unallocated = {}
    BY <2>1 DEF Unallocated
  <2> QED BY <2>2, FS_EmptySet DEF Left
<1>3. ASSUME NEW q \in inflight'
      PROVE  /\ \/ run.pc = "sweep" /\ q.age > Window
                \/ Behind(portCursor, q.port) <= MaxHops * q.age
             /\ q.id < issued
             /\ \E p \in inflight : q.port = p.port /\ q.ttl = p.ttl /\ q.id = p.id
  <2>1. PICK p \in inflight :
          /\ q.port = p.port /\ q.ttl = p.ttl /\ q.id = p.id
          /\ q.age = IF p.age > Window THEN p.age ELSE p.age + 1
    BY TickEffect
  <2>2. p.age \in 0 .. Window + 1 /\ p.id < issued
    BY <1>1 DEF TypeInv, Probes, PlaceInv
  <2>3. PICK m \in Nat : m = MaxHops * (p.age + 1)
    BY <2>2, WindowReach
  <2>4. Behind(portCursor, p.port) <= m
    BY <1>1, <1>2, <2>3 DEF PlaceInv, Reach
  <2>5. CASE p.age > Window
    <3>1. run.pc = "sweep"
      BY <1>1, <2>2, <2>5 DEF PlaceInv
    <3> QED BY <2>1, <2>2, <2>5, <3>1
  <2>6. CASE ~(p.age > Window)
    BY <2>1, <2>2, <2>3, <2>4, <2>6
  <2> QED BY <2>5, <2>6
<1>4. \A u \in Holding' : Own(u, inflight)'
  <2> SUFFICES ASSUME NEW u \in Holding' PROVE Own(u, inflight)'
    OBVIOUS
  <2>1. probe'[u] = probe[u] /\ Own(u, inflight)
    BY <1>1 DEF PlaceInv, Holding
  <2> QED BY <1>3, <2>1 DEF Own
<1>5. \A p, q \in inflight' : p.port = q.port => p.id = q.id
  BY <1>3 DEF PlaceInv
<1>6. \A q \in inflight' : \/ tick' /\ run'.pc = "sweep" /\ q.age > Window
                           \/ Behind(portCursor', q.port) <= Reach(q.age)'
  BY <1>1, <1>3 DEF Reach
<1> QED BY <1>1, <1>3, <1>4, <1>5, <1>6 DEF PlaceInv

LEMMA NextPlace ==
  ASSUME WindowFits, TypeInv, HoldInv, PlaceInv, TableInv, [Next]_vars
  PROVE  PlaceInv'
<1>1. ASSUME NEW t \in TTLs, Dialed(t) PROVE PlaceInv'
  <2>1. /\ Left' = Left /\ Holding' = Holding \ {t}
        /\ \A u \in TTLs \ {t} : probe'[u] = probe[u]
        /\ inflight' \subseteq inflight
        /\ UNCHANGED <<portCursor, run, tick, issued>>
    BY <1>1, DialedEffect
  <2>2. \A u \in Holding' : u \in Holding /\ probe'[u] = probe[u]
    BY <2>1 DEF Holding
  <2> QED BY <2>1, <2>2, LessPlace
<1>2. CASE UNCHANGED <<probe, portCursor, tick, issued>> /\ inflight' \subseteq inflight
           /\ \/ run'.pc = run.pc
              \/ run.pc = "waiting" /\ run'.pc = "closing"
              \/ run.pc = "sweep" /\ \A p \in inflight' : p.age \in Nat
                /\ p.age <= Window
  <2>1. Left' = Left /\ \A u \in Holding' : u \in Holding /\ probe'[u] = probe[u]
    BY <1>2 DEF Left, Unallocated, Holding
  <2> QED BY <1>2, <2>1, LessPlace
<1>3. ASSUME NEW cut \in 0 .. issued, Emit(cut) PROVE PlaceInv'
  <2>1. \A p \in inflight' : p.age \in Nat
    BY <1>3, EmitEffect DEF TypeInv, Probes
  <2> QED BY <1>2, <1>3, <2>1, EmitEffect
<1>4. CASE Pausing
  <2>1. /\ UNCHANGED <<probe, portCursor, tick, issued, inflight>>
        /\ (run'.pc = run.pc \/ (run.pc = "waiting" /\ run'.pc = "closing"))
    BY <1>4, PausingEffect
  <2> QED BY <1>2, <2>1
<1>5. ASSUME NEW m \in Messages, Fold(m) PROVE PlaceInv'
  BY <1>2, <1>5, FoldEffect
<1> QED BY <1>1, <1>3, <1>4, <1>5, AllocatePlace, RegisterPlace, TakeTickPlace, TickPlace
        DEF Next, Dialed, Pausing

-----------------------------------------------------------------------------
(* The ports of answers under way.                                         *)

\* An answer's port is nobody else's.
LEMMA InitWire == Init => WireInv
<1> SUFFICES ASSUME Init PROVE WireInv
  OBVIOUS
<1>1. wire = {} /\ inflight = {} /\ strayed = FALSE
  BY DEF Init
<1> QED BY <1>1 DEF WireInv, Own

LEMMA AllocateWire ==
  ASSUME TypeInv, HoldInv, PlaceInv, WireInv, WindowFits, DelayFits,
         NEW t \in TTLs, Allocate(t)
  PROVE  WireInv'
<1>1. /\ tick = FALSE /\ UNCHANGED <<inflight, wire, strayed>>
      /\ Holding' = Holding \cup {t} /\ probe[t].pc = "alloc"
      /\ \A u \in TTLs \ {t} : probe'[u] = probe[u]
      /\ probe'[t].pc = "register" /\ probe'[t].port = portCursor
  BY AllocateEffect
<1>2. ASSUME NEW w \in wire PROVE w.port # portCursor
  <2>1. w.age \in 0 .. MaxDelay /\ w.port \in Ports /\ portCursor \in Ports
    BY TcpAssumption DEF TypeInv, Probes
  <2>2. PICK n \in 1 .. MaxHops : n = Left
    BY AllocateEffect
  <2>3. PICK m \in Nat : m = MaxHops * (w.age + 1) /\ m <= RangeSize
    BY <2>1, DelayReach
  <2>4. Behind(portCursor, w.port) <= m - n
    BY <1>1, <2>2, <2>3 DEF WireInv, Reach
  <2> QED BY <2>1, <2>2, <2>3, <2>4, BehindRange, RangeType
<1>3. \A w \in wire : Behind(portCursor', w.port) <= Reach(w.age)'
  <2> SUFFICES ASSUME NEW w \in wire PROVE Behind(portCursor', w.port) <= Reach(w.age)'
    OBVIOUS
  <2>1. w \in Probes /\ Behind(portCursor, w.port) <= Reach(w.age)
    BY DEF WireInv, TypeInv
  <2> QED BY <1>2, <2>1, OneFurther
<1>4. \A u \in Holding' : Own(u, wire)'
  <2>1. Own(t, wire)'
    BY <1>1, <1>2 DEF Own
  <2>2. ASSUME NEW u \in Holding PROVE Own(u, wire)'
    <3>1. u # t /\ u \in TTLs
      BY <1>1 DEF Holding
    <3>2. probe'[u] = probe[u] /\ wire' = wire /\ Own(u, wire)
      BY <1>1, <3>1 DEF WireInv
    <3> QED BY <3>2 DEF Own
  <2> QED BY <1>1, <2>1, <2>2
<1> QED BY <1>1, <1>3, <1>4 DEF WireInv

LEMMA RegisterWire ==
  ASSUME TypeInv, HoldInv, PlaceInv, WireInv, NEW t \in TTLs,
         NEW start \in DialStarts \cup {"refused"}, Register(t, start)
  PROVE  WireInv'
<1>1. /\ tick = FALSE /\ tick' = FALSE /\ strayed' = strayed
      /\ Left' = Left /\ Holding' = Holding /\ t \in Holding /\ portCursor' = portCursor
      /\ \A u \in TTLs \ {t} : probe'[u] = probe[u]
      /\ probe'[t].pc # "register" /\ probe'[t].port = probe[t].port
      /\ probe'[t].id = issued
  BY RegisterEffect
<1>2. PICK p \in Probes :
        /\ p.port = probe[t].port /\ p.ttl = t /\ p.id = issued /\ p.age = 0
        /\ inflight' = inflight \cup {p} /\ wire' \in {wire, wire \cup {p}}
        /\ \A q \in inflight : q.id # p.id /\ q.port # p.port
  BY RegisterEffect
<1>3. \A x : Reach(x)' = Reach(x)
  BY <1>1 DEF Reach
<1>4. \A w \in wire : w.port # p.port
  <2>1. probe[t].pc = "register" /\ Own(t, wire)
    BY <1>1 DEF WireInv, Register
  <2> QED BY <1>2, <2>1 DEF Own
<1>5. Behind(portCursor, p.port) <= Reach(p.age)
  <2>1. PICK n \in 0 .. MaxHops : n = Left
    BY LeftType
  <2>2. Reach(p.age) = MaxHops - n
    <3>1. MaxHops * (0 + 1) = MaxHops
      BY RangeType
    <3> QED BY <1>1, <1>2, <2>1, <3>1 DEF Reach
  <2> QED BY <1>1, <1>2, <2>1, <2>2 DEF HoldInv
<1>6. \A w \in wire' : w \in wire \/ w = p
  BY <1>2
<1>7. \A w \in wire' : Behind(portCursor', w.port) <= Reach(w.age)'
  BY <1>1, <1>3, <1>5, <1>6 DEF WireInv
<1>8. \A w \in wire', q \in inflight' : w.port = q.port => w.id = q.id
  BY <1>2, <1>4, <1>6 DEF WireInv
<1>9. \A w \in wire' : w.id \in Nat
  BY <1>6 DEF WireInv, Probes
<1>10. \A u \in Holding' : Own(u, wire)'
  <2>1. Own(t, wire)'
    BY <1>1, <1>2, <1>4, <1>6 DEF Own
  <2>2. ASSUME NEW u \in Holding, u # t PROVE Own(u, wire)'
    <3>1. probe'[u] = probe[u] /\ Own(u, wire)
      BY <1>1, <2>2 DEF WireInv, Holding
    <3>2. p.port # probe[u].port
      BY <1>1, <1>2, <2>2 DEF HoldInv
    <3> QED BY <1>6, <3>1, <3>2 DEF Own
  <2> QED BY <1>1, <2>1, <2>2
<1> QED BY <1>1, <1>7, <1>8, <1>9, <1>10 DEF WireInv

LEMMA LessWire ==
  ASSUME WireInv, inflight' \subseteq inflight, Left' = Left, strayed' = strayed,
         UNCHANGED <<portCursor, wire, tick>>,
         \A u \in Holding' : u \in Holding /\ probe'[u] = probe[u]
  PROVE  WireInv'
<1>1. \A x : Reach(x)' = Reach(x)
  BY DEF Reach
<1>2. \A u \in Holding' : Own(u, wire)'
  <2> SUFFICES ASSUME NEW u \in Holding' PROVE Own(u, wire)'
    OBVIOUS
  <2>1. probe'[u] = probe[u] /\ Own(u, wire)
    BY DEF WireInv
  <2> QED BY <2>1 DEF Own
<1> QED BY <1>1, <1>2 DEF WireInv

LEMMA TakeTickWire ==
  ASSUME TypeInv, WireInv, DelayFits, TakeTick
  PROVE  WireInv'
<1>1. /\ tick = TRUE /\ tick' = FALSE
      /\ UNCHANGED <<portCursor, inflight, wire, strayed>>
  BY DEF TakeTick, TypeInv
<1>2. Holding' = {}
  BY StartedEffect DEF TakeTick, TypeInv
<1>3. PICK n \in 0 .. MaxHops : n = Left'
  <2>1. IsFiniteSet(Unallocated') /\ Cardinality(Unallocated') <= MaxHops
    <3>1. IsFiniteSet(TTLs) /\ Cardinality(TTLs) = MaxHops
      BY RangeType, FS_Interval DEF TTLs
    <3>2. Unallocated' \in SUBSET TTLs
      BY DEF Unallocated
    <3> QED BY <3>1, <3>2, FS_Subset
  <2> QED BY <2>1, FS_CardinalityType, RangeType DEF Left
<1>4. ASSUME NEW w \in wire PROVE Behind(portCursor', w.port) <= Reach(w.age)'
  <2>1. w.age \in 0 .. MaxDelay /\ w.port \in Ports
    BY TcpAssumption DEF TypeInv, Probes
  <2>2. PICK m \in Nat : m = MaxHops * w.age /\ MaxHops * (w.age + 1) = m + MaxHops
    BY <2>1, DelayReach
  <2>3. Behind(portCursor, w.port) <= m
    BY <1>1, <2>2 DEF WireInv, Reach
  <2>4. Reach(w.age)' = (m + MaxHops) - n
    <3>1. Reach(w.age)' = MaxHops * (w.age + 1) - n
      BY <1>1, <1>3 DEF Reach
    <3> QED BY <2>2, <3>1
  <2>5. Behind(portCursor, w.port) \in 1 .. RangeSize
    BY <2>1, BehindRange DEF TypeInv
  <2> QED BY <1>1, <1>3, <2>2, <2>3, <2>4, <2>5, RangeType
<1> QED BY <1>1, <1>2, <1>4 DEF WireInv

LEMMA TickWire ==
  ASSUME TypeInv, WireInv, Tick
  PROVE  WireInv'
<1>1. /\ tick = FALSE /\ tick' = TRUE /\ UNCHANGED <<portCursor, probe, strayed>>
  BY TickEffect
<1>2. Left = 0
  <2>1. \A t \in TTLs : probe[t].pc # "alloc"
    BY TickEffect DEF Dialing
  <2>2. Unallocated = {}
    BY <2>1 DEF Unallocated
  <2> QED BY <2>2, FS_EmptySet DEF Left
<1>3. ASSUME NEW q \in wire'
      PROVE  /\ Behind(portCursor', q.port) <= Reach(q.age)'
             /\ \E w \in wire : q.port = w.port /\ q.ttl = w.ttl /\ q.id = w.id
  <2>1. PICK w \in wire :
          q.port = w.port /\ q.ttl = w.ttl /\ q.id = w.id /\ q.age = w.age + 1
    BY TickEffect
  <2>2. PICK m \in Nat : m = MaxHops * (w.age + 1)
    BY RangeType, OneSweepMore DEF TypeInv, Probes
  <2>3. Behind(portCursor, w.port) <= m
    BY <1>1, <1>2, <2>2 DEF WireInv, Reach
  <2>4. Reach(q.age)' = m
    BY <1>1, <2>1, <2>2 DEF Reach
  <2> QED BY <1>1, <2>1, <2>3, <2>4
<1>4. \A q \in inflight' : \E p \in inflight : q.port = p.port /\ q.id = p.id
  BY TickEffect
<1>5. \A w \in wire', q \in inflight' : w.port = q.port => w.id = q.id
  BY <1>3, <1>4 DEF WireInv
<1>6. \A u \in Holding' : Own(u, wire)'
  <2> SUFFICES ASSUME NEW u \in Holding' PROVE Own(u, wire)'
    OBVIOUS
  <2>1. probe'[u] = probe[u] /\ Own(u, wire)
    BY <1>1 DEF WireInv, Holding
  <2> QED BY <1>3, <2>1 DEF Own
<1>7. \A w \in wire' : w.id \in Nat
  BY <1>3 DEF WireInv
<1> QED BY <1>1, <1>3, <1>5, <1>6, <1>7 DEF WireInv

LEMMA NextWire ==
  ASSUME WindowFits, DelayFits, TypeInv, HoldInv, PlaceInv, TableInv, WireInv, [Next]_vars
  PROVE  WireInv'
<1>1. ASSUME NEW t \in TTLs, Dialed(t) PROVE WireInv'
  <2>1. /\ Left' = Left /\ Holding' = Holding \ {t}
        /\ \A u \in TTLs \ {t} : probe'[u] = probe[u]
        /\ inflight' \subseteq inflight /\ strayed' = strayed
        /\ UNCHANGED <<portCursor, wire, tick>>
    BY <1>1, DialedEffect
  <2>2. \A u \in Holding' : u \in Holding /\ probe'[u] = probe[u]
    BY <2>1 DEF Holding
  <2> QED BY <2>1, <2>2, LessWire
<1>2. CASE /\ UNCHANGED <<probe, portCursor, tick, wire>>
           /\ inflight' \subseteq inflight
           /\ strayed' = strayed
  <2>1. Left' = Left /\ \A u \in Holding' : u \in Holding /\ probe'[u] = probe[u]
    BY <1>2 DEF Left, Unallocated, Holding
  <2> QED BY <1>2, <2>1, LessWire
<1>3. ASSUME NEW cut \in 0 .. issued, Emit(cut) PROVE WireInv'
  BY <1>2, <1>3, EmitEffect
<1>4. CASE Pausing
  <2>1. UNCHANGED <<probe, portCursor, tick, wire, inflight, strayed>>
    BY <1>4, PausingEffect
  <2> QED BY <1>2, <2>1
<1>5. ASSUME NEW m \in Messages, Fold(m) PROVE WireInv'
  <2>1. /\ inflight' \subseteq inflight /\ m.about \in wire
        /\ strayed' = (strayed \/ \E p \in inflight : p.port = m.about.port
                                                      /\ p.id # m.about.id)
        /\ UNCHANGED <<portCursor, probe, tick, wire>>
    BY <1>5, FoldEffect
  <2>2. ~\E p \in inflight : p.port = m.about.port /\ p.id # m.about.id
    BY <2>1 DEF WireInv
  <2>3. strayed' = strayed
    <3>1. strayed \in BOOLEAN
      BY DEF TypeInv
    <3> QED BY <2>1, <2>2, <3>1, Zenon
  <2> QED BY <1>2, <2>1, <2>3
<1> QED BY <1>1, <1>3, <1>4, <1>5, AllocateWire, RegisterWire, TakeTickWire, TickWire
        DEF Next, Dialed, Pausing

-----------------------------------------------------------------------------
(* The counters.                                                           *)

LEMMA InitTable == Init => TableInv
<1> SUFFICES ASSUME Init PROVE TableInv
  OBVIOUS
<1>1. NewHop \in Hops /\ NewHop.inflight = 0 /\ Lost(NewHop) = 0
  BY DEF NewHop, Hops, Lost
<1>2. inflight = {} /\ hops = [t \in TTLs |-> NewHop]
  BY DEF Init
<1>3. \A t : OfHop(inflight, t) = {}
  BY <1>2 DEF OfHop
<1> QED BY <1>1, <1>2, <1>3, FS_EmptySet DEF TableInv, Unique

LEMMA RegisterTable ==
  ASSUME TypeInv, HoldInv, PlaceInv, TableInv, NEW t \in TTLs,
         NEW start \in DialStarts \cup {"refused"}, Register(t, start)
  PROVE  TableInv'
<1>1. PICK p \in Probes :
        /\ p.ttl = t /\ p.id = issued
        /\ inflight' = inflight \cup {p}
        /\ \A q \in inflight : q.id # p.id /\ q.port # p.port
  BY RegisterEffect
<1>2. hops' = [hops EXCEPT ![t] = Registered(hops[t])]
  BY RegisterEffect
<1>3. /\ IsFiniteSet(inflight) /\ Unique(inflight) /\ hops \in [TTLs -> Hops]
      /\ p \notin inflight
  BY <1>1 DEF TableInv
<1>4. IsFiniteSet(inflight') /\ Unique(inflight')
  BY <1>1, <1>3, FS_AddElement DEF Unique
<1>5. Registered(hops[t]) \in Hops
  BY <1>3, RegisteredStep
<1>6. hops' \in [TTLs -> Hops]
  BY <1>2, <1>3, <1>5
<1>7. ASSUME NEW u \in TTLs
      PROVE  hops'[u].inflight = Cardinality(OfHop(inflight', u)) /\ Lost(hops'[u]) >= 0
  <2>1. /\ Cardinality(OfHop(inflight', u)) =
             Cardinality(OfHop(inflight, u)) + (IF p.ttl = u THEN 1 ELSE 0)
        /\ Cardinality(OfHop(inflight, u)) \in Nat
    BY <1>1, <1>3, OfHopWith, OfHopFinite
  <2>2. /\ hops[u] \in Hops /\ hops[u].inflight = Cardinality(OfHop(inflight, u))
        /\ Lost(hops[u]) >= 0
    BY <1>3 DEF TableInv
  <2>3. hops'[u] = IF p.ttl = u THEN Registered(hops[u]) ELSE hops[u]
    BY <1>1, <1>2, <1>3
  <2>4. /\ Registered(hops[u]).inflight = hops[u].inflight + 1
        /\ Lost(Registered(hops[u])) = Lost(hops[u]) /\ hops[u].inflight \in Int
    BY <2>2, RegisteredStep DEF Hops
  <2>5. PICK c \in Nat : c = Cardinality(OfHop(inflight, u))
    BY <2>1
  <2> QED BY <2>1, <2>2, <2>3, <2>4, <2>5
<1> QED BY <1>4, <1>6, <1>7 DEF TableInv

\* One probe leaves the table, answered or taken back.
LEMMA OneOut ==
  ASSUME TypeInv, TableInv, NEW p \in inflight, inflight' = inflight \ {p},
         \/ hops' = [hops EXCEPT ![p.ttl] = Recorded(hops[p.ttl])]
         \/ hops' = [hops EXCEPT ![p.ttl] = RolledBack(hops[p.ttl])]
  PROVE  TableInv'
<1>1. IsFiniteSet(inflight) /\ Unique(inflight) /\ hops \in [TTLs -> Hops]
      /\ p.ttl \in TTLs
  BY DEF TableInv, TypeInv, Probes
<1>2. PICK h \in Hops :
        /\ hops' = [hops EXCEPT ![p.ttl] = h]
        /\ h.inflight = hops[p.ttl].inflight - 1 /\ Lost(h) = Lost(hops[p.ttl])
  <2>1. hops[p.ttl] \in Hops
    BY <1>1
  <2>2. CASE hops' = [hops EXCEPT ![p.ttl] = Recorded(hops[p.ttl])]
    BY <2>1, <2>2, RecordedStep
  <2>3. CASE hops' = [hops EXCEPT ![p.ttl] = RolledBack(hops[p.ttl])]
    BY <2>1, <2>3, RolledBackStep
  <2> QED BY <2>2, <2>3
<1>3. /\ IsFiniteSet(inflight') /\ Unique(inflight') /\ p \notin inflight'
      /\ inflight = inflight' \cup {p}
  BY <1>1, FS_RemoveElement DEF Unique
<1>4. hops' \in [TTLs -> Hops]
  BY <1>1, <1>2
<1>5. ASSUME NEW u \in TTLs
      PROVE  hops'[u].inflight = Cardinality(OfHop(inflight', u)) /\ Lost(hops'[u]) >= 0
  <2>1. /\ Cardinality(OfHop(inflight, u)) =
             Cardinality(OfHop(inflight', u)) + (IF p.ttl = u THEN 1 ELSE 0)
        /\ Cardinality(OfHop(inflight', u)) \in Nat
    BY <1>3, OfHopWith, OfHopFinite
  <2>2. /\ hops[u].inflight = Cardinality(OfHop(inflight, u)) /\ Lost(hops[u]) >= 0
    BY DEF TableInv
  <2>3. hops'[u] = IF p.ttl = u THEN h ELSE hops[u]
    BY <1>1, <1>2
  <2>4. PICK c \in Nat : c = Cardinality(OfHop(inflight', u))
    BY <2>1
  <2>5. CASE p.ttl = u
    BY <1>2, <2>1, <2>2, <2>3, <2>4, <2>5
  <2>6. CASE p.ttl # u
    BY <2>1, <2>2, <2>3, <2>4, <2>6
  <2> QED BY <2>5, <2>6
<1> QED BY <1>3, <1>4, <1>5 DEF TableInv

LEMMA EmitTable ==
  ASSUME TypeInv, TableInv, NEW cut \in 0 .. issued, Emit(cut)
  PROVE  TableInv'
<1>1. PICK gone \in SUBSET inflight :
        /\ gone = Expired(inflight, cut)
        /\ inflight' = inflight \ gone /\ hops' = AfterPrune(hops, gone)
  BY DEF Emit, Expired
<1>2. IsFiniteSet(inflight) /\ Unique(inflight) /\ hops \in [TTLs -> Hops]
  BY DEF TableInv
<1>3. IsFiniteSet(inflight') /\ Unique(inflight') /\ IsFiniteSet(gone)
  BY <1>1, <1>2, FS_Subset DEF Unique
<1>4. \A t \in TTLs : hops'[t] = GivenUp(hops[t], Cardinality(OfHop(gone, t)))
  BY <1>1 DEF AfterPrune, OfHop
<1>5. \A t : Cardinality(OfHop(gone, t)) \in Nat
  BY <1>3, OfHopFinite
<1> HIDE DEF OfHop, Hops
<1>6. ASSUME NEW t \in TTLs PROVE hops'[t] \in Hops
  <2>1. hops[t] \in Hops
    BY <1>2
  <2>2. PICK n \in Nat : n = Cardinality(OfHop(gone, t))
    BY <1>5
  <2>3. GivenUp(hops[t], n) \in Hops
    BY <2>1, <2>2, GivenUpStep
  <2> QED BY <1>4, <2>2, <2>3
<1>7. hops' \in [TTLs -> Hops]
  <2>1. hops' = [t \in TTLs |-> hops'[t]]
    BY <1>1 DEF AfterPrune
  <2> HIDE DEF Hops
  <2> QED BY <1>6, <2>1
<1>8. ASSUME NEW t \in TTLs
      PROVE  hops'[t].inflight = Cardinality(OfHop(inflight', t)) /\ Lost(hops'[t]) >= 0
  <2>1. Cardinality(OfHop(inflight', t)) =
          Cardinality(OfHop(inflight, t)) - Cardinality(OfHop(gone, t))
    BY <1>1, <1>2, OfHopWithout
  <2>2. /\ hops[t] \in Hops /\ hops[t].inflight = Cardinality(OfHop(inflight, t))
        /\ Lost(hops[t]) >= 0
    BY <1>2 DEF TableInv
  <2>3. PICK n \in Nat : n = Cardinality(OfHop(gone, t))
    BY <1>5
  <2>4. /\ GivenUp(hops[t], n).inflight = hops[t].inflight - n
        /\ Lost(GivenUp(hops[t], n)) = Lost(hops[t]) + n /\ Lost(hops[t]) \in Int
    BY <2>2, <2>3, GivenUpStep
  <2> QED BY <1>4, <2>1, <2>2, <2>3, <2>4
<1> QED BY <1>3, <1>7, <1>8 DEF TableInv

LEMMA NextTable ==
  ASSUME WindowFits, TypeInv, HoldInv, PlaceInv, TableInv, [Next]_vars
  PROVE  TableInv'
<1>1. CASE UNCHANGED <<inflight, hops>>
  BY <1>1 DEF TableInv
<1>2. ASSUME NEW t \in TTLs, Dialed(t) PROVE TableInv'
  <2>1. CASE UNCHANGED <<inflight, hops>>
    BY <1>1, <2>1
  <2>2. CASE \E p \in inflight :
               /\ inflight' = inflight \ {p} /\ p.ttl = t
               /\ \/ hops' = [hops EXCEPT ![t] = Recorded(hops[t])]
                  \/ hops' = [hops EXCEPT ![t] = RolledBack(hops[t])]
    BY <2>2, OneOut
  <2> QED BY <1>2, <2>1, <2>2, DialedEffect
<1>3. ASSUME NEW m \in Messages, Fold(m) PROVE TableInv'
  BY <1>1, <1>3, FoldEffect, OneOut
<1>4. CASE Tick
  <2>1. inflight' = Older(inflight) /\ hops' = hops
    BY <1>4 DEF Tick
  <2>2. inflight \in SUBSET Probes /\ IsFiniteSet(inflight) /\ Unique(inflight)
    BY DEF TypeInv, TableInv
  <2>3. /\ IsFiniteSet(inflight') /\ Unique(inflight')
        /\ \A t : Cardinality(OfHop(inflight', t)) = Cardinality(OfHop(inflight, t))
    BY <2>1, <2>2, OlderCounts
  <2> QED BY <2>1, <2>3 DEF TableInv
<1>5. ASSUME NEW t \in TTLs, Allocate(t) PROVE TableInv'
  BY <1>1, <1>5, AllocateEffect
<1>6. CASE TakeTick \/ Pausing
  BY <1>1, <1>6, PausingEffect DEF TakeTick
<1> QED BY <1>2, <1>3, <1>4, <1>5, <1>6, RegisterTable, EmitTable
        DEF Next, Dialed, Pausing

-----------------------------------------------------------------------------
(* What follows.                                                           *)

BooksInv == TypeInv /\ HoldInv /\ PlaceInv /\ TableInv

LEMMA InitBooks == Init => BooksInv
BY InitType, InitHold, InitPlace, InitTable DEF BooksInv

LEMMA NextBooks == WindowFits /\ BooksInv /\ [Next]_vars => BooksInv'
BY NextType, NextHold, NextPlace, NextTable DEF BooksInv

\* probe_tcp_unix.go:282-286: when the range covers the settle window and two
\* sweeps more, as at the usual interval, no registration overwrites another, so
\* a hop awaits as many answers as it has probes in the table, for any number of
\* hops and any window.  (With less room it may not: MCTcpPortReuse.cfg.)
THEOREM TableMatches == ASSUME WindowFits PROVE Spec => []InflightMatchesTable
<1>1. BooksInv => InflightMatchesTable
  BY DEF BooksInv, TableInv, InflightMatchesTable, OfHop
<1> QED BY <1>1, InitBooks, NextBooks, PTL DEF Spec

\* Goroutines between taking a port and registering it.
Registering == {t \in TTLs : probe[t].pc = "register"}
Free == {q \in Ports : ~Busy(q)}

LEMMA LastOfInterval ==
  ASSUME NEW k \in Nat, NEW n \in 0 .. k
  PROVE  IsFiniteSet(k - n + 1 .. k) /\ Cardinality(k - n + 1 .. k) = n
<1>1. PICK a \in Int : a = k - n + 1
  OBVIOUS
<1>2. IsFiniteSet(a .. k) /\ Cardinality(a .. k) = IF a > k THEN 0 ELSE k - a + 1
  BY FS_Interval
<1>3. (IF a > k THEN 0 ELSE k - a + 1) = n
  BY <1>1
<1> QED BY <1>1, <1>2, <1>3

LEMMA DisjointUnion ==
  ASSUME NEW S, IsFiniteSet(S), NEW T, IsFiniteSet(T), S \cap T = {}
  PROVE  Cardinality(S \cup T) = Cardinality(S) + Cardinality(T)
<1>1. PICK a \in Nat : a = Cardinality(S)
  BY FS_CardinalityType
<1>2. PICK b \in Nat : b = Cardinality(T)
  BY FS_CardinalityType
<1>3. Cardinality(S \cup T) = Cardinality(S) + Cardinality(T) - Cardinality(S \cap T)
  BY FS_Union
<1>4. Cardinality(S \cap T) = 0
  BY FS_EmptySet
<1> QED BY <1>1, <1>2, <1>3, <1>4

\* The ports the cursor comes to next, and those taken but not registered, are
\* as many as the goroutines still without an entry.
LEMMA EnoughPorts ==
  ASSUME WindowFits, BooksInv
  PROVE  Cardinality(Free)
         >= Cardinality({t \in TTLs : probe[t].pc \in {"alloc", "register"}})
<1> DEFINE waiting == {t \in TTLs : probe[t].pc \in {"alloc", "register"}}
<1>1. IsFiniteSet(Free) /\ Cardinality(Free) \in Nat
  <2>1. IsFiniteSet(Ports)
    BY RangeType, FS_Interval
  <2>2. Free \in SUBSET Ports
    BY DEF Free
  <2> QED BY <2>1, <2>2, FS_Subset, FS_CardinalityType
<1>2. IsFiniteSet(TTLs)
  BY RangeType, FS_Interval DEF TTLs
<1>3. CASE waiting = {}
  <2>1. Cardinality(waiting) = 0
    BY <1>3, FS_EmptySet
  <2> QED BY <1>1, <2>1
<1>4. CASE waiting # {}
  <2>1. tick = FALSE
    BY <1>4 DEF BooksInv, HoldInv, TypeInv, Dialing
  <2>2. PICK n \in 0 .. MaxHops : n = Left
    BY LeftType
  <2> DEFINE fresh == {q \in Ports : Behind(portCursor, q) > RangeSize - n}
             taken == {probe[t].port : t \in Registering}
  <2>3. portCursor \in Ports
    BY DEF BooksInv, TypeInv
  <2>4. IsFiniteSet(fresh) /\ Cardinality(fresh) = n
    <3> DEFINE far == RangeSize - n + 1 .. RangeSize
               back(d) == IF d <= portCursor THEN portCursor - d
                                             ELSE portCursor - d + RangeSize
               f == [d \in far |-> back(d)]
    <3>1. \A d \in far : back(d) \in Ports /\ Behind(portCursor, back(d)) = d
      BY <2>2, <2>3, RangeType DEF Behind
    <3>2. \A q \in fresh : Behind(portCursor, q) \in far
          /\ back(Behind(portCursor, q)) = q
      BY <2>2, <2>3, RangeType DEF Behind
    <3>3. \A d \in far : back(d) \in fresh
      BY <2>2, <3>1, RangeType
    <3>4. IsFiniteSet(far) /\ Cardinality(far) = n
      <4>1. n \in 0 .. RangeSize
        BY <2>2, RangeType
      <4> QED BY <4>1, RangeType, LastOfInterval
    <3> HIDE DEF far, back, fresh
    <3>5. f \in [far -> fresh]
      BY <3>3
    <3>6. \A c, d \in far : f[c] = f[d] => c = d
      BY <3>1
    <3>7. \A q \in fresh : \E d \in far : f[d] = q
      BY <3>2
    <3> HIDE DEF f
    <3>8. ExistsBijection(far, fresh)
      BY <3>5, <3>6, <3>7, Fun_IsBij, Fun_ExistsBij
    <3> QED BY <3>4, <3>8, FS_Bijection
  <2>5. IsFiniteSet(Registering)
    <3>1. Registering \in SUBSET TTLs
      BY DEF Registering
    <3> QED BY <1>2, <3>1, FS_Subset
  <2>6. IsFiniteSet(taken) /\ Cardinality(taken) = Cardinality(Registering)
    <3> DEFINE f == [t \in Registering |-> probe[t].port]
    <3>1. Registering \subseteq Holding
      BY DEF Registering, Holding
    <3>2. f \in [Registering -> taken]
      OBVIOUS
    <3>3. \A t, u \in Registering : f[t] = f[u] => t = u
      BY <3>1 DEF BooksInv, HoldInv
    <3>4. \A q \in taken : \E t \in Registering : f[t] = q
      OBVIOUS
    <3> HIDE DEF f, taken
    <3>5. ExistsBijection(Registering, taken)
      BY <3>2, <3>3, <3>4, Fun_IsBij, Fun_ExistsBij
    <3> QED BY <2>5, <3>5, FS_Bijection
  <2>7. fresh \subseteq Free
    <3> SUFFICES ASSUME NEW q \in fresh, Busy(q) PROVE FALSE
      BY DEF Free
    <3>1. PICK p \in inflight : p.port = q
      BY DEF Busy
    <3>2. p.age \in 0 .. Window + 1
      BY BooksAssumption DEF BooksInv, TypeInv, Probes
    <3>3. PICK m \in Nat : m = MaxHops * (p.age + 1) /\ m <= RangeSize
      BY <3>2, WindowReach
    <3>4. Behind(portCursor, q) <= m - n
      BY <2>1, <2>2, <3>1, <3>3 DEF BooksInv, PlaceInv, Reach
    <3>5. Behind(portCursor, q) \in 1 .. RangeSize
      BY <2>3, BehindRange
    <3> QED BY <2>2, <3>3, <3>4, <3>5, RangeType
  <2>8. taken \subseteq Free
    <3> SUFFICES ASSUME NEW t \in Registering PROVE probe[t].port \in Free
      OBVIOUS
    <3>1. t \in Holding /\ probe[t].pc = "register"
      BY DEF Registering, Holding
    <3> QED BY <3>1 DEF BooksInv, HoldInv, PlaceInv, Own, Free, Busy
  <2>9. fresh \cap taken = {}
    <3> SUFFICES ASSUME NEW t \in Registering, probe[t].port \in fresh PROVE FALSE
      OBVIOUS
    <3>1. PICK q \in Ports : q = probe[t].port
      OBVIOUS
    <3>2. Behind(portCursor, q) <= MaxHops - n
      BY <2>2, <3>1 DEF BooksInv, HoldInv, Registering, Holding
    <3>3. Behind(portCursor, q) \in 1 .. RangeSize
      BY <2>3, BehindRange
    <3> QED BY <2>2, <3>1, <3>2, <3>3, RangeType
  <2>10. Cardinality(waiting) = n + Cardinality(Registering)
    <3>1. waiting = Unallocated \cup Registering /\ Unallocated \cap Registering = {}
      BY DEF Unallocated, Registering
    <3>2. IsFiniteSet(Unallocated)
      <4>1. Unallocated \in SUBSET TTLs
        BY DEF Unallocated
      <4> QED BY <1>2, <4>1, FS_Subset
    <3> HIDE DEF waiting
    <3> QED BY <2>2, <2>5, <3>1, <3>2, DisjointUnion DEF Left
  <2> HIDE DEF fresh, taken
  <2>11. Cardinality(fresh \cup taken) = n + Cardinality(Registering)
    BY <2>4, <2>5, <2>6, <2>9, DisjointUnion
  <2>12. Cardinality(fresh \cup taken) <= Cardinality(Free)
    BY <1>1, <2>7, <2>8, FS_Subset
  <2> HIDE DEF waiting
  <2>13. Cardinality(fresh \cup taken) = Cardinality(waiting)
    BY <2>10, <2>11
  <2>14. Cardinality(waiting) <= Cardinality(Free)
    BY <2>12, <2>13
  <2> QED BY <1>1, <2>5, <2>10, <2>14, FS_CardinalityType DEF waiting
<1> QED BY <1>3, <1>4

LEMMA TableIsWellFormed == BooksInv => TypeOK
<1> SUFFICES ASSUME BooksInv PROVE TypeOK
  OBVIOUS
<1>1. \A t \in TTLs : Lost(hops[t]) >= 0 /\ hops[t].inflight >= 0
  <2> SUFFICES ASSUME NEW t \in TTLs PROVE Lost(hops[t]) >= 0 /\ hops[t].inflight >= 0
    OBVIOUS
  <2>1. Cardinality(OfHop(inflight, t)) \in Nat
    BY OfHopFinite DEF BooksInv, TableInv
  <2> QED BY <2>1 DEF BooksInv, TableInv
<1>2. \A p, q \in inflight : p.port = q.port => p = q
  BY DEF BooksInv, PlaceInv, TableInv, Unique
<1> QED BY <1>1, <1>2 DEF TypeOK, BooksInv, TypeInv

\* probe_tcp_unix.go:86-107, 280-288, 532-552: for any number of hops and any
\* window, when the range covers the window and two sweeps more and no answer is
\* as late as the range is long, every goroutine finds a slot, no two hold the
\* same one, and every answer is booked for its own probe.
THEOREM PortsSuffice ==
  ASSUME WindowFits, DelayFits
  PROVE  Spec => []RangeSuffices
<1> DEFINE Inv == BooksInv /\ WireInv
<1>1. Init => Inv
  BY InitBooks, InitWire
<1>2. Inv /\ [Next]_vars => Inv'
  BY NextBooks, NextWire DEF BooksInv
<1>3. Inv => RangeSuffices
  <2> SUFFICES ASSUME Inv PROVE RangeSuffices
    OBVIOUS
  <2>1. TypeOK
    BY TableIsWellFormed
  <2>2. \A t, u \in TTLs :
          t # u /\ probe[t].port = probe[u].port => probe[t].port = NoPort
    BY RangeType DEF BooksInv, HoldInv, Holding
  <2>3. ~strayed
    BY DEF WireInv
  <2> QED BY <2>1, <2>2, <2>3, EnoughPorts DEF RangeSuffices, Free
<1> HIDE DEF Inv
<1> QED BY <1>1, <1>2, <1>3, PTL DEF Spec

-----------------------------------------------------------------------------
(* The table implements HopLedger.                                         *)

Seen(p) == [id |-> p.id, ttl |-> p.ttl, age |-> p.age]
Open(P) == {Seen(p) : p \in P}
Sent == [t \in TTLs |-> hops[t].sent]
Recv == [t \in TTLs |-> hops[t].recv]
LostOf == [t \in TTLs |-> Lost(hops[t])]

\* Both modules take Cardinality from FiniteSets.
LEMMA SameCardinality == \A S : Ledger!Cardinality(S) = Cardinality(S)
BY DEF Ledger!Cardinality, Cardinality

\* One probe counts once, for its own hop.
LEMMA PlusOne ==
  ASSUME NEW f, NEW q
  PROVE  Ledger!Plus(f, {q}) = [t \in TTLs |-> f[t] + (IF q.ttl = t THEN 1 ELSE 0)]
<1> SUFFICES ASSUME NEW t \in TTLs
             PROVE  Cardinality({p \in {q} : p.ttl = t}) = IF q.ttl = t THEN 1 ELSE 0
  BY SameCardinality DEF Ledger!Plus
<1>1. CASE q.ttl = t
  <2>1. {p \in {q} : p.ttl = t} = {q}
    BY <1>1
  <2> QED BY <1>1, <2>1, FS_Singleton
<1>2. CASE q.ttl # t
  <2>1. {p \in {q} : p.ttl = t} = {}
    BY <1>2
  <2> QED BY <1>2, <2>1, FS_EmptySet
<1> QED BY <1>1, <1>2

\* What the ledger sees of some probes counts as they do.
LEMMA SeenCounts ==
  ASSUME NEW P, IsFiniteSet(P), Unique(P), NEW t
  PROVE  Cardinality({q \in Open(P) : q.ttl = t}) = Cardinality(OfHop(P, t))
<1>1. IsFiniteSet(OfHop(P, t))
  BY OfHopFinite
<1>2. Unique(OfHop(P, t)) /\ Unique({q \in Open(P) : q.ttl = t})
  BY DEF Unique, OfHop, Open, Seen
<1>3. Ids(OfHop(P, t)) = Ids({q \in Open(P) : q.ttl = t})
  <2>1. \A p : Seen(p).id = p.id /\ Seen(p).ttl = p.ttl
    BY DEF Seen
  <2>2. {q \in Open(P) : q.ttl = t} = {Seen(p) : p \in OfHop(P, t)}
    <3> HIDE DEF Seen
    <3> QED BY <2>1 DEF Open, OfHop
  <2> HIDE DEF Seen, OfHop
  <2> QED BY <2>1, <2>2 DEF Ids
<1> QED BY <1>1, <1>2, <1>3, SameIdsSameCount

\* Taking probes out of the table takes them out of the ledger.
LEMMA OpenWithout ==
  ASSUME NEW P, Unique(P), NEW Q \in SUBSET P
  PROVE  Open(P \ Q) = Open(P) \ Open(Q) /\ Open(P) \ Open(P \ Q) = Open(Q)
<1>1. ASSUME NEW x \in P, NEW y \in P, Seen(x) = Seen(y) PROVE x = y
  <2>1. x.id = y.id
    BY <1>1 DEF Seen
  <2> QED BY <2>1 DEF Unique
<1> HIDE DEF Seen
<1> QED BY <1>1 DEF Open

LEMMA RegisterMaps ==
  ASSUME TypeInv, HoldInv, PlaceInv, TableInv, NEW t \in TTLs,
         NEW start \in DialStarts \cup {"refused"}, Register(t, start)
  PROVE  Ledger!Send
<1>1. PICK p \in Probes :
        /\ p = [port |-> probe[t].port, ttl |-> t, id |-> issued, age |-> 0]
        /\ p.ttl = t /\ p.id = issued /\ p.age = 0
        /\ inflight' = inflight \cup {p}
        /\ \A q \in inflight : q.id # p.id /\ q.port # p.port
  BY RegisterEffect
<1>2. hops' = [hops EXCEPT ![t] = Registered(hops[t])]
  BY RegisterEffect
<1>3. PICK q : q = [id |-> issued, ttl |-> t, age |-> 0]
  OBVIOUS
<1>4. Open(inflight)' = Open(inflight) \cup {q}
  <2>1. Seen(p) = q
    BY <1>1, <1>3 DEF Seen
  <2> HIDE DEF Seen
  <2> QED BY <1>1, <2>1 DEF Open
<1>5. \A x \in Open(inflight) : x.id # q.id
  BY <1>1, <1>3 DEF Open, Seen
<1>6. q.age = 0 /\ q.ttl = t /\ q \in Open(inflight)' \ Open(inflight)
  BY <1>3, <1>4, <1>5
<1>7. hops \in [TTLs -> Hops]
  BY DEF TableInv
<1>8. ASSUME NEW u \in TTLs
      PROVE  /\ hops'[u].sent = hops[u].sent + (IF t = u THEN 1 ELSE 0)
             /\ hops'[u].recv = hops[u].recv /\ Lost(hops'[u]) = Lost(hops[u])
  <2>1. hops'[u] = IF t = u THEN Registered(hops[u]) ELSE hops[u]
    BY <1>2, <1>7
  <2>2. hops[u] \in Hops /\ hops[u].sent \in Int
    BY <1>7 DEF Hops
  <2>3. /\ Registered(hops[u]).sent = hops[u].sent + 1
        /\ Registered(hops[u]).recv = hops[u].recv
        /\ Lost(Registered(hops[u])) = Lost(hops[u])
    BY <2>2, RegisteredStep
  <2> QED BY <2>1, <2>2, <2>3
<1>9. Sent' = Ledger!Plus(Sent, {q}) /\ Recv' = Recv /\ LostOf' = LostOf
  BY <1>6, <1>8, PlusOne DEF Sent, Recv, LostOf
<1> QED BY <1>4, <1>5, <1>6, <1>9 DEF Ledger!Send, Open, Seen, Sent, Recv, LostOf

\* A probe leaves the table: by an answer or because its dial was refused.
LEMMA OneOutMaps ==
  ASSUME TypeInv, TableInv, NEW p \in inflight, inflight' = inflight \ {p},
         \/ hops' = [hops EXCEPT ![p.ttl] = Recorded(hops[p.ttl])]
         \/ hops' = [hops EXCEPT ![p.ttl] = RolledBack(hops[p.ttl])]
  PROVE  Ledger!Answer \/ Ledger!Withdraw
<1>1. hops \in [TTLs -> Hops] /\ Unique(inflight) /\ p.ttl \in TTLs
  BY DEF TableInv, TypeInv, Probes
<1>2. PICK q : q = Seen(p)
  OBVIOUS
<1>3. q \in Open(inflight) /\ q.ttl = p.ttl
  BY <1>2 DEF Open, Seen
<1>4. Open(inflight)' = Open(inflight) \ {q}
  <2>1. Open({p}) = {q} /\ {p} \in SUBSET inflight
    BY <1>2 DEF Open
  <2>2. Open(inflight \ {p}) = Open(inflight) \ Open({p})
    BY <1>1, <2>1, OpenWithout
  <2> QED BY <2>1, <2>2 DEF Open
<1>5. CASE hops' = [hops EXCEPT ![p.ttl] = Recorded(hops[p.ttl])]
  <2>1. ASSUME NEW t \in TTLs
        PROVE  /\ hops'[t].recv = hops[t].recv + (IF p.ttl = t THEN 1 ELSE 0)
               /\ hops'[t].sent = hops[t].sent /\ Lost(hops'[t]) = Lost(hops[t])
    <3>1. hops'[t] = IF p.ttl = t THEN Recorded(hops[t]) ELSE hops[t]
      BY <1>1, <1>5
    <3>2. hops[t] \in Hops /\ hops[t].recv \in Int
      BY <1>1 DEF Hops
    <3>3. /\ Recorded(hops[t]).sent = hops[t].sent
          /\ Recorded(hops[t]).recv = hops[t].recv + 1
          /\ Lost(Recorded(hops[t])) = Lost(hops[t])
      BY <3>2, RecordedStep
    <3> QED BY <3>1, <3>2, <3>3
  <2>2. Recv' = Ledger!Plus(Recv, {q}) /\ Sent' = Sent /\ LostOf' = LostOf
    BY <1>3, <2>1, PlusOne DEF Sent, Recv, LostOf
  <2>3. Ledger!Answer
    BY <1>3, <1>4, <2>2 DEF Ledger!Answer, Open, Seen, Sent, Recv, LostOf
  <2> QED BY <2>3
<1>6. CASE hops' = [hops EXCEPT ![p.ttl] = RolledBack(hops[p.ttl])]
  <2>1. ASSUME NEW t \in TTLs
        PROVE  /\ hops[t].sent = hops'[t].sent + (IF p.ttl = t THEN 1 ELSE 0)
               /\ hops'[t].recv = hops[t].recv /\ Lost(hops'[t]) = Lost(hops[t])
    <3>1. hops'[t] = IF p.ttl = t THEN RolledBack(hops[t]) ELSE hops[t]
      BY <1>1, <1>6
    <3>2. hops[t] \in Hops /\ hops[t].sent \in Int
      BY <1>1 DEF Hops
    <3>3. /\ RolledBack(hops[t]).sent = hops[t].sent - 1
          /\ RolledBack(hops[t]).recv = hops[t].recv
          /\ Lost(RolledBack(hops[t])) = Lost(hops[t])
      BY <3>2, RolledBackStep
    <3> QED BY <3>1, <3>2, <3>3
  <2>2. PICK after : after = Sent'
    OBVIOUS
  <2>3. Sent = Ledger!Plus(after, {q}) /\ Recv' = Recv /\ LostOf' = LostOf
    BY <1>3, <2>1, <2>2, PlusOne DEF Sent, Recv, LostOf
  <2>4. Ledger!Withdraw
    BY <1>3, <1>4, <2>2, <2>3 DEF Ledger!Withdraw, Open, Seen, Sent, Recv, LostOf
  <2> QED BY <2>4
<1> QED BY <1>5, <1>6

LEMMA EmitMaps ==
  ASSUME TypeInv, TableInv, NEW cut \in 0 .. issued, Emit(cut)
  PROVE  Ledger!Expire
<1>1. PICK gone \in SUBSET inflight :
        /\ gone = Expired(inflight, cut)
        /\ inflight' = inflight \ gone /\ hops' = AfterPrune(hops, gone)
  BY DEF Emit, Expired
<1>2. IsFiniteSet(inflight) /\ Unique(inflight) /\ hops \in [TTLs -> Hops]
  BY DEF TableInv
<1>3. IsFiniteSet(gone) /\ Unique(gone)
  BY <1>1, <1>2, FS_Subset DEF Unique
<1>4. /\ Open(inflight)' = Open(inflight) \ Open(gone)
      /\ Open(inflight) \ Open(inflight)' = Open(gone)
  <2>1. /\ Open(inflight \ gone) = Open(inflight) \ Open(gone)
        /\ Open(inflight) \ Open(inflight \ gone) = Open(gone)
    BY <1>1, <1>2, OpenWithout
  <2>2. Open(inflight)' = Open(inflight \ gone)
    BY <1>1 DEF Open
  <2> QED BY <2>1, <2>2
<1>5. \A q \in Open(gone) : q.age >= Window
  <2> SUFFICES ASSUME NEW p \in gone PROVE p.age >= Window
    BY DEF Open, Seen
  <2>1. p.age \in Nat /\ Window \in Nat /\ (p.age > Window \/ p.age = Window)
    BY <1>1, BooksAssumption DEF TypeInv, Probes, Expired
  <2> QED BY <2>1
<1>6. ASSUME NEW t \in TTLs
      PROVE  /\ hops'[t].sent = hops[t].sent /\ hops'[t].recv = hops[t].recv
             /\ Lost(hops'[t]) = Lost(hops[t])
                                   + Cardinality({q \in Open(gone) : q.ttl = t})
  <2>1. hops'[t] = GivenUp(hops[t], Cardinality(OfHop(gone, t))) /\ hops[t] \in Hops
    BY <1>1, <1>2 DEF AfterPrune, OfHop
  <2>2. PICK n \in Nat : n = Cardinality(OfHop(gone, t))
    BY <1>3, OfHopFinite
  <2>3. /\ GivenUp(hops[t], n).sent = hops[t].sent
        /\ GivenUp(hops[t], n).recv = hops[t].recv
        /\ Lost(GivenUp(hops[t], n)) = Lost(hops[t]) + n
    BY <2>1, <2>2, GivenUpStep
  <2>4. n = Cardinality({q \in Open(gone) : q.ttl = t})
    BY <1>3, <2>2, SeenCounts
  <2> QED BY <2>1, <2>2, <2>3, <2>4
<1>7. LostOf' = Ledger!Plus(LostOf, Open(gone)) /\ Sent' = Sent /\ Recv' = Recv
  BY <1>6, SameCardinality DEF Ledger!Plus, Sent, Recv, LostOf
<1> QED BY <1>4, <1>5, <1>7 DEF Ledger!Expire, Open, Seen, Sent, Recv, LostOf

LEMMA TickMaps ==
  ASSUME TypeInv, Tick
  PROVE  Ledger!Pass
<1> DEFINE older(p) == [p EXCEPT !.age = IF @ > Window THEN @ ELSE @ + 1]
<1>1. inflight' = Older(inflight) /\ hops' = hops /\ inflight \subseteq Probes
  BY DEF Tick, TypeInv
<1>2. \A p \in inflight : Seen(older(p)) = older(Seen(p))
  BY <1>1 DEF Seen, Probes
<1>3. inflight' = {older(p) : p \in inflight}
  BY <1>1 DEF Older
<1>4. Open(inflight)' = {older(q) : q \in Open(inflight)}
  <2>1. Open(inflight)' = Open(inflight')
    BY DEF Open, Seen
  <2> HIDE DEF Seen, older
  <2>2. Open(inflight') = {Seen(older(p)) : p \in inflight}
    BY <1>3 DEF Open
  <2>3. {older(q) : q \in Open(inflight)} = {older(Seen(p)) : p \in inflight}
    BY DEF Open
  <2> QED BY <1>2, <2>1, <2>2, <2>3
<1> QED BY <1>1, <1>4 DEF Ledger!Pass, Open, Seen

\* probe_tcp_unix.go:303-426, 532-575: for any number of hops and any window,
\* when the range covers the window and two sweeps more, every step of the prober
\* is one of HopLedger's or leaves its view alone: what was sent stays open until
\* it is answered, once, or lost, never before the window has passed, or taken
\* back because its dial was refused.
THEOREM TableImplementsLedger == ASSUME WindowFits PROVE Spec => ImplementsHopLedger
<1>1. Init => Ledger!LedgerInit
  <2> SUFFICES ASSUME Init PROVE Ledger!LedgerInit
    OBVIOUS
  <2>1. /\ inflight = {} /\ hops = [t \in TTLs |-> NewHop]
        /\ NewHop.sent = 0 /\ NewHop.recv = 0 /\ Lost(NewHop) = 0
    BY DEF Init, NewHop, Lost
  <2>2. Open(inflight) = {}
    BY <2>1 DEF Open
  <2>3. Sent = Ledger!None /\ Recv = Ledger!None /\ LostOf = Ledger!None
    BY <2>1 DEF Sent, Recv, LostOf, Ledger!None
  <2> QED BY <2>2, <2>3 DEF Ledger!LedgerInit, Open, Seen, Sent, Recv, LostOf
<1>2. BooksInv /\ [Next]_vars => [Ledger!LedgerNext]_Ledger!ledger
  <2> SUFFICES ASSUME BooksInv, [Next]_vars PROVE [Ledger!LedgerNext]_Ledger!ledger
    OBVIOUS
  <2>0. TypeInv /\ HoldInv /\ PlaceInv /\ TableInv
    BY DEF BooksInv
  <2>1. CASE UNCHANGED <<inflight, hops>>
    BY <2>1 DEF Ledger!ledger
  <2>2. ASSUME NEW t \in TTLs, NEW start \in DialStarts \cup {"refused"},
               Register(t, start)
        PROVE  Ledger!LedgerNext
    BY <2>0, <2>2, RegisterMaps DEF Ledger!LedgerNext
  <2>3. ASSUME NEW p \in inflight, inflight' = inflight \ {p},
               \/ hops' = [hops EXCEPT ![p.ttl] = Recorded(hops[p.ttl])]
               \/ hops' = [hops EXCEPT ![p.ttl] = RolledBack(hops[p.ttl])]
        PROVE  Ledger!LedgerNext
    BY <2>0, <2>3, OneOutMaps DEF Ledger!LedgerNext
  <2>4. ASSUME NEW t \in TTLs, Dialed(t)
        PROVE  [Ledger!LedgerNext]_Ledger!ledger
    BY <2>0, <2>1, <2>3, <2>4, DialedEffect
  <2>5. ASSUME NEW m \in Messages, Fold(m)
        PROVE  [Ledger!LedgerNext]_Ledger!ledger
    BY <2>0, <2>1, <2>3, <2>5, FoldEffect
  <2>6. ASSUME NEW cut \in 0 .. issued, Emit(cut) PROVE Ledger!LedgerNext
    BY <2>0, <2>6, EmitMaps DEF Ledger!LedgerNext
  <2>7. CASE Tick
    BY <2>0, <2>7, TickMaps DEF Ledger!LedgerNext
  <2>8. CASE (\E t \in TTLs : Allocate(t)) \/ TakeTick \/ Pausing
    BY <2>1, <2>8 DEF Allocate, TakeTick, Pausing, SeeDone, vars
  <2> QED BY <2>2, <2>4, <2>5, <2>6, <2>7, <2>8 DEF Next, Dialed, Pausing
<1> QED BY <1>1, <1>2, InitBooks, NextBooks, PTL DEF Spec, ImplementsHopLedger,
           Ledger!LedgerSpec
=============================================================================
