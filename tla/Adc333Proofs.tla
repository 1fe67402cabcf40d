---------------------------- MODULE Adc333Proofs ----------------------------
(***************************************************************************)
(* Proofs about Adc333, for every number of channels, every size of the    *)
(* memory, every set of arguments of EnableChannels and every interleaving *)
(* of the module's sampling with the driver's accesses.                    *)
(***************************************************************************)
EXTENDS Adc333, FiniteSetTheorems, TLAPS

(* A division with remainder, named by its parts.                          *)
Divided(a, n, q, r) == q \in Nat /\ r \in 0..(n - 1) /\ a = r + q * n

(* There is one such quotient and one such remainder.                      *)
LEMMA Division ==
    ASSUME NEW n \in Nat \ {0}, NEW q, NEW r, NEW a \in Nat, Divided(a, n, q, r)
    PROVE  a % n = r /\ a \div n = q
  <1>0. q \in Nat /\ r \in 0..(n - 1) /\ a = r + q * n
    BY DEF Divided
  <1>1. /\ a % n \in 0..(n - 1) /\ a \div n \in Int
        /\ a = n * (a \div n) + (a % n)
    BY Z3
  <1> DEFINE p == a \div n
             t == a % n
  <1>2. n * p + t = r + q * n
    BY <1>0, <1>1
  <1> HIDE DEF p, t
  <1>3. /\ n * (p - q) = r - t /\ t \in 0..(n - 1) /\ p \in Int
        /\ q \in Nat /\ r \in 0..(n - 1)
    BY <1>0, <1>1, <1>2 DEF p, t
  <1>4. p - q <= 0
    BY <1>3
  <1>5. p - q >= 0
    BY <1>3
  <1>6. QED
    BY <1>3, <1>4, <1>5 DEF p, t

(* A remainder is less than the divisor.                                   *)
LEMMA Remainder ==
    ASSUME NEW n \in Nat \ {0}, NEW a \in Nat
    PROVE  a % n \in 0..(n - 1)
  BY Z3

(* Every number has a quotient and a remainder.                            *)
LEMMA Quotient ==
    ASSUME NEW n \in Nat \ {0}, NEW a \in Nat
    PROVE  \E q \in Nat : a = (a % n) + q * n
  <1>1. /\ a % n \in 0..(n - 1) /\ a \div n \in Nat
        /\ a = (a % n) + (a \div n) * n
    BY Z3
  <1>2. QED
    BY <1>1

(* The numbers that leave the remainder c, in their order.                 *)
LEMMA Multiple ==
    ASSUME NEW n \in Nat \ {0}, NEW c \in 0..(n - 1), NEW k \in Nat \ {0}
    PROVE  /\ 1 + c + (k - 1) * n \in Nat \ {0}
           /\ (1 + c + (k - 1) * n) - 1 \in Nat
           /\ Divided((1 + c + (k - 1) * n) - 1, n, k - 1, c)
  <1>1. k - 1 \in Nat /\ (k - 1) * n \in Nat
    OBVIOUS
  <1>2. QED
    BY <1>1 DEF Divided

(* They ascend, and so many of them are as many numbers.                   *)
LEMMA Progression ==
    ASSUME NEW n \in Nat \ {0}, NEW c \in 0..(n - 1), NEW t \in Nat
    PROVE  /\ \A k, m \in Nat \ {0} : k <= m <=> 1 + c + (k - 1) * n <= 1 + c + (m - 1) * n
           /\ Cardinality({1 + c + (k - 1) * n : k \in 1..t}) = t
  <1> DEFINE P(k) == 1 + c + (k - 1) * n
             S == {P(k) : k \in 1..t}
             f == [k \in 1..t |-> P(k)]
  <1>1. ASSUME NEW k \in Nat \ {0}, NEW m \in Nat \ {0}, k < m PROVE P(k) < P(m)
    <2>1. k - 1 \in Nat /\ m - k \in Nat \ {0} /\ (m - k) * n > 0
      BY <1>1
    <2>2. (m - 1) * n = (k - 1) * n + (m - k) * n
      OBVIOUS
    <2>3. (k - 1) * n \in Int /\ (m - 1) * n \in Int /\ (m - k) * n \in Int /\ c \in Int
      OBVIOUS
    <2>4. QED
      BY <2>1, <2>2, <2>3
  <1>2. \A k \in Nat \ {0} : P(k) \in Nat
    BY Multiple
  <1> HIDE DEF P
  <1>3. \A k, m \in Nat \ {0} : k <= m <=> P(k) <= P(m)
    <2> TAKE k, m \in Nat \ {0}
    <2>1. CASE k < m
      BY <1>1, <1>2, <2>1
    <2>2. CASE k = m
      BY <1>2, <2>2
    <2>3. CASE m < k
      BY <1>1, <1>2, <2>3
    <2>4. QED
      BY <2>1, <2>2, <2>3
  <1>4. \A k, m \in 1..t : P(k) = P(m) => k = m
    <2> TAKE k, m \in 1..t
    <2>1. P(k) \in Nat /\ P(m) \in Nat /\ k \in Nat \ {0} /\ m \in Nat \ {0}
      BY <1>2
    <2>2. QED
      BY <1>3, <2>1
  <1>5. f \in Bijection(1..t, S)
    BY <1>4 DEF Bijection, Injection, Surjection, IsInjective
  <1>6. Cardinality(S) = t
    BY <1>5, FS_CountingElements DEF ExistsBijection
  <1>7. QED
    BY <1>3, <1>6 DEF P

(* The next remainder.                                                     *)
LEMMA NextRemainder ==
    ASSUME NEW n \in Nat \ {0}, NEW a \in Nat
    PROVE  (a + 1) % n = ((a % n) + 1) % n
  <1>1. /\ a % n \in 0..(n - 1) /\ a \div n \in Nat
        /\ a = (a % n) + (a \div n) * n
    BY Z3
  <1>2. PICK q \in Nat, r \in 0..(n - 1) : a = r + q * n /\ r = a % n
    BY <1>1
  <1>3. CASE r + 1 < n
    <2>1. a + 1 \in Nat /\ Divided(a + 1, n, q, r + 1)
      BY <1>2, <1>3 DEF Divided
    <2>2. (a + 1) % n = r + 1
      BY <2>1, Division
    <2>3. r + 1 \in Nat /\ Divided(r + 1, n, 0, r + 1)
      BY <1>2, <1>3 DEF Divided
    <2>4. (r + 1) % n = r + 1
      BY <2>1, <2>3, Division
    <2>5. QED
      BY <1>2, <2>2, <2>4
  <1>4. CASE r + 1 = n
    <2>1. /\ a + 1 \in Nat /\ Divided(a + 1, n, q + 1, 0)
          /\ n \in Nat /\ Divided(n, n, 1, 0)
      BY <1>2, <1>4 DEF Divided
    <2>2. (a + 1) % n = 0 /\ n % n = 0
      BY <2>1, Division
    <2>3. QED
      BY <1>2, <1>4, <2>2
  <1>5. QED
    BY <1>2, <1>3, <1>4
-----------------------------------------------------------------------------
(* The order of the scan: the ranks of a finite set of channels are 0 to   *)
(* its size less one, each of them the rank of one channel.                *)
LEMMA Ranks ==
    ASSUME NEW on \in SUBSET Channels
    PROVE  /\ IsFiniteSet(on) /\ Cardinality(on) \in 0..ChanCount
           /\ \A c \in on : Rank(on, c) \in 0..(Cardinality(on) - 1)
           /\ \A c, d \in on : Rank(on, c) = Rank(on, d) => c = d
           /\ \A k \in 0..(Cardinality(on) - 1) : \E c \in on : Rank(on, c) = k
  <1> DEFINE Less(c) == {d \in on : d < c}
             n == Cardinality(on)
             f == [c \in on |-> Rank(on, c)]
  <1>1. IsFiniteSet(on) /\ n \in Nat /\ n <= ChanCount /\ on \subseteq Int
    <2>1. ChanCount \in Nat \ {0}
      BY AdcAssumption
    <2>2. IsFiniteSet(Channels) /\ Cardinality(Channels) = ChanCount
      BY <2>1, FS_Interval DEF Channels
    <2>3. IsFiniteSet(on) /\ n <= ChanCount
      BY <2>2, FS_Subset
    <2>4. on \subseteq Int
      BY <2>1 DEF Channels
    <2>5. QED
      BY <2>3, <2>4, FS_CardinalityType
  <1>2. ASSUME NEW c \in on
        PROVE  /\ IsFiniteSet(Less(c)) /\ Rank(on, c) = Cardinality(Less(c))
               /\ Rank(on, c) \in 0..(n - 1)
    <2>1. Less(c) \subseteq on /\ c \in on /\ c \notin Less(c)
      BY <1>1
    <2>2. IsFiniteSet(Less(c)) /\ Cardinality(Less(c)) \in Nat /\ Cardinality(Less(c)) <= n
      BY <1>1, <2>1, FS_Subset, FS_CardinalityType
    <2>3. Cardinality(Less(c)) # n
      BY <1>1, <2>1, FS_Subset
    <2>4. QED
      BY <1>1, <2>2, <2>3 DEF Rank
  <1>3. ASSUME NEW c \in on, NEW d \in on, c < d
        PROVE  Rank(on, c) # Rank(on, d)
    <2>1. Less(c) \subseteq Less(d) /\ c \in Less(d) /\ c \notin Less(c)
      <3>1. \A b \in on : b < c => b < d
        BY <1>1, <1>3
      <3>2. ~(c < c)
        BY <1>1
      <3>3. QED
        BY <1>3, <3>1, <3>2
    <2>2. Cardinality(Less(c)) # Cardinality(Less(d))
      BY <1>2, <2>1, FS_Subset
    <2>3. QED
      BY <1>2, <2>2
  <1>4. \A c, d \in on : Rank(on, c) = Rank(on, d) => c = d
    BY <1>1, <1>3
  <1>5. IsFiniteSet(0..(n - 1)) /\ Cardinality(0..(n - 1)) = n
    <2>1. n - 1 \in Int /\ n = IF 0 > n - 1 THEN 0 ELSE (n - 1) - 0 + 1
      BY <1>1
    <2> HIDE DEF n
    <2>2. QED
      BY <2>1, FS_Interval
  <1>6. f \in Injection(on, 0..(n - 1))
    BY <1>2, <1>4 DEF Injection, IsInjective
  <1>7. f \in Surjection(on, 0..(n - 1))
    BY <1>5, <1>6, FS_Injection
  <1>8. n \in 0..ChanCount
    BY <1>1, AdcAssumption
  <1>9. QED
    BY <1>1, <1>2, <1>4, <1>7, <1>8 DEF Surjection

(* The channel scanned at a turn is the one of that rank.                  *)
LEMMA ScannedRank ==
    ASSUME NEW on \in SUBSET Channels
    PROVE  /\ \A k \in 0..(Cardinality(on) - 1) :
                 Scanned(on, k) \in on /\ Rank(on, Scanned(on, k)) = k
           /\ \A c \in on : Scanned(on, Rank(on, c)) = c
  BY Ranks DEF Scanned
-----------------------------------------------------------------------------
(* What is left of an operation is the end of its script.                  *)
Script(o, k) ==
    CASE o \in Starts ->
           (CASE k = 1 -> "readStatus" [] k = 2 -> "writeHalt" [] k = 3 -> "writeLimits"
              [] k = 4 -> "writeStatus" [] k = 5 -> "writeStart" [] k = 6 -> "checkStart"
              [] k = 7 -> "clearLAM" [] k = 8 -> "unblockLAM" [] k = 9 -> "clear"
              [] k = 10 -> "readStatus" [] k = 11 -> "writeUnHalt" [] k = 12 -> "trigger")
      [] o = "Read" ->
           (CASE k = 1 -> "readStatus" [] k = 2 -> "writeHalt" [] k = 3 -> "getStatus"
              [] k = 4 -> "readParameters" [] k = 5 -> "readLimits" [] k = 6 -> "position"
              [] k = 7 -> "rewind" [] k = 8 -> "fetch" [] k = 9 -> "verify" [] k = 10 -> "decode")
      [] o = "Stop" -> (CASE k = 1 -> "readStatus" [] k = 2 -> "writeHalt")
      [] o = "Trigger" -> "trigger"

Length(o) == CASE o = "StartCycle" -> 12 [] o = "StartSingleRun" -> 11 [] o = "Read" -> 10
               [] o = "Stop" -> 2 [] o = "Trigger" -> 1 [] o = "none" -> 0
At == Length(op) - Len(todo) + 1

Accesses == {"readStatus", "writeHalt", "writeLimits", "writeStatus", "writeStart", "checkStart",
             "clearLAM", "unblockLAM", "clear", "writeUnHalt", "trigger", "getStatus",
             "readParameters", "readLimits", "position", "rewind", "fetch", "verify", "decode"}

TodoInv ==
    /\ op \in Operations \cup {"none"}
    /\ todo \in Seq(Accesses) /\ Len(todo) <= Length(op)
    /\ \A i \in 1..Len(todo) : todo[i] = Script(op, At + i - 1)

Starting(k) == op \in Starts /\ At <= k
Reading(k) == op = "Read" /\ At = k

(* The state of the driver is sound: no start has been overtaken by a run, *)
(* and no start or readout has failed on the way and left it as it was.    *)
(* A start that has written the parameters mends what has failed before.   *)
Sound == ~early /\ (IF Starting(9) THEN At > 5 ELSE ~torn)

(* It is sound and not in the middle of a start: what the buffer holds can *)
(* be told from the run.                                                   *)
Kept == ~early /\ ~torn /\ ~Starting(9)

(* The module runs only while it is not halted, over the channels it was   *)
(* given, and a start leaves it at rest until the LAM is cleared.          *)
BusyInv ==
    /\ busy => ~halt /\ module.on # {} /\ turn < Cardinality(module.on)
    /\ op \in Starts => params.numbers
    /\ op \in Starts /\ At \in 3..4 => halt
    /\ op \in Starts /\ At \in 5..Length(op) => ~halt
    /\ op \in Starts /\ At \in 5..7 /\ ~early => ~busy
    /\ module.on # {} => module.numbers
    /\ op = "Read" /\ At \in 3..9 => halt

(* The place at which the run has stopped: Rewind and the reading of the   *)
(* words move the address away from it and back.                           *)
Stand == IF Reading(8) THEN stop_position ELSE address

(* A word is what it says it is, measured as the module is set.            *)
Good(w) == w.number = w.of /\ w.gain = module.gain[w.of]

(* The samples of the run stand in the memory from StartAddress downwards, *)
(* in the order of the scan; once it has been filled over, every word of   *)
(* it is of this run.                                                      *)
OverInv == overfill => module.cycling /\ \A a \in 0..StartAddress : Good(memory[a])

CountInv ==
    ~overfill =>
        /\ Len(taken) = StartAddress - Stand
        /\ taken # <<>> => module.on # {}
        /\ busy => turn = Len(taken) % Cardinality(module.on)

SampleInv ==
    ~overfill =>
        \A i \in 1..Len(taken) :
            /\ taken[i] = memory[StartAddress - i + 1]
            /\ Good(taken[i])
            /\ taken[i].of = Scanned(module.on, (i - 1) % Cardinality(module.on))

(* Where the module stands when it runs and when it has come to rest: a    *)
(* run that nobody halts ends with the memory, and the LAM tells of it.    *)
RestInv ==
    /\ busy /\ ~module.cycling => address # 0
    /\ ~halt /\ ~busy => \/ taken = <<>> /\ ~overfill
                         \/ address = 0 /\ ~module.cycling
    /\ Starting(7) => taken = <<>> /\ ~overfill
    /\ ~Starting(7) /\ ~module.cycling => (lam <=> Len(taken) = StartAddress)

RunInv == Sound => OverInv /\ CountInv /\ SampleInv /\ RestInv

(* The buffer: it is empty until a readout fills it, with the module       *)
(* halted, and from then on holds the run and the module's parameters.     *)
Match == IF overfill THEN \A i \in 1..Len(buffer) : Good(buffer[i]) ELSE buffer = taken

BufferInv ==
    /\ op = "Read" /\ At <= 7 => buffer = <<>>
    /\ Kept =>
        /\ buffer # <<>> \/ (op = "Read" /\ At >= 3) => halt
        /\ (buffer # <<>> /\ ~Reading(8)) \/ (op = "Read" /\ At >= 9) => Match
        /\ ~retuned /\ (buffer # <<>> \/ (op = "Read" /\ At >= 6)) => params = module

(* The readout on its way: what it has read of the module is still so, and *)
(* the words fetched are those of the run from its first on, or of all the *)
(* memory from where the run stands.                                       *)
FetchedInv ==
    /\ count = IF overfill THEN Size ELSE StartAddress - stop_position
    /\ Len(buffer) <= count
    /\ address = IF ~overfill THEN StartAddress - Len(buffer)
                 ELSE IF Len(buffer) <= stop_position THEN stop_position - Len(buffer)
                 ELSE stop_position - Len(buffer) + Size
    /\ \A i \in 1..Len(buffer) : IF overfill THEN Good(buffer[i])
                                 ELSE buffer[i] = memory[StartAddress - i + 1]

FetchInv ==
    Kept =>
        /\ op = "Read" /\ At \in 4..8 => status = [cycling |-> module.cycling, overfill |-> overfill]
        /\ Reading(7) \/ Reading(9) => stop_position = address
        /\ Reading(8) => FetchedInv
-----------------------------------------------------------------------------
(* Every variable, those that TypeOK leaves out too.                       *)
TypeInv ==
    /\ TypeOK /\ module \in Words
    /\ taken \in Seq(Samples)
    /\ status \in [cycling : BOOLEAN, overfill : BOOLEAN]
    /\ halt \in BOOLEAN /\ busy \in BOOLEAN /\ overfill \in BOOLEAN /\ lam \in BOOLEAN
    /\ retuned \in BOOLEAN /\ torn \in BOOLEAN /\ early \in BOOLEAN

(* What EnableChannels makes of its argument is a parameter word, and so   *)
(* is every mixture the operations make of two of them.                    *)
LEMMA Gains ==
    /\ \A w \in Words : w.gain \in [Channels -> Nat]
    /\ \A s \in Settings : Enabled(s) \subseteq Channels
    /\ Parameters({}, AllOff, FALSE, TRUE) \in Words
    /\ Parameters({}, AllOff, FALSE, FALSE) \in Words
  <1>1. \A s \in Settings : Gain(s) \in [Channels -> Nat]
    BY AdcAssumption DEF Gain, Channels
  <1>2. AllOff \in [Channels -> Nat]
    BY DEF AllOff
  <1>3. QED
    BY <1>1, <1>2 DEF Words, Parameters, Enabled

(* The constants of the memory.                                            *)
LEMMA Memory ==
    /\ StartAddress \in Nat \ {0} /\ Size = StartAddress + 1
    /\ 0 \in Channels /\ 0 \in 0..StartAddress /\ StartAddress \in 0..StartAddress
    /\ Blank \in Samples /\ Fresh \in [0..StartAddress -> Samples]
    /\ \A a \in 0..StartAddress : Below(a) \in 0..StartAddress
  <1>1. /\ StartAddress \in Nat \ {0} /\ Size = StartAddress + 1 /\ ChanCount \in Nat \ {0}
    BY AdcAssumption DEF StartAddress
  <1>2. 0 \in Channels
    BY <1>1 DEF Channels
  <1>3. Blank \in Samples
    BY <1>2 DEF Blank, Samples
  <1>4. QED
    BY <1>1, <1>2, <1>3 DEF Fresh, Below
-----------------------------------------------------------------------------
(* How many of the numbers c, c + n, c + 2n ... are below L.               *)
LEMMA Strides ==
    ASSUME NEW n \in Nat \ {0}, NEW c \in 0..(n - 1), NEW L \in Nat, NEW t,
           t = IF L <= c THEN 0 ELSE 1 + (L - 1 - c) \div n
    PROVE  /\ t \in Nat
           /\ \A k \in Nat \ {0} : k <= t <=> 1 + c + (k - 1) * n <= L
  <1>1. CASE L <= c
    <2>1. t = 0
      BY <1>1
    <2>2. ASSUME NEW k \in Nat \ {0} PROVE 1 + c + (k - 1) * n > L
      <3>1. (k - 1) * n >= 0
        OBVIOUS
      <3>2. QED
        BY <1>1, <3>1
    <2>3. QED
      BY <2>1, <2>2
  <1>2. CASE L > c
    <2>1. L - 1 - c \in Nat
      BY <1>2
    <2>2. PICK q \in Nat, r \in 0..(n - 1) : L - 1 - c = r + q * n /\ (L - 1 - c) \div n = q
      BY <2>1, Z3
    <2>3. t = 1 + q
      BY <1>2, <2>2
    <2>4. ASSUME NEW k \in Nat \ {0} PROVE k - 1 <= q <=> 1 + c + (k - 1) * n <= L
      <3>1. CASE k - 1 <= q
        <4>1. (k - 1) * n <= q * n
          BY <3>1
        <4>2. QED
          BY <2>2, <3>1, <4>1
      <3>2. CASE k - 1 >= q + 1
        <4>1. (k - 1) * n >= q * n + n
          BY <3>2
        <4>2. QED
          BY <2>2, <3>2, <4>1
      <3>3. QED
        BY <3>1, <3>2
    <2>5. QED
      BY <2>3, <2>4
  <1>3. QED
    BY <1>1, <1>2

(* The words that Read chooses are those of the buffer that stand at       *)
(* chanIdx, chanIdx + chanCount ... (ADC333.cpp:78).                       *)
LEMMA ChosenIndices ==
    ASSUME TypeInv, channel \in params.on
    PROVE  /\ ChanCounted \in Nat \ {0} /\ ChanIdx \in 0..(ChanCounted - 1)
           /\ Turns \in Nat
           /\ \A k \in Nat \ {0} : k <= Turns <=> 1 + ChanIdx + (k - 1) * ChanCounted <= Len(buffer)
  <1>1. params.on \in SUBSET Channels /\ Len(buffer) \in Nat
    BY DEF TypeInv, TypeOK, Words
  <1>2. ChanCounted \in Nat /\ ChanIdx \in 0..(ChanCounted - 1)
    BY <1>1, Ranks DEF ChanCounted, ChanIdx
  <1>3. ChanCounted \in Nat \ {0}
    BY <1>2
  <1>4. QED
    BY <1>1, <1>2, <1>3, Strides DEF Turns
-----------------------------------------------------------------------------
(* The steps.                                                              *)
LEMMA Steps ==
    ASSUME [Next]_vars
    PROVE  \/ UNCHANGED vars
           \/ \E o \in Operations, c \in Channels \cup {ChanCount} : Call(o, c)
           \/ \E s \in Settings : EnableChannels(s)
           \/ Done \/ HardwareStart \/ Take \/ Access
  BY Memory DEF Next, Operations

(* Every step keeps the types.                                             *)
LEMMA TypeInvStep == TypeInv /\ BusyInv /\ [Next]_vars => TypeInv'
  <1> SUFFICES ASSUME TypeInv, BusyInv, [Next]_vars PROVE TypeInv'
    OBVIOUS
  <1> USE Memory DEF TypeInv, TypeOK
  <1>1. CASE UNCHANGED vars
    BY <1>1 DEF vars, locals, device, histories
  <1>2. ASSUME NEW o \in Operations, NEW c \in Channels \cup {ChanCount}, Call(o, c) PROVE TypeInv'
    <2>1. params' \in Words
      BY <1>2 DEF Call, Words
    <2>2. channel' \in 0..ChanCount
      BY <1>2, AdcAssumption DEF Call, Channels
    <2>3. early' \in BOOLEAN
      BY <1>2, Zenon DEF Call
    <2>4. QED
      BY <1>2, <2>1, <2>2, <2>3 DEF Call, device
  <1>3. ASSUME NEW s \in Settings, EnableChannels(s) PROVE TypeInv'
    <2>1. params' \in Words
      BY <1>3, Gains DEF EnableChannels, Words
    <2>2. retuned' \in BOOLEAN
      BY <1>3, Zenon DEF EnableChannels
    <2>3. QED
      BY <1>3, <2>1, <2>2 DEF EnableChannels, device, locals
  <1>4. CASE Done
    BY <1>4, AdcAssumption DEF Done, device, histories
  <1>5. CASE HardwareStart
    <2>1. early' \in BOOLEAN /\ busy' \in BOOLEAN /\ turn' \in 0..(ChanCount - 1)
      <3>1. early' \in BOOLEAN
        BY <1>5, Zenon DEF HardwareStart, Runs
      <3>2. QED
        BY <1>5, <3>1, AdcAssumption DEF HardwareStart, Runs
    <2>2. QED
      BY <1>5, <2>1 DEF HardwareStart, locals
  <1>6. CASE Take
    <2>1. /\ module.on \in SUBSET Channels /\ module.gain \in [Channels -> Nat]
          /\ module.numbers \in BOOLEAN
      BY Gains DEF Words
    <2>2. /\ Scanned(module.on, turn) \in Channels
          /\ Cardinality(module.on) \in 1..ChanCount
      <3>1. turn < Cardinality(module.on) /\ turn \in Nat
        BY <1>6 DEF Take, BusyInv
      <3>2. Cardinality(module.on) \in 0..ChanCount
        BY <2>1, Ranks
      <3>3. turn \in 0..(Cardinality(module.on) - 1) /\ Cardinality(module.on) \in 1..ChanCount
        BY <3>1, <3>2, AdcAssumption
      <3>4. QED
        BY <2>1, <3>3, ScannedRank
    <2>3. PICK o \in {FALSE, MayOverload} :
            LET c == Scanned(module.on, turn)
                w == Sample(IF module.numbers THEN c ELSE 0, o, module.gain[c], c)
            IN  /\ memory' = [memory EXCEPT ![address] = w]
                /\ taken' = IF overfill' THEN <<>> ELSE Append(taken, w)
      BY <1>6 DEF Take
    <2> DEFINE c == Scanned(module.on, turn)
               w == Sample(IF module.numbers THEN c ELSE 0, o, module.gain[c], c)
    <2>4. o \in BOOLEAN
      BY Zenon DEF MayOverload
    <2>5. w \in Samples
      BY <2>1, <2>2, <2>4 DEF Sample, Samples
    <2>6. memory' \in [0..StartAddress -> Samples] /\ taken' \in Seq(Samples)
      <3> HIDE DEF w
      <3>1. memory' = [memory EXCEPT ![address] = w] /\ taken' \in {<<>>, Append(taken, w)}
        BY <2>3 DEF w
      <3>2. memory' \in [0..StartAddress -> Samples]
        BY <2>5, <3>1
      <3>3. Append(taken, w) \in Seq(Samples) /\ <<>> \in Seq(Samples)
        BY <2>5
      <3>4. QED
        BY <3>1, <3>2, <3>3
    <2>7. turn' \in 0..(ChanCount - 1) /\ address' \in 0..StartAddress
      <3>1. PICK n \in 1..ChanCount : n = Cardinality(module.on)
        BY <2>2
      <3>2. (turn + 1) % n \in 0..(n - 1)
        <4>1. turn + 1 \in Nat /\ n \in Nat \ {0}
          BY AdcAssumption
        <4>2. QED
          BY <4>1, Remainder
      <3>3. turn' = (turn + 1) % n /\ address' = Below(address)
        BY <1>6, <3>1 DEF Take
      <3>4. QED
        BY <3>2, <3>3, AdcAssumption
    <2>8. overfill' \in BOOLEAN /\ busy' \in BOOLEAN /\ lam' \in BOOLEAN
      BY <1>6, Zenon DEF Take
    <2>9. QED
      BY <1>6, <2>6, <2>7, <2>8 DEF Take, locals, histories
  <1>7. CASE Fails
    <2>1. torn' \in BOOLEAN
      BY <1>7, Zenon DEF Fails, Throw
    <2>2. address' \in 0..StartAddress
      BY <1>7 DEF Fails
    <2>3. QED
      BY <1>7, <2>1, <2>2 DEF Fails, Throw, locals
  <1>8. CASE Writes
    <2>1. torn' \in BOOLEAN /\ result' \in {result, "CamacError"}
      BY <1>8, Zenon DEF Writes
    <2>2. /\ module' \in Words /\ memory' \in [0..StartAddress -> Samples] /\ taken' \in Seq(Samples)
          /\ address' \in 0..StartAddress
      <3>1. [module EXCEPT !.gain = params.gain] \in Words /\ [params EXCEPT !.gain = module.gain] \in Words
        BY DEF Words
      <3>2. <<>> \in Seq(Samples)
        OBVIOUS
      <3>3. QED
        BY <1>8, <3>1, <3>2 DEF Writes, Written, Runs
    <2>3. /\ halt' \in BOOLEAN /\ busy' \in BOOLEAN /\ overfill' \in BOOLEAN /\ lam' \in BOOLEAN
          /\ early' \in BOOLEAN
      BY <1>8, Zenon DEF Writes, Written, Setting, Runs
    <2>4. turn' \in 0..(ChanCount - 1)
      <3>1. turn' \in {turn, 0}
        BY <1>8, Zenon DEF Writes, Written, Runs
      <3>2. QED
        BY <3>1, AdcAssumption
    <2>5. QED
      BY <1>8, <2>1, <2>2, <2>3, <2>4 DEF Writes, locals
  <1>9. CASE CheckStart
    <2>1. torn' \in BOOLEAN
      BY <1>9, Zenon DEF CheckStart, Throw, histories
    <2>2. QED
      BY <1>9, <2>1 DEF CheckStart, Throw, locals, device, histories
  <1>10. CASE Passes \/ GetStatus \/ ReadLimits \/ Position \/ Verify
    <2>1. CASE Passes \/ Verify
      BY <2>1 DEF Passes, Verify, locals, device, histories
    <2>2. CASE GetStatus
      <3>1. status' \in [cycling : BOOLEAN, overfill : BOOLEAN]
        <4>1. module.cycling \in BOOLEAN
          BY DEF Words
        <4>2. QED
          BY <2>2, <4>1 DEF GetStatus
      <3>2. QED
        BY <2>2, <3>1 DEF GetStatus, device, histories
    <2>3. CASE ReadLimits
      BY <2>3 DEF ReadLimits, locals, device
    <2>4. CASE Position
      BY <2>4 DEF Position, device, histories
    <2>5. QED
      BY <1>10, <2>1, <2>2, <2>3, <2>4
  <1>11. CASE Rewind \/ Clear
    <2>1. buffer' \in Seq(Samples) /\ Len(buffer') <= Size
      <3>1. <<>> \in Seq(Samples) /\ Len(<<>>) <= Size
        OBVIOUS
      <3>2. QED
        BY <1>11, <3>1 DEF Rewind, Clear
    <2>2. CASE Clear
      BY <2>1, <2>2 DEF Clear, locals, device
    <2>3. CASE Rewind
      <3>1. count' \in 0..Size /\ address' \in 0..StartAddress
        <4>1. \/ count' = StartAddress + 1 /\ address' = address
              \/ count' = StartAddress - stop_position /\ address' = StartAddress
          BY <2>3, Zenon DEF Rewind
        <4>2. StartAddress - stop_position \in 0..Size /\ StartAddress + 1 \in 0..Size
          OBVIOUS
        <4>3. QED
          BY <4>1, <4>2
      <3>2. QED
        BY <2>1, <2>3, <3>1 DEF Rewind, histories
    <2>4. QED
      BY <1>11, <2>2, <2>3
  <1>12. CASE Fetch
    <2>1. buffer' \in Seq(Samples) /\ Len(buffer') <= Size
      <3>1. memory[address] \in Samples
        OBVIOUS
      <3>2. Append(buffer, memory[address]) \in Seq(Samples) /\ Len(Append(buffer, memory[address])) = Len(buffer) + 1
        BY <3>1
      <3>3. CASE Len(buffer) < count
        <4>1. buffer' = Append(buffer, memory[address])
          BY <1>12, <3>3 DEF Fetch
        <4>2. Len(buffer) + 1 <= Size
          BY <3>3
        <4>3. QED
          BY <3>2, <4>1, <4>2
      <3>4. CASE ~(Len(buffer) < count)
        BY <1>12, <3>4 DEF Fetch
      <3>5. QED
        BY <3>3, <3>4
    <2>2. address' \in 0..StartAddress
      BY <1>12 DEF Fetch
    <2>3. QED
      BY <1>12, <2>1, <2>2 DEF Fetch, locals, histories
  <1>13. CASE Decode
    <2>1. result' \in {"none", "VERIFICATION_ERROR", "INVALID_ARG", "SIGFPE"}
      BY <1>13, Zenon DEF Decode
    <2>2. QED
      BY <1>13, <2>1 DEF Decode, locals, device, histories
  <1>14. QED
    BY <1>1, <1>2, <1>3, <1>4, <1>5, <1>6, <1>7, <1>8, <1>9, <1>10, <1>11, <1>12, <1>13,
       Steps DEF Access
-----------------------------------------------------------------------------
(* How long the scripts are.                                               *)
LEMMA Lengths ==
    /\ Length("StartCycle") = 12 /\ Length("StartSingleRun") = 11 /\ Length("Read") = 10
    /\ Length("Stop") = 2 /\ Length("Trigger") = 1 /\ Length("none") = 0
  BY DEF Length

(* The access that is due stands at At in the script.                      *)
LEMMA Due ==
    ASSUME TodoInv, todo # <<>>
    PROVE  At \in 1..Length(op) /\ Head(todo) = Script(op, At) /\ Len(todo) = Length(op) - At + 1
  <1>1. Length(op) \in Nat /\ Len(todo) \in 1..Length(op) /\ Head(todo) = todo[1]
    BY Lengths DEF TodoInv, Operations, Starts
  <1>2. todo[1] = Script(op, At + 1 - 1) /\ At \in 1..Length(op)
    BY <1>1 DEF TodoInv, At
  <1>3. At + 1 - 1 = At /\ Len(todo) = Length(op) - At + 1
    BY <1>1 DEF At
  <1>4. QED
    BY <1>1, <1>2, <1>3

(* At is a number.                                                         *)
LEMMA AtRange == ASSUME TodoInv PROVE At \in 1..(Length(op) + 1) /\ Length(op) \in Nat
  BY Lengths DEF TodoInv, At, Operations, Starts

(* An access done, the next is due; an operation thrown out of is over.    *)
LEMMA Advances ==
    ASSUME TodoInv, op' = op
    PROVE  /\ todo # <<>> /\ Then => TodoInv' /\ At' = At + 1
           /\ todo' = <<>> => TodoInv' /\ At' = Length(op) + 1
           /\ todo' = todo => TodoInv' /\ At' = At
  <1>1. Length(op) \in Nat
    BY Lengths DEF TodoInv, Operations, Starts
  <1>2. ASSUME todo # <<>>, Then PROVE TodoInv' /\ At' = At + 1
    <2>1. /\ todo' \in Seq(Accesses) /\ Len(todo') = Len(todo) - 1
          /\ \A i \in 1..Len(todo') : todo'[i] = todo[i + 1]
      BY <1>2 DEF Then, TodoInv
    <2>2. At' = At + 1
      BY <1>1, <2>1 DEF At, TodoInv
    <2>3. \A i \in 1..Len(todo') : todo'[i] = Script(op, At' + i - 1)
      BY <1>1, <2>1, <2>2 DEF TodoInv, At
    <2>4. TodoInv'
      BY <1>1, <2>1, <2>3 DEF TodoInv
    <2>5. QED
      BY <2>2, <2>4
  <1>3. ASSUME todo' = <<>> PROVE TodoInv' /\ At' = Length(op) + 1
    BY <1>1, <1>3 DEF TodoInv, At
  <1>4. ASSUME todo' = todo PROVE TodoInv' /\ At' = At
    BY <1>4 DEF TodoInv, At
  <1>5. QED
    BY <1>2, <1>3, <1>4

(* Where the accesses stand.                                               *)
LEMMA Places ==
    ASSUME TodoInv
    PROVE  /\ Now("readStatus") => At = 1 \/ (op \in Starts /\ At = 10)
           /\ Now("writeHalt") => At = 2 /\ op # "Trigger"
           /\ Now("writeLimits") => op \in Starts /\ At = 3
           /\ Now("writeStatus") => op \in Starts /\ At = 4
           /\ Now("writeStart") => op \in Starts /\ At = 5
           /\ Now("checkStart") => op \in Starts /\ At = 6
           /\ Now("clearLAM") => op \in Starts /\ At = 7
           /\ Now("unblockLAM") => op \in Starts /\ At = 8
           /\ Now("clear") => op \in Starts /\ At = 9
           /\ Now("writeUnHalt") => op \in Starts /\ At = 11
           /\ Now("trigger") => (op = "StartCycle" /\ At = 12) \/ op = "Trigger"
           /\ Now("getStatus") => Reading(3)
           /\ Now("readParameters") => Reading(4)
           /\ Now("readLimits") => Reading(5)
           /\ Now("position") => Reading(6)
           /\ Now("rewind") => Reading(7)
           /\ Now("fetch") => Reading(8)
           /\ Now("verify") => Reading(9)
           /\ Now("decode") => Reading(10)
  <1> SUFFICES ASSUME todo # <<>> PROVE \A s : Head(todo) = s =>
           /\ s = "readStatus" => At = 1 \/ (op \in Starts /\ At = 10)
           /\ s = "writeHalt" => At = 2 /\ op # "Trigger"
           /\ s = "writeLimits" => op \in Starts /\ At = 3
           /\ s = "writeStatus" => op \in Starts /\ At = 4
           /\ s = "writeStart" => op \in Starts /\ At = 5
           /\ s = "checkStart" => op \in Starts /\ At = 6
           /\ s = "clearLAM" => op \in Starts /\ At = 7
           /\ s = "unblockLAM" => op \in Starts /\ At = 8
           /\ s = "clear" => op \in Starts /\ At = 9
           /\ s = "writeUnHalt" => op \in Starts /\ At = 11
           /\ s = "trigger" => (op = "StartCycle" /\ At = 12) \/ op = "Trigger"
           /\ s = "getStatus" => Reading(3)
           /\ s = "readParameters" => Reading(4)
           /\ s = "readLimits" => Reading(5)
           /\ s = "position" => Reading(6)
           /\ s = "rewind" => Reading(7)
           /\ s = "fetch" => Reading(8)
           /\ s = "verify" => Reading(9)
           /\ s = "decode" => Reading(10)
    BY Zenon DEF Now
  <1>1. At \in 1..Length(op) /\ Head(todo) = Script(op, At) /\ op \in Operations \cup {"none"}
    BY Due DEF TodoInv
  <1>2. CASE op \in Starts
    <2>1. At \in 1..12
      BY <1>1, <1>2, Lengths DEF Starts
    <2>2. op \notin {"Read", "Stop", "Trigger"} /\ (At = 12 => op = "StartCycle")
      BY <1>1, <1>2, Lengths DEF Starts
    <2>3. Head(todo) = Script(op, At)
      BY <1>1
    <2>4. QED
      BY <1>2, <2>1, <2>2, <2>3 DEF Script
  <1>3. CASE op = "Read"
    BY <1>1, <1>3, Lengths DEF Script, Starts, Reading
  <1>4. CASE op \in {"Stop", "Trigger", "none"}
    BY <1>1, <1>4, Lengths DEF Script, Starts, Reading
  <1>5. QED
    BY <1>1, <1>2, <1>3, <1>4 DEF Operations, Starts

(* Two sequences, joined.                                                  *)
LEMMA Joined ==
    ASSUME NEW S, NEW s \in Seq(S), NEW t \in Seq(S), NEW r, r = s \o t
    PROVE  /\ r \in Seq(S) /\ Len(r) = Len(s) + Len(t)
           /\ \A i \in 1..Len(r) : r[i] = IF i <= Len(s) THEN s[i] ELSE t[i - Len(s)]
  OBVIOUS

(* The scripts are what the code's calls amount to.                        *)
LEMMA Scripts ==
    ASSUME NEW o \in Operations
    PROVE  IF o = "Read" /\ buffer # <<>> THEN Program(o) = <<"decode">>
           ELSE /\ Program(o) \in Seq(Accesses) /\ Len(Program(o)) = Length(o)
                /\ \A i \in 1..Length(o) : Program(o)[i] = Script(o, i)
  <1>1. /\ Halt \in Seq(Accesses) /\ Len(Halt) = 2 /\ \A i \in 1..2 : Halt[i] = Script(o, i) \/ o = "Trigger"
        /\ UnHalt \in Seq(Accesses) /\ Len(UnHalt) = 2
        /\ <<"trigger">> \in Seq(Accesses) /\ <<"decode">> \in Seq(Accesses)
    BY DEF Halt, UnHalt, Accesses, Script, Starts, Operations
  <1>2. Reset \in Seq(Accesses) /\ StartSingleRun \in Seq(Accesses) /\ StartCycle \in Seq(Accesses)
    <2>1. <<"writeLimits", "writeStatus", "writeStart", "checkStart", "clearLAM",
            "unblockLAM", "clear">> \in Seq(Accesses)
      BY DEF Accesses
    <2>2. Reset \in Seq(Accesses)
      BY <1>1, <2>1, Joined DEF Reset
    <2>3. Reset \o UnHalt \in Seq(Accesses)
      BY <1>1, <2>2, Joined
    <2>4. (Reset \o UnHalt) \o <<"trigger">> \in Seq(Accesses)
      BY <1>1, <2>3, Joined
    <2>5. QED
      BY <2>2, <2>3, <2>4 DEF StartSingleRun, StartCycle
  <1>3. /\ Len(StartSingleRun) = 11
        /\ o \in Starts => \A i \in 1..11 : StartSingleRun[i] = Script(o, i)
    BY DEF StartSingleRun, Reset, Halt, UnHalt, Script, Starts
  <1>4. /\ Len(StartCycle) = 12
        /\ o \in Starts => \A i \in 1..12 : StartCycle[i] = Script(o, i)
    BY DEF StartCycle, Reset, Halt, UnHalt, Script, Starts
  <1>5. CASE o = "StartCycle"
    BY <1>2, <1>4, <1>5, Lengths DEF Program, Starts
  <1>6. CASE o = "StartSingleRun"
    BY <1>2, <1>3, <1>6, Lengths DEF Program, Starts
  <1>7. CASE o = "Stop"
    BY <1>7, Lengths DEF Program, Halt, Script, Starts, Accesses
  <1>8. CASE o = "Trigger"
    BY <1>8, Lengths DEF Program, Script, Starts, Accesses
  <1>9. CASE o = "Read" /\ buffer = <<>>
    <2>1. <<"getStatus", "readParameters", "readLimits", "position", "rewind", "fetch",
            "verify">> \in Seq(Accesses)
      BY DEF Accesses
    <2>2. Readout \in Seq(Accesses)
      BY <1>1, <2>1, Joined DEF Readout
    <2>3. Readout \o <<"decode">> \in Seq(Accesses)
      BY <1>1, <2>2, Joined
    <2>4. /\ Len(Readout \o <<"decode">>) = 10
          /\ \A i \in 1..10 : (Readout \o <<"decode">>)[i] = Script("Read", i)
      BY DEF Readout, Halt, Script, Starts
    <2>5. Program(o) = Readout \o <<"decode">>
      BY <1>9 DEF Program
    <2>6. QED
      BY <1>9, <2>3, <2>4, <2>5, Lengths
  <1>10. CASE o = "Read" /\ buffer # <<>>
    BY <1>10 DEF Program
  <1>11. QED
    BY <1>5, <1>6, <1>7, <1>8, <1>9, <1>10 DEF Operations, Starts

(* A call begins its script, a Read that finds the buffer filled at its    *)
(* last line.                                                              *)
LEMMA Begins ==
    ASSUME NEW o \in Operations, NEW c, Call(o, c)
    PROVE  TodoInv' /\ At' = IF o = "Read" /\ buffer # <<>> THEN 10 ELSE 1
  <1>1. op' = o /\ todo' = Program(o) /\ Length(o) \in Nat
    BY Lengths DEF Call, Operations, Starts
  <1>2. CASE o = "Read" /\ buffer # <<>>
    <2>1. Program(o) = <<"decode">>
      BY <1>2 DEF Program
    <2>2. todo' = <<"decode">> /\ op' = "Read" /\ Length(op') = 10
      BY <1>1, <1>2, <2>1, Lengths
    <2>3. At' = 10 /\ Len(todo') = 1 /\ todo' \in Seq(Accesses) /\ todo'[1] = "decode"
      BY <2>2 DEF At, Accesses
    <2>4. Script("Read", 10) = "decode"
      BY DEF Script, Starts
    <2>5. \A i \in 1..Len(todo') : todo'[i] = Script(op', At' + i - 1)
      BY <2>2, <2>3, <2>4
    <2>6. QED
      BY <1>1, <1>2, <2>2, <2>3, <2>5 DEF TodoInv
  <1>3. CASE ~(o = "Read" /\ buffer # <<>>)
    <2>1. /\ todo' \in Seq(Accesses) /\ Len(todo') = Length(o)
          /\ \A i \in 1..Length(o) : todo'[i] = Script(o, i)
      BY <1>1, <1>3, Scripts
    <2>2. At' = 1
      BY <1>1, <2>1 DEF At
    <2>3. \A i \in 1..Len(todo') : todo'[i] = Script(op', At' + i - 1)
      BY <1>1, <2>1, <2>2
    <2>4. QED
      BY <1>1, <1>3, <2>1, <2>2, <2>3 DEF TodoInv
  <1>4. QED
    BY <1>2, <1>3

(* An operation that is over leaves nothing to do.                         *)
LEMMA Ends == ASSUME Done PROVE TodoInv' /\ At' = 1
  BY Lengths DEF Done, TodoInv, At

(* A start is preparing the run from the parameters' last word to the      *)
(* clearing of the LAM.                                                    *)
LEMMA PreparingIs == ASSUME TodoInv, op \in Starts, At \in 5..7 PROVE Preparing
  <1>1. /\ todo \in Seq(Accesses) /\ Length(op) \in 11..12
        /\ \A i \in 1..Len(todo) : todo[i] = Script(op, At + i - 1)
    BY Lengths DEF TodoInv, Starts
  <1>2. Len(todo) = Length(op) - At + 1 /\ Len(todo) \in Nat
    BY <1>1 DEF At
  <1>3. 8 - At \in 1..Len(todo) /\ At + (8 - At) - 1 = 7
    BY <1>1, <1>2
  <1>4. todo[8 - At] = "clearLAM"
    <2>1. todo[8 - At] = Script(op, 7)
      BY <1>1, <1>3
    <2>2. QED
      BY <2>1 DEF Script, Starts
  <1>5. ASSUME NEW i \in 1..Len(todo) PROVE todo[i] \notin {"writeStatus", "writeLimits"}
    <2>1. todo[i] = Script(op, At + i - 1) /\ At + i - 1 \in 5..12
      BY <1>1, <1>2
    <2>2. \A k \in 5..12 : Script(op, k) \notin {"writeStatus", "writeLimits"}
      BY DEF Script, Starts
    <2>3. QED
      BY <2>1, <2>2
  <1>6. DOMAIN todo = 1..Len(todo)
    BY <1>1
  <1>7. QED
    BY <1>3, <1>4, <1>5, <1>6 DEF Preparing, Before, Range
-----------------------------------------------------------------------------
(* What the operations, the module and a failure do to op and todo.        *)
LEMMA TodoSteps ==
    ASSUME TodoInv, [Next]_vars
    PROVE  TodoInv'
  <1>1. CASE UNCHANGED vars
    BY <1>1, Advances DEF vars
  <1>2. ASSUME NEW o \in Operations, NEW c \in Channels \cup {ChanCount}, Call(o, c) PROVE TodoInv'
    BY <1>2, Begins
  <1>3. ASSUME NEW s \in Settings, EnableChannels(s) PROVE TodoInv'
    BY <1>3, Advances DEF EnableChannels
  <1>4. CASE Done
    BY <1>4, Ends
  <1>5. CASE HardwareStart \/ Take
    BY <1>5, Advances DEF HardwareStart, Take
  <1>6. CASE Access
    <2>1. op' = op /\ \/ todo # <<>> /\ Then
                      \/ todo' = <<>>
                      \/ todo' = todo
      BY <1>6, Zenon DEF Access, Fails, Throw, Writes, Written, Passes, CheckStart, Clear, GetStatus, ReadLimits,
         Position, Rewind, Fetch, Verify, Decode, Now
    <2>2. QED
      BY <2>1, Advances
  <1>7. QED
    BY <1>1, <1>2, <1>3, <1>4, <1>5, <1>6, Steps

(* What an access does to op and todo.                                     *)
LEMMA AccessSteps ==
    ASSUME TodoInv, Access
    PROVE  /\ op' = op /\ op \in Operations /\ At \in 1..Length(op)
           /\ At' = At + 1 \/ At' = Length(op) + 1 \/ (Reading(8) /\ At' = At)
  <1>1. op' = op /\ todo # <<>>
    BY Zenon DEF Access, Fails, Throw, Writes, Written, Passes, CheckStart, Clear, GetStatus, ReadLimits,
       Position, Rewind, Fetch, Verify, Decode, Now
  <1>2. Then \/ todo' = <<>> \/ (Now("fetch") /\ todo' = todo)
    BY Zenon DEF Access, Fails, Throw, Writes, Written, Passes, CheckStart, Clear, GetStatus, ReadLimits,
       Position, Rewind, Fetch, Verify, Decode, Now
  <1>3. At \in 1..Length(op)
    BY <1>1, Due
  <1>4. op # "none"
    BY <1>3, Lengths
  <1>5. QED
    BY <1>1, <1>2, <1>3, <1>4, Advances, Places DEF TodoInv

(* A step that leaves the module's state alone, other than the writes that *)
(* change its mode, leaves BusyInv.                                        *)
LEMMA BusyKept ==
    ASSUME BusyInv, TodoInv, UNCHANGED <<op, module, halt, busy, turn>>, early => early',
           params'.numbers = params.numbers \/ op \notin Starts,
           \/ At' = At
           \/ At' = Length(op) + 1
           \/ At' = At + 1 /\ At # 2 /\ (op \in Starts => At # 4 /\ At \in 1..Length(op))
    PROVE  BusyInv'
  <1>1. op \in Starts => Length(op) \in 11..12
    BY Lengths DEF Starts
  <1>2. op = "Read" => Length(op) = 10
    BY Lengths
  <1>3. Length(op) \in Nat /\ Len(todo) \in Nat /\ At \in Int
    BY Lengths DEF TodoInv, At, Operations, Starts
  <1>4. QED
    BY <1>1, <1>2, <1>3 DEF BusyInv

(* BusyInv is kept.                                                        *)
LEMMA BusyInvStep == TypeInv /\ TodoInv /\ BusyInv /\ [Next]_vars => BusyInv'
  <1> SUFFICES ASSUME TypeInv, TodoInv, BusyInv, [Next]_vars PROVE BusyInv'
    OBVIOUS
  <1>0. /\ op \in Starts => Length(op) \in 11..12
        /\ op = "Read" => Length(op) = 10
        /\ Length(op) \in Nat /\ At \in Int
        /\ module.on # {} => Cardinality(module.on) \in Nat \ {0}
    <2>1. /\ op \in Starts => Length(op) \in 11..12
          /\ op = "Read" => Length(op) = 10
      BY Lengths DEF Starts
    <2>2. Length(op) \in Nat /\ At \in Int
      BY Lengths DEF TodoInv, At, Operations, Starts
    <2>3. module.on # {} => Cardinality(module.on) \in Nat \ {0}
      <3>1. module.on \in SUBSET Channels
        BY DEF TypeInv, Words
      <3>2. IsFiniteSet(module.on) /\ Cardinality(module.on) \in Nat
        BY <3>1, Ranks, AdcAssumption
      <3>3. QED
        BY <3>2, FS_EmptySet
    <2>4. QED
      BY <2>1, <2>2, <2>3
  <1>1. CASE UNCHANGED vars
    BY <1>1, Advances, BusyKept DEF vars, device, histories
  <1>2. ASSUME NEW o \in Operations, NEW c \in Channels \cup {ChanCount}, Call(o, c) PROVE BusyInv'
    <2>1. At' = 1 \/ (At' = 10 /\ o = "Read")
      BY <1>2, Begins
    <2>2. op' = o /\ UNCHANGED <<module, halt, busy, turn>>
      BY <1>2 DEF Call, device
    <2>3. o \in Starts => params'.numbers
      <3>1. params \in Words
        BY DEF TypeInv, TypeOK
      <3>2. QED
        BY <1>2, <3>1 DEF Call, Words
    <2>4. "Read" \notin Starts
      BY DEF Starts
    <2>5. QED
      BY <2>1, <2>2, <2>3, <2>4 DEF BusyInv
  <1>3. ASSUME NEW s \in Settings, EnableChannels(s) PROVE BusyInv'
    <2>1. op = "none" /\ "none" \notin Starts
      BY <1>3 DEF EnableChannels, Starts
    <2>2. QED
      BY <1>3, <2>1, Advances, BusyKept DEF EnableChannels, device
  <1>4. CASE Done
    BY <1>4 DEF Done, device, BusyInv, Starts
  <1>5. CASE Runs /\ UNCHANGED <<op, todo, params, module, halt>>
    <2>1. At' = At /\ op' = op
      BY <1>5, Advances
    <2>2. ~halt /\ module.on # {} /\ busy' /\ turn' = 0
      BY <1>5 DEF Runs, IsReady
    <2>3. op \in Starts /\ At \in 5..7 => early'
      BY <1>5, PreparingIs DEF Runs
    <2>4. QED
      BY <1>5, <1>0, <2>1, <2>2, <2>3 DEF BusyInv
  <1>6. CASE Take
    <2>1. At' = At /\ op' = op
      BY <1>6, Advances DEF Take
    <2>2. busy /\ turn' = (turn + 1) % Cardinality(module.on) /\ UNCHANGED <<module, halt, params, early>>
      BY <1>6 DEF Take, histories
    <2>3. turn \in Nat
      BY AdcAssumption DEF TypeInv, TypeOK
    <2>4. turn' < Cardinality(module.on)
      <3>1. PICK n \in Nat \ {0} : n = Cardinality(module.on)
        BY <2>2, <1>0 DEF BusyInv
      <3>2. (turn + 1) % n \in 0..(n - 1)
        BY <2>3, Remainder
      <3>3. QED
        BY <2>2, <3>1, <3>2
    <2>5. QED
      BY <2>1, <2>2, <2>4 DEF BusyInv
  <1>7. CASE Access
    <2>1. /\ op' = op /\ At \in 1..Length(op)
          /\ At' = At + 1 \/ At' = Length(op) + 1 \/ (Reading(8) /\ At' = At)
      BY <1>7, AccessSteps
    <2>2. CASE Fails
      <3>1. At' = Length(op) + 1
        BY <2>2, Advances DEF Fails, Throw
      <3>2. QED
        BY <2>1, <2>2, <3>1, BusyKept DEF Fails, Throw
    <2>3. CASE Writes
      <3>0. UNCHANGED params
        BY <2>3 DEF Writes
      <3>1. CASE Now("writeHalt") /\ Setting(TRUE) /\ UNCHANGED <<module, turn>>
        <4>1. At = 2
          BY <3>1, Places
        <4>2. halt' /\ ~busy'
          BY <3>1, Zenon DEF Setting
        <4>3. At' = 3 \/ At' = Length(op) + 1
          BY <2>1, <4>1 DEF Reading
        <4>4. QED
          BY <1>0, <2>1, <3>0, <3>1, <4>2, <4>3 DEF BusyInv
      <3>2. CASE Now("writeUnHalt") /\ Setting(FALSE) /\ UNCHANGED <<module, turn, early>>
        <4>1. At = 11 /\ op \in Starts
          BY <3>2, Places
        <4>2. ~halt' /\ (busy' => busy)
          BY <3>2, Zenon DEF Setting
        <4>3. At' = 12 \/ At' = Length(op) + 1
          BY <2>1, <4>1 DEF Reading, Starts
        <4>4. op # "Read"
          BY <4>1 DEF Starts
        <4>5. QED
          BY <1>0, <2>1, <3>0, <3>2, <4>2, <4>3, <4>4 DEF BusyInv
      <3>3. CASE Now("writeStatus") /\ Setting(FALSE) /\ module' = [params EXCEPT !.gain = module.gain]
        <4>1. At = 4 /\ op \in Starts /\ op # "Read"
          BY <3>3, Places DEF Starts
        <4>2. halt /\ ~busy /\ params.numbers
          BY <4>1 DEF BusyInv
        <4>3. ~halt' /\ ~busy'
          BY <3>3, <4>2, Zenon DEF Setting
        <4>4. module'.numbers = params.numbers
          BY <3>3 DEF TypeInv, TypeOK, Words
        <4>5. At' = 5 \/ At' = Length(op) + 1
          BY <2>1, <4>1 DEF Reading
        <4>6. QED
          BY <1>0, <2>1, <3>0, <4>1, <4>2, <4>3, <4>4, <4>5 DEF BusyInv
      <3>4. CASE Now("writeLimits") /\ module' = [module EXCEPT !.gain = params.gain]
                 /\ UNCHANGED <<halt, busy, turn, early>>
        <4>1. At = 3 /\ op \in Starts /\ op # "Read"
          BY <3>4, Places DEF Starts
        <4>2. module'.numbers = module.numbers /\ module'.on = module.on
          BY <3>4 DEF TypeInv, Words
        <4>3. At' = 4 \/ At' = Length(op) + 1
          BY <2>1, <4>1 DEF Reading
        <4>4. QED
          BY <1>0, <2>1, <3>0, <3>4, <4>1, <4>2, <4>3 DEF BusyInv
      <3>5. CASE Now("writeStart") \/ Now("clearLAM")
        <4>1. UNCHANGED <<op, module, halt, busy, turn, early>>
          BY <2>3, <3>5 DEF Writes, Written, Now
        <4>2. op \in Starts /\ At \in {5, 7}
          BY <3>5, Places
        <4>3. At' = At + 1 \/ At' = Length(op) + 1
          BY <2>1, <4>2 DEF Reading, Starts
        <4>4. QED
          BY <2>1, <3>0, <4>1, <4>2, <4>3, BusyKept
      <3>6. CASE Now("trigger")
        <4>1. (op = "StartCycle" /\ At = 12) \/ op = "Trigger"
          BY <3>6, Places
        <4>2. /\ UNCHANGED <<op, module, halt>>
              /\ Runs \/ UNCHANGED <<busy, turn, early>>
          BY <2>3, <3>6, Zenon DEF Writes, Written, Now
        <4>3. ~(op' \in Starts /\ At' \in 3..Length(op))
          BY <2>1, <4>1, Lengths DEF Reading, Starts
        <4>4. (busy' => ~halt /\ module.on # {} /\ turn' < Cardinality(module.on))
          <5>1. CASE Runs
            <6>1. ~halt /\ module.on # {} /\ turn' = 0
              BY <5>1 DEF Runs, IsReady
            <6>2. QED
              BY <6>1, <1>0
          <5>2. CASE UNCHANGED <<busy, turn, early>>
            BY <5>2 DEF BusyInv
          <5>3. QED
            BY <4>2, <5>1, <5>2
        <4>5. QED
          BY <1>0, <2>1, <3>0, <4>1, <4>2, <4>3, <4>4 DEF BusyInv
      <3>7. QED
        BY <2>3, <3>1, <3>2, <3>3, <3>4, <3>5, <3>6, Zenon DEF Writes, Written
    <2>4. CASE Passes \/ CheckStart \/ Clear \/ GetStatus \/ ReadLimits \/ Position \/ Rewind \/ Fetch \/ Verify \/ Decode
      <3>1. UNCHANGED <<op, module, halt, busy, turn, early>>
        BY <2>4 DEF Passes, CheckStart, Clear, GetStatus, ReadLimits, Position, Rewind, Fetch, Verify,
           Decode, Throw, device, histories
      <3>2. At # 2 /\ (op \in Starts => At # 4)
        <4>1. \/ At \in {1, 6, 8, 9, 10}
              \/ Reading(3) \/ Reading(4) \/ Reading(5) \/ Reading(6) \/ Reading(7)
              \/ Reading(8) \/ Reading(9) \/ Reading(10)
          BY <2>4, Places, Zenon DEF Passes, CheckStart, Clear, GetStatus, ReadLimits, Position, Rewind,
             Fetch, Verify, Decode
        <4>2. QED
          BY <4>1 DEF Reading, Starts
      <3>3. params' = params \/ op \notin Starts
        BY <2>4, Places DEF Passes, CheckStart, Clear, GetStatus, ReadLimits, Position, Rewind, Fetch,
           Verify, Decode, Throw, Reading, Starts
      <3>4. QED
        BY <2>1, <3>1, <3>2, <3>3, BusyKept
    <2>5. QED
      BY <1>7, <2>2, <2>3, <2>4 DEF Access
  <1>8. QED
    BY <1>1, <1>2, <1>3, <1>4, <1>5, <1>6, <1>7, Steps DEF HardwareStart
-----------------------------------------------------------------------------
(* A sample is taken: the run goes on where it stands.                     *)
LEMMA TakeRun ==
    ASSUME TypeInv, TodoInv, BusyInv, RunInv, Take, Sound
    PROVE  (OverInv /\ CountInv /\ SampleInv /\ RestInv)'
  <1> DEFINE n == Cardinality(module.on)
             c == Scanned(module.on, turn)
  <1>1. At' = At /\ op' = op /\ ~halt /\ busy
    BY Advances DEF Take, BusyInv
  <1>2. ~Reading(8) /\ ~Reading(8)' /\ Stand = address /\ Stand' = address'
    BY <1>1 DEF BusyInv, Reading, Stand
  <1>3. module.on \in SUBSET Channels /\ module.on # {} /\ n \in Nat \ {0} /\ turn \in 0..(n - 1)
    <2>1. module.on \in SUBSET Channels /\ turn \in Nat
      BY AdcAssumption DEF TypeInv, TypeOK, Words
    <2>2. module.on # {} /\ turn < n
      BY <1>1 DEF BusyInv
    <2>3. n \in Nat
      BY <2>1, Ranks, AdcAssumption
    <2>4. QED
      BY <2>1, <2>2, <2>3
  <1>4. c \in Channels
    BY <1>3, ScannedRank
  <1>5. PICK w \in Samples :
          /\ w.of = c /\ Good(w)
          /\ memory' = [memory EXCEPT ![address] = w]
          /\ taken' = IF overfill' THEN <<>> ELSE Append(taken, w)
    <2>1. PICK o \in {FALSE, MayOverload} :
            LET w == Sample(IF module.numbers THEN c ELSE 0, o, module.gain[c], c)
            IN  /\ memory' = [memory EXCEPT ![address] = w]
                /\ taken' = IF overfill' THEN <<>> ELSE Append(taken, w)
      BY DEF Take
    <2>2. module.numbers
      BY <1>1 DEF BusyInv
    <2>3. o \in BOOLEAN /\ module.gain \in [Channels -> Nat]
      <3>1. o \in BOOLEAN
        BY Zenon DEF MayOverload
      <3>2. QED
        BY <3>1, Gains DEF TypeInv
    <2> DEFINE w == Sample(c, o, module.gain[c], c)
    <2>4. w \in Samples /\ w.of = c /\ Good(w)
      BY <1>4, <2>3 DEF Sample, Samples, Good
    <2>5. /\ memory' = [memory EXCEPT ![address] = w]
          /\ taken' = IF overfill' THEN <<>> ELSE Append(taken, w)
      BY <2>1, <2>2
    <2>6. QED
      BY <2>4, <2>5
  <1>6. module' = module /\ \A x : Good(x)' <=> Good(x)
    BY DEF Take, Good
  <1>7. /\ OverInv /\ CountInv /\ SampleInv /\ RestInv
        /\ address \in 0..StartAddress /\ memory \in [0..StartAddress -> Samples] /\ taken \in Seq(Samples)
        /\ StartAddress \in Nat \ {0} /\ StartAddress \in 0..StartAddress
    BY Memory DEF RunInv, TypeInv, TypeOK
  <1>8. /\ address' = Below(address) /\ turn' = (turn + 1) % n
        /\ halt' = halt
    BY DEF Take
  <1>9. overfill' <=> (overfill \/ address = 0)
    BY Zenon DEF Take
  <1>10. busy' <=> (module.cycling \/ address' # 0)
    BY Zenon DEF Take
  <1>11. lam' <=> (lam \/ ~busy')
    BY Zenon DEF Take
  <1>12. CASE overfill'
    <2>1. module.cycling
      BY <1>1, <1>7, <1>9, <1>12, Zenon DEF OverInv, RestInv
    <2>2. \A a \in 1..StartAddress : Good(memory[a])
      <3>1. CASE overfill
        BY <1>7, <3>1 DEF OverInv
      <3>2. CASE ~overfill
        <4>1. address = 0
          BY <1>9, <1>12, <3>2
        <4>2. Len(taken) = StartAddress
          BY <1>2, <1>7, <3>2, <4>1 DEF CountInv
        <4>3. ASSUME NEW a \in 1..StartAddress PROVE Good(memory[a])
          <5>1. StartAddress - a + 1 \in 1..Len(taken) /\ StartAddress - (StartAddress - a + 1) + 1 = a
            BY <1>7, <4>2
          <5>2. QED
            BY <1>7, <3>2, <5>1 DEF SampleInv
        <4>4. QED
          BY <4>3
      <3>3. QED
        BY <3>1, <3>2
    <2>3. \A a \in 0..StartAddress : Good(memory'[a])
      <3>1. CASE overfill
        BY <1>5, <1>7, <3>1 DEF OverInv
      <3>2. CASE address = 0
        BY <1>5, <1>7, <2>2, <3>2
      <3>3. QED
        BY <1>9, <1>12, <3>1, <3>2
    <2>4. OverInv'
      BY <1>6, <2>1, <2>3 DEF OverInv
    <2>5. CountInv' /\ SampleInv'
      BY <1>12 DEF CountInv, SampleInv
    <2>6. ~Starting(7)'
      <3>1. Starting(7) => op \in Starts /\ At \in 5..7 /\ ~early
        BY AtRange DEF Starting, Sound
      <3>2. ~Starting(7)
        BY <1>1, <3>1 DEF BusyInv
      <3>3. QED
        BY <1>1, <3>2 DEF Starting
    <2>7. RestInv'
      BY <1>6, <1>10, <2>1, <2>6 DEF RestInv
    <2>8. QED
      BY <2>4, <2>5, <2>7
  <1>13. CASE ~overfill'
    <2>1. ~overfill /\ address \in 1..StartAddress /\ address' = address - 1
      BY <1>7, <1>8, <1>9, <1>13 DEF Below
    <2>2. taken' = Append(taken, w)
      BY <1>5, <1>13
    <2>3. Len(taken) = StartAddress - address /\ turn = Len(taken) % n
      BY <1>1, <1>2, <1>7, <2>1 DEF CountInv
    <2>4. /\ Len(taken') = Len(taken) + 1 /\ taken'[Len(taken) + 1] = w
          /\ \A i \in 1..Len(taken) : taken'[i] = taken[i]
          /\ Len(taken) \in Nat
      BY <1>7, <2>2
    <2>5. Len(taken') = StartAddress - address' /\ taken' # <<>>
      BY <1>7, <2>1, <2>2, <2>3, <2>4
    <2>6. turn' = Len(taken') % n
      <3> HIDE DEF n
      <3>1. (Len(taken) + 1) % n = ((Len(taken) % n) + 1) % n
        BY <1>3, <2>4, NextRemainder
      <3>2. QED
        BY <1>8, <2>3, <2>4, <3>1
    <2>7. CountInv'
      BY <1>2, <1>3, <1>6, <2>5, <2>6 DEF CountInv
    <2>8. SampleInv'
      <3> SUFFICES ASSUME NEW i \in 1..Len(taken')
                   PROVE  /\ taken'[i] = memory'[StartAddress - i + 1]
                          /\ Good(taken'[i])
                          /\ taken'[i].of = Scanned(module.on, (i - 1) % n)
        BY <1>6 DEF SampleInv
      <3>1. CASE i = Len(taken) + 1
        <4>1. StartAddress - i + 1 = address /\ i - 1 = Len(taken)
          BY <1>7, <2>3, <2>4, <3>1
        <4>2. memory'[address] = w
          BY <1>5, <1>7
        <4>3. QED
          BY <1>5, <2>3, <2>4, <3>1, <4>1, <4>2
      <3>2. CASE i # Len(taken) + 1
        <4>1. i \in 1..Len(taken)
          BY <2>4, <3>2
        <4>2. StartAddress - i + 1 # address /\ StartAddress - i + 1 \in 0..StartAddress
          BY <1>7, <2>3, <4>1
        <4>3. memory'[StartAddress - i + 1] = memory[StartAddress - i + 1]
          BY <1>5, <1>7, <4>2
        <4>4. QED
          BY <1>7, <2>1, <2>4, <4>1, <4>3 DEF SampleInv
      <3>3. QED
        BY <3>1, <3>2
    <2>9. OverInv'
      BY <1>13 DEF OverInv
    <2>10. ~Starting(7)'
      <3>1. Starting(7) => op \in Starts /\ At \in 5..7 /\ ~early
        BY AtRange DEF Starting, Sound
      <3>2. ~Starting(7)
        BY <1>1, <3>1 DEF BusyInv
      <3>3. QED
        BY <1>1, <3>2 DEF Starting
    <2>11. ~module.cycling => (lam' <=> Len(taken') = StartAddress)
      <3> SUFFICES ASSUME ~module.cycling PROVE lam' <=> address' = 0
        BY <1>7, <2>1, <2>5
      <3>1. ~Starting(7)
        BY <1>1, <2>10 DEF Starting
      <3>2. Len(taken) # StartAddress
        BY <1>7, <2>1, <2>3
      <3>3. ~lam
        BY <1>7, <3>1, <3>2 DEF RestInv
      <3>4. QED
        BY <1>10, <1>11, <3>3
    <2>12. RestInv'
      BY <1>6, <1>10, <2>10, <2>11 DEF RestInv
    <2>13. QED
      BY <2>7, <2>8, <2>9, <2>12
  <1>14. QED
    BY <1>12, <1>13
-----------------------------------------------------------------------------
(* What an access does to the histories: a start or a readout that is      *)
(* thrown out of is torn, and only Clear mends it.                         *)
LEMMA TornSteps ==
    ASSUME TodoInv, Access
    PROVE  /\ early => early'
           /\ \/ At' = Length(op) + 1 /\ (torn \/ op \in Starts \cup {"Read"} => torn')
              \/ Clear /\ At = 9 /\ At' = 10 /\ op \in Starts /\ torn' = FALSE
              \/ At' = At + 1 /\ torn' = torn
              \/ Reading(8) /\ At' = At /\ torn' = torn
  <1>1. early => early'
    BY Zenon DEF Access, Fails, Throw, Writes, Written, Runs, Passes, CheckStart, Clear, GetStatus,
       ReadLimits, Position, Rewind, Fetch, Verify, Decode, histories
  <1>2. todo # <<>> /\ op' = op
    BY Zenon DEF Access, Fails, Throw, Writes, Written, Passes, CheckStart, Clear, GetStatus, ReadLimits,
       Position, Rewind, Fetch, Verify, Decode, Now
  <1>3. \/ todo' = <<>> /\ torn' = (torn \/ op \in Starts \cup {"Read"})
        \/ Clear /\ Now("clear") /\ Then /\ torn' = FALSE
        \/ Then /\ torn' = torn
        \/ Now("fetch") /\ todo' = todo /\ torn' = torn
    BY Zenon DEF Access, Fails, Throw, Writes, Passes, CheckStart, Clear, GetStatus, ReadLimits,
       Position, Rewind, Fetch, Verify, Decode, histories
  <1>4. CASE todo' = <<>> /\ torn' = (torn \/ op \in Starts \cup {"Read"})
    <2>1. At' = Length(op) + 1
      BY <1>2, <1>4, Advances
    <2>2. torn \/ op \in Starts \cup {"Read"} => torn'
      BY <1>4, Zenon
    <2>3. QED
      BY <1>1, <2>1, <2>2
  <1>5. CASE Clear /\ Now("clear") /\ Then /\ torn' = FALSE
    BY <1>1, <1>2, <1>5, Advances, Places
  <1>6. CASE Then /\ torn' = torn
    BY <1>1, <1>2, <1>6, Advances
  <1>7. CASE Now("fetch") /\ todo' = todo /\ torn' = torn
    BY <1>1, <1>2, <1>7, Advances, Places
  <1>8. QED
    BY <1>3, <1>4, <1>5, <1>6, <1>7

(* What is sound after an access was so before it, but for the start whose *)
(* last parameter is written; and what is kept was kept, but for the start *)
(* that clears the buffer.                                                 *)
LEMMA SoundBefore ==
    ASSUME TodoInv, Access
    PROVE  /\ Sound' /\ ~Now("writeStart") => Sound
           /\ Kept' /\ ~Clear => Kept
           /\ Clear /\ Sound' => At = 9 /\ At' = 10 /\ op \in Starts
           /\ (Sound' \/ Kept') /\ op \in Starts \cup {"Read"}
                => At' = At + 1 \/ (Reading(8) /\ At' = At)
  <1>1. op' = op /\ op \in Operations /\ At \in 1..Length(op)
    BY AccessSteps
  <1>2. op \in Starts => Length(op) \in 11..12 /\ op # "Read"
    BY Lengths DEF Starts
  <1>3. op = "Read" => Length(op) = 10 /\ op \notin Starts
    BY Lengths DEF Starts
  <1>4. At = 5 /\ op \in Starts => Now("writeStart")
    <2>1. todo # <<>>
      BY Zenon DEF Access, Fails, Throw, Writes, Written, Passes, CheckStart, Clear, GetStatus, ReadLimits,
         Position, Rewind, Fetch, Verify, Decode, Now
    <2>2. Head(todo) = Script(op, At)
      BY <2>1, Due
    <2>3. QED
      BY <2>1, <2>2 DEF Script, Now, Starts
  <1>5. Length(op) \in Nat
    BY AtRange
  <1>6. CASE At' = Length(op) + 1 /\ (torn \/ op \in Starts \cup {"Read"} => torn')
    <2>1. ~Starting(9)'
      BY <1>1, <1>2, <1>6 DEF Starting
    <2>2. Sound' => ~early' /\ ~torn'
      BY <2>1, Zenon DEF Sound
    <2>3. Kept' => ~early' /\ ~torn'
      BY Zenon DEF Kept
    <2>4. Sound' \/ Kept' => ~early /\ ~torn /\ op \notin Starts
      BY <1>6, <2>2, <2>3, TornSteps
    <2>5. op \notin Starts /\ ~early /\ ~torn => Sound /\ Kept
      BY Zenon DEF Sound, Kept, Starting
    <2>6. Clear => op \in Starts
      BY Places DEF Clear
    <2>7. (Sound' \/ Kept') => op \notin Starts \cup {"Read"}
      BY <1>6, <2>2, <2>3
    <2>8. QED
      BY <2>4, <2>5, <2>6, <2>7
  <1>7. CASE Clear /\ At = 9 /\ At' = 10 /\ op \in Starts /\ torn' = FALSE
    <2>1. ~Starting(9)' /\ Starting(9) /\ ~Now("writeStart")
      BY <1>1, <1>7, Places DEF Starting
    <2>2. Sound' => ~early
      BY TornSteps, Zenon DEF Sound
    <2>3. ~early => Sound
      BY <1>7, <2>1 DEF Sound
    <2>4. QED
      BY <1>7, <2>2, <2>3
  <1>8. CASE At' = At + 1 /\ torn' = torn
    <2>1. Starting(9)' => Starting(9)
      BY <1>1, <1>8 DEF Starting
    <2>2. Starting(9) /\ ~Starting(9)' => Clear
      <3>1. Starting(9) /\ ~Starting(9)' => At = 9 /\ op \in Starts
        BY <1>1, <1>5, <1>8 DEF Starting
      <3>2. At = 9 /\ op \in Starts => Now("clear")
        <4>1. todo # <<>>
          BY Zenon DEF Access, Fails, Throw, Writes, Written, Passes, CheckStart, Clear, GetStatus,
             ReadLimits, Position, Rewind, Fetch, Verify, Decode, Now
        <4>2. Head(todo) = Script(op, At)
          BY <4>1, Due
        <4>3. QED
          BY <4>1, <4>2 DEF Script, Now, Starts
      <3>3. Now("clear") => Clear
        BY Zenon DEF Access, Fails, Writes, Written, Passes, CheckStart, GetStatus,
           ReadLimits, Position, Rewind, Fetch, Verify, Decode, Now
      <3>4. QED
        BY <3>1, <3>2, <3>3
    <2>3. Sound' /\ ~Now("writeStart") => Sound
      <3>1. CASE Starting(9)'
        <4>1. Sound' => ~early' /\ At' > 5
          BY <3>1 DEF Sound
        <4>2. Sound' /\ ~Now("writeStart") => At > 5
          BY <1>1, <1>4, <1>5, <1>8, <3>1, <4>1 DEF Starting
        <4>3. QED
          BY <2>1, <3>1, <4>1, <4>2, TornSteps DEF Sound
      <3>2. CASE ~Starting(9)'
        <4>1. Sound' => ~early' /\ ~torn'
          BY <3>2, Zenon DEF Sound
        <4>2. Starting(9) => At = 9
          BY <1>1, <1>5, <1>8, <3>2 DEF Starting
        <4>3. QED
          BY <1>8, <4>1, <4>2, TornSteps DEF Sound
      <3>3. QED
        BY <3>1, <3>2
    <2>4. Kept' /\ ~Clear => Kept
      BY <1>8, <2>1, <2>2, TornSteps, Zenon DEF Kept
    <2>5. Clear => At = 9 /\ op \in Starts
      BY Places DEF Clear
    <2>6. QED
      BY <1>8, <2>3, <2>4, <2>5
  <1>9. CASE Reading(8) /\ At' = At /\ torn' = torn
    <2>1. op \notin Starts /\ ~Clear
      BY <1>9, Places DEF Reading, Clear, Starts
    <2>2. Sound' => Sound
      BY <1>1, <1>9, <2>1, TornSteps, Zenon DEF Sound, Starting
    <2>3. Kept' => Kept
      BY <1>1, <1>9, <2>1, TornSteps, Zenon DEF Kept, Starting
    <2>4. QED
      BY <1>9, <2>1, <2>2, <2>3
  <1>10. QED
    BY <1>6, <1>7, <1>8, <1>9, TornSteps

(* A start or a readout that is thrown out of is neither sound nor kept.   *)
LEMMA Thrown ==
    ASSUME TodoInv, op' = op, todo' = <<>>, torn' = (torn \/ op \in Starts \cup {"Read"}),
           op \in Starts \cup {"Read"}
    PROVE  ~Sound' /\ ~Kept'
  <1>1. At' = Length(op) + 1 /\ torn'
    BY Advances, Zenon
  <1>2. op \in Starts => Length(op) \in 11..12
    BY Lengths DEF Starts
  <1>3. ~Starting(9)'
    BY <1>1, <1>2 DEF Starting
  <1>4. QED
    BY <1>1, <1>3, Zenon DEF Sound, Kept

(* A step that leaves the run alone leaves what is known of it.            *)
LEMMA RunKept ==
    ASSUME RunInv, Sound, UNCHANGED <<module, halt, busy, overfill, lam, memory, turn, taken>>,
           Stand' = Stand, address' = address \/ (halt /\ ~busy), Starting(7)' <=> Starting(7)
    PROVE  RunInv'
  BY Zenon DEF RunInv, OverInv, CountInv, SampleInv, RestInv, Good

(* A run begins where the module is at rest with nothing of another run.   *)
LEMMA RunsRun ==
    ASSUME TypeInv, RunInv, Sound, Runs, ~Starting(7), ~Starting(7)', Stand' = Stand,
           UNCHANGED <<module, halt, overfill, lam, address, memory, taken>>
    PROVE  RunInv'
  <1>1. ~halt /\ ~busy /\ ~Full /\ module.on # {} /\ turn' = 0
    BY DEF Runs, IsReady
  <1>2. taken = <<>> /\ ~overfill
    BY <1>1, Zenon DEF RunInv, RestInv, Full
  <1>3. Len(taken) % Cardinality(module.on) = 0
    <2>1. module.on \in SUBSET Channels
      BY DEF TypeInv, Words
    <2>2. IsFiniteSet(module.on) /\ Cardinality(module.on) \in Nat
      BY <2>1, Ranks, AdcAssumption
    <2>3. Cardinality(module.on) \in Nat \ {0}
      BY <1>1, <2>2, FS_EmptySet
    <2>4. Divided(0, Cardinality(module.on), 0, 0)
      BY <2>3 DEF Divided
    <2>5. 0 % Cardinality(module.on) = 0
      BY <2>3, <2>4, Division
    <2>6. QED
      BY <1>2, <2>5
  <1>4. ~module.cycling => address # 0
    BY <1>1, Zenon DEF Full
  <1>5. OverInv' /\ SampleInv'
    BY <1>2 DEF OverInv, SampleInv
  <1>6. CountInv'
    BY <1>1, <1>2, <1>3 DEF CountInv, RunInv
  <1>7. RestInv'
    <2>1. busy'
      BY Zenon DEF Runs
    <2>2. RestInv
      BY Zenon DEF RunInv
    <2>3. QED
      BY <1>4, <2>1, <2>2, Zenon DEF RestInv
  <1>8. QED
    BY <1>5, <1>6, <1>7 DEF RunInv

(* The writes keep what is known of the run.                               *)
LEMMA RunWrites ==
    ASSUME TypeInv, TodoInv, BusyInv, RunInv, Writes PROVE RunInv'
  <1> SUFFICES ASSUME Sound' PROVE RunInv'
    BY DEF RunInv
  <1>1. /\ op' = op /\ At \in 1..Length(op)
        /\ early => early'
        /\ Access /\ ~Clear
    <2>1. Access
      BY DEF Access
    <2>2. ~Clear
      BY Zenon DEF Writes, Written, Clear, Now
    <2>3. QED
      BY <2>1, <2>2, AccessSteps, TornSteps
  <1>2. op \in Starts \cup {"Read"} => At' = At + 1 \/ (Reading(8) /\ At' = At)
    BY <1>1, SoundBefore
  <1>3. Sound \/ Now("writeStart")
    BY <1>1, SoundBefore
  <1>4. op \in Starts /\ Starting(9)' => At' > 5
    BY DEF Sound
  <1>5. CASE Now("writeHalt") /\ Setting(TRUE) /\ UNCHANGED <<module, overfill, lam, address, memory, turn, taken, early>>
    <2>1. At = 2 /\ Sound
      BY <1>3, <1>5, Places, Zenon DEF Now
    <2>2. op \notin Starts
      BY <1>1, <1>2, <1>4, <2>1 DEF Starting, Reading
    <2>3. ~Reading(8) /\ ~Reading(8)'
      BY <1>1, <1>2, <2>1 DEF Reading
    <2>4. halt' /\ ~busy'
      BY <1>5, Zenon DEF Setting
    <2>5. ~Starting(7) /\ ~Starting(7)' /\ Stand' = Stand
      BY <1>1, <1>5, <2>2, <2>3 DEF Starting, Stand
    <2>6. QED
      BY <1>5, <2>1, <2>4, <2>5, Zenon DEF RunInv, OverInv, CountInv, SampleInv, RestInv, Good
  <1>6. CASE Now("writeUnHalt") /\ Setting(FALSE) /\ UNCHANGED <<module, overfill, lam, address, memory, turn, taken, early>>
    <2>1. At = 11 /\ op \in Starts /\ Sound /\ op # "Read"
      BY <1>3, <1>6, Places, Zenon DEF Now, Starts
    <2>2. ~halt
      BY <1>1, <2>1 DEF BusyInv
    <2>3. halt' = halt /\ busy' = busy
      <3>1. halt \in BOOLEAN /\ busy \in BOOLEAN
        BY DEF TypeInv
      <3>2. QED
        BY <1>6, <2>2, <3>1, Zenon DEF Setting
    <2>4. ~Starting(7) /\ ~Starting(7)' /\ Stand' = Stand
      BY <1>1, <1>2, <1>6, <2>1 DEF Starting, Stand, Reading
    <2>5. QED
      BY <1>6, <2>1, <2>3, <2>4, RunKept
  <1>7. CASE Now("writeLimits") \/ Now("writeStatus")
    <2>1. At \in 3..4 /\ op \in Starts
      BY <1>7, Places
    <2>2. FALSE
      BY <1>1, <1>2, <1>4, <2>1 DEF Starting, Reading, Starts
    <2>3. QED
      BY <2>2
  <1>8. CASE Now("writeStart") /\ address' = StartAddress /\ overfill' = FALSE
          /\ memory' = Fresh /\ taken' = <<>> /\ UNCHANGED <<module, halt, busy, lam, turn, early>>
    <2>1. At = 5 /\ op \in Starts /\ op # "Read"
      BY <1>8, Places DEF Starts
    <2>2. At' = 6 /\ ~early /\ ~halt /\ ~busy
      <3>1. At' = 6
        BY <1>2, <2>1 DEF Reading
      <3>2. ~early
        BY <1>1, Zenon DEF Sound
      <3>3. ~halt /\ ~busy
        BY <1>1, <2>1, <3>2 DEF BusyInv
      <3>4. QED
        BY <3>1, <3>2, <3>3
    <2>3. Starting(7)' /\ Stand' = StartAddress
      BY <1>1, <1>8, <2>1, <2>2 DEF Starting, Stand, Reading
    <2>4. ~busy' /\ ~overfill' /\ Len(taken') = 0 /\ taken' = <<>>
      BY <1>8, <2>2
    <2>5. OverInv' /\ SampleInv'
      BY <2>4 DEF OverInv, SampleInv
    <2>6. CountInv'
      BY <2>3, <2>4, Memory DEF CountInv
    <2>7. RestInv'
      BY <2>3, <2>4 DEF RestInv
    <2>8. QED
      BY <2>5, <2>6, <2>7 DEF RunInv
  <1>9. CASE Now("clearLAM") /\ lam' = FALSE /\ UNCHANGED <<module, halt, busy, overfill, address, memory, turn, taken, early>>
    <2>1. At = 7 /\ op \in Starts /\ op # "Read" /\ Sound
      BY <1>3, <1>9, Places, Zenon DEF Starts, Now
    <2>2. Starting(7) /\ ~Starting(7)' /\ Stand' = Stand
      BY <1>1, <1>2, <1>9, <2>1 DEF Starting, Stand, Reading
    <2>3. RestInv /\ OverInv /\ CountInv /\ SampleInv
      BY <2>1, Zenon DEF RunInv
    <2>4. Len(taken) # StartAddress
      <3>1. taken = <<>>
        BY <2>2, <2>3, Zenon DEF RestInv
      <3>2. QED
        BY <3>1, Memory
    <2>5. OverInv' /\ CountInv' /\ SampleInv'
      BY <1>9, <2>2, <2>3, Zenon DEF OverInv, CountInv, SampleInv, Good
    <2>6. RestInv'
      BY <1>9, <2>2, <2>3, <2>4, Zenon DEF RestInv
    <2>7. QED
      BY <2>5, <2>6 DEF RunInv
  <1>10. CASE /\ Now("trigger")
              /\ Runs \/ (~IsReady /\ UNCHANGED <<busy, turn, early>>)
              /\ UNCHANGED <<module, halt, overfill, lam, address, memory, taken>>
    <2>1. Sound /\ ((op = "StartCycle" /\ At = 12) \/ op = "Trigger")
      BY <1>3, <1>10, Places, Zenon DEF Now
    <2>2. ~Starting(7) /\ ~Starting(7)' /\ Stand' = Stand
      BY <1>1, <1>2, <1>10, <2>1 DEF Starting, Stand, Reading, Starts
    <2>3. QED
      BY <1>10, <2>1, <2>2, RunsRun, RunKept
  <1>11. QED
    BY <1>5, <1>6, <1>7, <1>8, <1>9, <1>10, Zenon DEF Writes, Written

(* Every step keeps what is known of the run.                              *)
LEMMA RunInvStep ==
    ASSUME TypeInv, TodoInv, BusyInv, RunInv, FetchInv, [Next]_vars PROVE RunInv'
  <1> SUFFICES ASSUME Sound' PROVE RunInv'
    BY DEF RunInv
  <1>1. CASE UNCHANGED vars
    <2>1. Sound /\ Stand' = Stand /\ (Starting(7)' <=> Starting(7))
      BY <1>1, Advances, Zenon DEF vars, locals, device, histories, Sound, Starting, Stand, Reading
    <2>2. QED
      BY <1>1, <2>1, RunKept DEF vars, device
  <1>2. ASSUME NEW o \in Operations, NEW c \in Channels \cup {ChanCount}, Call(o, c) PROVE RunInv'
    <2>1. op = "none" /\ op' = o /\ (At' = 1 \/ (At' = 10 /\ o = "Read"))
      BY <1>2, Begins DEF Call
    <2>2. "none" \notin Starts /\ "Read" \notin Starts
      BY DEF Starts
    <2>3. o \notin Starts
      BY <2>1, <2>2 DEF Sound, Starting
    <2>4. early' = early /\ torn' = torn
      <3>1. early \in BOOLEAN
        BY DEF TypeInv
      <3>2. QED
        BY <1>2, <2>3, <3>1, Zenon DEF Call
    <2>5. Sound
      BY <2>1, <2>2, <2>3, <2>4, Zenon DEF Sound, Starting
    <2>6. Stand' = Stand /\ ~Starting(7)' /\ ~Starting(7)
      BY <1>2, <2>1, <2>2, <2>3 DEF Call, device, Stand, Starting, Reading
    <2>7. QED
      BY <1>2, <2>5, <2>6, RunKept DEF Call, device
  <1>3. ASSUME NEW s \in Settings, EnableChannels(s) PROVE RunInv'
    <2>1. At' = At /\ op' = op /\ UNCHANGED <<device, locals, torn, early>>
      BY <1>3, Advances DEF EnableChannels
    <2>2. Sound /\ Stand' = Stand /\ (Starting(7)' <=> Starting(7))
      BY <2>1, Zenon DEF Sound, Stand, Starting, Reading, device, locals
    <2>3. QED
      BY <2>1, <2>2, RunKept DEF device
  <1>4. CASE Done
    <2>1. op' = "none" /\ "none" \notin Starts /\ UNCHANGED <<device, histories>>
      BY <1>4 DEF Done, Starts
    <2>2. At = Length(op) + 1 /\ Length(op) \in Nat
      BY <1>4, AtRange DEF Done, At
    <2>3. ~Starting(9) /\ ~Starting(7) /\ ~Reading(8)
      <3>1. op \in Starts => Length(op) \in 11..12
        BY Lengths DEF Starts
      <3>2. op = "Read" => Length(op) = 10
        BY Lengths
      <3>3. QED
        BY <2>2, <3>1, <3>2 DEF Starting, Reading
    <2>4. Sound /\ Stand' = Stand /\ ~Starting(7)'
      BY <2>1, <2>3, Zenon DEF Sound, Stand, Starting, Reading, device, histories
    <2>5. QED
      BY <2>1, <2>3, <2>4, RunKept DEF device
  <1>5. CASE HardwareStart
    <2>1. At' = At /\ op' = op
      BY <1>5, Advances DEF HardwareStart
    <2>2. early => early'
      BY <1>5, Zenon DEF HardwareStart, Runs
    <2>3. Sound
      BY <1>5, <2>1, <2>2, Zenon DEF HardwareStart, Sound, Starting
    <2>4. ~Starting(7)
      <3>1. Starting(7) => op \in Starts /\ At \in 5..7
        BY <2>3, AtRange DEF Starting, Sound
      <3>2. Starting(7) => early'
        BY <1>5, <3>1, PreparingIs, Zenon DEF HardwareStart, Runs
      <3>3. QED
        BY <3>2, Zenon DEF Sound
    <2>5. Stand' = Stand /\ ~Starting(7)'
      BY <1>5, <2>1, <2>4, Zenon DEF HardwareStart, locals, Stand, Starting, Reading
    <2>6. QED
      BY <1>5, <2>3, <2>4, <2>5, RunsRun DEF HardwareStart
  <1>6. CASE Take
    <2>1. Sound
      BY <1>6, Advances, Zenon DEF Take, Sound, Starting, histories
    <2>2. QED
      BY <1>6, <2>1, TakeRun DEF RunInv
  <1>7. CASE Access
    <2>1. /\ op' = op /\ At \in 1..Length(op)
          /\ ~Now("writeStart") => Sound
          /\ op \in Starts \cup {"Read"} => At' = At + 1 \/ (Reading(8) /\ At' = At)
      BY <1>7, AccessSteps, SoundBefore
    <2>2. CASE Fails
      <3>1. op \notin Starts \cup {"Read"}
        BY <2>1, <2>2, Thrown DEF Fails, Throw
      <3>2. ~Now("fetch") /\ ~Now("writeStart")
        BY <3>1, Places DEF Reading
      <3>3. Stand' = Stand /\ ~Starting(7)' /\ ~Starting(7)
        BY <2>1, <2>2, <3>1, <3>2 DEF Fails, Throw, Stand, Starting, Reading
      <3>4. QED
        BY <2>1, <2>2, <3>2, <3>3, RunKept DEF Fails
    <2>3. CASE Writes
      BY <2>3, RunWrites
    <2>4. CASE CheckStart
      <3>1. Sound /\ op \in Starts /\ At = 6 /\ op # "Read"
        BY <2>1, <2>4, Places, Zenon DEF CheckStart, Now, Starts
      <3>2. Stand' = Stand /\ Starting(7) /\ Starting(7)'
        BY <2>1, <2>4, <3>1 DEF CheckStart, Stand, Starting, Reading, device
      <3>3. QED
        BY <2>4, <3>1, <3>2, RunKept DEF CheckStart, device
    <2>5. CASE Passes \/ Clear
      <3>1. At \in {1, 8, 9, 10} \/ Reading(4)
        BY <2>5, Places, Zenon DEF Passes, Clear
      <3>2. ~Now("writeStart")
        BY <2>5, Zenon DEF Passes, Clear, Now
      <3>3. op \in Starts => At # 1
        BY <2>1, <3>2 DEF Sound, Starting, Reading
      <3>4. Starting(7)' <=> Starting(7)
        BY <2>1, <3>1, <3>3 DEF Starting, Reading, Starts
      <3>5. Stand' = Stand
        <4>1. ~Reading(8)' /\ ~Reading(8)
          <5>1. Now("unblockLAM") \/ Now("clear") => op # "Read"
            BY Places DEF Starts
          <5>2. Now("readStatus") => At = 1 \/ op # "Read"
            BY Places DEF Starts
          <5>3. op = "Read" => At \in {1, 4}
            BY <2>5, <5>1, <5>2, Places DEF Passes, Clear, Reading
          <5>4. QED
            BY <2>1, <5>3 DEF Reading
        <4>2. QED
          BY <2>5, <4>1 DEF Passes, Clear, Stand, device
      <3>6. QED
        BY <2>1, <2>5, <3>2, <3>4, <3>5, RunKept DEF Passes, Clear, device
    <2>6. CASE GetStatus \/ ReadLimits \/ Position \/ Rewind \/ Fetch \/ Verify \/ Decode
      <3>1. op = "Read" /\ op \notin Starts /\ At \in 3..10
        <4>1. \/ Reading(3) \/ Reading(5) \/ Reading(6) \/ Reading(7) \/ Reading(8)
              \/ Reading(9) \/ Reading(10)
          BY <2>6, Places, Zenon DEF GetStatus, ReadLimits, Position, Rewind, Fetch, Verify, Decode
        <4>2. QED
          BY <4>1 DEF Reading, Starts
      <3>2. Sound /\ Kept /\ ~Starting(7) /\ ~Starting(7)'
        <4>1. Sound
          BY <2>1, <3>1, Places DEF Starts
        <4>2. QED
          BY <2>1, <3>1, <4>1, Zenon DEF Starting, Sound, Kept
      <3>3. UNCHANGED <<module, halt, busy, overfill, lam, memory, turn, taken>>
        BY <2>6 DEF GetStatus, ReadLimits, Position, Rewind, Fetch, Verify, Decode, device
      <3>4. At \in 3..9 => halt /\ ~busy
        BY <3>1 DEF BusyInv
      <3>5. CASE Rewind
        <4>1. At = 7 /\ At' = 8
          BY <2>1, <3>5, Places DEF Rewind, Reading
        <4>2. Stand = address /\ Stand' = stop_position
          BY <2>1, <3>1, <3>5, <4>1 DEF Stand, Reading, Rewind
        <4>3. stop_position = address
          BY <3>1, <3>2, <4>1 DEF FetchInv, Reading
        <4>4. QED
          BY <3>2, <3>3, <3>4, <4>1, <4>2, <4>3, RunKept
      <3>6. CASE Fetch
        <4>1. Reading(8)
          BY <3>6, Places DEF Fetch
        <4>2. FetchedInv
          BY <3>2, <4>1 DEF FetchInv
        <4>3. Stand = stop_position /\ stop_position' = stop_position
          BY <3>6, <4>1 DEF Stand, Fetch, locals
        <4>4. CASE Reading(8)'
          <5>1. Stand' = Stand
            BY <4>3, <4>4 DEF Stand
          <5>2. QED
            BY <3>2, <3>3, <3>4, <4>1, <5>1, RunKept DEF Reading
        <4>5. CASE ~Reading(8)'
          <5>1. ~(Len(buffer) < count) /\ address' = address
            <6>1. CASE Len(buffer) < count
              <7>1. todo' = todo /\ op' = op
                BY <3>6, <6>1 DEF Fetch
              <7>2. FALSE
                BY <4>1, <4>5, <7>1, Advances DEF Reading
              <7>3. QED
                BY <7>2
            <6>2. CASE ~(Len(buffer) < count)
              BY <3>6, <6>2 DEF Fetch
            <6>3. QED
              BY <6>1, <6>2
          <5>2. Len(buffer) = count
            BY <4>2, <5>1 DEF FetchedInv, TypeInv, TypeOK
          <5>3. address = stop_position
            BY <4>2, <5>2, Memory DEF FetchedInv, TypeInv, TypeOK
          <5>4. Stand' = Stand
            BY <4>3, <4>5, <5>1, <5>3 DEF Stand
          <5>5. QED
            BY <3>2, <3>3, <3>4, <4>1, <5>4, RunKept DEF Reading
        <4>6. QED
          BY <4>4, <4>5
      <3>7. CASE GetStatus \/ ReadLimits \/ Position \/ Verify \/ Decode
        <4>1. At \in {3, 5, 6, 9, 10} /\ At' = At + 1
          <5>1. Reading(3) \/ Reading(5) \/ Reading(6) \/ Reading(9) \/ Reading(10)
            BY <3>7, Places, Zenon DEF GetStatus, ReadLimits, Position, Verify, Decode
          <5>2. QED
            BY <2>1, <3>1, <5>1 DEF Reading
        <4>2. Stand' = Stand /\ address' = address
          <5>1. address' = address
            BY <3>7 DEF GetStatus, ReadLimits, Position, Verify, Decode, device
          <5>2. ~Reading(8) /\ ~Reading(8)'
            BY <4>1 DEF Reading
          <5>3. QED
            BY <5>1, <5>2 DEF Stand
        <4>3. QED
          BY <3>2, <3>3, <4>2, RunKept
      <3>8. QED
        BY <2>6, <3>5, <3>6, <3>7
    <2>7. QED
      BY <1>7, <2>2, <2>3, <2>4, <2>5, <2>6 DEF Access
  <1>8. QED
    BY <1>1, <1>2, <1>3, <1>4, <1>5, <1>6, <1>7, Steps
-----------------------------------------------------------------------------
(* What is kept is sound.                                                  *)
LEMMA KeptIsSound == Kept => Sound
  BY Zenon DEF Kept, Sound

(* A step of no readout that leaves the buffer, the parameters and the run *)
(* alone leaves what is known of the buffer.                               *)
LEMMA HeldKept ==
    ASSUME BufferInv, FetchInv, op # "Read", op' # "Read", Kept' => Kept, retuned => retuned',
           UNCHANGED <<module, overfill, taken, buffer, params>>,
           Kept /\ buffer # <<>> /\ halt => halt'
    PROVE  BufferInv' /\ FetchInv'
  BY Zenon DEF BufferInv, FetchInv, Match, Good, Reading

(* While the module may run, there is nothing in the buffer that the run   *)
(* could leave behind.                                                     *)
LEMMA FreeRun ==
    ASSUME TodoInv, BusyInv, BufferInv, FetchInv, ~halt,
           UNCHANGED <<op, todo, buffer, halt>>, Kept' => Kept
    PROVE  BufferInv' /\ FetchInv'
  <1>1. At' = At /\ At \in Nat
    BY Advances, AtRange
  <1>2. op = "Read" => At \notin 3..9
    BY DEF BusyInv
  <1>3. CASE ~Kept
    BY <1>1, <1>3 DEF BufferInv, FetchInv
  <1>4. CASE Kept
    <2>1. buffer = <<>> /\ ~(op = "Read" /\ At >= 3)
      BY <1>4, Zenon DEF BufferInv
    <2>2. ~(op' = "Read" /\ At' >= 3) /\ buffer' = <<>>
      BY <1>1, <2>1
    <2>3. BufferInv'
      BY <1>1, <2>2 DEF BufferInv
    <2>4. FetchInv'
      BY <1>1, <2>2 DEF FetchInv, Reading
    <2>5. QED
      BY <2>3, <2>4
  <1>5. QED
    BY <1>3, <1>4

(* The readout, access by access.                                          *)
LEMMA HeldReads ==
    ASSUME TypeInv, TodoInv, BusyInv, RunInv, BufferInv, FetchInv, Access, op = "Read", Kept'
    PROVE  BufferInv' /\ FetchInv'
  <1>1. /\ op' = "Read" /\ At \in 1..10 /\ op \notin Starts
        /\ At' = At + 1 \/ (Reading(8) /\ At' = At)
    <2>1. op' = op /\ At \in 1..10
      BY AccessSteps, Lengths
    <2>2. op \notin Starts
      BY DEF Starts
    <2>3. At' = At + 1 \/ (Reading(8) /\ At' = At)
      BY SoundBefore
    <2>4. QED
      BY <2>1, <2>2, <2>3
  <1>2. ~Clear /\ Kept
    <2>1. ~Clear
      BY <1>1, Places DEF Clear
    <2>2. QED
      BY <2>1, SoundBefore
  <1>3. ~Fails /\ \A h : ~(todo' = <<>> /\ torn' = (torn \/ op \in Starts \cup {"Read"}))
    BY <1>1, Thrown DEF Fails, Throw
  <1>4. At \in 3..9 => halt
    BY DEF BusyInv
  <1>5. OverInv /\ SampleInv /\ CountInv
    BY <1>2, KeptIsSound DEF RunInv
  <1>6. CASE Writes
    <2>1. Now("writeHalt")
      BY <1>1, <1>6, Places, Zenon DEF Writes, Written
    <2>2. At = 2 /\ At' = 3
      BY <1>1, <2>1, Places DEF Reading
    <2>3. halt' /\ buffer' = buffer
      BY <1>6, <2>1, Zenon DEF Writes, Written, Setting, Now
    <2>4. buffer = <<>>
      BY <2>2 DEF BufferInv
    <2>5. QED
      BY <1>1, <2>2, <2>3, <2>4 DEF BufferInv, FetchInv, Reading
  <1>7. CASE Passes
    <2>1. At = 1 \/ At = 4
      <3>1. Now("unblockLAM") => op \in Starts
        BY Places
      <3>2. Now("readStatus") => At = 1
        BY <1>1, Places
      <3>3. Now("readParameters") => At = 4
        BY Places DEF Reading
      <3>4. QED
        BY <1>1, <1>7, <3>1, <3>2, <3>3 DEF Passes
    <2>2. At' = At + 1 /\ buffer = <<>> /\ buffer' = buffer
      BY <1>1, <1>7, <2>1 DEF BufferInv, Passes, Reading
    <2>3. BufferInv'
      BY <1>1, <1>2, <1>4, <1>7, <2>1, <2>2 DEF BufferInv, Passes, device
    <2>4. FetchInv'
      BY <1>1, <1>2, <1>7, <2>1, <2>2 DEF FetchInv, Passes, device, locals, Reading
    <2>5. QED
      BY <2>3, <2>4
  <1>8. CASE GetStatus
    <2>1. At = 3 /\ At' = 4
      BY <1>1, <1>8, Places DEF GetStatus, Reading
    <2>2. buffer = <<>> /\ buffer' = buffer
      BY <1>8, <2>1 DEF BufferInv, GetStatus
    <2>3. UNCHANGED <<module, halt, overfill>> /\ status' = [cycling |-> module.cycling, overfill |-> overfill]
      BY <1>8 DEF GetStatus, device
    <2>4. QED
      BY <1>1, <1>4, <2>1, <2>2, <2>3 DEF BufferInv, FetchInv, Reading
  <1>9. CASE ReadLimits
    <2>1. At = 5 /\ At' = 6
      BY <1>1, <1>9, Places DEF ReadLimits, Reading
    <2>2. buffer = <<>> /\ buffer' = buffer
      BY <1>9, <2>1 DEF BufferInv, ReadLimits
    <2>3. UNCHANGED <<module, halt, overfill, status>> /\ params' = module
      BY <1>9 DEF ReadLimits, device, locals
    <2>4. status = [cycling |-> module.cycling, overfill |-> overfill]
      BY <1>2, <2>1 DEF FetchInv
    <2>5. QED
      BY <1>1, <1>4, <2>1, <2>2, <2>3, <2>4 DEF BufferInv, FetchInv, Reading
  <1>10. CASE Position
    <2>1. At = 6 /\ At' = 7
      BY <1>1, <1>10, Places DEF Position, Reading
    <2>2. buffer = <<>> /\ buffer' = buffer
      BY <1>10, <2>1 DEF BufferInv, Position
    <2>3. UNCHANGED <<module, halt, overfill, status, params, address, retuned>> /\ stop_position' = address
      BY <1>10 DEF Position, device, histories
    <2>4. status = [cycling |-> module.cycling, overfill |-> overfill]
      BY <1>2, <2>1 DEF FetchInv
    <2>5. ~retuned => params = module
      BY <1>2, <2>1 DEF BufferInv
    <2>6. QED
      BY <1>1, <1>4, <2>1, <2>2, <2>3, <2>4, <2>5 DEF BufferInv, FetchInv, Reading
  <1>11. CASE Rewind
    <2>1. At = 7 /\ At' = 8
      BY <1>1, <1>11, Places DEF Rewind, Reading
    <2>2. buffer' = <<>> /\ Len(buffer') = 0
      BY <1>11 DEF Rewind
    <2>3. UNCHANGED <<module, halt, overfill, status, params, stop_position, retuned>>
      BY <1>11 DEF Rewind, histories
    <2>4. status = [cycling |-> module.cycling, overfill |-> overfill] /\ stop_position = address
      BY <1>1, <1>2, <2>1 DEF FetchInv, Reading
    <2>5. ~retuned => params = module
      BY <1>2, <2>1 DEF BufferInv
    <2>6. BufferInv'
      BY <1>1, <1>4, <2>1, <2>2, <2>3, <2>5 DEF BufferInv, Reading
    <2>7. IsRound(status) <=> overfill
      BY <1>5, <2>4, Zenon DEF IsRound, OverInv
    <2>8. FetchedInv'
      <3>1. CASE overfill
        <4>1. count' = StartAddress + 1 /\ address' = address
          BY <1>11, <2>7, <3>1, Zenon DEF Rewind
        <4>2. QED
          BY <2>2, <2>3, <2>4, <3>1, <4>1, Memory DEF FetchedInv, TypeInv, TypeOK
      <3>2. CASE ~overfill
        <4>1. count' = StartAddress - stop_position /\ address' = StartAddress
          BY <1>11, <2>7, <3>2, Zenon DEF Rewind
        <4>2. QED
          BY <2>2, <2>3, <2>4, <3>2, <4>1, Memory DEF FetchedInv, TypeInv, TypeOK
      <3>3. QED
        BY <3>1, <3>2
    <2>9. FetchInv'
      BY <1>1, <2>1, <2>3, <2>4, <2>8 DEF FetchInv, Reading
    <2>10. QED
      BY <2>6, <2>9
  <1>12. CASE Fetch
    <2>1. At = 8 /\ Reading(8)
      BY <1>12, Places DEF Fetch, Reading
    <2>2. FetchedInv /\ status = [cycling |-> module.cycling, overfill |-> overfill]
      BY <1>1, <1>2, <2>1 DEF FetchInv
    <2>3. UNCHANGED <<module, halt, overfill, status, params, stop_position, retuned, memory, taken, count>>
      BY <1>12 DEF Fetch, locals, histories
    <2>4. /\ address \in 0..StartAddress /\ stop_position \in 0..StartAddress /\ buffer \in Seq(Samples)
          /\ StartAddress \in Nat \ {0} /\ Size = StartAddress + 1 /\ taken \in Seq(Samples)
          /\ count \in Nat
      BY Memory DEF TypeInv, TypeOK
    <2>5. ~retuned => params = module
      BY <1>2, <2>1 DEF BufferInv
    <2>6. CASE Len(buffer) < count
      <3>1. /\ buffer' = Append(buffer, memory[address]) /\ address' = Below(address)
            /\ todo' = todo /\ op' = op
        BY <1>12, <2>6 DEF Fetch
      <3>2. At' = At
        BY <3>1, Advances
      <3>3. Len(buffer') = Len(buffer) + 1 /\ buffer'[Len(buffer) + 1] = memory[address]
            /\ \A i \in 1..Len(buffer) : buffer'[i] = buffer[i]
        BY <2>4, <3>1
      <3>4. address' = IF address = 0 THEN StartAddress ELSE address - 1
        BY <3>1 DEF Below
      <3>5. CASE overfill
        <4>1. \A i \in 1..Len(buffer') : Good(buffer'[i])
          <5>1. \A i \in 1..Len(buffer) : Good(buffer[i])
            BY <2>2, <3>5 DEF FetchedInv
          <5>2. Good(memory[address])
            BY <1>5, <2>4, <3>5 DEF OverInv
          <5>3. \A i \in 1..Len(buffer') : i \in 1..Len(buffer) \/ i = Len(buffer) + 1
            BY <2>4, <3>3
          <5>4. QED
            BY <3>3, <5>1, <5>2, <5>3
        <4>2. address' = IF Len(buffer') <= stop_position THEN stop_position - Len(buffer')
                         ELSE stop_position - Len(buffer') + Size
          <5>1. address = IF Len(buffer) <= stop_position THEN stop_position - Len(buffer)
                          ELSE stop_position - Len(buffer) + Size
            BY <2>2, <3>5 DEF FetchedInv
          <5>2. Len(buffer) \in Nat /\ Len(buffer) < Size
            BY <2>2, <2>4, <2>6, <3>5 DEF FetchedInv
          <5>3. QED
            BY <2>4, <3>3, <3>4, <5>1, <5>2
        <4>3. \A x : Good(x)' <=> Good(x)
          BY <2>3 DEF Good
        <4>4. count' = Size /\ Len(buffer') <= count'
          BY <2>2, <2>3, <2>4, <2>6, <3>3, <3>5 DEF FetchedInv
        <4>5. QED
          BY <1>1, <1>4, <2>1, <2>2, <2>3, <2>5, <3>2, <3>5, <4>1, <4>2, <4>3, <4>4
             DEF BufferInv, FetchInv, FetchedInv, Reading
      <3>6. CASE ~overfill
        <4>1. address = StartAddress - Len(buffer) /\ count = StartAddress - stop_position
          BY <2>2, <3>6 DEF FetchedInv
        <4>2. address' = StartAddress - Len(buffer') /\ Len(buffer') <= count
          BY <2>4, <2>6, <3>3, <3>4, <4>1
        <4>3. \A i \in 1..Len(buffer') : buffer'[i] = memory[StartAddress - i + 1]
          <5>1. StartAddress - (Len(buffer) + 1) + 1 = address
            BY <2>4, <4>1
          <5>2. \A i \in 1..Len(buffer) : buffer[i] = memory[StartAddress - i + 1]
            BY <2>2, <3>6 DEF FetchedInv
          <5>3. \A i \in 1..Len(buffer') : i \in 1..Len(buffer) \/ i = Len(buffer) + 1
            BY <2>4, <3>3
          <5>4. QED
            BY <3>3, <5>1, <5>2, <5>3
        <4>4. QED
          BY <1>1, <1>4, <2>1, <2>2, <2>3, <2>5, <3>2, <3>6, <4>1, <4>2, <4>3
             DEF BufferInv, FetchInv, FetchedInv, Reading
      <3>7. QED
        BY <3>5, <3>6
    <2>7. CASE ~(Len(buffer) < count)
      <3>1. Then /\ todo # <<>> /\ op' = op /\ UNCHANGED <<buffer, address>>
        BY <1>12, <2>7 DEF Fetch, Now
      <3>2. At' = 9
        BY <2>1, <3>1, Advances
      <3>3. Len(buffer) = count
        <4>1. Len(buffer) <= count
          BY <2>2 DEF FetchedInv
        <4>2. Len(buffer) \in Nat /\ count \in Nat
          BY <2>4
        <4>3. QED
          BY <2>7, <4>1, <4>2
      <3>4. stop_position = address
        BY <2>2, <2>4, <3>3 DEF FetchedInv
      <3>5. Match
        <4>1. CASE overfill
          BY <2>2, <4>1 DEF FetchedInv, Match
        <4>2. CASE ~overfill
          <5>1. Stand = stop_position
            BY <2>1 DEF Stand
          <5>2. Len(taken) = Len(buffer)
            BY <1>5, <2>2, <3>3, <4>2, <5>1 DEF CountInv, FetchedInv
          <5>3. \A i \in 1..Len(buffer) : buffer[i] = taken[i]
            BY <1>5, <2>2, <4>2, <5>2 DEF SampleInv, FetchedInv
          <5>4. buffer = taken
            BY <2>4, <5>2, <5>3
          <5>5. QED
            BY <4>2, <5>4 DEF Match
        <4>3. QED
          BY <4>1, <4>2
      <3>6. Match'
        BY <2>3, <3>1, <3>5 DEF Match, Good
      <3>7. QED
        BY <1>1, <1>4, <2>1, <2>3, <2>5, <3>1, <3>2, <3>4, <3>6 DEF BufferInv, FetchInv, Reading
    <2>8. QED
      BY <2>6, <2>7
  <1>13. CASE Verify \/ Decode
    <2>1. At \in {9, 10} /\ At' = At + 1
      <3>1. Reading(9) \/ Reading(10)
        BY <1>13, Places, Zenon DEF Verify, Decode
      <3>2. QED
        BY <1>1, <3>1 DEF Reading
    <2>2. UNCHANGED <<module, halt, overfill, params, retuned, taken, buffer>>
      BY <1>13 DEF Verify, Decode, device, histories
    <2>3. Match /\ halt /\ (~retuned => params = module)
      BY <1>2, <2>1 DEF BufferInv
    <2>4. Match'
      BY <2>2, <2>3 DEF Match, Good
    <2>5. QED
      BY <1>1, <2>1, <2>2, <2>3, <2>4 DEF BufferInv, FetchInv, Reading
  <1>14. ~CheckStart
    BY <1>1, Places DEF CheckStart
  <1>15. QED
    BY <1>2, <1>3, <1>6, <1>7, <1>8, <1>9, <1>10, <1>11, <1>12, <1>13, <1>14 DEF Access

(* Every step keeps what is known of the buffer.                           *)
LEMMA HeldStep ==
    ASSUME TypeInv, TodoInv, BusyInv, RunInv, BufferInv, FetchInv, [Next]_vars
    PROVE  BufferInv' /\ FetchInv'
  <1>1. CASE UNCHANGED vars
    <2>1. At' = At
      BY <1>1, Advances DEF vars
    <2>2. UNCHANGED <<params, buffer, module, halt, overfill, address, memory, taken, op, todo, status,
                      stop_position, count, retuned, torn, early>>
      BY <1>1 DEF vars, locals, device, histories
    <2>3. QED
      BY <2>1, <2>2, Zenon DEF BufferInv, FetchInv, FetchedInv, Match, Good, Reading, Starting, Kept
  <1>2. ASSUME NEW o \in Operations, NEW c \in Channels \cup {ChanCount}, Call(o, c)
        PROVE  BufferInv' /\ FetchInv'
    <2>1. /\ op = "none" /\ op' = o /\ At' = IF o = "Read" /\ buffer # <<>> THEN 10 ELSE 1
          /\ "none" \notin Starts /\ "Read" \notin Starts
      BY <1>2, Begins DEF Call, Starts
    <2>2. UNCHANGED <<buffer, module, halt, overfill, taken, retuned, torn>>
      BY <1>2 DEF Call, device
    <2>3. FetchInv'
      BY <2>1 DEF FetchInv, Reading
    <2>4. op' = "Read" /\ At' <= 7 => buffer' = <<>>
      BY <2>1, <2>2
    <2>5. CASE o \in Starts
      <3>1. ~Kept'
        BY <2>1, <2>5 DEF Kept, Starting
      <3>2. QED
        BY <2>3, <2>4, <3>1 DEF BufferInv
    <2>6. CASE o \notin Starts
      <3>1. params' = params
        BY <1>2, <2>6 DEF Call
      <3>2. Kept' => Kept
        <4>1. early' => ~Kept'
          BY DEF Kept
        <4>2. ~early' => ~early
          BY <1>2, <2>6, Zenon DEF Call
        <4>3. ~Starting(9)
          BY <2>1 DEF Starting
        <4>4. torn' = torn
          BY <2>2
        <4>5. QED
          BY <4>1, <4>2, <4>3, <4>4, Zenon DEF Kept
      <3>3. Match' <=> Match
        BY <2>2 DEF Match, Good
      <3>4. BufferInv'
        BY <2>1, <2>2, <2>4, <3>1, <3>2, <3>3 DEF BufferInv, Reading
      <3>5. QED
        BY <2>3, <3>4
    <2>7. QED
      BY <2>5, <2>6
  <1>3. ASSUME NEW s \in Settings, EnableChannels(s) PROVE BufferInv' /\ FetchInv'
    <2>1. At' = At /\ op' = "none" /\ op = "none" /\ UNCHANGED <<device, buffer, torn, early>>
      BY <1>3, Advances DEF EnableChannels
    <2>2. Kept' => Kept
      BY <2>1, Zenon DEF Kept, Starting
    <2>3. ~retuned' => buffer = <<>>
      BY <1>3, Zenon DEF EnableChannels
    <2>4. FetchInv'
      BY <2>1 DEF FetchInv, Reading
    <2>5. Match' <=> Match
      BY <2>1 DEF Match, Good, device
    <2>6. BufferInv'
      BY <2>1, <2>2, <2>3, <2>5 DEF BufferInv, Reading, device
    <2>7. QED
      BY <2>4, <2>6
  <1>4. CASE Done
    <2>1. op' = "none" /\ "none" \notin Starts /\ UNCHANGED <<params, buffer, device, histories>>
      BY <1>4 DEF Done, Starts
    <2>2. At = Length(op) + 1 /\ Length(op) \in Nat
      BY <1>4, AtRange DEF Done, At
    <2>3. ~Starting(9) /\ ~Reading(8)
      <3>1. op \in Starts => Length(op) \in 11..12
        BY Lengths DEF Starts
      <3>2. op = "Read" => Length(op) = 10
        BY Lengths
      <3>3. QED
        BY <2>2, <3>1, <3>2 DEF Starting, Reading
    <2>4. Kept' => Kept
      BY <2>1, <2>3, Zenon DEF Kept, histories
    <2>5. Match' <=> Match
      BY <2>1 DEF Match, Good, device
    <2>6. BufferInv' /\ FetchInv'
      BY <2>1, <2>3, <2>4, <2>5 DEF BufferInv, FetchInv, Reading, device, histories
    <2>7. QED
      BY <2>6
  <1>5. CASE HardwareStart
    <2>1. Kept' => Kept
      <3>1. At' = At /\ op' = op
        BY <1>5, Advances DEF HardwareStart
      <3>2. QED
        BY <1>5, <3>1, Zenon DEF HardwareStart, Runs, Kept, Starting
    <2>2. ~halt
      BY <1>5, Zenon DEF HardwareStart, Runs, IsReady
    <2>3. QED
      BY <1>5, <2>1, <2>2, FreeRun DEF HardwareStart
  <1>6. CASE Take
    <2>1. Kept' => Kept
      BY <1>6, Advances, Zenon DEF Take, Kept, Starting, histories
    <2>2. ~halt
      BY <1>6, Zenon DEF Take, BusyInv
    <2>3. QED
      BY <1>6, <2>1, <2>2, FreeRun DEF Take
  <1>7. CASE Access
    <2>1. /\ op' = op /\ At \in 1..Length(op)
          /\ Kept' /\ ~Clear => Kept
          /\ Kept' /\ op \in Starts => At' = At + 1 \/ (Reading(8) /\ At' = At)
      BY <1>7, AccessSteps, SoundBefore
    <2>2. CASE op = "Read"
      <3>1. CASE Kept'
        BY <1>7, <2>2, <3>1, HeldReads
      <3>2. CASE ~Kept'
        <4>1. At' <= 7 => At <= 7 /\ ~Rewind /\ ~Fetch
          <5>1. Length(op) = 10
            BY <2>2, Lengths
          <5>2. At' = At + 1 \/ At' = 11 \/ (Reading(8) /\ At' = At)
            BY <1>7, <5>1, AccessSteps
          <5>3. Rewind => Reading(7)
            BY Places DEF Rewind
          <5>4. Fetch => Reading(8)
            BY Places DEF Fetch
          <5>5. QED
            BY <2>1, <5>1, <5>2, <5>3, <5>4 DEF Reading
        <4>2. buffer' = buffer \/ Rewind \/ Fetch \/ Clear
          BY <1>7, Zenon DEF Access, Fails, Throw, Writes, Written, Passes, CheckStart, GetStatus,
             ReadLimits, Position, Verify, Decode
        <4>3. ~Clear
          BY <2>2, Places DEF Clear, Starts
        <4>4. QED
          BY <2>1, <2>2, <3>2, <4>1, <4>2, <4>3 DEF BufferInv, FetchInv
      <3>3. QED
        BY <3>1, <3>2
    <2>3. CASE op # "Read" /\ ~Clear
      <3>1. UNCHANGED <<buffer, params>> /\ retuned' = retuned
        <4>1. ~ReadLimits /\ ~Rewind /\ ~Fetch
          BY <2>3, Places DEF ReadLimits, Rewind, Fetch, Reading
        <4>2. QED
          BY <1>7, <2>3, <4>1, Zenon DEF Access, Fails, Throw, Writes, Written, Passes, CheckStart,
             GetStatus, Position, Verify, Decode, histories
      <3>2. SUFFICES ASSUME Kept' PROVE BufferInv' /\ FetchInv'
        BY <2>1, <2>3 DEF BufferInv, FetchInv
      <3>3. ~Now("writeLimits") /\ ~Now("writeStatus") /\ ~Now("writeStart") /\ ~Now("clearLAM")
        <4>1. op \in Starts => At > 8
          BY <2>1, <2>3, <3>2 DEF Kept, Starting, Reading
        <4>2. QED
          BY <4>1, Places
      <3>4. UNCHANGED <<module, overfill, taken>>
        BY <1>7, <3>3, Zenon DEF Access, Fails, Writes, Written, Passes, CheckStart, Clear, GetStatus,
           ReadLimits, Position, Rewind, Fetch, Verify, Decode, device
      <3>5. Kept /\ buffer # <<>> /\ halt => halt'
        <4>1. Now("writeUnHalt") => ~halt
          BY <2>1, Places DEF BusyInv
        <4>2. halt' = halt \/ halt' = TRUE \/ Now("writeUnHalt")
          BY <1>7, <3>3, Zenon DEF Access, Fails, Writes, Written, Setting, Passes, CheckStart, Clear,
             GetStatus, ReadLimits, Position, Rewind, Fetch, Verify, Decode, device
        <4>3. QED
          BY <4>1, <4>2, Zenon
      <3>6. QED
        BY <2>1, <2>3, <3>1, <3>2, <3>4, <3>5, HeldKept
    <2>4. CASE Clear
      <3>1. op \in Starts /\ op # "Read" /\ buffer' = <<>>
        BY <2>4, Places DEF Clear, Starts
      <3>2. QED
        BY <2>1, <3>1 DEF BufferInv, FetchInv, Reading
    <2>5. QED
      BY <2>2, <2>3, <2>4
  <1>8. QED
    BY <1>1, <1>2, <1>3, <1>4, <1>5, <1>6, <1>7, Steps
-----------------------------------------------------------------------------
(* The inductive invariant.                                                *)
IInv == TypeInv /\ TodoInv /\ BusyInv /\ RunInv /\ BufferInv /\ FetchInv

(* It holds at first.                                                      *)
LEMMA InitInv == Init => IInv
  <1> SUFFICES ASSUME Init PROVE IInv
    OBVIOUS
  <1>1. At = 1 /\ op = "none" /\ op \notin Starts /\ todo = <<>>
    BY Lengths DEF Init, At, Starts
  <1>2. /\ module.on = {} /\ ~module.cycling /\ ~busy /\ ~halt /\ ~overfill /\ ~lam
        /\ taken = <<>> /\ buffer = <<>> /\ address = StartAddress /\ StartAddress # 0
    BY Memory DEF Init, Parameters
  <1>3. TypeInv
    <2>1. params \in Words /\ module \in Words
      BY Gains DEF Init
    <2>2. address \in 0..StartAddress /\ stop_position \in 0..StartAddress /\ count \in 0..Size
      BY Memory DEF Init
    <2>3. turn \in 0..(ChanCount - 1) /\ channel \in 0..ChanCount
      BY AdcAssumption DEF Init
    <2>4. /\ buffer \in Seq(Samples) /\ Len(buffer) <= Size /\ taken \in Seq(Samples)
          /\ memory \in [0..StartAddress -> Samples]
      BY Memory DEF Init
    <2>5. status \in [cycling : BOOLEAN, overfill : BOOLEAN] /\ result = "none"
      BY DEF Init
    <2>6. QED
      BY <2>1, <2>2, <2>3, <2>4, <2>5, <1>1 DEF Init, TypeInv, TypeOK
  <1>4. TodoInv
    BY <1>1, Lengths DEF TodoInv
  <1>5. BusyInv
    BY <1>1, <1>2 DEF BusyInv
  <1>6. RunInv
    <2>1. Stand = StartAddress /\ ~Starting(7)
      BY <1>1, <1>2 DEF Stand, Reading, Starting
    <2>2. QED
      BY <1>2, <2>1, Memory DEF RunInv, OverInv, CountInv, SampleInv, RestInv
  <1>7. BufferInv /\ FetchInv
    BY <1>1, <1>2 DEF BufferInv, FetchInv, Reading
  <1>8. QED
    BY <1>3, <1>4, <1>5, <1>6, <1>7 DEF IInv

(* And always.                                                             *)
THEOREM Invariance == Spec => []IInv
  <1>1. IInv /\ [Next]_vars => IInv'
    BY TypeInvStep, TodoSteps, BusyInvStep, RunInvStep, HeldStep DEF IInv
  <1>2. QED
    BY <1>1, InitInv, PTL DEF Spec

(* Every variable has its type.                                            *)
THEOREM TypeCorrect == Spec => []TypeOK
  <1>1. IInv => TypeOK
    BY DEF IInv, TypeInv
  <1>2. QED
    BY <1>1, Invariance, PTL

(* The LAM tells that a single run has filled the memory, and never that   *)
(* an earlier one has (ADC333::Reset clears it after the start address is  *)
(* written, ADC333.cpp:152).                                               *)
THEOREM LamTellsTheEnd == Spec => []LamTellsEnd
  <1>1. IInv => LamTellsEnd
    <2> SUFFICES ASSUME IInv, op = "none", ~early, ~torn, ~module.cycling
                 PROVE  lam <=> Len(taken) = StartAddress
      BY DEF LamTellsEnd
    <2>1. ~Starting(7) /\ ~Starting(9)
      BY DEF Starting, Starts
    <2>2. Sound
      BY <2>1, Zenon DEF Sound
    <2>3. QED
      BY <2>1, <2>2, Zenon DEF IInv, RunInv, RestInv
  <1>2. QED
    BY <1>1, Invariance, PTL

(* The assertion of Readout (ADC333.cpp:246): after the words of the       *)
(* run have been fetched the address is back where the run had stopped.    *)
PositionVerified ==
    op = "Read" /\ ~torn /\ ~early /\ Now("verify") => address = stop_position

(* It holds whenever the run and the readout were undisturbed.             *)
THEOREM AssertionHolds == Spec => []PositionVerified
  <1>1. IInv => PositionVerified
    <2> SUFFICES ASSUME IInv, op = "Read", ~torn, ~early, Now("verify")
                 PROVE  address = stop_position
      BY DEF PositionVerified
    <2>1. Reading(9)
      BY Places DEF IInv
    <2>2. Kept
      BY Zenon DEF Kept, Starting, Starts
    <2>3. QED
      BY <2>1, <2>2 DEF IInv, FetchInv
  <1>2. QED
    BY <1>1, Invariance, PTL
-----------------------------------------------------------------------------
(* What a Read has put out, until it returns.                              *)
NoneForeign == \A i \in DOMAIN Chosen : ~IsForeign(Chosen[i])
ReadInv ==
    HasRead /\ Undisturbed /\ channel \in Channels =>
        channel \in params.on /\ data = Chosen /\ NoneForeign

(* What the choice of the words is made of.                                *)
LEMMA SameChoice ==
    ASSUME UNCHANGED <<params, buffer, channel>>
    PROVE  Chosen' = Chosen /\ (NoneForeign' <=> NoneForeign)
  BY DEF NoneForeign, IsForeign, Chosen, Turns, ChanIdx, ChanCounted

(* Only Decode ends a Read that has gone through.                          *)
LEMMA ReadEnds ==
    ASSUME TodoInv, Access, HasRead'
    PROVE  Decode
  <1>1. Reading(10) /\ todo # <<>> => Now("decode")
    <2> SUFFICES ASSUME Reading(10), todo # <<>> PROVE Head(todo) = "decode"
      BY DEF Now
    <2>1. Head(todo) = Script("Read", 10)
      BY Due DEF Reading
    <2>2. QED
      BY <2>1 DEF Script, Starts
  <1>2. op' = "Read" /\ todo' = <<>> /\ result' = "none"
    BY DEF HasRead
  <1>3. ~Fails /\ ~(CheckStart /\ Throw("VERIFICATION_ERROR"))
    BY <1>2 DEF Fails, Throw
  <1>4. op' = op /\ op = "Read" /\ todo # <<>> /\ At' = 11
    <2>1. op' = op /\ todo # <<>>
      BY Zenon DEF Access, Fails, Throw, Writes, Written, Passes, CheckStart, Clear, GetStatus,
         ReadLimits, Position, Rewind, Fetch, Verify, Decode, Now
    <2>2. QED
      BY <1>2, <2>1, Advances, Lengths
  <1>5. Then
    <2>1. Then \/ todo' = todo \/ result' = "CamacError"
      BY <1>3, Zenon DEF Access, Fails, Throw, Writes, Written, Passes, CheckStart, Clear, GetStatus,
         ReadLimits, Position, Rewind, Fetch, Verify, Decode
    <2>2. QED
      BY <1>2, <1>4, <2>1
  <1>6. At = 10
    BY <1>4, <1>5, Advances, AtRange
  <1>7. Now("decode")
    BY <1>1, <1>4, <1>6 DEF Reading
  <1>8. QED
    BY <1>7, <1>4, Zenon DEF Access, Fails, Writes, Written, Passes, CheckStart, Clear, GetStatus,
       ReadLimits, Position, Rewind, Fetch, Verify, Now

(* ReadInv is inductive.                                                   *)
LEMMA ReadInvStep == IInv /\ ReadInv /\ [Next]_vars => ReadInv'
  <1> SUFFICES ASSUME IInv, ReadInv, [Next]_vars, HasRead', Undisturbed', (channel \in Channels)'
               PROVE  channel' \in params'.on /\ data' = Chosen' /\ NoneForeign'
    BY DEF ReadInv
  <1>1. TodoInv /\ TodoInv' /\ op' = "Read" /\ todo' = <<>> /\ result' = "none" /\ At' = 11
    <2>1. TodoInv /\ TodoInv' /\ op' = "Read" /\ todo' = <<>> /\ result' = "none"
      BY TodoSteps DEF IInv, HasRead
    <2>2. QED
      BY <2>1, Lengths DEF At
  <1>2. CASE UNCHANGED <<op, todo, result, torn, retuned, channel, params, buffer, data>> /\ (early => early')
    <2>1. HasRead /\ Undisturbed /\ channel \in Channels
      BY <1>2, Zenon DEF HasRead, Undisturbed
    <2>2. QED
      BY <1>2, <2>1, SameChoice DEF ReadInv
  <1>3. CASE UNCHANGED vars
    BY <1>2, <1>3, Zenon DEF vars, histories, locals
  <1>4. ASSUME NEW o \in Operations, NEW c \in Channels \cup {ChanCount}, Call(o, c) PROVE FALSE
    BY <1>1, <1>4, Begins
  <1>5. ASSUME NEW s \in Settings, EnableChannels(s) PROVE FALSE
    BY <1>1, <1>5 DEF EnableChannels
  <1>6. CASE Done
    BY <1>1, <1>6 DEF Done
  <1>7. CASE HardwareStart
    BY <1>2, <1>7, Zenon DEF HardwareStart, Runs, locals
  <1>8. CASE Take
    BY <1>2, <1>8, Zenon DEF Take, locals, histories
  <1>9. CASE Access
    <2>1. Decode
      BY <1>1, <1>9, ReadEnds
    <2>2. UNCHANGED <<params, buffer, channel>>
      BY <2>1 DEF Decode, locals
    <2>3. Chosen' = Chosen /\ (NoneForeign' <=> NoneForeign)
      BY <2>2, SameChoice
    <2>4. channel \in Channels /\ channel \notin Channels \ params.on
      BY <1>1, <2>1, <2>2 DEF Decode
    <2>5. data' = Chosen /\ NoneForeign
      BY <1>1, <2>1, <2>4 DEF Decode, NoneForeign
    <2>6. QED
      BY <2>2, <2>3, <2>4, <2>5
  <1>10. QED
    BY <1>3, <1>4, <1>5, <1>6, <1>7, <1>8, <1>9, Steps

(* The place in the buffer of the word that Read puts out k-th.            *)
Place(k) == 1 + ChanIdx + (k - 1) * ChanCounted

(* The words chosen are those of the buffer at these places, and at them   *)
(* the scan has come to the channel.                                       *)
LEMMA ChosenWords ==
    ASSUME TypeInv, channel \in params.on
    PROVE  /\ Turns \in Nat /\ DOMAIN Chosen = 1..Turns /\ Len(Chosen) = Turns
           /\ \A k \in 1..Turns : /\ Place(k) \in 1..Len(buffer) /\ Chosen[k] = buffer[Place(k)]
                                  /\ Scanned(params.on, (Place(k) - 1) % ChanCounted) = channel
           /\ \A i \in 1..Len(buffer) : Scanned(params.on, (i - 1) % ChanCounted) = channel =>
                 \E k \in 1..Turns : i = Place(k)
  <1>1. /\ ChanCounted \in Nat \ {0} /\ ChanIdx \in 0..(ChanCounted - 1) /\ Turns \in Nat
        /\ \A k \in Nat \ {0} : k <= Turns <=> Place(k) <= Len(buffer)
    BY ChosenIndices DEF Place
  <1>2. Len(buffer) \in Nat /\ params.on \in SUBSET Channels
    BY DEF TypeInv, TypeOK, Words
  <1>3. /\ ChanIdx = Rank(params.on, channel) /\ Scanned(params.on, ChanIdx) = channel
        /\ \A j \in 0..(ChanCounted - 1) : Scanned(params.on, j) = channel => j = ChanIdx
    BY <1>2, ScannedRank DEF ChanIdx, ChanCounted
  <1>4. ASSUME NEW k \in 1..Turns
        PROVE  /\ Place(k) \in 1..Len(buffer)
               /\ Scanned(params.on, (Place(k) - 1) % ChanCounted) = channel
    <2>1. k \in Nat \ {0} /\ k <= Turns
      BY <1>1
    <2>2. /\ Place(k) \in Nat \ {0} /\ Place(k) - 1 \in Nat
          /\ Divided(Place(k) - 1, ChanCounted, k - 1, ChanIdx)
      BY <1>1, <2>1, Multiple DEF Place
    <2>3. Place(k) \in 1..Len(buffer)
      BY <1>1, <1>2, <2>1, <2>2
    <2>4. k - 1 \in Nat /\ ChanIdx \in 0..(ChanCounted - 1)
      BY <1>1, <2>1
    <2>5. (Place(k) - 1) % ChanCounted = ChanIdx
      BY <1>1, <2>2, <2>4, Division
    <2>6. QED
      BY <1>3, <2>3, <2>5
  <1>5. ASSUME NEW i \in 1..Len(buffer), Scanned(params.on, (i - 1) % ChanCounted) = channel
        PROVE  \E k \in 1..Turns : i = Place(k)
    <2>1. i - 1 \in Nat
      BY <1>2
    <2>2. (i - 1) % ChanCounted = ChanIdx
      BY <1>1, <1>3, <1>5, <2>1, Remainder
    <2>3. PICK q \in Nat : i - 1 = ((i - 1) % ChanCounted) + q * ChanCounted
      BY <1>1, <2>1, Quotient
    <2>4. i = Place(q + 1) /\ q + 1 \in Nat \ {0}
      BY <1>1, <2>2, <2>3 DEF Place
    <2>5. q + 1 <= Turns
      BY <1>1, <1>2, <2>4
    <2>6. QED
      BY <1>1, <2>4, <2>5
  <1>6. /\ DOMAIN Chosen = 1..Turns
        /\ \A k \in 1..Turns : Chosen[k] = buffer[Place(k)]
    BY DEF Chosen, Place
  <1>7. Len(Chosen) = Turns
    BY <1>1 DEF Chosen
  <1>8. QED
    BY <1>1, <1>4, <1>5, <1>6, <1>7

(* What an undisturbed Read finds when it chooses: the buffer matches the  *)
(* run, and the parameters are the module's.                               *)
LEMMA ReadFinds ==
    ASSUME IInv, ReadInv, HasRead, Undisturbed, channel \in Channels
    PROVE  /\ Match /\ params = module /\ params.numbers /\ channel \in params.on
           /\ data = Chosen /\ NoneForeign /\ Kept /\ Stand = address
  <1>1. op = "Read" /\ At = 11 /\ op \notin Starts
    BY Lengths DEF HasRead, At, Starts
  <1>2. Kept /\ ~retuned
    BY <1>1, Zenon DEF Kept, Undisturbed, Starting
  <1>3. Match /\ params = module /\ ~Reading(8)
    BY <1>1, <1>2 DEF IInv, BufferInv, Reading
  <1>4. channel \in params.on /\ data = Chosen /\ NoneForeign
    BY DEF ReadInv
  <1>5. params.numbers
    BY <1>3, <1>4 DEF IInv, BusyInv
  <1>6. QED
    BY <1>2, <1>3, <1>4, <1>5 DEF Stand

(* Read puts out what was measured on the channel asked for, with the gain *)
(* it is divided by (ADC333::Read, ADC333.cpp:59).                         *)
THEOREM ReadsAreRight == Spec => []ReadIsRight
  <1>1. IInv /\ ReadInv => ReadIsRight
    <2> SUFFICES ASSUME IInv, ReadInv, HasRead, Undisturbed, channel \in Channels,
                        NEW k \in DOMAIN data
                 PROVE  IF data[k].over THEN overfill \/ data[k].of = channel
                        ELSE data[k].of = channel /\ data[k].gain = params.gain[channel]
      BY DEF ReadIsRight
    <2>1. TypeInv /\ RunInv /\ Sound
      BY ReadFinds, KeptIsSound DEF IInv
    <2>2. /\ k \in 1..Turns /\ data[k] = buffer[Place(k)] /\ Place(k) \in 1..Len(buffer)
          /\ Scanned(params.on, (Place(k) - 1) % ChanCounted) = channel
      BY <2>1, ReadFinds, ChosenWords
    <2>3. IF overfill THEN Good(data[k]) ELSE Good(data[k]) /\ data[k].of = channel
      <3>1. CASE overfill
        BY <2>2, <3>1, ReadFinds DEF Match
      <3>2. CASE ~overfill
        <4>1. buffer = taken
          BY <3>2, ReadFinds DEF Match
        <4>2. /\ Good(taken[Place(k)])
              /\ taken[Place(k)].of = Scanned(module.on, (Place(k) - 1) % Cardinality(module.on))
          BY <2>1, <2>2, <3>2, <4>1 DEF RunInv, SampleInv
        <4>3. QED
          BY <2>2, <3>2, <4>1, <4>2, ReadFinds DEF ChanCounted
      <3>3. QED
        BY <3>1, <3>2
    <2>4. ~data[k].over => data[k].number = channel
      BY ReadFinds DEF NoneForeign, IsForeign
    <2>5. QED
      BY <2>3, <2>4, ReadFinds DEF Good
  <1>2. Init => ReadInv
    BY DEF Init, ReadInv, HasRead
  <1>3. QED
    BY <1>1, <1>2, Invariance, ReadInvStep, PTL DEF Spec

(* Read puts out every sample of the channel since the start, in the order *)
(* they were taken in, and none of an earlier run.                         *)
THEOREM ReadsAreWhole == Spec => []ReadIsWhole
  <1>1. IInv /\ ReadInv => ReadIsWhole
    <2> DEFINE due == {i \in DOMAIN taken : taken[i].of = channel}
               upto(i) == {j \in due : j <= i}
    <2> SUFFICES ASSUME IInv, ReadInv, HasRead, Undisturbed, ~overfill, channel \in Channels
                 PROVE  /\ Len(data) = Cardinality(due)
                        /\ \A i \in due : data[Cardinality(upto(i))] = taken[i]
      BY DEF ReadIsWhole
    <2>1. TypeInv /\ RunInv /\ Sound /\ buffer = taken /\ params = module
      BY ReadFinds, KeptIsSound DEF IInv, Match
    <2>2. /\ Turns \in Nat /\ Len(data) = Turns
          /\ \A k \in 1..Turns : /\ Place(k) \in 1..Len(taken) /\ data[k] = taken[Place(k)]
                                 /\ Scanned(params.on, (Place(k) - 1) % ChanCounted) = channel
          /\ \A i \in 1..Len(taken) : Scanned(params.on, (i - 1) % ChanCounted) = channel =>
                \E k \in 1..Turns : i = Place(k)
      BY <2>1, ReadFinds, ChosenWords
    <2>3. DOMAIN taken = 1..Len(taken)
      BY <2>1 DEF TypeInv
    <2>4. \A i \in 1..Len(taken) : taken[i].of = Scanned(params.on, (i - 1) % ChanCounted)
      BY <2>1 DEF RunInv, SampleInv, ChanCounted
    <2>5. due = {Place(k) : k \in 1..Turns}
      BY <2>2, <2>3, <2>4
    <2>6. /\ \A t \in Nat : Cardinality({Place(k) : k \in 1..t}) = t
          /\ \A k, m \in Nat \ {0} : k <= m <=> Place(k) <= Place(m)
      <3>1. ChanCounted \in Nat \ {0} /\ ChanIdx \in 0..(ChanCounted - 1)
        BY <2>1, ReadFinds, ChosenIndices
      <3>2. QED
        BY <3>1, Progression DEF Place
    <2>7. ASSUME NEW i \in due PROVE data[Cardinality(upto(i))] = taken[i]
      <3>1. PICK k \in 1..Turns : i = Place(k)
        BY <2>5
      <3>2. upto(i) = {Place(m) : m \in 1..k}
        <4>1. \A m \in 1..Turns : Place(m) <= i <=> m \in 1..k
          BY <2>2, <2>6, <3>1
        <4>2. \A m \in 1..k : m \in 1..Turns
          BY <2>2, <3>1
        <4>3. QED
          BY <2>5, <4>1, <4>2
      <3>3. Cardinality(upto(i)) = k
        <4>1. k \in Nat
          BY <2>2
        <4>2. QED
          BY <2>6, <3>2, <4>1, Zenon
      <3>4. QED
        BY <2>2, <3>1, <3>3
    <2>8. QED
      BY <2>2, <2>5, <2>6, <2>7
  <1>2. Init => ReadInv
    BY DEF Init, ReadInv, HasRead
  <1>3. QED
    BY <1>1, <1>2, Invariance, ReadInvStep, PTL DEF Spec
=============================================================================
