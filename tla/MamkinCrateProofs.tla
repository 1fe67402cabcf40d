------------------------- MODULE MamkinCrateProofs -------------------------
(***************************************************************************)
(* Proofs about MamkinCrate, for every set of threads, of descriptors and  *)
(* of functions.                                                           *)
(***************************************************************************)
EXTENDS MamkinCrate, FiniteSetTheorems, TLAPS

(* The results the operations build are results, and a refused function is *)
(* an error.                                                               *)
LEMMA Words ==
    /\ {} \in Result /\ {"INVALID_ARG"} \in Result
    /\ IsError({"INVALID_ARG"})
    /\ \A n \in Int : FromInt(n) \in Result
    /\ \A o \in Ops, d \in Int : BusAnswers(o, d) \subseteq Result
  <1>1. \A xq \in Xq : TxqToResultBits(xq) \in Result
    BY DEF TxqToResultBits, Result, All, Errors, HardErrors, StationAnswer
  <1>2. ASSUME NEW o \in Ops, NEW d \in Int
        PROVE  BusAnswers(o, d) \subseteq Result
    <2>1. {{}, {"BOOL"}} \subseteq Result /\ {{}, {"DATA_XFER_ERROR"}} \subseteq Result
      BY DEF Result, All, Errors, HardErrors
    <2>2. {TxqToResultBits(xq) : xq \in IF d \in open THEN {-1, 0, 1, 2, 4} ELSE {-1}}
              \subseteq Result
      BY <1>1 DEF Xq
    <2>3. QED
      BY <2>1, <2>2 DEF BusAnswers
  <1>3. \A n \in Int : FromInt(n) \in Result
    BY DEF FromInt, Result
  <1>4. {} \in Result /\ {"INVALID_ARG"} \in Result /\ IsError({"INVALID_ARG"})
    BY DEF Result, All, Errors, SoftErrors, IsError
  <1>5. QED
    BY <1>2, <1>3, <1>4

(* _fd is a number, a descriptor or one of the negative marks.             *)
LEMMA Numbers == FdValue \subseteq Int
  BY CrateAssumption DEF FdValue
-----------------------------------------------------------------------------
(* The initial state has its types.                                        *)
LEMMA TypeCorrectInit == Init => TypeOK
  <1> USE CrateAssumption
  <1> SUFFICES ASSUME Init PROVE TypeOK
    OBVIOUS
  <1>1. node \in BOOLEAN /\ ready \in BOOLEAN
    BY Zenon DEF Init
  <1>2. pc \in [Threads -> PC] /\ op \in [Threads -> Ops]
    BY DEF Init, PC, Ops
  <1>3. again \in [Threads -> BOOLEAN]
    BY DEF Init
  <1>4. /\ fd \in FdValue /\ open \subseteq Descriptors
        /\ seen \in [Threads -> FdValue] /\ got \in [Threads -> FdValue]
    BY DEF Init, FdValue
  <1>5. res \in [Threads -> Result]
    BY Words DEF Init
  <1>6. raced \in BOOLEAN /\ refused \in BOOLEAN
    BY DEF Init
  <1>7. QED
    BY <1>1, <1>2, <1>3, <1>4, <1>5, <1>6 DEF TypeOK

(* Every step keeps the types.                                             *)
LEMMA TypeCorrectStep == TypeOK /\ [Next]_vars => TypeOK'
  <1> USE CrateAssumption
  <1> SUFFICES ASSUME TypeOK, [Next]_vars PROVE TypeOK'
    OBVIOUS
  <1>1. CASE UNCHANGED vars
    BY <1>1 DEF vars, thread, TypeOK
  <1>2. CASE ToggleNode
    <2>1. node' \in BOOLEAN
      BY <1>2, Zenon DEF ToggleNode, TypeOK
    <2>2. QED
      BY <1>2, <2>1 DEF ToggleNode, thread, TypeOK
  <1>3. ASSUME NEW t \in Threads, Thread(t) PROVE TypeOK'
    <2>1. CASE \E o \in Ops, f \in Functions : Begin(t, o, f)
      <3>1. PICK o \in Ops, f \in Functions : Begin(t, o, f)
        BY <2>1
      <3>2. /\ op' \in [Threads -> Ops] /\ again' \in [Threads -> BOOLEAN]
            /\ pc' \in [Threads -> PC]
        BY <3>1 DEF Begin, Return, Goto, TypeOK, PC
      <3>3. res' \in [Threads -> Result]
        BY <3>1, Words DEF Begin, Return, TypeOK
      <3>4. QED
        BY <3>1, <3>2, <3>3 DEF Begin, TypeOK
    <2>2. CASE Look(t)
      BY <2>2 DEF Look, Goto, TypeOK, PC
    <2>3. CASE Access(t)
      BY <2>3 DEF Access, Goto, TypeOK, PC, FdValue
    <2>4. CASE Open(t)
      <3>1. open' \subseteq Descriptors
        BY <2>4 DEF Open, TypeOK
      <3>2. seen' \in [Threads -> FdValue]
        BY <2>4 DEF Open, TypeOK, FdValue
      <3>3. QED
        BY <2>4, <3>1, <3>2 DEF Open, Goto, TypeOK, PC
    <2>5. CASE Store(t)
      BY <2>5 DEF Store, Goto, TypeOK, PC
    <2>6. CASE Settle(t)
      BY <2>6 DEF Settle, Goto, TypeOK, PC
    <2>6a. CASE Unbind(t)
      BY <2>6a DEF Unbind, Goto, TypeOK, PC, FdValue
    <2>7. CASE Reread(t)
      BY <2>7 DEF Reread, Goto, TypeOK, PC
    <2>8. CASE GotFd(t)
      <3> DEFINE n == -got[t]
      <3>1. n \in Int
        <4>1. got[t] \in FdValue
          BY DEF TypeOK
        <4>2. got[t] \in Int
          BY <4>1, Numbers
        <4>3. QED
          BY <4>2
      <3> HIDE DEF n
      <3>2. FromInt(n) \in Result
        BY <3>1, Words
      <3>3. res' = res \/ res' = [res EXCEPT ![t] = FromInt(n)]
        BY <2>8 DEF GotFd, Return, n
      <3>4. res' \in [Threads -> Result]
        BY <3>2, <3>3 DEF TypeOK
      <3>5. pc' \in [Threads -> PC] /\ again' \in [Threads -> BOOLEAN]
        BY <2>8 DEF GotFd, Return, Goto, TypeOK, PC
      <3>6. ready' \in BOOLEAN
        BY <2>8, Zenon DEF GotFd, Return, TypeOK
      <3>7. QED
        BY <2>8, <3>4, <3>5, <3>6 DEF GotFd, TypeOK
    <2>9. CASE Bus(t)
      <3>1. BusAnswers(op[t], got[t]) \subseteq Result
        BY Words, Numbers DEF TypeOK
      <3>2. QED
        BY <2>9, <3>1 DEF Bus, Return, Goto, TypeOK, PC
    <2>10. CASE Done(t)
      BY <2>10, Words DEF Done, Goto, TypeOK, PC, FdValue
    <2>11. QED
      BY <1>3, <2>1, <2>2, <2>3, <2>4, <2>5, <2>6, <2>6a, <2>7, <2>8, <2>9, <2>10 DEF Thread
  <1>4. QED
    BY <1>1, <1>2, <1>3 DEF Next

(* Type correctness: the crate's and its threads' variables keep their     *)
(* types, with and without order among the getCrate calls.                 *)
THEOREM TypeCorrect == Spec => []TypeOK
  BY TypeCorrectInit, TypeCorrectStep, PTL DEF Spec
-----------------------------------------------------------------------------
(* What getCrate calls made one at a time leave true of the crate ...      *)
CrateInv ==
    /\ \A t, u \in Threads : InGetCrate(t) /\ InGetCrate(u) => t = u
    /\ fd >= 0 => fd \in open
    /\ ready => fd >= 0
    /\ OneOpen

(* ... and of a thread in it.  While it has no descriptor, only the thread *)
(* in getCrate can be in fd(): the others need a crate to be handed out    *)
(* first, and from then on every value of _fd they see is the same.        *)
ThreadInv(t) ==
    /\ op[t] # "getCrate" /\ pc[t] \notin {"idle", "done"} => ready
    /\ pc[t] \in {"access", "open", "store", "unbind"} => op[t] = "getCrate" /\ fd < 0
    /\ pc[t] = "store" /\ seen[t] >= 0 => seen[t] \in open
    /\ pc[t] = "reread" => seen[t] = fd
    /\ pc[t] = "got" => got[t] = fd \/ (op[t] = "getCrate" /\ got[t] < 0)
    /\ pc[t] = "bus" => op[t] # "getCrate" /\ got[t] = fd
    /\ pc[t] = "done" /\ op[t] # "getCrate" /\ ~IsError(res[t]) => got[t] \in open

IInv == TypeOK /\ (~raced => CrateInv /\ \A t \in Threads : ThreadInv(t))

(* Calls that have overlapped have overlapped.                             *)
LEMMA RacedStays == TypeOK /\ [Next]_vars /\ ~raced' => ~raced
  <1> SUFFICES ASSUME TypeOK, [Next]_vars, raced PROVE raced'
    OBVIOUS
  <1>1. CASE UNCHANGED vars
    BY <1>1 DEF vars
  <1>2. CASE ToggleNode
    BY <1>2 DEF ToggleNode
  <1>3. ASSUME NEW t \in Threads, Thread(t) PROVE raced'
    <2>1. ASSUME NEW o \in Ops, NEW f \in Functions, Begin(t, o, f) PROVE raced'
      BY <2>1, Zenon DEF Begin
    <2>2. QED
      BY <1>3, <2>1 DEF Thread, Look, Access, Open, Store, Settle, Unbind, Reread,
                          GotFd, Bus, Done
  <1>4. QED
    BY <1>1, <1>2, <1>3 DEF Next

(* Until the crate has a descriptor, a thread in getCrate is alone in it.  *)
LEMMA Alone ==
    ASSUME CrateInv, \A t \in Threads : ThreadInv(t), fd < 0, fd \in Int,
           NEW t \in Threads, InGetCrate(t)
    PROVE  ~ready /\ \A u \in Threads \ {t} : pc[u] \in {"idle", "done"}
  BY DEF CrateInv, ThreadInv, InGetCrate

(* A step that leaves _fd alone, and takes nothing from the open           *)
(* descriptors and from ready, does not disturb the other threads.         *)
LEMMA Others ==
    ASSUME TypeOK, NEW t \in Threads, NEW u \in Threads \ {t}, ThreadInv(u),
           fd' = fd, open \subseteq open', ready => ready',
           pc'[u] = pc[u], op'[u] = op[u], seen'[u] = seen[u],
           got'[u] = got[u], res'[u] = res[u]
    PROVE  ThreadInv(u)'
  BY DEF ThreadInv

(* As long as getCrate calls come one at a time, Crate::fd() opens the     *)
(* device in one thread only, and every thread has the crate's descriptor  *)
(* in hand once it is out: IInv is an invariant.                           *)
THEOREM Invariance == Spec => []IInv
  <1> USE CrateAssumption
  <1>1. Init => IInv
    <2> SUFFICES ASSUME Init PROVE CrateInv /\ \A t \in Threads : ThreadInv(t)
      BY TypeCorrectInit DEF IInv
    <2>1. QED
      BY DEF Init, CrateInv, ThreadInv, InGetCrate, OneOpen
  <1>2. IInv /\ [Next]_vars => IInv'
    <2> SUFFICES ASSUME IInv, [Next]_vars, ~raced', ~raced
                 PROVE  CrateInv' /\ \A u \in Threads : ThreadInv(u)'
      BY TypeCorrectStep, RacedStays DEF IInv
    <2> USE Numbers
    <2>0. /\ fd \in Int /\ \A u \in Threads : seen[u] \in Int /\ got[u] \in Int
          /\ open \subseteq Nat
      BY DEF IInv, TypeOK
    <2>1. CASE UNCHANGED vars
      BY <2>1 DEF vars, thread, IInv, CrateInv, ThreadInv, InGetCrate, OneOpen
    <2>2. CASE ToggleNode
      BY <2>2 DEF ToggleNode, thread, IInv, CrateInv, ThreadInv, InGetCrate, OneOpen
    <2>3. ASSUME NEW t \in Threads, Thread(t)
          PROVE  CrateInv' /\ \A u \in Threads : ThreadInv(u)'
      <3> USE DEF IInv
      <3>1. CASE \E o \in Ops, f \in Functions : Begin(t, o, f)
        <4>1. PICK o \in Ops, f \in Functions : Begin(t, o, f)
          BY <3>1
        <4>2. \A u \in Threads \ {t} : ThreadInv(u)'
          BY <4>1, Others DEF Begin, Return, Goto, TypeOK
        <4>3. ThreadInv(t)'
          BY <4>1, Words DEF Begin, Return, Goto, TypeOK, ThreadInv
        <4>4. o # "getCrate" \/ \A u \in Threads : ~InGetCrate(u)
          BY <4>1, Zenon DEF Begin
        <4>5. CrateInv'
          BY <4>1, <4>4 DEF Begin, Return, Goto, TypeOK, CrateInv, InGetCrate, OneOpen
        <4>6. QED
          BY <4>2, <4>3, <4>5
      <3>2. CASE Look(t)
        <4>1. \A u \in Threads \ {t} : ThreadInv(u)'
          BY <3>2, Others DEF Look, Goto, TypeOK
        <4>2. ThreadInv(t)'
          BY <3>2, <2>0 DEF Look, Goto, Closed, TypeOK, ThreadInv, CrateInv
        <4>3. CrateInv'
          BY <3>2 DEF Look, Goto, TypeOK, CrateInv, InGetCrate, OneOpen
        <4>4. QED
          BY <4>1, <4>2, <4>3
      <3>3. CASE Access(t)
        <4>1. \A u \in Threads \ {t} : ThreadInv(u)'
          BY <3>3, Others DEF Access, Goto, TypeOK
        <4>2. ThreadInv(t)'
          BY <3>3 DEF Access, Goto, TypeOK, ThreadInv
        <4>3. CrateInv'
          BY <3>3 DEF Access, Goto, TypeOK, CrateInv, InGetCrate, OneOpen
        <4>4. QED
          BY <4>1, <4>2, <4>3
      <3>4. CASE Open(t)
        <4>1. \A u \in Threads \ {t} : ThreadInv(u)'
          BY <3>4, Others DEF Open, Goto, TypeOK
        <4>2. ThreadInv(t)'
          BY <3>4 DEF Open, Goto, TypeOK, ThreadInv
        <4>3. InGetCrate(t) /\ fd < 0
          BY <3>4 DEF Open, ThreadInv, InGetCrate
        <4>4. open = {}
          BY <3>4, <4>3, <2>0, Alone DEF Open, CrateInv, OneOpen
        <4>5. OneOpen'
          BY <3>4, <4>4 DEF Open, Goto, TypeOK, OneOpen
        <4>6. CrateInv'
          BY <3>4, <4>5 DEF Open, Goto, TypeOK, CrateInv, InGetCrate
        <4>7. QED
          BY <4>1, <4>2, <4>6
      <3>5. CASE Store(t)
        <4>1. InGetCrate(t) /\ fd < 0
          BY <3>5 DEF Store, ThreadInv, InGetCrate
        <4>2. ~ready /\ \A u \in Threads \ {t} : pc[u] \in {"idle", "done"}
          BY <4>1, <2>0, Alone DEF InGetCrate
        <4>3. \A u \in Threads : ThreadInv(u)'
          BY <3>5, <4>1, <4>2 DEF Store, Goto, TypeOK, ThreadInv, InGetCrate
        <4>4. OneOpen'
          BY <3>5, <4>1, <4>2, <2>0 DEF Store, Goto, TypeOK, CrateInv, OneOpen
        <4>5. CrateInv'
          BY <3>5, <4>1, <4>2, <4>4 DEF Store, Goto, TypeOK, CrateInv, ThreadInv, InGetCrate
        <4>6. QED
          BY <4>3, <4>5
      <3>6. CASE Settle(t)
        <4>1. \A u \in Threads \ {t} : ThreadInv(u)'
          BY <3>6, Others DEF Settle, Goto, TypeOK
        <4>2. ThreadInv(t)'
          BY <3>6, <2>0 DEF Settle, Goto, TypeOK, ThreadInv, CrateInv
        <4>3. CrateInv'
          BY <3>6 DEF Settle, Goto, TypeOK, CrateInv, InGetCrate, OneOpen
        <4>4. QED
          BY <4>1, <4>2, <4>3
      <3>6a. CASE Unbind(t)
        <4>1. InGetCrate(t) /\ fd < 0 /\ fd' = -8
          BY <3>6a DEF Unbind, ThreadInv, InGetCrate
        <4>2. ~ready /\ \A u \in Threads \ {t} : pc[u] \in {"idle", "done"}
          BY <4>1, <2>0, Alone DEF InGetCrate
        <4>3. \A u \in Threads : ThreadInv(u)'
          BY <3>6a, <4>1, <4>2 DEF Unbind, Goto, TypeOK, ThreadInv, InGetCrate
        <4>4. open = {}
          BY <3>6a, <4>1, <4>2, <2>0 DEF Unbind, CrateInv, OneOpen
        <4>5. CrateInv'
          BY <3>6a, <4>1, <4>2, <4>4 DEF Unbind, Goto, TypeOK, CrateInv, InGetCrate, OneOpen
        <4>6. QED
          BY <4>3, <4>5
      <3>7. CASE Reread(t)
        <4>1. \A u \in Threads \ {t} : ThreadInv(u)'
          BY <3>7, Others DEF Reread, Goto, TypeOK
        <4>2. ThreadInv(t)'
          <5>1. seen[t] = fd
            BY <3>7 DEF Reread, ThreadInv
          <5>2. got' = [got EXCEPT ![t] = fd]
            BY <3>7, <5>1 DEF Reread
          <5>3. pc'[t] = "got" /\ got'[t] = fd
            BY <3>7, <5>2 DEF Reread, Goto, TypeOK
          <5>4. UNCHANGED <<fd, ready, op>>
            BY <3>7 DEF Reread
          <5>5. QED
            BY <3>7, <5>3, <5>4 DEF Reread, ThreadInv
        <4>3. CrateInv'
          BY <3>7 DEF Reread, Goto, TypeOK, CrateInv, InGetCrate, OneOpen
        <4>4. QED
          BY <4>1, <4>2, <4>3
      <3>8. CASE GotFd(t)
        <4>1. \A u \in Threads \ {t} : ThreadInv(u)'
          <5>1. ready => ready'
            BY <3>8 DEF GotFd
          <5>2. \A u \in Threads \ {t} : pc'[u] = pc[u] /\ res'[u] = res[u]
            BY <3>8 DEF GotFd, Return, Goto, TypeOK
          <5>3. QED
            BY <3>8, <5>1, <5>2, Others DEF GotFd
        <4>2. CASE op[t] = "getCrate"
          <5>1. ready' => fd >= 0
            <6>1. ready' => ready \/ HasCrate(t)
              BY <3>8, <4>2, Zenon DEF GotFd
            <6>2. HasCrate(t) => fd >= 0
              BY <3>8, <2>0 DEF GotFd, HasCrate, ThreadInv
            <6>3. ready => fd >= 0
              BY DEF CrateInv
            <6>4. QED
              BY <6>1, <6>2, <6>3
          <5>2. ThreadInv(t)'
            BY <3>8, <4>2 DEF GotFd, Goto, TypeOK, ThreadInv
          <5>3. CrateInv'
            BY <3>8, <4>2, <5>1 DEF GotFd, Goto, TypeOK, CrateInv, InGetCrate, OneOpen
          <5>4. QED
            BY <4>1, <5>2, <5>3
        <4>3. CASE op[t] # "getCrate"
          <5>1. got[t] = fd /\ fd >= 0 /\ ready
            BY <3>8, <4>3 DEF GotFd, ThreadInv, CrateInv
          <5>2. /\ ready' = ready
                /\ pc' \in {[pc EXCEPT ![t] = "look"], [pc EXCEPT ![t] = "bus"]}
            <6>1. ready' = ready
              BY <3>8, <4>3, Zenon DEF GotFd
            <6>2. pc' \in {[pc EXCEPT ![t] = "look"], [pc EXCEPT ![t] = "bus"]}
              <7>1. ~(got[t] < 0)
                BY <5>1, <2>0
              <7>2. QED
                BY <3>8, <4>3, <7>1, Zenon DEF GotFd, Goto
            <6>3. QED
              BY <6>1, <6>2
          <5>3. ThreadInv(t)'
            BY <3>8, <4>3, <5>1, <5>2 DEF GotFd, TypeOK, ThreadInv
          <5>4. CrateInv'
            BY <3>8, <4>3, <5>2 DEF GotFd, TypeOK, CrateInv, InGetCrate, OneOpen
          <5>5. QED
            BY <4>1, <5>3, <5>4
        <4>4. QED
          BY <4>2, <4>3
      <3>9. CASE Bus(t)
        <4>1. PICK r \in BusAnswers(op[t], got[t]) : Return(t, r)
          BY <3>9 DEF Bus
        <4>2. \A u \in Threads \ {t} : ThreadInv(u)'
          BY <3>9, <4>1, Others DEF Bus, Return, Goto, TypeOK
        <4>3. got[t] \in open
          BY <3>9, <2>0 DEF Bus, ThreadInv, CrateInv
        <4>4. ThreadInv(t)'
          BY <3>9, <4>1, <4>3 DEF Bus, Return, Goto, TypeOK, ThreadInv
        <4>5. CrateInv'
          BY <3>9, <4>1 DEF Bus, Return, Goto, TypeOK, CrateInv, InGetCrate, OneOpen
        <4>6. QED
          BY <4>2, <4>4, <4>5
      <3>10. CASE Done(t)
        <4>1. \A u \in Threads \ {t} : ThreadInv(u)'
          BY <3>10, Others DEF Done, Goto, TypeOK
        <4>2. ThreadInv(t)'
          BY <3>10 DEF Done, Goto, TypeOK, ThreadInv
        <4>3. CrateInv'
          BY <3>10 DEF Done, Goto, TypeOK, CrateInv, InGetCrate, OneOpen
        <4>4. QED
          BY <4>1, <4>2, <4>3
      <3>11. QED
        BY <2>3, <3>1, <3>2, <3>3, <3>4, <3>5, <3>6, <3>6a, <3>7, <3>8, <3>9, <3>10 DEF Thread
    <2>4. QED
      BY <2>1, <2>2, <2>3 DEF Next
  <1>3. QED
    BY <1>1, <1>2, PTL DEF Spec

(* With the getCrate calls of the process made one at a time, the crate    *)
(* opens its device once and keeps it (Crate::fd, MamkinServer.cpp:110).   *)
THEOREM OneOpenDescriptor == Spec => []OneDescriptor
  <1>1. IInv => OneDescriptor
    BY DEF IInv, CrateInv, OneDescriptor
  <1>2. QED
    BY <1>1, Invariance, PTL

(* And every operation goes through that descriptor, so that what it       *)
(* answers without an error is the device's own answer.                    *)
THEOREM SuccessComesFromDevice == Spec => []SuccessIsReal
  <1>1. IInv => SuccessIsReal
    BY DEF IInv, CrateInv, ThreadInv, SuccessIsReal
  <1>2. QED
    BY <1>1, Invariance, PTL
-----------------------------------------------------------------------------
(* The threads that may still open the device, and those that have opened  *)
(* it and not yet stored what they got.                                    *)
Opening == {t \in Threads : pc[t] \in {"access", "open"}}
Storing == {t \in Threads : pc[t] = "store"}

(* Why a device that opens is opened once by a thread at most: as long as  *)
(* _fd is negative what is open is in the hands of a thread that stores it *)
(* next, and from then on _fd is a descriptor, so that only the threads    *)
(* that are past their look at it are left.  No thread takes the want of a *)
(* descriptor for the end of the matter.                                   *)
LeakInv ==
    ~refused =>
        /\ IsFiniteSet(open)
        /\ \A t \in Storing : seen[t] >= 0
        /\ \A t \in Threads : pc[t] = "settle" => ~(fd < 0)
        /\ \A t \in Threads : pc[t] # "unbind"
        /\ fd < 0 => Cardinality(open) <= Cardinality(Storing)
        /\ Cardinality(open) + Cardinality(Opening) <= Cardinality(Threads)

(* A thread that comes to the end of fd() finds a descriptor.              *)
Settles(t) == pc'[t] \in {"settle", "unbind"} =>
                 pc[t] = pc'[t] \/ (pc'[t] = "settle" /\ ~(fd < 0))

(* A step that opens nothing, stores nothing and begins no opening leaves  *)
(* the count as it is.                                                     *)
LEMMA LeakKept ==
    ASSUME LeakInv, fd \in Int, open' = open, refused' = refused,
           fd' < 0 => fd < 0,
           Opening' = Opening, Storing' = Storing, \A t \in Storing : seen'[t] = seen[t],
           \A t \in Threads : Settles(t)
    PROVE  LeakInv'
  BY DEF LeakInv, Settles

(* The count is kept by every step.                                        *)
LEMMA LeakInvStep == TypeOK /\ LeakInv /\ [Next]_vars => LeakInv'
  <1> SUFFICES ASSUME TypeOK, LeakInv, [Next]_vars PROVE LeakInv'
    OBVIOUS
  <1> USE CrateAssumption, Numbers
  <1>1. fd \in Int /\ open \subseteq Nat /\ \A t \in Threads : seen[t] \in Int
    BY DEF TypeOK
  <1>2. /\ Opening \subseteq Threads /\ IsFiniteSet(Opening) /\ Cardinality(Opening) \in Nat
        /\ Storing \subseteq Threads /\ IsFiniteSet(Storing) /\ Cardinality(Storing) \in Nat
        /\ Cardinality(Threads) \in Nat
        /\ IsFiniteSet(open) => Cardinality(open) \in Nat
    BY FS_Subset, FS_CardinalityType DEF Opening, Storing
  <1>3. CASE UNCHANGED vars
    BY <1>3 DEF vars, thread, LeakInv, Opening, Storing
  <1>4. CASE ToggleNode
    BY <1>4 DEF ToggleNode, thread, LeakInv, Opening, Storing
  <1>5. ASSUME NEW t \in Threads, Thread(t) PROVE LeakInv'
    <2> USE DEF Goto, TypeOK
    <2>1. ASSUME NEW o \in Ops, NEW f \in Functions, Begin(t, o, f) PROVE LeakInv'
      <3>1. Opening' = Opening /\ Storing' = Storing
        BY <2>1 DEF Begin, Return, Opening, Storing
      <3>2. \A u \in Threads : Settles(u)
        BY <2>1 DEF Begin, Return, Settles
      <3>3. QED
        BY <2>1, <3>1, <3>2, LeakKept DEF Begin
    <2>2. CASE Look(t)
      <3>1. Storing' = Storing
        BY <2>2 DEF Look, Storing
      <3>2. CASE fd >= 0
        <4>1. Opening' = Opening
          BY <2>2, <3>2, <1>1 DEF Look, Closed, Opening
        <4>2. \A u \in Threads : Settles(u)
          BY <2>2, <3>2, <1>1 DEF Look, Settles
        <4>3. QED
          BY <2>2, <3>1, <4>1, <4>2, <1>1, LeakKept DEF Look
      <3>3. CASE fd < 0
        <4>1. /\ Opening' = Opening \cup {t} /\ t \notin Opening
              /\ Opening \cup {t} \cup Storing \subseteq Threads
              /\ (Opening \cup {t}) \cap Storing = {}
          BY <2>2, <3>3 DEF Look, Closed, Opening, Storing
        <4>2. /\ IsFiniteSet(Opening')
              /\ Cardinality(Opening' \cup Storing) <= Cardinality(Threads)
          BY <4>1, <1>2, FS_AddElement, FS_Subset
        <4>3. Cardinality(Opening' \cup Storing) = Cardinality(Opening') + Cardinality(Storing)
          <5>1. Cardinality(Opening' \cap Storing) = 0
            BY <4>1, FS_EmptySet
          <5>2. /\ Cardinality(Opening' \cup Storing) =
                     Cardinality(Opening') + Cardinality(Storing) - Cardinality(Opening' \cap Storing)
                /\ Cardinality(Opening') \in Nat
            BY <4>2, <1>2, FS_Union, FS_CardinalityType
          <5>3. QED
            BY <5>1, <5>2, <1>2
        <4>4. Cardinality(Opening') \in Nat
          BY <4>2, FS_CardinalityType
        <4>5. \A u \in Threads : pc'[u] \in {"settle", "unbind"} => pc[u] = pc'[u]
          BY <2>2, <3>3 DEF Look, Closed
        <4>6. QED
          BY <2>2, <3>1, <3>3, <4>2, <4>3, <4>4, <4>5, <1>2 DEF Look, LeakInv
      <3>4. QED
        BY <3>2, <3>3, <1>1
    <2>3. CASE Access(t)
      <3>1. Storing' = Storing /\ Opening' \subseteq Opening
        BY <2>3 DEF Access, Opening, Storing
      <3>2. Cardinality(Opening') \in Nat /\ Cardinality(Opening') <= Cardinality(Opening)
        BY <3>1, <1>2, FS_Subset, FS_CardinalityType
      <3>3. QED
        BY <2>3, <3>1, <3>2, <1>2 DEF Access, LeakInv
    <2>4. CASE Open(t)
      <3> SUFFICES ASSUME ~refused', ~refused PROVE LeakInv'
        BY <2>4 DEF Open, LeakInv
      <3>1. PICK d \in Descriptors \ open : open' = open \cup {d} /\ seen' = [seen EXCEPT ![t] = d]
        BY <2>4 DEF Open
      <3>2. /\ Opening' = Opening \ {t} /\ t \in Opening
            /\ Storing' = Storing \cup {t} /\ t \notin Storing
        BY <2>4 DEF Open, Opening, Storing
      <3>3. /\ Cardinality(Opening') = Cardinality(Opening) - 1
            /\ Cardinality(Storing') = Cardinality(Storing) + 1
            /\ IsFiniteSet(open') /\ Cardinality(open') = Cardinality(open) + 1
        BY <3>1, <3>2, <1>2, FS_AddElement, FS_RemoveElement DEF LeakInv
      <3>4. \A u \in Storing' : seen'[u] >= 0
        BY <3>1, <3>2 DEF LeakInv, Storing
      <3>5. QED
        BY <2>4, <3>3, <3>4, <1>2 DEF Open, LeakInv
    <2>5. CASE Store(t)
      <3> SUFFICES ASSUME ~refused', ~refused PROVE LeakInv'
        BY <2>5 DEF Store, LeakInv
      <3>1. t \in Storing /\ fd' >= 0
        BY <2>5 DEF Store, Storing, LeakInv
      <3>2. Opening' = Opening /\ Storing' = Storing \ {t}
        BY <2>5 DEF Store, Opening, Storing
      <3>3. fd' \in Int
        BY <2>5, <1>1 DEF Store
      <3>4. QED
        BY <2>5, <3>1, <3>2, <3>3, <1>2 DEF Store, LeakInv
    <2>6. CASE Settle(t)
      <3> SUFFICES ASSUME ~refused', ~refused PROVE LeakInv'
        BY <2>6 DEF Settle, LeakInv
      <3>1. Opening' = Opening /\ Storing' = Storing /\ t \notin Storing
        BY <2>6 DEF Settle, Opening, Storing
      <3>2. \A u \in Storing : seen'[u] = seen[u]
        BY <2>6, <3>1, <1>1 DEF Settle, Storing
      <3>3. ~(fd < 0)
        BY <2>6 DEF Settle, LeakInv
      <3>4. QED
        BY <2>6, <3>1, <3>2, <3>3, <1>1, LeakKept DEF Settle, Settles
    <2>6a. CASE Unbind(t)
      BY <2>6a DEF Unbind, LeakInv
    <2>7. CASE Reread(t) \/ GotFd(t) \/ Bus(t)
      <3>1. Opening' = Opening /\ Storing' = Storing
        BY <2>7 DEF Reread, GotFd, Bus, Return, Opening, Storing
      <3>2. \A u \in Threads : Settles(u)
        BY <2>7 DEF Reread, GotFd, Bus, Return, Settles
      <3>3. QED
        BY <2>7, <3>1, <3>2, <1>1, LeakKept DEF Reread, GotFd, Bus
    <2>8. CASE Done(t)
      <3>1. Opening' = Opening /\ Storing' = Storing /\ t \notin Storing
        BY <2>8 DEF Done, Opening, Storing
      <3>2. \A u \in Storing : seen'[u] = seen[u]
        BY <2>8, <3>1 DEF Done, Storing
      <3>3. QED
        BY <2>8, <3>1, <3>2, <1>1, LeakKept DEF Done, Settles
    <2>9. QED
      BY <1>5, <2>1, <2>2, <2>3, <2>4, <2>5, <2>6, <2>6a, <2>7, <2>8 DEF Thread
  <1>6. QED
    BY <1>3, <1>4, <1>5 DEF Next

(* However the threads of a process overlap in Crate::fd(), a device that  *)
(* opens when it is there is opened at most once by each of them.          *)
THEOREM LeaksAreBounded == Spec => []LeakBounded
  <1>1. Init => LeakInv
    <2> SUFFICES ASSUME Init PROVE LeakInv
      OBVIOUS
    <2>1. /\ Opening = {} /\ Storing = {} /\ open = {}
          /\ \A t \in Threads : pc[t] \notin {"settle", "unbind"}
      BY DEF Init, Opening, Storing
    <2>2. QED
      BY <2>1, CrateAssumption, FS_EmptySet, FS_CardinalityType DEF LeakInv
  <1>2. TypeOK /\ LeakInv => LeakBounded
    <2>1. IsFiniteSet(Opening)
      BY CrateAssumption, FS_Subset DEF Opening
    <2>2. QED
      BY <2>1, CrateAssumption, FS_CardinalityType DEF LeakInv, LeakBounded
  <1>3. QED
    BY <1>1, <1>2, TypeCorrect, LeakInvStep, PTL DEF Spec
=============================================================================
