--------------------------- MODULE WaitLamProofs ---------------------------
(***************************************************************************)
(* Proofs about WaitLam, for every check method, every set of timeouts,    *)
(* every resolution of CAM_LWAIT and however long the clock runs.          *)
(***************************************************************************)
EXTENDS WaitLam, TLAPS

(* What a timeout is truncated to: whole units, and less than one is lost. *)
LEMMA Truncation ==
    ASSUME NEW t \in Int
    PROVE  /\ LWaitTime(t) \in Nat
           /\ LWaitTime(t) <= t \/ LWaitTime(t) = 0
           /\ t - LWaitTime(t) < Centi
  <1>1. CASE t <= 0
    BY <1>1, WaitAssumption DEF LWaitTime
  <1>2. CASE t > 0
    <2>1. t \div Centi \in Nat /\ t = Centi * (t \div Centi) + (t % Centi)
      BY <1>2, WaitAssumption, Z3
    <2>2. t % Centi \in 0 .. Centi - 1
      BY <1>2, WaitAssumption, Z3
    <2>3. QED
      BY <1>2, <2>1, <2>2, WaitAssumption DEF LWaitTime
  <1>3. QED
    BY <1>1, <1>2

(* The library's answer has an error bit, or no bit.                       *)
LEMMA XqResults ==
    \A xq \in Xq : /\ TxqToResultBits(xq) \in Result
                   /\ TxqToResultBits(xq) \subseteq Errors
                   /\ TxqToResultBits(xq) # {} => IsError(TxqToResultBits(xq))
  BY DEF TxqToResultBits, Result, All, Errors, HardErrors, StationAnswer, IsError

(* The constants of the result word that WaitLAM uses.                     *)
LEMMA Flags ==
    /\ {} \in Result /\ {"BOOL"} \in Result /\ {"NOTBINDED"} \in Result
    /\ {"INVALID_ARG"} \in Result /\ NoFd \subseteq Result
    /\ ~IsError({}) /\ ~IsError({"BOOL"})
    /\ IsError({"NOTBINDED"}) /\ IsError({"INVALID_ARG"})
    /\ \A r \in NoFd : IsError(r) /\ "BOOL" \notin r /\ ~(r \subseteq {"NOT_Q"})
    /\ "BOOL" \notin Errors
  BY DEF Result, All, Errors, SoftErrors, HardErrors, StationAnswer,
         UserErrors, NoFd, IsError
-----------------------------------------------------------------------------
(* What an answer of the server may be.                                    *)
LEMMA ServerTypes ==
    ASSUME TypeOK, NEW r \in ServerAnswers, ServerAnswer(r)
    PROVE  /\ r \in Result
           /\ heard' \in SUBSET {"LAM", "ANSWER", "Q", "MATCH"}
           /\ faults' \in SUBSET {"bus", "lwait"}
  BY Flags DEF ServerAnswers, ServerAnswer, TypeOK

(* Type correctness: WaitLam's variables keep their types.                 *)
THEOREM TypeCorrect == Spec => []TypeOK
  <1> USE WaitAssumption
  <1>1. Init => TypeOK
    <2> SUFFICES ASSUME Init PROVE TypeOK
      OBVIOUS
    <2>1. /\ clock \in Nat /\ asked \in Nat \cup {Inf} /\ target \in Time
          /\ left \in Nat \cup {Inf} /\ until \in Time
      BY DEF Init, Time
    <2>2. /\ method \in AllMethods /\ bound \in BOOLEAN
          /\ lam \in BOOLEAN /\ pc \in PC
      BY DEF Init, PC
    <2>3. /\ rv \in Result /\ ret \in Result
          /\ heard \subseteq {"LAM", "ANSWER", "Q", "MATCH"}
          /\ faults \subseteq {"bus", "lwait"}
      BY Flags DEF Init
    <2>4. QED
      BY <2>1, <2>2, <2>3 DEF TypeOK
  <1>2. TypeOK /\ [Next]_vars => TypeOK'
    <2> SUFFICES ASSUME TypeOK, [Next]_vars PROVE TypeOK'
      OBVIOUS
    <2>1. CASE UNCHANGED vars
      BY <2>1 DEF vars, world, module, call, TypeOK
    <2>2. CASE Tick \/ ToggleLam
      <3>1. clock' \in Nat
        BY <2>2 DEF Tick, ToggleLam, TypeOK
      <3>2. lam' \in BOOLEAN
        BY <2>2, Zenon DEF Tick, ToggleLam, TypeOK
      <3>3. QED
        BY <2>2, <3>1, <3>2 DEF Tick, ToggleLam, module, call, TypeOK
    <2>3. CASE Bind \/ Unbind
      BY <2>3 DEF Bind, Unbind, world, module, call, TypeOK
    <2>4. ASSUME NEW t \in Timeouts, Call(t) PROVE TypeOK'
      <3>1. t \in Nat \cup {Inf} /\ target' \in Time
        BY <2>4 DEF Call, TypeOK, Time
      <3>2. until' \in Time
        BY <2>4 DEF Call, TypeOK, Time
      <3>3. ret' \in Result
        BY <2>4, Flags DEF Call, Return, TypeOK
      <3>4. pc' \in PC
        BY <2>4 DEF Call, Return, PC
      <3>5. QED
        BY <2>4, <3>1, <3>2, <3>3, <3>4 DEF Call, world, module, TypeOK
    <2>5. CASE Loop
      BY <2>5, Flags DEF Loop, Return, PC, world, module, TypeOK
    <2>6. CASE Issue
      <3>1. until' \in Time
        <4>1. CASE target = Inf
          BY <2>6, <4>1 DEF Issue, Time
        <4>2. CASE target # Inf
          <5>1. target - clock \in Int
            BY <4>2 DEF TypeOK, Time
          <5>2. LWaitTime(target - clock) \in Nat
            BY <5>1, Truncation
          <5>3. QED
            BY <2>6, <4>2, <5>2 DEF Issue, Time, TypeOK
        <4>3. QED
          BY <4>1, <4>2
      <3>2. QED
        BY <2>6, <3>1 DEF Issue, PC, world, module, TypeOK
    <2>7. CASE PollReturns \/ ServerReturns
      BY <2>7, ServerTypes DEF PollReturns, ServerReturns, Return, PC, world, module,
         TypeOK
    <2>8. CASE Served
      <3>1. left' \in Nat \cup {Inf}
        BY <2>8 DEF Served, ToFedorov, Remaining, TypeOK, Time
      <3>2. pc' \in PC /\ ret' \in Result
        BY <2>8, Flags DEF Served, AfterLam, Return, PC, TypeOK
      <3>3. QED
        BY <2>8, <3>1, <3>2 DEF Served, world, module, TypeOK
    <2>9. CASE Probe
      <3>1. PICK r \in NoFd \cup {TxqToResultBits(xq) : xq \in Xq},
                 match \in BOOLEAN : rv' = r /\ AfterProbe(r, match)
        BY <2>9 DEF Probe
      <3>2. r \in Result
        BY <3>1, Flags, XqResults
      <3>3. pc' \in PC /\ rv' \in Result /\ ret' \in Result
        BY <3>1, <3>2, Flags DEF AfterProbe, Return, PC, TypeOK
      <3>4. /\ heard' \subseteq {"LAM", "ANSWER", "Q", "MATCH"}
            /\ faults' \subseteq {"bus", "lwait"}
        BY <2>9 DEF Probe, TypeOK
      <3>5. QED
        BY <2>9, <3>3, <3>4 DEF Probe, world, module, TypeOK
    <2>10. CASE Done
      BY <2>10 DEF Done, PC, world, module, TypeOK
    <2>11. QED
      BY <2>1, <2>2, <2>3, <2>4, <2>5, <2>6, <2>7, <2>8, <2>9, <2>10
         DEF Next, Thread
  <1>3. QED
    BY <1>1, <1>2, PTL DEF Spec
-----------------------------------------------------------------------------
(* How the times of a call are related: the deadline, the time left over   *)
(* and the time the running CAM_LWAIT was given.                           *)
Due == target # Inf /\ target - clock < Centi

TimeInv ==
    /\ asked = Inf <=> target = Inf
    /\ left = Inf <=> target = Inf
    /\ pc # "idle" /\ target # Inf => left >= target - clock
    /\ pc = "poll" => asked = 0 /\ target # Inf /\ target <= clock
    /\ pc \in {"loop", "issue", "server", "served", "probe"} => asked # 0
    /\ pc = "server" /\ target = Inf => until = Inf
    /\ pc = "server" /\ target # Inf =>
          /\ until # Inf /\ target - until < Centi
          /\ until <= target \/ until <= clock
    /\ pc = "served" /\ rv = {} /\ "lwait" \notin faults => Due
    /\ pc = "returned" /\ ret = {} /\ "lwait" \notin faults => Due

(* The bus does not fail before the last operation of a call.              *)
FaultInv ==
    /\ pc \notin {"idle", "served", "returned"} => "bus" \notin faults
    /\ pc = "served" /\ "bus" \in faults => IsError(rv)
    /\ pc = "returned" /\ "bus" \in faults => IsError(ret)

(* What the station said, while a LAM is on its way to the caller.         *)
HeardInv ==
    /\ pc = "served" => rv \in ServerAnswers
    /\ pc = "served" /\ "BOOL" \in rv => heard = {"LAM"}
    /\ pc = "probe" => heard = {"LAM"} /\ method \notin {"NONE", "OTHER"}

(* Every step keeps the account of the caller's time: what *timeout holds, *)
(* what CAM_LWAIT was given and what is left of it.                        *)
LEMMA TimeInvStep == TypeOK /\ TimeInv /\ [Next]_vars => TimeInv'
  <1> SUFFICES ASSUME TypeOK, TimeInv, [Next]_vars PROVE TimeInv'
    OBVIOUS
  <1> USE WaitAssumption
  <1>1. CASE UNCHANGED vars
    BY <1>1 DEF vars, world, module, call, TimeInv, Due
  <1>2. CASE Tick
    BY <1>2 DEF Tick, call, TimeInv, Due, TypeOK, Time
  <1>3. CASE ToggleLam \/ Bind \/ Unbind
    BY <1>3 DEF ToggleLam, Bind, Unbind, world, module, call, TimeInv, Due
  <1>4. ASSUME NEW t \in Timeouts, Call(t) PROVE TimeInv'
    BY <1>4 DEF Call, Return, world, module, TimeInv, Due, TypeOK, Time
  <1>5. CASE Loop
    BY <1>5 DEF Loop, Return, world, module, TimeInv, Due
  <1>6. CASE Issue
    <2>1. CASE target = Inf
      BY <1>6, <2>1 DEF Issue, world, module, TimeInv, Due
    <2>2. CASE target # Inf
      <3>1. target - clock \in Int
        BY <2>2 DEF TypeOK, Time
      <3>2. /\ LWaitTime(target - clock) \in Nat
            /\ \/ LWaitTime(target - clock) <= target - clock
               \/ LWaitTime(target - clock) = 0
            /\ (target - clock) - LWaitTime(target - clock) < Centi
        BY <3>1, Truncation
      <3>3. until' = clock + LWaitTime(target - clock)
        BY <1>6, <2>2 DEF Issue
      <3>4. /\ until' # Inf /\ target - until' < Centi
            /\ until' <= target \/ until' <= clock
        BY <2>2, <3>1, <3>2, <3>3 DEF TypeOK, Time
      <3>5. QED
        BY <1>6, <2>2, <3>4 DEF Issue, world, module, TimeInv, Due
    <2>3. QED
      BY <2>1, <2>2
  <1>7. CASE PollReturns
    BY <1>7, Flags DEF PollReturns, ServerAnswer, ServerAnswers, Return,
       world, module, TimeInv, Due, TypeOK, Time
  <1>8. CASE ServerReturns
    BY <1>8, Flags DEF ServerReturns, ServerAnswer, ServerAnswers, world, module,
       TimeInv, Due, TypeOK, Time
  <1>9. CASE Served
    <2>1. ret' = {} /\ pc' = "returned" => rv = {} \/ IsError(rv)
      BY <1>9 DEF Served, AfterLam, Return
    <2>2. /\ left' = Inf <=> target = Inf
          /\ target # Inf => left' >= target - clock
      <3>1. CASE target = Inf
        BY <1>9, <3>1 DEF Served, ToFedorov, Remaining
      <3>2. CASE target # Inf
        <4>1. target - clock \in Int /\ target - clock # Inf
          BY <3>2 DEF TypeOK, Time
        <4>2. left' = IF target - clock < 0 THEN 0 ELSE target - clock
          BY <1>9, <3>2, <4>1 DEF Served, ToFedorov, Remaining
        <4>3. QED
          BY <3>2, <4>1, <4>2
      <3>3. QED
        BY <3>1, <3>2
    <2>3. QED
      BY <1>9, <2>1, <2>2, Flags DEF Served, AfterLam, Return, world, module, TimeInv,
         Due
  <1>10. CASE Probe
    <2>1. ret' = {} => pc' # "returned"
      BY <1>10, Flags DEF Probe, AfterProbe, Return
    <2>2. pc' \in {"returned", "loop"}
      BY <1>10 DEF Probe, AfterProbe, Return
    <2>3. QED
      BY <1>10, <2>1, <2>2 DEF Probe, world, module, TimeInv, Due
  <1>11. CASE Done
    BY <1>11 DEF Done, world, module, TimeInv, Due
  <1>12. QED
    BY <1>1, <1>2, <1>3, <1>4, <1>5, <1>6, <1>7, <1>8, <1>9, <1>10, <1>11
       DEF Next, Thread

(* Every step keeps a fault of the bus on its way to the caller.           *)
LEMMA FaultInvStep ==
    TypeOK /\ HeardInv /\ FaultInv /\ [Next]_vars => FaultInv'
  <1> SUFFICES ASSUME TypeOK, HeardInv, FaultInv, [Next]_vars PROVE FaultInv'
    OBVIOUS
  <1>1. CASE UNCHANGED vars
    BY <1>1 DEF vars, world, module, call, FaultInv
  <1>2. CASE Tick \/ ToggleLam \/ Bind \/ Unbind
    BY <1>2 DEF Tick, ToggleLam, Bind, Unbind, call, FaultInv
  <1>3. ASSUME NEW t \in Timeouts, Call(t) PROVE FaultInv'
    BY <1>3 DEF Call, Return, FaultInv
  <1>4. CASE Loop \/ Issue
    BY <1>4 DEF Loop, Issue, Return, FaultInv
  <1>5. CASE PollReturns
    BY <1>5, Flags DEF PollReturns, ServerAnswer, Return, FaultInv
  <1>6. CASE ServerReturns
    BY <1>6, Flags DEF ServerReturns, ServerAnswer, FaultInv
  <1>7. CASE Served
    BY <1>7, Flags DEF Served, AfterLam, Return, FaultInv
  <1>8. CASE Probe
    <2>1. PICK r \in NoFd \cup {TxqToResultBits(xq) : xq \in Xq},
               match \in BOOLEAN :
            /\ faults' = IF r \subseteq {"NOT_Q"} THEN faults
                         ELSE faults \cup {"bus"}
            /\ AfterProbe(r, match)
      BY <1>8 DEF Probe
    <2>2. r # {} => IsError(r)
      BY <2>1, Flags, XqResults
    <2>3. "bus" \in faults' => r # {}
      BY <1>8, <2>1 DEF Probe, FaultInv
    <2>4. QED
      BY <1>8, <2>1, <2>2, <2>3 DEF AfterProbe, Return, FaultInv
  <1>9. CASE Done
    BY <1>9 DEF Done, FaultInv
  <1>10. QED
    BY <1>1, <1>2, <1>3, <1>4, <1>5, <1>6, <1>7, <1>8, <1>9 DEF Next, Thread

(* Every step keeps a LAM that was heard on its way to the check method.   *)
LEMMA HeardInvStep == TypeOK /\ HeardInv /\ [Next]_vars => HeardInv'
  <1> SUFFICES ASSUME TypeOK, HeardInv, [Next]_vars PROVE HeardInv'
    OBVIOUS
  <1>1. CASE UNCHANGED vars
    BY <1>1 DEF vars, world, module, call, HeardInv
  <1>2. CASE Tick \/ ToggleLam \/ Bind \/ Unbind
    BY <1>2 DEF Tick, ToggleLam, Bind, Unbind, module, call, HeardInv
  <1>3. ASSUME NEW t \in Timeouts, Call(t) PROVE HeardInv'
    BY <1>3 DEF Call, Return, HeardInv
  <1>4. CASE Loop \/ Issue \/ PollReturns \/ Done
    BY <1>4 DEF Loop, Issue, PollReturns, Done, Return, module, HeardInv
  <1>5. CASE ServerReturns
    BY <1>5, Flags DEF ServerReturns, ServerAnswer, HeardInv
  <1>6. CASE Served
    BY <1>6 DEF Served, AfterLam, Return, module, HeardInv
  <1>7. CASE Probe
    BY <1>7 DEF Probe, AfterProbe, Return, HeardInv
  <1>8. QED
    BY <1>1, <1>2, <1>3, <1>4, <1>5, <1>6, <1>7 DEF Next, Thread
-----------------------------------------------------------------------------
(* A BOOL answer of the code is what BoolIsConfirmedOrLate says it is.     *)
LEMMA BoolStep ==
    TypeOK /\ TimeInv /\ HeardInv /\ BoolIsConfirmedOrLate /\ [Next]_vars
        => BoolIsConfirmedOrLate'
  <1> SUFFICES ASSUME TypeOK, TimeInv, HeardInv, BoolIsConfirmedOrLate,
                      [Next]_vars
               PROVE  BoolIsConfirmedOrLate'
    OBVIOUS
  <1> USE WaitAssumption
  <1>1. CASE UNCHANGED vars
    BY <1>1 DEF vars, world, module, call, BoolIsConfirmedOrLate, Confirmed
  <1>2. CASE Tick
    BY <1>2 DEF Tick, module, call, BoolIsConfirmedOrLate, Confirmed, TypeOK, Time,
       TimeInv
  <1>3. CASE ToggleLam \/ Bind \/ Unbind
    BY <1>3 DEF ToggleLam, Bind, Unbind, world, module, call, BoolIsConfirmedOrLate,
       Confirmed
  <1>4. ASSUME NEW t \in Timeouts, Call(t) PROVE BoolIsConfirmedOrLate'
    BY <1>4 DEF Call, Return, BoolIsConfirmedOrLate
  <1>5. CASE Loop
    BY <1>5 DEF Loop, InTime, Return, world, module, BoolIsConfirmedOrLate, Confirmed,
       TimeInv, TypeOK, Time
  <1>6. CASE Issue \/ ServerReturns \/ Done
    BY <1>6 DEF Issue, ServerReturns, Done, BoolIsConfirmedOrLate
  <1>7. CASE PollReturns
    BY <1>7, Flags DEF PollReturns, ServerAnswer, Return, BoolIsConfirmedOrLate,
       TimeInv
  <1>8. CASE Served
    <2>1. CASE pc' # "returned" \/ "BOOL" \notin ret'
      BY <2>1 DEF BoolIsConfirmedOrLate
    <2>2. CASE pc' = "returned" /\ "BOOL" \in ret'
      <3>1. method = "NONE" /\ "BOOL" \in rv
        BY <1>8, <2>2, Flags DEF Served, AfterLam, Return, HeardInv,
           ServerAnswers
      <3>2. heard' = {"LAM"}
        BY <1>8, <3>1 DEF Served, HeardInv
      <3>3. QED
        BY <1>8, <3>1, <3>2 DEF Served, module, BoolIsConfirmedOrLate, Confirmed
    <2>3. QED
      BY <2>1, <2>2
  <1>9. CASE Probe
    <2>1. PICK r \in NoFd \cup {TxqToResultBits(xq) : xq \in Xq},
               match \in BOOLEAN :
            /\ heard' = heard \cup {"ANSWER"}
                   \cup (IF "NOT_Q" \notin r THEN {"Q"} ELSE {})
                   \cup (IF match THEN {"MATCH"} ELSE {})
            /\ AfterProbe(r, match)
      BY <1>9 DEF Probe
    <2>2. IsError(r) => "BOOL" \notin r
      BY <2>1, Flags, XqResults
    <2>3. CASE IsError(r)
      BY <2>1, <2>2, <2>3 DEF AfterProbe, Return, BoolIsConfirmedOrLate
    <2>4. CASE ~IsError(r) /\ ~Accepts(r, match)
      BY <2>1, <2>4 DEF AfterProbe, BoolIsConfirmedOrLate
    <2>5. CASE ~IsError(r) /\ Accepts(r, match)
      <3>1. heard = {"LAM"} /\ method \notin {"NONE", "OTHER"}
        BY <1>9 DEF Probe, HeardInv
      <3>2. "NOT_Q" \notin r
        BY <2>5 DEF IsError, Errors, StationAnswer
      <3>3. method \in {"BY_Q", "BY_BITMASK", "BY_NOTBITMASK"}
        BY <2>5, <3>1, <3>2 DEF Accepts, AllMethods, TypeOK
      <3>4. /\ method = "BY_BITMASK" => match
            /\ method = "BY_NOTBITMASK" => ~match
        BY <2>5 DEF Accepts
      <3>5. Confirmed'
        BY <1>9, <2>1, <3>1, <3>2, <3>3, <3>4 DEF Probe, module, Confirmed
      <3>6. QED
        BY <3>5 DEF BoolIsConfirmedOrLate
    <2>6. QED
      BY <2>3, <2>4, <2>5
  <1>10. QED
    BY <1>1, <1>2, <1>3, <1>4, <1>5, <1>6, <1>7, <1>8, <1>9 DEF Next, Thread

(* The inductive invariant of WaitLam.                                     *)
IInv == TypeOK /\ TimeInv /\ FaultInv /\ HeardInv /\ BoolIsConfirmedOrLate

(* The account of time, the faults and what was heard fit together in      *)
(* every reachable state: IInv is an invariant.                            *)
THEOREM Invariance == Spec => []IInv
  <1>1. Init => TimeInv /\ FaultInv /\ HeardInv /\ BoolIsConfirmedOrLate
    BY WaitAssumption DEF Init, TimeInv, FaultInv, HeardInv,
       BoolIsConfirmedOrLate
  <1>2. QED
    BY <1>1, TypeCorrect, TimeInvStep, FaultInvStep, HeardInvStep, BoolStep, PTL
       DEF Spec, IInv

(* An answer of BOOL is a LAM confirmed in the last round or a deadline    *)
(* gone by (base.cpp:201-253).                                             *)
THEOREM AnswersAreHonest == Spec => []BoolIsConfirmedOrLate
  <1>1. IInv => BoolIsConfirmedOrLate
    BY DEF IInv
  <1>2. QED
    BY <1>1, Invariance, PTL

(* A fault of the bus is the result of the call it happened in             *)
(* (base.cpp:201, 227).                                                    *)
THEOREM BusFaultsAreReturned == Spec => []BusFaultIsReturned
  <1>1. IInv => BusFaultIsReturned
    BY DEF IInv, FaultInv, BusFaultIsReturned
  <1>2. QED
    BY <1>1, Invariance, PTL

(* No round is given more than what is left of the caller's time.          *)
THEOREM TimeIsKept == Spec => []RoundWithinDeadline
  <1>1. IInv => RoundWithinDeadline
    BY DEF IInv, TimeInv, Due, RoundWithinDeadline
  <1>2. QED
    BY <1>1, Invariance, PTL

(* CC_OK is answered only when less than one unit of CAM_LWAIT is left.    *)
THEOREM TimeoutsAreDue == Spec => []TimeoutIsDue
  <1>1. IInv => TimeoutIsDue
    BY DEF IInv, TimeInv, Due, TimeoutIsDue
  <1>2. QED
    BY <1>1, Invariance, PTL

(* Within a call the time left in *timeout never grows.                    *)
THEOREM LeftShrinks == Spec => LeftNeverGrows
  <1>1. IInv /\ [Next]_vars =>
          [pc # "idle" /\ left # Inf => left' # Inf /\ left' <= left]_vars
    <2> SUFFICES ASSUME TypeOK, TimeInv, Next, pc # "idle", left # Inf
                 PROVE  left' # Inf /\ left' <= left
      BY DEF IInv
    <2> USE WaitAssumption
    <2>1. left \in Nat /\ target \in Int /\ target # Inf /\ clock \in Nat
      BY DEF TypeOK, TimeInv, Time
    <2>2. CASE Served
      <3>1. target - clock \in Int /\ left >= target - clock
        BY <2>1 DEF TimeInv
      <3>2. left' = IF target - clock < 0 THEN 0 ELSE target - clock
        BY <2>1, <2>2, <3>1 DEF Served, ToFedorov, Remaining
      <3>3. QED
        BY <2>1, <3>1, <3>2
    <2>3. CASE ~Served
      <3>1. left' = left
        BY <2>3 DEF Next, Thread, Tick, ToggleLam, Bind, Unbind, Call, Loop,
           Issue, PollReturns, ServerReturns, Probe, Done, call
      <3>2. QED
        BY <2>1, <3>1
    <2>4. QED
      BY <2>2, <2>3
  <1>2. QED
    BY <1>1, Invariance, PTL DEF Spec, LeftNeverGrows
=============================================================================
