-------------------------- MODULE LamHandlerProofs --------------------------
(***************************************************************************)
(* Proofs about LamHandler, for every set of handlers, with and without a  *)
(* check method, however many rounds a slice has.                          *)
(***************************************************************************)
EXTENDS LamHandler, TLAPS

(* The owner's place and the objects' names are told apart.                *)
LEMMA OwnerPlaces ==
    /\ Idle # Binding
    /\ \A h : Joining(h) # Idle /\ Joining(h) # Binding
    /\ \A h, k : Joining(h) = Joining(k) => h = k
  BY DEF Idle, Binding, Joining

(* A step of a handler's thread moves its own pc, and may touch its rounds *)
(* and late.                                                               *)
ThreadStep(h, there) ==
    /\ pc' = [pc EXCEPT ![h] = there]
    /\ UNCHANGED <<bound, owner, object, exitFlag, pulled>>

(* Every step of a thread is a jump from one place to another.             *)
LEMMA ThreadJumps ==
    ASSUME NEW h \in Handlers, Thread(h)
    PROVE  \E there \in PC \ {"none"} : ThreadStep(h, there)
  <1>1. CASE Test(h)
    BY <1>1 DEF Test, Exiting, Goto, PC, ThreadStep
  <1>2. CASE Enter(h)
    BY <1>2 DEF Enter, Goto, PC, ThreadStep
  <1>3. CASE CallServer(h)
    BY <1>3 DEF CallServer, Call, Goto, PC, ThreadStep
  <1>4. CASE ServerReturns(h)
    BY <1>4 DEF ServerReturns, Goto, PC, ThreadStep
  <1>5. CASE Probe(h)
    BY <1>5 DEF Probe, Goto, PC, ThreadStep
  <1>6. CASE CallAF(h)
    BY <1>6 DEF CallAF, Call, Goto, PC, ThreadStep
  <1>7. CASE Answered(h)
    BY <1>7 DEF Answered, Goto, PC, ThreadStep
  <1>8. CASE Waited(h)
    BY <1>8 DEF Waited, Exiting, Goto, PC, ThreadStep
  <1>9. CASE CallbackBegin(h)
    BY <1>9 DEF CallbackBegin, Goto, PC, ThreadStep
  <1>10. CASE CallbackEnd(h)
    BY <1>10 DEF CallbackEnd, Goto, PC, ThreadStep
  <1>11. QED
    BY <1>1, <1>2, <1>3, <1>4, <1>5, <1>6, <1>7, <1>8, <1>9, <1>10 DEF Thread
-----------------------------------------------------------------------------
(* Type correctness: LamHandler's variables keep their types.              *)
THEOREM TypeCorrect == Spec => []TypeOK
  <1>1. Init => TypeOK
    <2> SUFFICES ASSUME Init PROVE TypeOK
      OBVIOUS
    <2>1. owner \in {Idle, Binding} \cup {Joining(h) : h \in Handlers}
      BY DEF Init
    <2>2. bound \in BOOLEAN /\ pulled \in BOOLEAN /\ object \subseteq Handlers
      BY DEF Init
    <2>3. /\ exitFlag \in [Handlers -> BOOLEAN]
          /\ pc \in [Handlers -> PC]
          /\ rounds \in [Handlers -> Nat] /\ late \in [Handlers -> Nat]
      BY DEF Init, PC
    <2>4. QED
      BY <2>1, <2>2, <2>3 DEF TypeOK
  <1>2. TypeOK /\ [Next]_vars => TypeOK'
    <2> SUFFICES ASSUME TypeOK, [Next]_vars PROVE TypeOK'
      OBVIOUS
    <2>1. CASE UNCHANGED vars
      BY <2>1 DEF vars, TypeOK
    <2>2. CASE BindBegin \/ BindEnd \/ Unbind
      BY <2>2 DEF BindBegin, BindEnd, Unbind, TouchModule, TypeOK, Binding, Idle
    <2>3. ASSUME NEW h \in Handlers, Construct(h) PROVE TypeOK'
      BY <2>3 DEF Construct, Goto, TypeOK, PC
    <2>4. ASSUME NEW h \in Handlers, DestroyBegin(h) PROVE TypeOK'
      BY <2>4 DEF DestroyBegin, TypeOK
    <2>5. ASSUME NEW h \in Handlers, DestroyEnd(h) PROVE TypeOK'
      BY <2>5 DEF DestroyEnd, TypeOK
    <2>6. ASSUME NEW h \in Handlers, Thread(h) PROVE TypeOK'
      <3>1. PICK there \in PC : ThreadStep(h, there)
        BY <2>6, ThreadJumps
      <3>2. pc' \in [Handlers -> PC]
        BY <3>1 DEF ThreadStep, TypeOK
      <3>3. rounds' \in [Handlers -> Nat]
        <4>1. CASE Enter(h)
          BY <4>1, HandlerAssumption DEF Enter, TypeOK
        <4>2. CASE Answered(h)
          BY <4>2 DEF Answered, InTime, TypeOK
        <4>3. CASE ~Enter(h) /\ ~Answered(h)
          BY <4>3, <2>6 DEF Thread, Test, CallServer, ServerReturns, Probe,
               CallAF, Call, Waited, CallbackBegin, CallbackEnd, TypeOK
        <4>4. QED
          BY <4>1, <4>2, <4>3
      <3>4. late' \in [Handlers -> Nat]
        <4>1. CASE CallbackBegin(h)
          BY <4>1 DEF CallbackBegin, TypeOK
        <4>2. CASE ~CallbackBegin(h)
          BY <4>2, <2>6 DEF Thread, Test, Enter, CallServer, ServerReturns,
               Probe, CallAF, Call, Answered, Waited, CallbackEnd, TypeOK
        <4>3. QED
          BY <4>1, <4>2
      <3>5. QED
        BY <3>1, <3>2, <3>3, <3>4 DEF ThreadStep, TypeOK
    <2>7. QED
      BY <2>1, <2>2, <2>3, <2>4, <2>5, <2>6 DEF Next, Owner
  <1>3. QED
    BY <1>1, <1>2, PTL DEF Spec
-----------------------------------------------------------------------------
(* What ties a handler's thread to its object and to the owner's thread:   *)
(* the thread runs only in an object, exitFlag is up in a destructor and   *)
(* nowhere else, and a late callback leaves the loop.                      *)
ObjectInv ==
    \A h \in Handlers :
        /\ h \notin object => ~Running(h)
        /\ owner = Joining(h) => h \in object
        /\ h \in object => (exitFlag[h] <=> owner = Joining(h))
        /\ h \in object /\ pc[h] = "ended" => exitFlag[h]

LateInv ==
    \A h \in Handlers :
        /\ late[h] <= 1
        /\ h \in object /\ late[h] > 0 =>
              exitFlag[h] /\ pc[h] \in {"callback", "test", "ended"}

(* An owner that never touches the module under a handler has it bound.    *)
BoundInv ==
    ~pulled /\ object # {} => bound /\ owner # Binding

(* Before the first handler is constructed no thread runs.                 *)
LEMMA ObjectInvInit == Init => ObjectInv
  BY OwnerPlaces DEF Init, ObjectInv, Running

(* A running thread's object exists, and is kept by every step: the        *)
(* destructor lets go of the object only when its join is over.            *)
LEMMA ObjectInvStep == TypeOK /\ ObjectInv /\ [Next]_vars => ObjectInv'
  <1> SUFFICES ASSUME TypeOK, ObjectInv, [Next]_vars PROVE ObjectInv'
    OBVIOUS
  <1> USE OwnerPlaces
  <1>1. CASE UNCHANGED vars
    BY <1>1 DEF vars, ObjectInv, Running
  <1>2. CASE BindBegin \/ BindEnd \/ Unbind
    BY <1>2 DEF BindBegin, BindEnd, Unbind, TouchModule, ObjectInv, Running
  <1>3. ASSUME NEW k \in Handlers, Construct(k) PROVE ObjectInv'
    BY <1>3 DEF Construct, Goto, ObjectInv, Running, TypeOK
  <1>4. ASSUME NEW k \in Handlers, DestroyBegin(k) PROVE ObjectInv'
    BY <1>4 DEF DestroyBegin, ObjectInv, Running, TypeOK
  <1>5. ASSUME NEW k \in Handlers, DestroyEnd(k) PROVE ObjectInv'
    BY <1>5 DEF DestroyEnd, Joined, ObjectInv, Running, TypeOK
  <1>6. ASSUME NEW k \in Handlers, Thread(k) PROVE ObjectInv'
    <2>1. PICK there \in PC : ThreadStep(k, there)
      BY <1>6, ThreadJumps
    <2>2. Running(k)
      BY <1>6 DEF Thread, Running, Test, Enter, CallServer, ServerReturns,
         Probe, CallAF, Call, Answered, Waited, CallbackBegin, CallbackEnd
    <2>3. pc'[k] = "ended" => exitFlag[k]
      BY <1>6 DEF Thread, Test, Exiting, Enter, CallServer, ServerReturns,
         Probe, CallAF, Call, Answered, Waited, CallbackBegin, CallbackEnd,
         Goto, TypeOK
    <2>4. QED
      BY <2>1, <2>2, <2>3 DEF ThreadStep, ObjectInv, Running, TypeOK
  <1>7. QED
    BY <1>1, <1>2, <1>3, <1>4, <1>5, <1>6 DEF Next, Owner

(* exitFlag leaves the thread at most the callback it has already decided  *)
(* on: every step keeps the count of late callbacks at one.                *)
LEMMA LateInvStep ==
    TypeOK /\ ObjectInv /\ LateInv /\ [Next]_vars => LateInv'
  <1> SUFFICES ASSUME TypeOK, ObjectInv, LateInv, [Next]_vars PROVE LateInv'
    OBVIOUS
  <1>1. CASE UNCHANGED vars
    BY <1>1 DEF vars, LateInv
  <1>2. CASE BindBegin \/ BindEnd \/ Unbind
    BY <1>2 DEF BindBegin, BindEnd, Unbind, LateInv
  <1>3. ASSUME NEW k \in Handlers, Construct(k) PROVE LateInv'
    BY <1>3 DEF Construct, Goto, LateInv, TypeOK
  <1>4. ASSUME NEW k \in Handlers, DestroyBegin(k) PROVE LateInv'
    BY <1>4 DEF DestroyBegin, LateInv, TypeOK
  <1>5. ASSUME NEW k \in Handlers, DestroyEnd(k) PROVE LateInv'
    BY <1>5 DEF DestroyEnd, LateInv, TypeOK
  <1>6. ASSUME NEW k \in Handlers, Thread(k) PROVE LateInv'
    <2>1. PICK there \in PC : ThreadStep(k, there)
      BY <1>6, ThreadJumps
    <2>2. k \in object
      BY <1>6 DEF ObjectInv, Thread, Running, Test, Enter, CallServer,
         ServerReturns, Probe, CallAF, Call, Answered, Waited, CallbackBegin,
         CallbackEnd
    <2>3. CASE CallbackBegin(k)
      BY <2>2, <2>3 DEF CallbackBegin, Goto, LateInv, TypeOK
    <2>4. CASE Test(k) \/ CallbackEnd(k)
      BY <2>2, <2>4 DEF Test, Exiting, CallbackEnd, Goto, LateInv, TypeOK
    <2>5. CASE ~CallbackBegin(k) /\ ~Test(k) /\ ~CallbackEnd(k)
      <3>1. late' = late
        BY <2>5, <1>6 DEF Thread, Enter, CallServer, ServerReturns, Probe,
           CallAF, Call, Answered, Waited
      <3>2. pc[k] \notin {"callback", "test", "ended"}
        BY <2>5, <1>6 DEF Thread, Enter, CallServer, ServerReturns, Probe,
           CallAF, Call, Answered, Waited
      <3>3. QED
        BY <2>1, <2>2, <3>1, <3>2 DEF ThreadStep, LateInv, TypeOK
    <2>6. QED
      BY <2>3, <2>4, <2>5
  <1>7. QED
    BY <1>1, <1>2, <1>3, <1>4, <1>5, <1>6 DEF Next, Owner

(* A step that clears _module under a handler raises pulled.               *)
LEMMA BoundInvStep ==
    TypeOK /\ ObjectInv /\ BoundInv /\ [Next]_vars => BoundInv'
  <1> SUFFICES ASSUME TypeOK, ObjectInv, BoundInv, [Next]_vars PROVE BoundInv'
    OBVIOUS
  <1> USE OwnerPlaces
  <1>1. CASE UNCHANGED vars
    BY <1>1 DEF vars, BoundInv
  <1>2. CASE BindBegin \/ BindEnd \/ Unbind
    BY <1>2 DEF BindBegin, BindEnd, Unbind, TouchModule, BoundInv
  <1>3. ASSUME NEW k \in Handlers,
               Construct(k) \/ DestroyBegin(k) \/ DestroyEnd(k)
        PROVE BoundInv'
    BY <1>3 DEF Construct, DestroyBegin, DestroyEnd, ObjectInv, BoundInv
  <1>4. ASSUME NEW k \in Handlers, Thread(k) PROVE BoundInv'
    BY <1>4, ThreadJumps DEF ThreadStep, BoundInv
  <1>5. QED
    BY <1>1, <1>2, <1>3, <1>4 DEF Next, Owner

(* The inductive invariant of LamHandler.                                  *)
IInv == TypeOK /\ ObjectInv /\ LateInv /\ BoundInv

(* The places of the threads, the owner and the flags fit together in      *)
(* every reachable state: IInv is an invariant.                            *)
THEOREM Invariance == Spec => []IInv
  <1>1. Init => ObjectInv /\ LateInv /\ BoundInv
    BY ObjectInvInit DEF Init, LateInv, BoundInv
  <1>2. QED
    BY <1>1, TypeCorrect, ObjectInvStep, LateInvStep, BoundInvStep, PTL
       DEF Spec, IInv

(* No handler outlives its object, and each calls back at most once after  *)
(* its destructor began - whatever the owner does with the module.         *)
THEOREM NoCallbackAfterDestroy == Spec => [](NoUseAfterDestroy /\ AtMostOneLateCallback)
  <1>1. IInv => NoUseAfterDestroy /\ AtMostOneLateCallback
    BY DEF IInv, ObjectInv, LateInv, NoUseAfterDestroy, AtMostOneLateCallback
  <1>2. QED
    BY <1>1, Invariance, PTL

(* An owner that leaves the module alone while it has handlers never has   *)
(* one of them call through a null _module.                                *)
THEOREM NoNullCall == Spec => []NoNullModule
  <1>1. Init => NoNullModule
    BY DEF Init, NoNullModule, Crashed
  <1>2. IInv /\ NoNullModule /\ [Next]_vars => NoNullModule'
    <2> SUFFICES ASSUME IInv, NoNullModule, [Next]_vars PROVE NoNullModule'
      OBVIOUS
    <2>1. CASE UNCHANGED vars
      BY <2>1 DEF vars, NoNullModule, Crashed
    <2>2. CASE BindBegin \/ BindEnd \/ Unbind
      BY <2>2 DEF BindBegin, BindEnd, Unbind, TouchModule, NoNullModule, Crashed
    <2>3. ASSUME NEW k \in Handlers,
                 Construct(k) \/ DestroyBegin(k) \/ DestroyEnd(k)
          PROVE NoNullModule'
      BY <2>3 DEF Construct, DestroyBegin, DestroyEnd, Goto, NoNullModule, Crashed,
         IInv, TypeOK
    <2>4. ASSUME NEW k \in Handlers, Thread(k) PROVE NoNullModule'
      <3> SUFFICES ASSUME ~pulled PROVE NoNullModule'
        BY <2>4, ThreadJumps DEF ThreadStep, NoNullModule
      <3>1. CASE CallServer(k) \/ CallAF(k)
        <4>1. bound
          BY <3>1 DEF CallServer, CallAF, Call, IInv, ObjectInv, Running,
             BoundInv
        <4>2. QED
          BY <3>1, <4>1 DEF CallServer, CallAF, Call, Goto, NoNullModule, Crashed,
             IInv, TypeOK
      <3>2. CASE ~CallServer(k) /\ ~CallAF(k)
        <4>1. pc'[k] # "crashed"
          BY <2>4, <3>2 DEF Thread, Test, Enter, ServerReturns, Probe,
             Answered, Waited, CallbackBegin, CallbackEnd, Goto, IInv, TypeOK
        <4>2. QED
          BY <2>4, ThreadJumps, <4>1 DEF ThreadStep, NoNullModule, Crashed, IInv, TypeOK
      <3>3. QED
        BY <3>1, <3>2
    <2>5. QED
      BY <2>1, <2>2, <2>3, <2>4 DEF Next, Owner
  <1>3. QED
    BY <1>1, <1>2, Invariance, PTL DEF Spec
-----------------------------------------------------------------------------
(* The refinement mapping, named.                                          *)
Phase(h) == IF h \notin object THEN "absent"
            ELSE IF exitFlag[h] THEN "closing" ELSE "active"

(* Every step of LamHandler is a step of HandlerLife or a stutter of it.   *)
LEMMA LifeStep == IInv /\ IInv' /\ [Next]_vars => [Life!Next]_(Life!vars)
  <1> SUFFICES ASSUME IInv, IInv', [Next]_vars PROVE [Life!Next]_(Life!vars)
    OBVIOUS
  <1> USE OwnerPlaces
  <1>1. CASE UNCHANGED vars
    BY <1>1 DEF vars, Life!vars
  <1>2. CASE BindBegin \/ BindEnd \/ Unbind
    BY <1>2 DEF BindBegin, BindEnd, Unbind, Life!vars
  <1>3. ASSUME NEW k \in Handlers, Construct(k) PROVE Life!Next
    <2>1. /\ k \notin object /\ object' = object \cup {k}
          /\ exitFlag' = [exitFlag EXCEPT ![k] = FALSE]
          /\ late' = [late EXCEPT ![k] = 0]
          /\ pc' = [pc EXCEPT ![k] = "test"] /\ pc[k] # "callback"
      BY <1>3 DEF Construct, Goto, IInv, ObjectInv, Running
    <2>2. /\ Phase(k) = "absent" /\ Phase(k)' = "active"
          /\ \A h \in Handlers \ {k} : Phase(h)' = Phase(h)
      BY <2>1 DEF Phase, IInv, TypeOK
    <2>3. /\ \A h \in Handlers : pc'[h] = "callback" <=> pc[h] = "callback"
          /\ ~(late'[k] > 0)
          /\ \A h \in Handlers \ {k} : late'[h] = late[h]
      BY <2>1 DEF IInv, TypeOK
    <2>4. Life!Open(k)
      BY <2>2, <2>3 DEF Life!Open, Phase
    <2>5. QED
      BY <2>4 DEF Life!Next
  <1>4. ASSUME NEW k \in Handlers, DestroyBegin(k) PROVE Life!Next
    <2>1. Life!Close(k)
      BY <1>4 DEF DestroyBegin, Life!Close, IInv, ObjectInv, TypeOK
    <2>2. QED
      BY <2>1 DEF Life!Next
  <1>5. ASSUME NEW k \in Handlers, DestroyEnd(k) PROVE Life!Next
    <2>1. Life!Gone(k)
      BY <1>5 DEF DestroyEnd, Joined, Life!Gone, IInv, ObjectInv, TypeOK
    <2>2. QED
      BY <2>1 DEF Life!Next
  <1>6. ASSUME NEW k \in Handlers, Thread(k) PROVE [Life!Next]_(Life!vars)
    <2>1. CASE CallbackBegin(k)
      <3>1. /\ k \in object /\ pc[k] = "begin"
            /\ pc' = [pc EXCEPT ![k] = "callback"]
            /\ object' = object /\ exitFlag' = exitFlag
            /\ late' = [late EXCEPT ![k] = IF exitFlag[k] THEN @ + 1 ELSE @]
        BY <2>1 DEF CallbackBegin, Goto, IInv, ObjectInv, Running
      <3>2. late[k] = 0
        BY <3>1 DEF IInv, LateInv, TypeOK
      <3>3. /\ \A h \in Handlers \ {k} : late'[h] = late[h] /\ pc'[h] = pc[h]
            /\ late'[k] > 0 <=> exitFlag[k]
            /\ pc'[k] = "callback"
        BY <3>1, <3>2 DEF IInv, TypeOK
      <3>4. Life!Begin(k)
        BY <3>1, <3>2, <3>3 DEF Life!Begin
      <3>5. QED
        BY <3>4 DEF Life!Next
    <2>2. CASE CallbackEnd(k)
      <3>1. Life!End(k)
        BY <2>2 DEF CallbackEnd, Goto, Life!End, IInv, TypeOK
      <3>2. QED
        BY <3>1 DEF Life!Next
    <2>3. CASE ~CallbackBegin(k) /\ ~CallbackEnd(k)
      <3>1. late' = late /\ object' = object /\ exitFlag' = exitFlag
        BY <2>3, <1>6 DEF Thread, Test, Enter, CallServer, ServerReturns,
           Probe, CallAF, Call, Answered, Waited
      <3>2. pc[k] # "callback" /\ pc'[k] # "callback"
        BY <2>3, <1>6 DEF Thread, Test, Enter, CallServer, ServerReturns,
           Probe, CallAF, Call, Answered, Waited, Goto, IInv, TypeOK
      <3>3. \A h \in Handlers : pc'[h] = "callback" <=> pc[h] = "callback"
        BY <1>6, ThreadJumps, <3>2 DEF ThreadStep, IInv, TypeOK
      <3>4. QED
        BY <3>1, <3>3 DEF Life!vars
    <2>4. QED
      BY <2>1, <2>2, <2>3
  <1>7. QED
    BY <1>1, <1>2, <1>3, <1>4, <1>5, <1>6 DEF Next, Owner

(* LamHandler implements HandlerLife.                                      *)
THEOREM ImplementsLife == Spec => KeepsLife
  <1>1. Init => Life!Init
    <2> SUFFICES ASSUME Init PROVE Life!Init
      OBVIOUS
    <2>1. \A h \in Handlers : late[h] = 0 /\ pc[h] = "none"
      BY DEF Init
    <2>2. QED
      BY <2>1 DEF Init, Life!Init
  <1>2. QED
    BY <1>1, LifeStep, Invariance, PTL DEF Spec, KeepsLife, Life!Spec
=============================================================================
