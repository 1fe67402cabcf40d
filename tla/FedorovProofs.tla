---------------------------- MODULE FedorovProofs ----------------------------
(***************************************************************************)
(* Proofs about FedorovServer, for every set of threads, every number of   *)
(* modules and every set of descriptors.                                   *)
(***************************************************************************)
EXTENDS FedorovServer, TLAPS

Binders == {"open", "publish", "test", "init", "close", "unset"}
Holders == {"af", "take", "assert", "getMask"}
Waiters == {"setMask", "select", "getEvents", "restore", "getErrors"}

(* Types, and which operation can be where.                                *)
TypeInv ==
    /\ fd \in [Modules -> Fds \cup {None}]
    /\ open \subseteq Fds /\ inited \subseteq open
    /\ station \in [Fds -> Modules]
    /\ mask \subseteq Fds /\ chosen \subseteq Fds
    /\ events \in [Fds -> SUBSET {"LAM", "ERRORS", "OTHER"}]
    /\ pc \in [Threads -> Points]
    /\ task \in [Threads -> Tasks \cup {"none"}]
    /\ module \in [Threads -> Modules]
    /\ local \in [Threads -> Fds \cup {None}]
    /\ DOMAIN saved = Threads
    /\ seen \in [Threads -> SUBSET {"LAM", "ERRORS", "OTHER"}]

ResultInv == rc \in [Threads -> Result]

TaskInv ==
    \A t \in Threads :
        /\ pc[t] \in Binders \cup {"bind"} => task[t] \in Tasks
        /\ pc[t] = "af" => task[t] = "AF"
        /\ pc[t] \in {"find", "take", "assert", "crate", "aborted"} => task[t] = "C"
        /\ pc[t] \in Waiters \cup {"getMask"} => task[t] = "WaitLAM"

(* None is no descriptor, and there is a module.                           *)
LEMMA NoneIsNoFd == None \notin Fds /\ None = -1 /\ 0 \in Modules
  BY FedorovAssumption DEF None, Modules

(* The words a driver's call can be answered, and which of them are errors. *)
LEMMA Words ==
    /\ {} \in Result /\ All \in Result /\ ~IsError({}) /\ IsError(All)
    /\ \A r \in {{"SYSCALL_ERROR"}, {"NOTINITED"}, {"IFACE_TIMEOUT"}} :
          r \in Result /\ IsError(r) /\ Passed(r) = r
    /\ {"NOT_X", "NOT_Q"} \in Result /\ {"BOOL"} \in Result /\ {"INVALID_ARG"} \in Result
    /\ IsError({"INVALID_ARG"})
  BY DEF Result, All, Errors, SoftErrors, HardErrors, StationAnswer, IsError, Passed
-----------------------------------------------------------------------------
(* The types hold at the start, and every step keeps them.                 *)
LEMMA TypeInvInit == Init => TypeInv /\ ResultInv /\ TaskInv
  <1> SUFFICES ASSUME Init PROVE TypeInv /\ ResultInv /\ TaskInv
    OBVIOUS
  <1> USE NoneIsNoFd DEF Init
  <1>1. TypeInv
    BY DEF TypeInv, Points
  <1>2. ResultInv
    BY Words DEF ResultInv
  <1>3. TaskInv
    BY DEF TaskInv, Binders, Waiters
  <1>4. QED
    BY <1>1, <1>2, <1>3

(* The types are kept; which operation is under way tells where bind goes.  *)
LEMMA TypeInvStep == TypeInv /\ TaskInv /\ [Next]_vars => TypeInv'
  <1> SUFFICES ASSUME TypeInv, TaskInv, [Next]_vars PROVE TypeInv'
    OBVIOUS
  <1> USE NoneIsNoFd
  <1>1. ASSUME NEW t \in Threads, Step(t) PROVE TypeInv'
    <2> USE DEF TypeInv, kernel, histories, Goto, At, Points
    <2>1. CASE Call(t)
      BY <2>1 DEF Call, Tasks
    <2>2. CASE Return(t)
      BY <2>2 DEF Return
    <2>3. CASE Bind(t)
      <3>1. Bound(t) \in Points
        BY <2>3 DEF Bind, Bound, Tasks, TaskInv
      <3>2. QED
        BY <2>3, <3>1 DEF Bind
    <2>4. CASE OpenStation(t)
      BY <2>4 DEF OpenStation
    <2>5. CASE Publish(t)
      BY <2>5 DEF Publish
    <2>6. CASE Test(t)
      BY <2>6 DEF Test, Failed
    <2>7. CASE KernelInit(t)
      <3>1. Bound(t) \in Points
        BY <2>7 DEF KernelInit, Bound, Tasks, TaskInv, Binders
      <3>2. QED
        BY <2>7, <3>1 DEF KernelInit, Uninited
    <2>8. CASE Close(t)
      BY <2>8 DEF Close
    <2>9. CASE Unset(t)
      BY <2>9 DEF Unset, Failed
    <2>10. CASE AF(t)
      BY <2>10 DEF AF
    <2>11. CASE Find(t)
      <3>1. More(module[t]) => module[t] + 1 \in Modules
        BY FedorovAssumption DEF More, Modules
      <3>2. QED
        BY <2>11, <3>1 DEF Find
    <2>12. CASE TakeFd(t)
      BY <2>12 DEF TakeFd, Reads, FromInt, Result
    <2>13. CASE AssertBound(t)
      BY <2>13 DEF AssertBound
    <2>14. CASE CrateOp(t)
      BY <2>14 DEF CrateOp
    <2>15. CASE GetMask(t)
      BY <2>15 DEF GetMask
    <2>16. CASE SetMask(t)
      BY <2>16 DEF SetMask, Fails
    <2>17. CASE Select(t)
      BY <2>17 DEF Select, Fails
    <2>18. CASE GetEvents(t)
      BY <2>18 DEF GetEvents, Fails, Works
    <2>19. CASE Restore(t)
      BY <2>19 DEF Restore, Works
    <2>20. CASE GetErrors(t)
      BY <2>20 DEF GetErrors
    <2>21. QED
      BY <1>1, <2>1, <2>2, <2>3, <2>4, <2>5, <2>6, <2>7, <2>8, <2>9, <2>10, <2>11, <2>12,
         <2>13, <2>14, <2>15, <2>16, <2>17, <2>18, <2>19, <2>20 DEF Step
  <1>2. ASSUME NEW d \in Fds, Event(d) PROVE TypeInv'
    BY <1>2 DEF TypeInv, Event, thread, histories
  <1>3. CASE UNCHANGED vars
    BY <1>3 DEF TypeInv, vars, kernel, thread, histories
  <1>4. QED
    BY <1>1, <1>2, <1>3 DEF Next

(* Every operation stays with its own steps.                               *)
LEMMA TaskInvStep == TypeInv /\ TaskInv /\ [Next]_vars => TaskInv'
  <1> SUFFICES ASSUME TypeInv, TaskInv, [Next]_vars PROVE TaskInv'
    OBVIOUS
  <1> USE DEF TypeInv, TaskInv, Binders, Waiters, Tasks
  <1>1. ASSUME NEW t \in Threads, Step(t) PROVE TaskInv'
    <2>1. CASE Call(t)
      BY <2>1 DEF Call, Goto
    <2>2. CASE Return(t)
      BY <2>2 DEF Return, Goto
    <2>3. CASE Bind(t) \/ KernelInit(t)
      BY <2>3 DEF Bind, KernelInit, Uninited, Goto, At, Bound
    <2>4. CASE OpenStation(t) \/ Publish(t) \/ Test(t) \/ Close(t) \/ Unset(t)
      BY <2>4 DEF OpenStation, Publish, Test, Close, Unset, Goto, At
    <2>5. CASE AF(t) \/ CrateOp(t) \/ GetErrors(t)
      BY <2>5 DEF AF, CrateOp, GetErrors, Goto, At
    <2>6. CASE Find(t) \/ TakeFd(t) \/ AssertBound(t)
      BY <2>6 DEF Find, TakeFd, AssertBound, Goto, At
    <2>7. CASE GetMask(t) \/ SetMask(t) \/ Select(t) \/ GetEvents(t) \/ Restore(t)
      BY <2>7 DEF GetMask, SetMask, Select, GetEvents, Restore, Fails, Goto, At
    <2>8. QED
      BY <1>1, <2>1, <2>2, <2>3, <2>4, <2>5, <2>6, <2>7 DEF Step
  <1>2. ASSUME NEW d \in Fds, Event(d) PROVE TaskInv'
    BY <1>2 DEF Event, thread
  <1>3. CASE UNCHANGED vars
    BY <1>3 DEF vars, thread
  <1>4. QED
    BY <1>1, <1>2, <1>3 DEF Next

(* What a thread is answered is a result.                                  *)
LEMMA ResultInvStep == TypeInv /\ TaskInv /\ ResultInv /\ [Next]_vars => ResultInv'
  <1> SUFFICES ASSUME TypeInv, TaskInv, ResultInv, [Next]_vars PROVE ResultInv'
    OBVIOUS
  <1> USE Words DEF ResultInv
  <1>1. ASSUME NEW t \in Threads, Step(t) PROVE ResultInv'
    <2>1. ASSUME NEW r \in Result, Answer(t, r) PROVE ResultInv'
      BY <2>1 DEF Answer
    <2>2. CASE UNCHANGED rc
      BY <2>2
    <2>3. CASE Return(t)
      BY <2>3 DEF Return
    <2>4. CASE Test(t) \/ Unset(t)
      BY <2>1, <2>2, <2>4 DEF Test, Unset, Failed
    <2>5. CASE AF(t)
      BY <2>1, <2>5 DEF AF
    <2>6. CASE TakeFd(t)
      <3>1. FromInt(-fd[module[t]]) \in Result
        BY DEF FromInt, Result
      <3>2. QED
        BY <2>1, <2>2, <2>6, <3>1 DEF TakeFd
    <2>7. CASE CrateOp(t) \/ GetErrors(t)
      BY <2>1, <2>7 DEF CrateOp, GetErrors
    <2>8. CASE GetMask(t) \/ SetMask(t) \/ Select(t) \/ GetEvents(t)
      BY <2>1, <2>2, <2>8 DEF GetMask, SetMask, Select, GetEvents, Fails
    <2>9. CASE Restore(t)
      <3>1. \A r \in Verdicts(seen[t]) : r \in Result
        BY DEF Verdicts
      <3>2. rc[t] \in Result
        BY <1>1
      <3>3. QED
        BY <2>1, <2>2, <2>9, <3>1, <3>2 DEF Restore
    <2>10. CASE Call(t) \/ Bind(t) \/ OpenStation(t) \/ Publish(t) \/ KernelInit(t) \/ Close(t)
                  \/ Find(t) \/ AssertBound(t)
      BY <2>2, <2>10 DEF Call, Bind, OpenStation, Publish, KernelInit, Close, Find, AssertBound
    <2>11. QED
      BY <1>1, <2>3, <2>4, <2>5, <2>6, <2>7, <2>8, <2>9, <2>10 DEF Step
  <1>2. ASSUME NEW d \in Fds, Event(d) PROVE ResultInv'
    BY <1>2 DEF Event, thread
  <1>3. CASE UNCHANGED vars
    BY <1>3 DEF vars, thread
  <1>4. QED
    BY <1>1, <1>2, <1>3 DEF Next
-----------------------------------------------------------------------------
(* As long as no _fd is read that another thread is binding: a module has  *)
(* one binder at most, a module without one has a descriptor that is ready *)
(* or none open, and how far a binder has got tells the rest.              *)
NoneOpen(m) == \A d \in open : station[d] # m
OnlyOpen(m, d) == d \in open /\ \A e \in open : station[e] = m <=> e = d

Unbound(m) == \A t \in Threads : pc[t] \in Binders => module[t] # m
Settled(m) == IF fd[m] = None THEN NoneOpen(m)
              ELSE fd[m] \in inited /\ OnlyOpen(m, fd[m])

OneBinder ==
    \A t, u \in Threads :
        pc[t] \in Binders /\ pc[u] \in Binders /\ module[t] = module[u] => t = u

Halfway(m, d) == IF d = None THEN NoneOpen(m) ELSE OnlyOpen(m, d) /\ d \notin inited

BinderInv(t) ==
    /\ pc[t] = "open" => fd[module[t]] = None /\ NoneOpen(module[t])
    /\ pc[t] = "publish" => fd[module[t]] = None /\ Halfway(module[t], local[t])
    /\ pc[t] = "test" => Halfway(module[t], fd[module[t]])
    /\ pc[t] \in {"init", "close"} => fd[module[t]] # None /\ Halfway(module[t], fd[module[t]])
    /\ pc[t] = "unset" => NoneOpen(module[t])

UserInv(t) ==
    /\ pc[t] \in Holders => fd[module[t]] \in inited /\ station[fd[module[t]]] = module[t]
    /\ pc[t] \in Waiters \cup {"crate"} => local[t] \in inited
    /\ pc[t] # "aborted"

BindInv ==
    /\ OneBinder
    /\ \A m \in Modules : Unbound(m) => Settled(m)
    /\ \A t \in Threads : BinderInv(t) /\ UserInv(t)

(* A thread that may read _fd of m finds no binder there.                  *)
LEMMA ReadAlone ==
    ASSUME TypeInv, NEW t \in Threads, NEW m \in Modules,
           Reads(t, m), ~raced', pc[t] \notin Binders
    PROVE  ~raced /\ Unbound(m)
  BY DEF Reads, Binding, Unbound, Binders

(* A module whose descriptor is ready has no binder.                       *)
LEMMA ReadyIsUnbound ==
    ASSUME TypeInv, BindInv, NEW m \in Modules, fd[m] \in inited, station[fd[m]] = m
    PROVE  Unbound(m)
  BY NoneIsNoFd DEF TypeInv, BindInv, Unbound, BinderInv, Binders, Halfway, NoneOpen, OnlyOpen

(* A race is not forgotten.                                                *)
LEMMA RacedStays == ASSUME [Next]_vars, raced PROVE raced'
  <1>1. ASSUME NEW t \in Threads, Step(t) PROVE raced'
    BY <1>1 DEF Step, Call, Return, Bind, OpenStation, Publish, Test, KernelInit, Close, Unset, AF,
       Find, TakeFd, AssertBound, CrateOp, GetMask, SetMask, Select, GetEvents, Restore, GetErrors,
       Reads, histories
  <1>2. ASSUME NEW d \in Fds, Event(d) PROVE raced'
    BY <1>2 DEF Event, histories
  <1>3. CASE UNCHANGED vars
    BY <1>3 DEF vars, histories
  <1>4. QED
    BY <1>1, <1>2, <1>3 DEF Next

(* Nothing is open at first and nobody binds.                              *)
LEMMA BindInvInit == Init => BindInv
  BY NoneIsNoFd DEF Init, BindInv, OneBinder, Binders, Settled, NoneOpen, BinderInv, UserInv,
     Holders, Waiters

(* Every step that is not a race keeps one binder and a settled rest.      *)
LEMMA BindInvStep ==
    ASSUME TypeInv, TaskInv, ~raced => BindInv, [Next]_vars, ~raced'
    PROVE  BindInv'
  <1> USE NoneIsNoFd DEF TypeInv
  <1>1. ASSUME NEW t \in Threads, Step(t), ~raced, BindInv PROVE BindInv'
    <2> USE DEF BindInv, OneBinder, Binders, Holders, Waiters, Unbound, Settled, NoneOpen,
                OnlyOpen, Halfway, BinderInv, UserInv, At, Goto
    <2>1. CASE Call(t)
      BY <1>1, <2>1 DEF Call, kernel
    <2>2. CASE Return(t)
      BY <1>1, <2>2 DEF Return, kernel
    <2>3. CASE Bind(t)
      <3>1. Unbound(module[t])
        BY <2>3, ReadAlone DEF Bind
      <3>2. QED
        BY <1>1, <2>3, <3>1 DEF Bind, Bound, Tasks, TaskInv, kernel
    <2>4. CASE OpenStation(t)
      <3>1. CASE local' = [local EXCEPT ![t] = None] /\ UNCHANGED kernel
        BY <1>1, <2>4, <3>1 DEF OpenStation, kernel
      <3>2. ASSUME NEW d \in Fds \ open,
                   /\ local' = [local EXCEPT ![t] = d]
                   /\ open' = open \cup {d} /\ inited' = inited \ {d}
                   /\ station' = [station EXCEPT ![d] = module[t]]
            PROVE  BindInv'
        <4> USE DEF OpenStation
        <4>1. inited' = inited /\ d \notin inited
          BY <3>2
        <4>2. OneBinder'
          BY <1>1, <2>4
        <4>3. \A e \in open : station'[e] = station[e]
          BY <3>2
        <4>4. station'[d] = module[t] /\ UNCHANGED <<fd, module>>
          BY <2>4, <3>2
        <4>5. pc' = [pc EXCEPT ![t] = "publish"] /\ pc[t] = "open"
          BY <2>4
        <4>6. ASSUME NEW m \in Modules, Unbound(m)' PROVE Settled(m)'
          BY <1>1, <3>2, <4>1, <4>3, <4>4, <4>5, <4>6
        <4>7. ASSUME NEW u \in Threads PROVE BinderInv(u)'
          BY <1>1, <3>2, <4>1, <4>3, <4>4, <4>5
        <4>8. ASSUME NEW u \in Threads PROVE UserInv(u)'
          BY <1>1, <3>2, <4>1, <4>3, <4>4, <4>5
        <4>9. QED
          BY <4>2, <4>6, <4>7, <4>8
      <3>3. QED
        BY <2>4, <3>1, <3>2 DEF OpenStation
    <2>5. CASE Publish(t)
      BY <1>1, <2>5 DEF Publish, kernel
    <2>6. CASE Test(t)
      BY <1>1, <2>6 DEF Test, kernel
    <2>7. CASE KernelInit(t)
      BY <1>1, <2>7 DEF KernelInit, Bound, Tasks, TaskInv, Uninited
    <2>8. CASE Close(t)
      BY <1>1, <2>8 DEF Close
    <2>9. CASE Unset(t)
      BY <1>1, <2>9 DEF Unset, kernel
    <2>10. CASE AF(t) \/ CrateOp(t) \/ GetErrors(t)
      BY <1>1, <2>10 DEF AF, CrateOp, GetErrors, kernel
    <2>11. CASE Find(t)
      <3>1. Unbound(module[t])
        BY <2>11, ReadAlone DEF Find
      <3>2. QED
        BY <1>1, <2>11, <3>1 DEF Find, kernel
    <2>12. CASE TakeFd(t)
      BY <1>1, <2>12 DEF TakeFd, kernel
    <2>13. CASE AssertBound(t)
      BY <1>1, <2>13 DEF AssertBound, kernel
    <2>14. CASE GetMask(t) \/ Select(t)
      BY <1>1, <2>14 DEF GetMask, Select, Fails, kernel, Works
    <2>15. CASE SetMask(t) \/ GetEvents(t) \/ Restore(t)
      BY <1>1, <2>15 DEF SetMask, GetEvents, Restore, Fails
    <2>16. QED
      BY <1>1, <2>1, <2>2, <2>3, <2>4, <2>5, <2>6, <2>7, <2>8, <2>9, <2>10, <2>11, <2>12,
         <2>13, <2>14, <2>15 DEF Step
  <1>2. ASSUME NEW d \in Fds, Event(d), ~raced, BindInv PROVE BindInv'
    BY <1>2 DEF Event, thread, BindInv, OneBinder, Unbound, Settled, NoneOpen, OnlyOpen, Halfway,
                BinderInv, UserInv
  <1>3. CASE UNCHANGED vars
    BY <1>3 DEF vars, kernel, thread, histories, BindInv, OneBinder, Unbound, Settled, NoneOpen,
                OnlyOpen, Halfway, BinderInv, UserInv
  <1>4. Next => ~raced
    BY RacedStays DEF Next
  <1>5. QED
    BY <1>1, <1>2, <1>3, <1>4 DEF Next
-----------------------------------------------------------------------------
(* The events mask of an open descriptor is never wider than its owner     *)
(* chose, and while it is narrower one of the waits on it will restore it. *)
Restorers(d) ==
    {t \in Threads : pc[t] \in {"select", "getEvents", "restore"} /\ local[t] = d /\ saved[t]}

MaskInv ==
    /\ mask \cap open \subseteq chosen
    /\ \A t \in Threads : pc[t] \in Waiters /\ saved[t] => local[t] \in chosen
    /\ \A t \in Threads : pc[t] = "setMask" => saved[t]
    /\ ~masked => \A d \in (chosen \cap open) \ mask : Restorers(d) # {}

(* No mask is chosen at first.                                             *)
LEMMA MaskInvInit == Init => MaskInv
  BY DEF Init, MaskInv, Waiters

(* Every step keeps a restorer for a mask that is too narrow.              *)
LEMMA MaskInvStep ==
    ASSUME TypeInv, TaskInv, BindInv, MaskInv, [Next]_vars
    PROVE  MaskInv'
  <1> USE NoneIsNoFd DEF TypeInv
  <1>1. ASSUME NEW t \in Threads, Step(t) PROVE MaskInv'
    <2> USE DEF MaskInv, Restorers, Waiters, At, Goto
    <2>1. CASE Call(t) \/ Return(t)
      BY <2>1 DEF Call, Return, kernel, histories
    <2>2. CASE Bind(t) \/ Publish(t) \/ Test(t) \/ Unset(t)
      <3>1. pc[t] = "bind" => Bound(t) \in {"af", "getMask", "assert"}
        BY DEF Bound, TaskInv, Tasks, Binders
      <3>2. \E p \in Points : p \notin Waiters /\ pc[t] \notin Waiters /\ Goto(t, p)
        BY <2>2, <3>1 DEF Bind, Publish, Test, Unset, Points
      <3>3. UNCHANGED <<open, mask, chosen, local, saved, masked>>
        BY <2>2 DEF Bind, Publish, Test, Unset, kernel, histories
      <3>4. QED
        BY <3>2, <3>3
    <2>3. CASE OpenStation(t)
      BY <2>3 DEF OpenStation, kernel, BindInv, UserInv
    <2>4. CASE KernelInit(t)
      <3>1. Bound(t) \in {"af", "getMask", "assert"}
        BY <2>4 DEF KernelInit, Bound, TaskInv, Tasks, Binders
      <3>2. QED
        BY <2>4, <3>1 DEF KernelInit, Uninited, histories
    <2>5. CASE Close(t)
      BY <2>5 DEF Close, BindInv, UserInv, BinderInv, Halfway
    <2>6. CASE AF(t) \/ CrateOp(t) \/ GetErrors(t) \/ Find(t) \/ TakeFd(t) \/ AssertBound(t)
      BY <2>6 DEF AF, CrateOp, GetErrors, Find, TakeFd, AssertBound, kernel, histories
    <2>7. CASE GetMask(t)
      <3> DEFINE d == fd[module[t]]
      <3>1. pc[t] = "getMask" /\ UNCHANGED <<open, mask, chosen, masked>>
        BY <2>7 DEF GetMask, kernel
      <3>2. local' = [local EXCEPT ![t] = d] /\ d \in open
        BY <2>7, <3>1 DEF GetMask, BindInv, UserInv, Holders
      <3>3. ASSUME saved' = [saved EXCEPT ![t] = d \in mask],
                   Goto(t, IF d \in mask THEN "setMask" ELSE "select")
            PROVE  MaskInv'
        <4>1. saved'[t] <=> d \in mask
          BY <3>3, Zenon
        <4>2. \A u \in Threads \ {t} : saved'[u] <=> saved[u]
          BY <3>3, Zenon
        <4>3. d \in mask => d \in chosen
          BY <3>2
        <4>4. pc'[t] = "setMask" => d \in mask
          BY <3>3
        <4>5. /\ pc' = [pc EXCEPT ![t] = pc'[t]]
              /\ local'[t] = d /\ \A u \in Threads \ {t} : local'[u] = local[u]
          BY <3>2, <3>3
        <4>6. \A u \in Threads : pc'[u] \in Waiters /\ saved'[u] => local'[u] \in chosen
          BY <4>1, <4>2, <4>3, <4>5
        <4>7. \A u \in Threads : pc'[u] = "setMask" => saved'[u]
          BY <4>1, <4>2, <4>4, <4>5
        <4>8. \A e \in Fds : Restorers(e) \subseteq Restorers(e)'
          BY <3>1, <4>2, <4>5
        <4>9. QED
          BY <3>1, <4>6, <4>7, <4>8
      <3>5. CASE Goto(t, "done") /\ UNCHANGED saved
        BY <3>1, <3>2, <3>5
      <3>6. QED
        BY <2>7, <3>3, <3>5 DEF GetMask, MustMask
    <2>8. CASE SetMask(t)
      BY <2>8 DEF SetMask, Fails
    <2>9. CASE Select(t)
      BY <2>9 DEF Select, Fails, kernel
    <2>10. CASE GetEvents(t)
      BY <2>10 DEF GetEvents, Fails
    <2>11. CASE Restore(t)
      BY <2>11 DEF Restore, MustRestore
    <2>12. QED
      BY <1>1, <2>1, <2>2, <2>3, <2>4, <2>5, <2>6, <2>7, <2>8, <2>9, <2>10, <2>11 DEF Step
  <1>2. ASSUME NEW d \in Fds, Event(d) PROVE MaskInv'
    BY <1>2 DEF Event, thread, histories, MaskInv, Restorers
  <1>3. CASE UNCHANGED vars
    BY <1>3 DEF vars, kernel, thread, histories, MaskInv, Restorers
  <1>4. QED
    BY <1>1, <1>2, <1>3 DEF Next
-----------------------------------------------------------------------------
(* C and Z: an answer that is not an error has reached the crate, because  *)
(* the descriptor that is taken the second time is still there.            *)
ReachInv ==
    \A t \in Threads : pc[t] = "done" /\ task[t] = "C" /\ ~IsError(rc[t]) => t \in reached

(* WaitLAM: what a wait has seen and how it stands.  The mask it has set   *)
(* is its own as long as no two waits are on one descriptor.               *)
OneWaiter ==
    \A t, u \in Threads :
        pc[t] \in Waiters /\ pc[u] \in Waiters /\ local[t] = local[u] => t = u

WaitInv(t) ==
    /\ pc[t] \in {"select", "getEvents"} => local[t] \notin mask
    /\ pc[t] = "getEvents" => events[local[t]] \ Maskable # {}
    /\ pc[t] = "restore" /\ rc[t] = {} => seen[t] \ Maskable # {}
    /\ pc[t] = "done" /\ task[t] = "WaitLAM" /\ ~IsError(rc[t]) => "LAM" \in seen[t]

AnswerInv(t) ==
    /\ pc[t] \notin {"restore", "done"} => rc[t] = {}
    /\ pc[t] = "restore" => rc[t] \in {{}, All}

LamInv ==
    /\ \A t \in Threads : AnswerInv(t)
    /\ ~crossed => OneWaiter /\ \A t \in Threads : WaitInv(t)

(* Nothing has been answered at first.                                     *)
LEMMA AnswersInit == Init => ReachInv /\ LamInv
  BY DEF Init, ReachInv, LamInv, AnswerInv, OneWaiter, WaitInv, Waiters

(* The only answer without an error that has not reached the crate is that *)
(* of a descriptor gone between the two looks of findFd.                   *)
LEMMA ReachInvStep ==
    ASSUME TypeInv, TaskInv, ResultInv, BindInv, ReachInv, [Next]_vars
    PROVE  ReachInv'
  <1> USE NoneIsNoFd, Words DEF TypeInv, ResultInv
  <1>1. ASSUME NEW t \in Threads, Step(t) PROVE ReachInv'
    <2> USE DEF ReachInv, At, Goto, Answer
    <2>1. CASE Call(t) \/ Return(t)
      BY <2>1 DEF Call, Return, histories
    <2>2. CASE Bind(t) \/ KernelInit(t)
      <3>1. Bound(t) # "done"
        BY <2>2 DEF Bind, KernelInit, Bound, TaskInv, Tasks, Binders
      <3>2. QED
        BY <2>2, <3>1 DEF Bind, KernelInit, Uninited, histories
    <2>3. CASE OpenStation(t) \/ Publish(t) \/ Close(t) \/ Find(t) \/ AssertBound(t)
      BY <2>3 DEF OpenStation, Publish, Close, Find, AssertBound, histories
    <2>4. CASE Test(t) \/ Unset(t)
      <3>1. \/ Goto(t, "init") /\ UNCHANGED rc
            \/ Failed(t, {"SYSCALL_ERROR"}) \/ Failed(t, {"NOTINITED"})
        BY <2>4 DEF Test, Unset
      <3>2. pc'[t] = "init" \/ IsError(rc'[t])
        <4>1. ASSUME NEW r \in {{"SYSCALL_ERROR"}, {"NOTINITED"}}, Failed(t, r)
              PROVE  IsError(rc'[t])
          <5>1. Answer(t, r)
            BY <4>1 DEF Failed
          <5>2. rc'[t] = r
            BY <5>1
          <5>3. QED
            BY <5>2
        <4>2. QED
          BY <3>1, <4>1
      <3>3. \A u \in Threads \ {t} : pc'[u] = pc[u] /\ rc'[u] = rc[u]
        BY <2>4 DEF Test, Unset, Failed
      <3>4. QED
        BY <2>4, <3>2, <3>3 DEF Test, Unset, histories
    <2>5. CASE TakeFd(t)
      <3>1. fd[module[t]] # None
        BY <2>5 DEF TakeFd, BindInv, UserInv, Holders
      <3>2. QED
        BY <2>5, <3>1 DEF TakeFd
    <2>6. CASE CrateOp(t)
      BY <2>6 DEF CrateOp
    <2>7. CASE AF(t) \/ GetErrors(t)
      BY <2>7 DEF AF, GetErrors, histories, TaskInv, Waiters
    <2>8. CASE GetMask(t) \/ SetMask(t) \/ Select(t) \/ GetEvents(t) \/ Restore(t)
      BY <2>8 DEF GetMask, SetMask, Select, GetEvents, Restore, Fails, TaskInv, Waiters
    <2>9. QED
      BY <1>1, <2>1, <2>2, <2>3, <2>4, <2>5, <2>6, <2>7, <2>8 DEF Step
  <1>2. ASSUME NEW d \in Fds, Event(d) PROVE ReachInv'
    BY <1>2 DEF Event, thread, histories, ReachInv
  <1>3. CASE UNCHANGED vars
    BY <1>3 DEF vars, thread, histories, ReachInv
  <1>4. QED
    BY <1>1, <1>2, <1>3 DEF Next

(* An operation carries an answer only where it is about to end.           *)
LEMMA AnswerInvStep ==
    ASSUME TypeInv, TaskInv, ResultInv, \A t \in Threads : AnswerInv(t), [Next]_vars
    PROVE  (\A t \in Threads : AnswerInv(t))'
  <1> USE DEF TypeInv, ResultInv, AnswerInv
  <1>1. ASSUME NEW t \in Threads, Step(t) PROVE \A u \in Threads : AnswerInv(u)'
    <2> USE DEF At, Goto, Answer
    <2>1. CASE Call(t) \/ Return(t)
      BY <2>1 DEF Call, Return
    <2>2. CASE Bind(t) \/ KernelInit(t)
      <3>1. Bound(t) \notin {"restore", "done"}
        BY <2>2 DEF Bind, KernelInit, Bound, TaskInv, Tasks, Binders
      <3>2. QED
        BY <2>2, <3>1 DEF Bind, KernelInit, Uninited
    <2>3. CASE OpenStation(t) \/ Publish(t) \/ Close(t) \/ Find(t) \/ AssertBound(t)
      BY <2>3 DEF OpenStation, Publish, Close, Find, AssertBound
    <2>4. CASE Test(t) \/ Unset(t)
      BY <2>4 DEF Test, Unset, Failed
    <2>5. CASE TakeFd(t)
      BY <2>5 DEF TakeFd
    <2>6. CASE AF(t) \/ CrateOp(t) \/ GetErrors(t)
      BY <2>6 DEF AF, CrateOp, GetErrors
    <2>7. CASE GetMask(t)
      BY <2>7 DEF GetMask
    <2>8. CASE SetMask(t) \/ Select(t) \/ GetEvents(t)
      BY <2>8 DEF SetMask, Select, GetEvents, Fails
    <2>9. CASE Restore(t)
      BY <2>9 DEF Restore
    <2>10. QED
      BY <1>1, <2>1, <2>2, <2>3, <2>4, <2>5, <2>6, <2>7, <2>8, <2>9 DEF Step
  <1>2. ASSUME NEW d \in Fds, Event(d) PROVE \A u \in Threads : AnswerInv(u)'
    BY <1>2 DEF Event, thread
  <1>3. CASE UNCHANGED vars
    BY <1>3 DEF vars, thread
  <1>4. QED
    BY <1>1, <1>2, <1>3 DEF Next

(* Waits that have met are not forgotten either.                           *)
LEMMA CrossedStays == ASSUME [Next]_vars, crossed PROVE crossed'
  <1>1. ASSUME NEW t \in Threads, Step(t) PROVE crossed'
    BY <1>1 DEF Step, Call, Return, Bind, OpenStation, Publish, Test, KernelInit, Close, Unset, AF,
       Find, TakeFd, AssertBound, CrateOp, GetMask, SetMask, Select, GetEvents, Restore, GetErrors,
       histories
  <1>2. ASSUME NEW d \in Fds, Event(d) PROVE crossed'
    BY <1>2 DEF Event, histories
  <1>3. CASE UNCHANGED vars
    BY <1>3 DEF vars, histories
  <1>4. QED
    BY <1>1, <1>2, <1>3 DEF Next

(* The waits of one descriptor do not meet unless it is noticed, and the   *)
(* one that waits has masked what it does not wait for.                    *)
LEMMA WaitInvStep ==
    ASSUME TypeInv, TaskInv, ResultInv, BindInv, \A t \in Threads : AnswerInv(t),
           OneWaiter, \A t \in Threads : WaitInv(t), [Next]_vars, ~crossed'
    PROVE  OneWaiter' /\ \A t \in Threads : WaitInv(t)'
  <1> USE NoneIsNoFd, Words DEF TypeInv, ResultInv, OneWaiter, WaitInv, Waiters
  <1>1. ASSUME NEW t \in Threads, Step(t) PROVE OneWaiter' /\ \A u \in Threads : WaitInv(u)'
    <2> USE DEF At, Goto
    <2>0. ASSUME NEW r \in Result, Answer(t, r)
          PROVE  rc'[t] = r /\ \A u \in Threads \ {t} : rc'[u] = rc[u]
      BY <2>0 DEF Answer
    <2>e. Answer(t, All) => IsError(rc'[t]) /\ rc'[t] # {}
      <3>1. Answer(t, All) => rc'[t] = All
        BY <2>0
      <3>2. QED
        BY <3>1
    <2>1. CASE Call(t) \/ Return(t)
      BY <2>1 DEF Call, Return, kernel, histories, Tasks
    <2>2. CASE Bind(t) \/ KernelInit(t)
      <3>1. Bound(t) \in {"af", "getMask", "assert"}
        BY <2>2 DEF Bind, KernelInit, Bound, TaskInv, Tasks, Binders
      <3>2. QED
        BY <2>2, <3>1 DEF Bind, KernelInit, Uninited, kernel, histories
    <2>3. CASE OpenStation(t)
      BY <2>3 DEF OpenStation, kernel, BindInv, UserInv
    <2>4. CASE Publish(t) \/ Find(t) \/ AssertBound(t)
      BY <2>4 DEF Publish, Find, AssertBound, kernel, histories
    <2>5. CASE Close(t)
      BY <2>5 DEF Close, BindInv, UserInv, BinderInv, Halfway
    <2>6. CASE Test(t) \/ Unset(t)
      <3>1. \/ Goto(t, "init") /\ UNCHANGED rc
            \/ Failed(t, {"SYSCALL_ERROR"}) \/ Failed(t, {"NOTINITED"})
        BY <2>6 DEF Test, Unset
      <3>2. pc'[t] = "init" \/ IsError(rc'[t])
        <4>1. ASSUME NEW r \in {{"SYSCALL_ERROR"}, {"NOTINITED"}}, Failed(t, r)
              PROVE  IsError(rc'[t])
          <5>1. rc' = [rc EXCEPT ![t] = r]
            BY <4>1 DEF Failed, Answer
          <5>2. QED
            BY <5>1
        <4>2. QED
          BY <3>1, <4>1
      <3>3. /\ \A u \in Threads \ {t} : pc'[u] = pc[u] /\ rc'[u] = rc[u]
            /\ pc'[t] \in {"init", "done"}
        BY <2>6 DEF Test, Unset, Failed, Answer
      <3>4. QED
        BY <2>6, <3>2, <3>3 DEF Test, Unset, kernel, histories
    <2>7. CASE AF(t) \/ CrateOp(t) \/ TakeFd(t)
      <3>1. \A u \in Threads \ {t} : pc'[u] = pc[u] /\ rc'[u] = rc[u] /\ local'[u] = local[u]
        BY <2>7 DEF AF, CrateOp, TakeFd, Answer
      <3>2. pc'[t] \in {"done", "crate"} /\ task'[t] # "WaitLAM" /\ UNCHANGED task
        BY <2>7 DEF AF, CrateOp, TakeFd, TaskInv
      <3>3. crossed' = crossed /\ seen' = seen /\ mask' = mask /\ events' = events
        BY <2>7 DEF AF, CrateOp, TakeFd, kernel, histories
      <3>4. QED
        BY <3>1, <3>2, <3>3
    <2>8. CASE GetMask(t)
      <3> DEFINE d == fd[module[t]]
      <3>1. /\ local' = [local EXCEPT ![t] = d]
            /\ \A u \in Threads \ {t} : pc'[u] = pc[u] /\ rc'[u] = rc[u]
            /\ UNCHANGED <<task, mask, events, seen>> /\ pc[t] = "getMask"
        BY <2>8 DEF GetMask, kernel, Answer
      <3>2. ~crossed /\ \A u \in Threads : pc[u] \in Waiters => local[u] # d
        BY <2>8 DEF GetMask, Waiting
      <3>3. \/ pc'[t] = "setMask"
            \/ pc'[t] = "select" /\ d \notin mask
            \/ pc'[t] = "done" /\ IsError(rc'[t])
        <4>1. CASE Goto(t, IF MustMask(d \in mask) THEN "setMask" ELSE "select")
          BY <4>1 DEF MustMask
        <4>2. CASE Goto(t, "done") /\ Answer(t, All)
          BY <2>8, <2>e, <4>2 DEF GetMask
        <4>3. QED
          BY <2>8, <4>1, <4>2 DEF GetMask
      <3>4. OneWaiter'
        BY <3>1, <3>2
      <3>5. QED
        BY <3>1, <3>3, <3>4
    <2>9. ASSUME Fails(t), pc[t] \in Waiters, UNCHANGED <<mask, events, task, local, crossed>>
          PROVE  OneWaiter' /\ \A u \in Threads : WaitInv(u)'
      <3>1. rc'[t] # {} /\ \A u \in Threads \ {t} : rc'[u] = rc[u]
        BY <2>9, <2>0, <2>e DEF Fails
      <3>2. QED
        BY <2>9, <3>1 DEF Fails
    <2>10. CASE SetMask(t)
      BY <2>9, <2>10 DEF SetMask
    <2>11. CASE Select(t)
      <3>1. CASE Fails(t)
        BY <2>9, <2>11, <3>1 DEF Select, kernel
      <3>2. CASE Ready(local[t]) /\ Goto(t, "getEvents") /\ UNCHANGED <<seen, rc>>
        BY <2>11, <3>2 DEF Select, kernel, Ready
      <3>3. QED
        BY <2>11, <3>1, <3>2 DEF Select
    <2>12. CASE GetEvents(t)
      <3>1. CASE Fails(t) /\ UNCHANGED events
        BY <2>9, <2>12, <3>1 DEF GetEvents
      <3>2. CASE /\ seen' = [seen EXCEPT ![t] = events[local[t]]]
                 /\ events' = [events EXCEPT ![local[t]] = {}]
                 /\ Goto(t, "restore") /\ UNCHANGED rc
        <4>1. \A u \in Threads \ {t} : pc[u] \in Waiters => events'[local[u]] = events[local[u]]
          BY <2>12, <3>2 DEF GetEvents
        <4>2. seen'[t] \ Maskable # {} /\ UNCHANGED <<local, mask, task, crossed>>
          BY <2>12, <3>2 DEF GetEvents
        <4>3. QED
          BY <2>12, <3>2, <4>1, <4>2 DEF GetEvents
      <3>3. QED
        BY <2>12, <3>1, <3>2 DEF GetEvents
    <2>13. CASE Restore(t) \/ GetErrors(t)
      <3>1. /\ \A u \in Threads \ {t} : pc'[u] = pc[u] /\ rc'[u] = rc[u]
            /\ pc'[t] \in {"getErrors", "done"} /\ pc[t] \in {"getErrors", "restore"}
            /\ UNCHANGED <<task, events, seen, local, crossed>>
        BY <2>13 DEF Restore, GetErrors, kernel, histories, Answer
      <3>2. mask' \subseteq mask \cup {local[t]}
        BY <2>13 DEF Restore, GetErrors, kernel
      <3>3. pc'[t] = "done" /\ ~IsError(rc'[t]) => "LAM" \in seen[t]
        <4>1. ASSUME Answer(t, {"IFACE_TIMEOUT"}) PROVE IsError(rc'[t])
          <5>1. rc' = [rc EXCEPT ![t] = {"IFACE_TIMEOUT"}]
            BY <4>1 DEF Answer
          <5>2. rc'[t] = {"IFACE_TIMEOUT"}
            BY <5>1
          <5>3. QED
            BY <5>2
        <4>2. CASE GetErrors(t)
          BY <2>e, <4>1, <4>2 DEF GetErrors
        <4>3. CASE Restore(t) /\ rc[t] # {}
          <5>1. pc'[t] = "done" => Answer(t, All)
            BY <4>3 DEF Restore, AnswerInv
          <5>2. QED
            BY <2>e, <5>1
        <4>4. CASE Restore(t) /\ rc[t] = {} /\ "LAM" \notin seen[t]
          <5>1. "ERRORS" \in seen[t]
            BY <4>4 DEF Restore, Maskable
          <5>2. QED
            BY <4>4, <5>1 DEF Restore
        <4>5. QED
          BY <2>13, <4>2, <4>3, <4>4
      <3>4. QED
        BY <3>1, <3>2, <3>3
    <2>14. QED
      BY <1>1, <2>1, <2>2, <2>3, <2>4, <2>5, <2>6, <2>7, <2>8, <2>9, <2>10, <2>11, <2>12,
         <2>13 DEF Step
  <1>2. ASSUME NEW d \in Fds, Event(d) PROVE OneWaiter' /\ \A u \in Threads : WaitInv(u)'
    BY <1>2 DEF Event, thread, histories
  <1>3. CASE UNCHANGED vars
    BY <1>3 DEF vars, kernel, thread, histories
  <1>4. QED
    BY <1>1, <1>2, <1>3 DEF Next
-----------------------------------------------------------------------------
(* The strengthening: what a race breaks is only promised without one.     *)
IInv ==
    /\ TypeInv /\ TaskInv /\ ResultInv
    /\ ~raced => BindInv /\ MaskInv /\ ReachInv /\ LamInv

(* The invariant holds in every state, however the threads interleave.     *)
THEOREM Invariance == Spec => []IInv
  <1>1. Init => IInv
    BY TypeInvInit, BindInvInit, MaskInvInit, AnswersInit DEF IInv
  <1>2. IInv /\ [Next]_vars => IInv'
    <2> SUFFICES ASSUME IInv, [Next]_vars PROVE IInv'
      OBVIOUS
    <2>1. TypeInv' /\ TaskInv' /\ ResultInv'
      BY TypeInvStep, TaskInvStep, ResultInvStep DEF IInv
    <2>2. ASSUME ~raced' PROVE BindInv' /\ MaskInv' /\ ReachInv' /\ LamInv'
      <3>1. ~raced
        BY <2>2, RacedStays
      <3>2. BindInv' /\ MaskInv' /\ ReachInv'
        BY <2>2, <3>1, BindInvStep, MaskInvStep, ReachInvStep DEF IInv
      <3>3. (\A t \in Threads : AnswerInv(t))'
        BY <3>1, AnswerInvStep DEF IInv, LamInv
      <3>4. ~crossed' => (OneWaiter /\ \A t \in Threads : WaitInv(t))'
        BY <3>1, CrossedStays, WaitInvStep DEF IInv, LamInv
      <3>5. QED
        BY <3>2, <3>3, <3>4 DEF LamInv
    <2>3. QED
      BY <2>1, <2>2 DEF IInv
  <1>3. QED
    BY <1>1, <1>2, PTL DEF Spec

(* Every variable has its type.                                            *)
THEOREM TypeCorrect == Spec => []TypeOK
  <1>1. IInv => TypeOK
    BY DEF IInv, TypeInv, ResultInv, TypeOK
  <1>2. QED
    BY <1>1, Invariance, PTL

(* No operation reaches a descriptor that is not open, initialised and its *)
(* own module's, and the assertion of findFd holds, unless two threads     *)
(* have bound one module at once.                                          *)
THEOREM DescriptorsReady == Spec => []DescriptorIsReady
  <1>1. IInv => DescriptorIsReady
    BY DEF IInv, TypeInv, BindInv, UserInv, Holders, DescriptorIsReady, At, Works
  <1>2. QED
    BY <1>1, Invariance, PTL

(* A bind that fails leaves nothing open, and a module has one descriptor. *)
THEOREM NothingIsLeaked == Spec => []NothingLeaks
  <1>1. ASSUME IInv, ~raced, NEW m \in Modules, Binding(m) = {}
        PROVE  {d \in open : station[d] = m} = {fd[m]} \ {None}
    <2>1. Settled(m)
      BY <1>1 DEF IInv, BindInv, Unbound, Binding, Binders
    <2>2. QED
      BY <1>1, <2>1, NoneIsNoFd DEF IInv, TypeInv, Settled, NoneOpen, OnlyOpen
  <1>2. IInv => NothingLeaks
    BY <1>1 DEF NothingLeaks
  <1>3. QED
    BY <1>2, Invariance, PTL

(* C and Z that are answered without an error have reached the crate.      *)
THEOREM CratesReached == Spec => []CrateIsReached
  <1>1. IInv => CrateIsReached
    BY DEF IInv, ReachInv, CrateIsReached, At
  <1>2. QED
    BY <1>1, Invariance, PTL

(* However the waits on a descriptor overlap, its events mask is in the    *)
(* end what its owner chose, unless a call that restores it fails.         *)
THEOREM MasksRestored == Spec => []MaskIsRestored
  <1>1. ASSUME IInv, ~raced, ~masked, NEW d \in open, Waiting(d) = {}
        PROVE  d \in mask <=> d \in chosen
    <2>1. Restorers(d) = {}
      BY <1>1 DEF Restorers, Waiting
    <2>2. QED
      BY <1>1, <2>1 DEF IInv, MaskInv
  <1>2. IInv => MaskIsRestored
    BY <1>1 DEF MaskIsRestored
  <1>3. QED
    BY <1>2, Invariance, PTL

(* A wait that is answered BOOL and no error has taken a LAM, unless two   *)
(* waits on the descriptor overlap.                                        *)
THEOREM LamsAreReal == Spec => []LamIsReal
  <1>1. IInv => LamIsReal
    BY DEF IInv, LamInv, WaitInv, LamIsReal, At
  <1>2. QED
    BY <1>1, Invariance, PTL
=============================================================================
