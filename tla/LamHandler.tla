----------------------------- MODULE LamHandler -----------------------------
(***************************************************************************)
(* LAMHandler (base.h, base.cpp): a thread per handler that waits for the  *)
(* LAM of a module in slices of a second and calls the user back, while    *)
(* the owner of the module binds and unbinds it and constructs and         *)
(* destroys handlers.  Nothing is locked: the handlers and the owner share *)
(* the module's pointer _module and the handler's exitFlag.                *)
(*                                                                         *)
(* WaitLAM is here the accesses it makes to _module and the ways it can    *)
(* come back; WaitLam models what it answers.  Its 1000 ms are a number of *)
(* rounds: each round of its loop uses some of them up.                    *)
(***************************************************************************)
EXTENDS Integers

CONSTANTS Handlers,    \* the LAMHandler objects
          Checked,     \* _lcm names a check method: WaitLAM probes the station
          Rounds       \* bound on the rounds WaitLAM makes in a slice

ASSUME HandlerAssumption ==
    /\ Handlers # {}
    /\ Checked \in BOOLEAN
    /\ Rounds \in Nat

VARIABLES bound,     \* _module # 0
          owner,     \* what the owner's thread is at
          object,    \* the handlers that exist: constructed, not destroyed
          exitFlag,
          pc,        \* where each handler's thread is
          rounds,    \* rounds its WaitLAM still has time for
          late,      \* history: callbacks begun since exitFlag was raised
          pulled     \* history: the owner touched _module under a handler

vars == <<bound, owner, object, exitFlag, pc, rounds, late, pulled>>

(* "joining" is the owner in the destructor of a handler, in pthread_join. *)
Idle == [at |-> "idle"]
Binding == [at |-> "binding"]
Joining(h) == [at |-> "joining", handler |-> h]

Init ==
    /\ bound = FALSE
    /\ owner = Idle
    /\ object = {}
    /\ exitFlag = [h \in Handlers |-> FALSE]
    /\ pc = [h \in Handlers |-> "none"]
    /\ rounds = [h \in Handlers |-> 0]
    /\ late = [h \in Handlers |-> 0]
    /\ pulled = FALSE

(* A definition whose name ends in _ is not the code's: it is the mistake  *)
(* a property below would catch.                                           *)
Goto(h, there) == pc' = [pc EXCEPT ![h] = there]
-----------------------------------------------------------------------------
(* base.h:138 asks the owner to bind the module before it constructs a     *)
(* handler; nothing keeps it from touching the module afterwards.          *)
TouchModule == owner = Idle /\ pulled' = (pulled \/ object # {})

(* dfCamacModuleBase::Bind clears _module first, and only then looks the   *)
(* new module up; a look-up that throws leaves it cleared.                 *)
BindBegin ==
    /\ TouchModule
    /\ bound' = FALSE
    /\ owner' = Binding
    /\ UNCHANGED <<object, exitFlag, pc, rounds, late>>

BindEnd ==
    /\ owner = Binding
    /\ bound' \in BOOLEAN
    /\ owner' = Idle
    /\ UNCHANGED <<object, exitFlag, pc, rounds, late, pulled>>

Unbind ==
    /\ TouchModule
    /\ bound' = FALSE
    /\ UNCHANGED <<owner, object, exitFlag, pc, rounds, late>>

(* The constructor starts the thread.  base.h:138: the module should be    *)
(* bound before.                                                           *)
Construct(h) ==
    /\ owner = Idle /\ h \notin object
    /\ bound
    /\ object' = object \cup {h}
    /\ exitFlag' = [exitFlag EXCEPT ![h] = FALSE]
    /\ late' = [late EXCEPT ![h] = 0]
    /\ Goto(h, "test")
    /\ UNCHANGED <<bound, owner, rounds, pulled>>

(* The destructor raises exitFlag and joins the thread.                    *)
DestroyBegin(h) ==
    /\ owner = Idle /\ h \in object
    /\ exitFlag' = [exitFlag EXCEPT ![h] = TRUE]
    /\ owner' = Joining(h)
    /\ UNCHANGED <<bound, object, pc, rounds, late, pulled>>

Detached_(h) == TRUE
Joined(h) == pc[h] = "ended"

DestroyEnd(h) ==
    /\ owner = Joining(h)
    /\ Joined(h)
    /\ object' = object \ {h}
    /\ owner' = Idle
    /\ UNCHANGED <<bound, exitFlag, pc, rounds, late, pulled>>
-----------------------------------------------------------------------------
Exiting(h) == exitFlag[h]

(* while (!h->exitFlag), the head of staticCallback's loop.                *)
Test(h) ==
    /\ pc[h] = "test"
    /\ Goto(h, IF Exiting(h) THEN "ended" ELSE "enter")
    /\ UNCHANGED <<bound, owner, object, exitFlag, rounds, late, pulled>>

(* WaitLAM is entered and finds the module bound or not, or the time gone  *)
(* by, at base.cpp:197, before there was a round.                          *)
Enter(h) ==
    /\ pc[h] = "enter"
    /\ \/ bound /\ Goto(h, "deref")
       \/ Goto(h, "waited")
    /\ rounds' = [rounds EXCEPT ![h] = Rounds]
    /\ UNCHANGED <<bound, owner, object, exitFlag, late, pulled>>

(* _module is read again for the virtual call.  If it was cleared since it *)
(* was tested, the build may have kept the old pointer or may read a null  *)
(* one: a data race.                                                       *)
Call(h, here, there) ==
    /\ pc[h] = here
    /\ \/ Goto(h, there)
       \/ ~bound /\ Goto(h, "crashed")
    /\ UNCHANGED <<bound, owner, object, exitFlag, rounds, late, pulled>>

CallServer(h) == Call(h, "deref", "server")

(* Module::waitLAM returns: an error, a timeout, or a LAM that is to be    *)
(* checked.                                                                *)
ServerReturns(h) ==
    /\ pc[h] = "server"
    /\ \/ Goto(h, "waited")
       \/ Checked /\ Goto(h, "probe")
    /\ UNCHANGED <<bound, owner, object, exitFlag, rounds, late, pulled>>

(* AF() tests _module for itself before it uses it.                        *)
Probe(h) ==
    /\ pc[h] = "probe"
    /\ Goto(h, IF bound THEN "derefAF" ELSE "waited")
    /\ UNCHANGED <<bound, owner, object, exitFlag, rounds, late, pulled>>

CallAF(h) == Call(h, "derefAF", "answered")

AlwaysInTime_(h) == TRUE
InTime(h) == rounds[h] > 0

(* The LAM is confirmed, the probe failed, or there is another round, if   *)
(* there is time; a new round does not test _module again.                 *)
Answered(h) ==
    /\ pc[h] = "answered"
    /\ \/ Goto(h, "waited") /\ UNCHANGED rounds
       \/ /\ InTime(h)
          /\ rounds' = [rounds EXCEPT ![h] = @ - 1]
          /\ Goto(h, "deref")
    /\ UNCHANGED <<bound, owner, object, exitFlag, late, pulled>>

(* WaitLAM is back.  Its result is not looked at, exitFlag is.             *)
Unanswered_(h) == /\ pc[h] = "waited" /\ Goto(h, "test")
                  /\ UNCHANGED <<bound, owner, object, exitFlag, rounds, late, pulled>>

Rewaits_(h) ==
    /\ pc[h] = "waited"
    /\ Goto(h, IF Exiting(h) THEN "enter" ELSE "begin")
    /\ UNCHANGED <<bound, owner, object, exitFlag, rounds, late, pulled>>

Waited(h) ==
    /\ pc[h] = "waited"
    /\ Goto(h, IF Exiting(h) THEN "ended" ELSE "begin")
    /\ UNCHANGED <<bound, owner, object, exitFlag, rounds, late, pulled>>

(* h->_cb(h->_data): the user's code, which comes back.                    *)
CallbackBegin(h) ==
    /\ pc[h] = "begin"
    /\ late' = [late EXCEPT ![h] = IF exitFlag[h] THEN @ + 1 ELSE @]
    /\ Goto(h, "callback")
    /\ UNCHANGED <<bound, owner, object, exitFlag, rounds, pulled>>

CallbackEnd(h) ==
    /\ pc[h] = "callback"
    /\ Goto(h, "test")
    /\ UNCHANGED <<bound, owner, object, exitFlag, rounds, late, pulled>>

Thread(h) == \/ Test(h)
             \/ Enter(h) \/ CallServer(h) \/ ServerReturns(h)
             \/ Probe(h) \/ CallAF(h) \/ Answered(h)
             \/ Waited(h) \/ CallbackBegin(h) \/ CallbackEnd(h)

Owner == \/ BindBegin \/ BindEnd \/ Unbind
         \/ \E h \in Handlers :
               Construct(h) \/ DestroyBegin(h) \/ DestroyEnd(h)

(* A call through a null pointer ends the process, with every thread.      *)
Crashed == \E h \in Handlers : pc[h] = "crashed"

Next == /\ ~Crashed
        /\ Owner \/ \E h \in Handlers : Thread(h)

Spec == Init /\ [][Next]_vars

(* Threads are scheduled, a slice ends within its second and callbacks     *)
(* return; the owner finishes what it began, and owes nothing else.        *)
FairSpec ==
    /\ Spec
    /\ \A h \in Handlers : WF_vars(Thread(h)) /\ WF_vars(DestroyEnd(h))
    /\ WF_vars(BindEnd)
-----------------------------------------------------------------------------
PC == {"none", "test", "enter", "deref", "server", "probe", "derefAF",
       "answered", "waited", "begin", "callback", "ended", "crashed"}

(* Every variable has its type.                                            *)
TypeOK ==
    /\ bound \in BOOLEAN
    /\ owner \in {Idle, Binding} \cup {Joining(h) : h \in Handlers}
    /\ object \subseteq Handlers
    /\ exitFlag \in [Handlers -> BOOLEAN]
    /\ pc \in [Handlers -> PC]
    /\ rounds \in [Handlers -> Nat]
    /\ late \in [Handlers -> Nat]
    /\ pulled \in BOOLEAN

Running(h) == pc[h] \notin {"none", "ended"}

(* No handler's thread calls through a null _module, if the owner leaves   *)
(* the module bound as long as it has handlers: every window between a     *)
(* test of _module and its use (base.cpp:188 and 194 or 198, 116 and 121)  *)
(* is closed by the order of the owner's calls alone.                      *)
NoNullModule == ~pulled => ~Crashed

(* A handler whose thread still runs, and so still reads exitFlag, _cb and *)
(* _data, has not been destroyed: no callback outlives its handler.        *)
NoUseAfterDestroy == \A h \in Handlers : Running(h) => h \in object

(* Once its destructor has begun, a handler calls back at most once more:  *)
(* the thread that passed the test at base.cpp:262 just before.            *)
AtMostOneLateCallback == \A h \in Handlers : late[h] <= 1

(* The handlers keep the promise of HandlerLife, whatever the owner does.  *)
Life == INSTANCE HandlerLife WITH
    phase <- [h \in Handlers |-> IF h \notin object THEN "absent"
                                ELSE IF exitFlag[h] THEN "closing" ELSE "active"],
    calling <- {h \in Handlers : pc[h] = "callback"},
    spent <- {h \in Handlers : late[h] > 0}

KeepsLife == Life!Spec

(* A destructor returns: its join is not waiting for a thread that waits,  *)
(* unless a null call has ended the process.                               *)
DestructorReturns ==
    \A h \in Handlers : (owner = Joining(h)) ~> (h \notin object \/ Crashed)

(* A living handler keeps calling back, at the latest when the slices of   *)
(* its wait end: a callback is no evidence of a LAM.                       *)
CallsBack ==
    \A h \in Handlers :
        (h \in object) ~> (pc[h] = "callback" \/ exitFlag[h] \/ Crashed)
=============================================================================
