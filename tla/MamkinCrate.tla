---------------------------- MODULE MamkinCrate ----------------------------
(***************************************************************************)
(* Mamkin::Crate (MamkinServer.cpp): the device file of a crate is opened  *)
(* by the first operation that needs it and kept in _fd.  Every thread of  *)
(* the process shares the crate - a LAMHandler's thread and the thread     *)
(* that owns the module at least - and nothing is locked, so the reads and *)
(* writes of _fd in Crate::fd() are steps of their own.                    *)
(***************************************************************************)
EXTENDS CamacResult, FiniteSets

CONSTANTS Threads,
          Descriptors,  \* what open() may answer
          Functions     \* CAMAC functions the callers use, -1 for AF()

ASSUME CrateAssumption ==
    /\ IsFiniteSet(Threads)
    /\ Descriptors \subseteq Nat
    /\ Functions \subseteq Int

(* "AFR" is the read of either width, "C" stands for Z as well.            *)
Ops == {"getCrate", "AFR", "AFW16", "AFW24", "AFC", "C", "waitLAM"}

VARIABLES fd,      \* _fd
          open,    \* descriptors of the device that are open
          node,    \* access() finds the device file writable
          ready,   \* getCrate has answered with the crate
          pc, op,  \* where each thread is, in which operation
          again,   \* it is in the second fd() call of the operation
          seen,    \* the value of _fd its fd() call had in hand last
          got,     \* what its last fd() call answered
          res,     \* the result of its last operation
          raced,   \* history: two getCrate calls have overlapped,
          refused  \* open() has failed (busy device, EMFILE)

thread == <<pc, op, again, seen, got, res>>
vars == <<fd, open, node, ready, thread, raced, refused>>

Init ==
    /\ fd = -1 /\ open = {} /\ node \in BOOLEAN /\ ready = FALSE
    /\ pc = [t \in Threads |-> "idle"]
    /\ op = [t \in Threads |-> "getCrate"]
    /\ again = [t \in Threads |-> FALSE]
    /\ seen = [t \in Threads |-> -1]
    /\ got = [t \in Threads |-> -1]
    /\ res = [t \in Threads |-> {}]
    /\ raced = FALSE /\ refused = FALSE

(* A definition whose name ends in _ is not the code's: it is the mistake  *)
(* a property below would catch.                                           *)
Goto(t, there) == pc' = [pc EXCEPT ![t] = there]

Return(t, r) == res' = [res EXCEPT ![t] = r] /\ Goto(t, "done")

(* The device file comes and goes with its driver and its permissions.     *)
ToggleNode == node' = ~node /\ UNCHANGED <<fd, open, ready, thread, raced, refused>>
-----------------------------------------------------------------------------
isRead(f) == f \in 0..7
isWrite(f) == f \in 16..23
isValid(f) == f \in 0..31

(* The operations that refuse a function before they need the crate.       *)
Refuses(o, f) == \/ o \in {"AFR", "AFW16", "AFW24", "AFC"} /\ ~isValid(f)
                 \/ o = "AFR" /\ ~isRead(f)
                 \/ o \in {"AFW16", "AFW24"} /\ ~isWrite(f)

InGetCrate(t) == op[t] = "getCrate" /\ pc[t] \notin {"idle", "done"}

(* A module is reached through its crate, so all but getCrate wait for it. *)
Begin(t, o, f) ==
    /\ pc[t] = "idle"
    /\ o # "getCrate" => ready
    /\ raced' = (raced \/ (o = "getCrate" /\ \E u \in Threads : InGetCrate(u)))
    /\ op' = [op EXCEPT ![t] = o]
    /\ again' = [again EXCEPT ![t] = FALSE]
    /\ IF Refuses(o, f) THEN Return(t, {"INVALID_ARG"})
       ELSE Goto(t, "look") /\ UNCHANGED res
    /\ UNCHANGED <<fd, open, node, ready, seen, got, refused>>

(* if (_fd < 0), the head of Crate::fd().                                  *)
Always_ == TRUE
Closed == fd < 0

Look(t) ==
    /\ pc[t] = "look"
    /\ Goto(t, IF Closed THEN "access" ELSE "settle")
    /\ UNCHANGED <<fd, open, node, ready, op, again, seen, got, res, raced, refused>>

Access(t) ==
    /\ pc[t] = "access"
    /\ IF node THEN Goto(t, "open") /\ UNCHANGED got
       ELSE Goto(t, "got") /\ got' = [got EXCEPT ![t] = -4096]
    /\ UNCHANGED <<fd, open, node, ready, op, again, seen, res, raced, refused>>

(* open() answers with a fresh descriptor, or fails.                       *)
Open(t) ==
    /\ pc[t] = "open"
    /\ \/ \E d \in Descriptors \ open :
             /\ open' = open \cup {d}
             /\ seen' = [seen EXCEPT ![t] = d]
             /\ UNCHANGED refused
       \/ /\ seen' = [seen EXCEPT ![t] = -1]
          /\ refused' = TRUE
          /\ UNCHANGED open
    /\ Goto(t, "store")
    /\ UNCHANGED <<fd, node, ready, op, again, got, res, raced>>

(* _fd = open(...), which forgets what another thread has put there.       *)
Store(t) ==
    /\ pc[t] = "store"
    /\ fd' = seen[t]
    /\ Goto(t, "settle")
    /\ UNCHANGED <<open, node, ready, op, again, seen, got, res, raced, refused>>

(* if (_fd < 0) at its end ...                                             *)
Settle(t) ==
    /\ pc[t] = "settle"
    /\ seen' = [seen EXCEPT ![t] = fd]
    /\ Goto(t, IF fd < 0 THEN "unbind" ELSE "reread")
    /\ UNCHANGED <<fd, open, node, ready, op, again, got, res, raced, refused>>

(* ... _fd = -CC_NOTBINDED, whatever it has become meanwhile.              *)
Unbind(t) ==
    /\ pc[t] = "unbind"
    /\ fd' = -8
    /\ seen' = [seen EXCEPT ![t] = -8]
    /\ Goto(t, "reread")
    /\ UNCHANGED <<open, node, ready, op, again, got, res, raced, refused>>

(* return _fd: unsynchronised, so the build reads it again or keeps the    *)
(* value it had.                                                           *)
Reread(t) ==
    /\ pc[t] = "reread"
    /\ \E v \in {fd, seen[t]} : got' = [got EXCEPT ![t] = v]
    /\ Goto(t, "got")
    /\ UNCHANGED <<fd, open, node, ready, op, again, seen, res, raced, refused>>

AnyCrate_(t) == TRUE
HasCrate(t) == got[t] >= 0

(* What the caller of fd() does with its answer.  getCrate has no crate if *)
(* it is negative, GETFD returns it negated; the 16 bit write alone calls  *)
(* fd() again and hands that answer to CAMW as it is.                      *)
GotFd(t) ==
    /\ pc[t] = "got"
    /\ \/ /\ op[t] = "getCrate"
          /\ ready' = (ready \/ HasCrate(t))
          /\ Goto(t, "done") /\ UNCHANGED <<again, res>>
       \/ /\ op[t] # "getCrate" /\ UNCHANGED ready
          /\ \/ /\ ~again[t] /\ got[t] < 0
                /\ Return(t, FromInt(-got[t])) /\ UNCHANGED again
             \/ /\ ~again[t] /\ got[t] >= 0 /\ op[t] = "AFW16"
                /\ again' = [again EXCEPT ![t] = TRUE]
                /\ Goto(t, "look") /\ UNCHANGED res
             \/ /\ again[t] \/ (got[t] >= 0 /\ op[t] # "AFW16")
                /\ Goto(t, "bus") /\ UNCHANGED <<again, res>>
    /\ UNCHANGED <<fd, open, node, op, seen, got, raced, refused>>

(* The lsi6 library fails on what is not a descriptor of the crate.  What  *)
(* CAM_LWAIT says of a LAM is WaitLam's subject.                           *)
BusAnswers(o, d) ==
    CASE o = "waitLAM" -> {{}, {"BOOL"}}
      [] o = "C"       -> {{}, {"DATA_XFER_ERROR"}}
      [] OTHER         -> {TxqToResultBits(xq) :
                              xq \in IF d \in open THEN {-1, 0, 1, 2, 4} ELSE {-1}}

Bus(t) ==
    /\ pc[t] = "bus"
    /\ \E r \in BusAnswers(op[t], got[t]) : Return(t, r)
    /\ UNCHANGED <<fd, open, node, ready, op, again, seen, got, raced, refused>>

(* The caller takes the result; the operation's locals are gone.           *)
Done(t) ==
    /\ pc[t] = "done"
    /\ Goto(t, "idle")
    /\ seen' = [seen EXCEPT ![t] = -1]
    /\ got' = [got EXCEPT ![t] = -1]
    /\ res' = [res EXCEPT ![t] = {}]
    /\ UNCHANGED <<fd, open, node, ready, op, again, raced, refused>>

Thread(t) == \/ \E o \in Ops, f \in Functions : Begin(t, o, f)
             \/ Look(t) \/ Access(t) \/ Open(t) \/ Store(t)
             \/ Settle(t) \/ Unbind(t) \/ Reread(t)
             \/ GotFd(t) \/ Bus(t) \/ Done(t)

Next == ToggleNode \/ \E t \in Threads : Thread(t)

Spec == Init /\ [][Next]_vars
-----------------------------------------------------------------------------
PC == {"idle", "look", "access", "open", "store", "settle", "unbind", "reread",
       "got", "bus", "done"}

FdValue == Descriptors \cup {-1, -8, -4096}

(* Every variable has its type.                                            *)
TypeOK ==
    /\ fd \in FdValue
    /\ open \subseteq Descriptors
    /\ node \in BOOLEAN /\ ready \in BOOLEAN
    /\ pc \in [Threads -> PC]
    /\ op \in [Threads -> Ops]
    /\ again \in [Threads -> BOOLEAN]
    /\ seen \in [Threads -> FdValue]
    /\ got \in [Threads -> FdValue]
    /\ res \in [Threads -> Result]
    /\ raced \in BOOLEAN /\ refused \in BOOLEAN

(* As long as getCrate calls are made one at a time the crate has one      *)
(* descriptor at most, and keeps it once it was handed out: no open() is   *)
(* repeated and none is lost, whatever the other threads do meanwhile.     *)
OneOpen == \A d \in open : fd = d \/ \E t \in Threads : pc[t] = "store" /\ seen[t] = d

OneDescriptor == ~raced => OneOpen /\ (ready => fd \in open)

(* Without that order, but with a device that opens when it is there, a    *)
(* thread may open it in vain, once.                                       *)
LeakBounded == ~refused => Cardinality(open) <= Cardinality(Threads)

(* Under the same order an operation goes to the device through an open    *)
(* descriptor, and never takes the want of one for an answer: a result     *)
(* without an error comes from the device.  Without it another thread may  *)
(* take the raw -1 of open() (MamkinServer.cpp:117) for BOOL.              *)
SuccessIsReal ==
    ~raced => \A t \in Threads :
        \/ pc[t] = "bus"
        \/ pc[t] = "done" /\ op[t] # "getCrate" /\ ~IsError(res[t])
        => got[t] \in open
=============================================================================
