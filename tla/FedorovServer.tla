--------------------------- MODULE FedorovServer ---------------------------
(***************************************************************************)
(* The server over Fedorov's kernel driver (src/FedorovServer.cpp): the    *)
(* modules of one crate, each with a station descriptor that the first     *)
(* operation opens, and the threads that use them.  Every call of the      *)
(* driver (camac/kernel.h, which is not in the repository) is a step, and  *)
(* so is every reading of the member _fd that decides something.           *)
(***************************************************************************)
EXTENDS CamacResult, FiniteSets, Functions

CONSTANTS Threads,
          LastModule,   \* arraySize(_modules) - 1
          Fds,          \* the descriptors the kernel gives out
          MaxPending    \* bound on the events that are pending

ASSUME FedorovAssumption ==
    LastModule \in Nat /\ Fds # {} /\ Fds \subseteq Nat

Modules == 0..LastModule
None == -1

VARIABLES fd,       \* _fd of a module
          open,     \* the descriptors that are open,
          station,  \* the station of each,
          inited,   \* whether camac_kernel_init has succeeded on it,
          mask,     \* whether its events mask lets maskable events through,
          events,   \* its pending events
          pc, task, module, \* what a thread does, its operation and the module
          local,    \* the descriptor a thread has in hand
          saved,    \* its saved_mask
          rc,       \* what it has been answered
          chosen,   \* history: the mask a descriptor's owner has chosen,
          raced,    \* a thread has read an _fd that another was binding,
          crossed,  \* two threads have waited on one descriptor at once,
          masked,   \* a call for the mask has failed
          reached,  \* the threads whose C or Z has reached the crate,
          seen      \* the events its wait has taken

kernel == <<open, station, inited, mask, events>>
thread == <<pc, task, module, local, saved, rc>>
histories == <<chosen, raced, crossed, masked, reached, seen>>
vars == <<fd, kernel, thread, histories>>

Init ==
    /\ fd = [m \in Modules |-> None]
    /\ open = {} /\ station = [d \in Fds |-> 0]
    /\ inited = {} /\ mask = {} /\ events = [d \in Fds |-> {}]
    /\ pc = [t \in Threads |-> "idle"]
    /\ task = [t \in Threads |-> "none"]
    /\ module = [t \in Threads |-> 0]
    /\ local = [t \in Threads |-> None]
    /\ saved = [t \in Threads |-> FALSE]
    /\ rc = [t \in Threads |-> {}]
    /\ chosen = {}
    /\ raced = FALSE /\ crossed = FALSE /\ masked = FALSE
    /\ reached = {}
    /\ seen = [t \in Threads |-> {}]
-----------------------------------------------------------------------------
At(t, p) == pc[t] = p
Goto(t, p) == pc' = [pc EXCEPT ![t] = p]
Answer(t, r) == rc' = [rc EXCEPT ![t] = r]

Binding(m) == {t \in Threads : module[t] = m /\
                 pc[t] \in {"open", "publish", "test", "init", "close", "unset"}}
Reads(t, m) == raced' = (raced \/ Binding(m) \ {t} # {})

(* AFW, AFR, AFC and WaitLAM bind the module first; C and Z look for a     *)
(* module that is bound.                                                   *)
(* Bound: after a race the operations under way are followed to their end. *)
Tasks == {"AF", "WaitLAM", "C"}

Call(t) ==
    /\ At(t, "idle") /\ ~raced
    /\ \E k \in Tasks, m \in Modules :
          /\ k = "C" => m = 0
          /\ task' = [task EXCEPT ![t] = k]
          /\ module' = [module EXCEPT ![t] = m]
          /\ Goto(t, IF k = "C" THEN "find" ELSE "bind")
    /\ UNCHANGED <<fd, kernel, local, saved, rc, histories>>

Return(t) ==
    /\ At(t, "done")
    /\ Goto(t, "idle")
    /\ task' = [task EXCEPT ![t] = "none"]
    /\ module' = [module EXCEPT ![t] = 0]
    /\ local' = [local EXCEPT ![t] = None]
    /\ saved' = [saved EXCEPT ![t] = FALSE]
    /\ rc' = [rc EXCEPT ![t] = {}]
    /\ reached' = reached \ {t}
    /\ seen' = [seen EXCEPT ![t] = {}]
    /\ UNCHANGED <<fd, kernel, chosen, raced, crossed, masked>>

(* After bind: the operation goes on unless it has been answered an error. *)
Bound(t) == CASE task[t] = "AF" -> "af" [] task[t] = "WaitLAM" -> "getMask" [] task[t] = "C" -> "assert"

(* findFd looks at _fd twice.  It passes what bind answers negated, and C  *)
(* and Z negate it again.                                                  *)
Flat_(r) == FromInt(1)
Passed(r) == r \cap Errors
Failed(t, r) == Answer(t, IF task[t] = "C" THEN Passed(r) ELSE r)
-----------------------------------------------------------------------------
(* bind.  A definition whose name ends in _ is not the code's: it is the   *)
(* mistake a property below would catch.                                   *)
Bind(t) ==
    /\ At(t, "bind")
    /\ Reads(t, module[t])
    /\ Goto(t, IF fd[module[t]] # None THEN Bound(t) ELSE "open")
    /\ UNCHANGED <<fd, kernel, task, module, local, saved, rc, chosen, crossed, masked, reached,
                   seen>>

(* The lowest descriptor that is free, or -1; the driver gives the mask.   *)
OpenStation(t) ==
    /\ At(t, "open") /\ Goto(t, "publish")
    /\ \/ /\ local' = [local EXCEPT ![t] = None] /\ UNCHANGED <<kernel, chosen>>
       \/ \E d \in {f \in Fds \ open : \A g \in Fds \ open : f <= g}, lets \in SUBSET Fds :
             /\ lets \in {{d}, {}}
             /\ local' = [local EXCEPT ![t] = d]
             /\ open' = open \cup {d} /\ inited' = inited \ {d}
             /\ station' = [station EXCEPT ![d] = module[t]]
             /\ events' = [events EXCEPT ![d] = {}]
             /\ mask' = (mask \ {d}) \cup lets
             /\ chosen' = (chosen \ {d}) \cup lets
    /\ UNCHANGED <<fd, task, module, saved, rc, raced, crossed, masked, reached, seen>>

Publish(t) ==
    /\ At(t, "publish") /\ Goto(t, "test")
    /\ fd' = [fd EXCEPT ![module[t]] = local[t]]
    /\ UNCHANGED <<kernel, task, module, local, saved, rc, histories>>

Test(t) ==
    /\ At(t, "test")
    /\ IF fd[module[t]] # None THEN Goto(t, "init") /\ UNCHANGED rc
       ELSE Goto(t, "done") /\ Failed(t, {"SYSCALL_ERROR"})
    /\ UNCHANGED <<fd, kernel, task, module, local, saved, histories>>

Kept_ == "done"
Unclosed_ == "unset"
Uninited == "close"

KernelInit(t) ==
    /\ At(t, "init")
    /\ \/ /\ fd[module[t]] \in open
          /\ inited' = inited \cup {fd[module[t]]} /\ Goto(t, Bound(t))
       \/ Goto(t, Uninited) /\ UNCHANGED inited
    /\ UNCHANGED <<fd, open, station, mask, events, task, module, local, saved, rc, histories>>

Close(t) ==
    /\ At(t, "close") /\ Goto(t, "unset")
    /\ LET d == fd[module[t]]
       IN  /\ open' = open \ {d} /\ inited' = inited \ {d}
           /\ mask' = mask \ {d} /\ chosen' = chosen \ {d}
           /\ events' = [k \in Fds |-> IF k = d THEN {} ELSE events[k]]
    /\ UNCHANGED <<fd, station, task, module, local, saved, rc, raced, crossed, masked, reached, seen>>

Unset(t) ==
    /\ At(t, "unset") /\ Goto(t, "done")
    /\ fd' = [fd EXCEPT ![module[t]] = None]
    /\ Failed(t, {"NOTINITED"})
    /\ UNCHANGED <<kernel, task, module, local, saved, histories>>
-----------------------------------------------------------------------------
(* The calls of the driver: a descriptor that is not open, or not          *)
(* initialised, is answered -1, which is every bit of a Result.            *)
Works(d) == d \in open /\ d \in inited

(* AFW, AFR and AFC.                                                       *)
AF(t) ==
    /\ At(t, "af") /\ Goto(t, "done")
    /\ \/ Works(fd[module[t]]) /\ \E r \in {{}, {"NOT_X", "NOT_Q"}} : Answer(t, r)
       \/ Answer(t, All)
    /\ UNCHANGED <<fd, kernel, task, module, local, saved, histories>>

More(m) == m < LastModule

Find(t) ==
    /\ At(t, "find")
    /\ Reads(t, module[t])
    /\ \/ /\ fd[module[t]] # None
          /\ Goto(t, "take") /\ UNCHANGED module
       \/ /\ fd[module[t]] = None
          /\ IF More(module[t])
             THEN module' = [module EXCEPT ![t] = @ + 1] /\ UNCHANGED pc
             ELSE module' = [module EXCEPT ![t] = 0] /\ Goto(t, "bind")
    /\ UNCHANGED <<fd, kernel, task, local, saved, rc, chosen, crossed, masked, reached, seen>>

TakeFd(t) ==
    /\ At(t, "take")
    /\ Reads(t, module[t])
    /\ local' = [local EXCEPT ![t] = fd[module[t]]]
    /\ IF fd[module[t]] # None THEN Goto(t, "crate") /\ UNCHANGED rc
       ELSE Goto(t, "done") /\ Answer(t, FromInt(-fd[module[t]]))
    /\ UNCHANGED <<fd, kernel, task, module, saved, chosen, crossed, masked, reached, seen>>

(* assert(_modules[0]->_fd >= 0): the process would end.                   *)
AssertBound(t) ==
    /\ At(t, "assert")
    /\ local' = [local EXCEPT ![t] = fd[module[t]]]
    /\ Goto(t, IF fd[module[t]] # None THEN "crate" ELSE "aborted")
    /\ UNCHANGED <<fd, kernel, task, module, saved, rc, histories>>

(* camac_kernel_c and camac_kernel_z.                                      *)
CrateOp(t) ==
    /\ At(t, "crate") /\ Goto(t, "done")
    /\ \/ /\ Works(local[t])
          /\ reached' = reached \cup {t}
          /\ \E r \in {{}, {"IFACE_TIMEOUT"}} : Answer(t, r)
       \/ Answer(t, All) /\ UNCHANGED reached
    /\ UNCHANGED <<fd, kernel, task, module, local, saved, chosen, raced, crossed, masked, seen>>
-----------------------------------------------------------------------------
(* WaitLAM: dfcamac_wait_events with a mask of no maskable event, and what *)
(* dfcamac_wait_lam makes of its answer.                                   *)
Waiting(d) == {t \in Threads : local[t] = d /\
                 pc[t] \in {"setMask", "select", "getEvents", "restore", "getErrors"}}

Maskable == {"OTHER"}   \* CAMAC_MASKABLE_EVENTS
Fails(t) == Goto(t, "restore") /\ seen' = [seen EXCEPT ![t] = {}] /\ Answer(t, All)

Unmasked_(s) == FALSE
MustMask(s) == s

GetMask(t) ==
    /\ At(t, "getMask")
    /\ LET d == fd[module[t]]
       IN  /\ local' = [local EXCEPT ![t] = d]
           /\ crossed' = (crossed \/ Waiting(d) # {})
           /\ \/ /\ Works(d)
                 /\ saved' = [saved EXCEPT ![t] = d \in mask]
                 /\ Goto(t, IF MustMask(d \in mask) THEN "setMask" ELSE "select")
                 /\ UNCHANGED rc
              \/ Goto(t, "done") /\ Answer(t, All) /\ UNCHANGED saved
    /\ UNCHANGED <<fd, kernel, task, module, chosen, raced, masked, reached, seen>>

SetMask(t) ==
    /\ At(t, "setMask")
    /\ \/ /\ Works(local[t])
          /\ mask' = mask \ {local[t]} /\ Goto(t, "select") /\ UNCHANGED <<seen, rc>>
       \/ Fails(t) /\ UNCHANGED mask
    /\ UNCHANGED <<fd, open, station, inited, events, task, module, local, saved, chosen, raced,
                   crossed, masked, reached>>

Ready(d) == d \in open /\ (events[d] \ Maskable # {} \/ (d \in mask /\ events[d] # {}))

(* The time runs out, or a signal comes, while there is nothing.           *)
Select(t) ==
    /\ At(t, "select")
    /\ \/ Ready(local[t]) /\ Goto(t, "getEvents") /\ UNCHANGED <<seen, rc>>
       \/ Fails(t)
    /\ UNCHANGED <<fd, kernel, task, module, local, saved, chosen, raced, crossed, masked, reached>>

(* camac_kernel_get_events takes what is pending.                          *)
GetEvents(t) ==
    /\ At(t, "getEvents")
    /\ \/ /\ Works(local[t])
          /\ seen' = [seen EXCEPT ![t] = events[local[t]]]
          /\ events' = [events EXCEPT ![local[t]] = {}]
          /\ Goto(t, "restore") /\ UNCHANGED rc
       \/ Fails(t) /\ UNCHANGED events
    /\ UNCHANGED <<fd, open, station, inited, mask, task, module, local, saved, chosen, raced,
                   crossed, masked, reached>>

(* No LAM and no error: no event at all is a timeout, which is answered    *)
(* -1, and any other event is answered as it is, whatever its bit means.   *)
Verdicts(s) ==
    IF "LAM" \in s THEN {{"BOOL"}}
    ELSE IF s = {} THEN {All} ELSE {{"BOOL"}, {"INVALID_ARG"}}

OnSuccess_(t) == saved[t] /\ rc[t] = {}
MustRestore(t) == saved[t]

(* restore_events_mask does not look whether it succeeds.                  *)
Restore(t) ==
    /\ At(t, "restore")
    /\ \/ /\ ~MustRestore(t) /\ UNCHANGED <<mask, masked>>
       \/ /\ MustRestore(t) /\ Works(local[t])
          /\ mask' = mask \cup {local[t]} /\ UNCHANGED masked
       \/ /\ MustRestore(t)
          /\ masked' = TRUE /\ UNCHANGED mask
    /\ IF rc[t] = {} /\ "LAM" \notin seen[t] /\ "ERRORS" \in seen[t]
       THEN Goto(t, "getErrors") /\ UNCHANGED rc
       ELSE /\ Goto(t, "done")
            /\ \E r \in IF rc[t] # {} THEN {rc[t]} ELSE Verdicts(seen[t]) : Answer(t, r)
    /\ UNCHANGED <<fd, open, station, inited, events, task, module, local, saved, chosen, raced,
                   crossed, reached, seen>>

GetErrors(t) ==
    /\ At(t, "getErrors") /\ Goto(t, "done")
    /\ \E r \in {All, {"IFACE_TIMEOUT"}} : Answer(t, r)
    /\ UNCHANGED <<fd, kernel, task, module, local, saved, histories>>

(* Something happens at a station; the bound is on what is pending.        *)
Event(d) ==
    /\ Works(d)
    /\ SumFunction([e \in Fds |-> Cardinality(events[e])]) < MaxPending
    /\ \E e \in {"LAM", "ERRORS", "OTHER"} \ events[d] :
          events' = [events EXCEPT ![d] = @ \cup {e}]
    /\ UNCHANGED <<fd, open, station, inited, mask, thread, histories>>

Step(t) ==
    \/ Call(t) \/ Return(t)
    \/ Bind(t) \/ OpenStation(t) \/ Publish(t) \/ Test(t) \/ KernelInit(t) \/ Close(t) \/ Unset(t)
    \/ AF(t) \/ Find(t) \/ TakeFd(t) \/ AssertBound(t) \/ CrateOp(t)
    \/ GetMask(t) \/ SetMask(t) \/ Select(t) \/ GetEvents(t) \/ Restore(t) \/ GetErrors(t)

Next == (\E t \in Threads : Step(t)) \/ (\E d \in Fds : Event(d))

Spec == Init /\ [][Next]_vars
-----------------------------------------------------------------------------
Points == {"idle", "bind", "open", "publish", "test", "init", "close", "unset", "af", "find",
           "take", "assert", "crate", "getMask", "setMask", "select", "getEvents", "restore",
           "getErrors", "done", "aborted"}

(* Every variable has its type.                                            *)
TypeOK ==
    /\ fd \in [Modules -> Fds \cup {None}]
    /\ open \subseteq Fds /\ inited \subseteq open
    /\ station \in [Fds -> Modules]
    /\ mask \subseteq Fds /\ chosen \subseteq Fds
    /\ events \in [Fds -> SUBSET {"LAM", "ERRORS", "OTHER"}]
    /\ pc \in [Threads -> Points]
    /\ module \in [Threads -> Modules]
    /\ local \in [Threads -> Fds \cup {None}]
    /\ rc \in [Threads -> Result]

(* An operation reaches the descriptor of its own module, open and         *)
(* initialised, and the assertion of findFd holds, unless two threads have *)
(* bound a module at once: bind fills _fd before it initialises.           *)
DescriptorIsReady ==
    ~raced => \A t \in Threads :
        /\ At(t, "af") => Works(fd[module[t]]) /\ station[fd[module[t]]] = module[t]
        /\ At(t, "crate") => Works(local[t])
        /\ ~At(t, "aborted")

(* A bind that fails leaves nothing open, so that it can be tried again;   *)
(* and a module has one descriptor.  As above, no more than that is said   *)
(* of what comes of two threads that have bound a module at once.          *)
NothingLeaks ==
    ~raced => \A m \in Modules : Binding(m) = {} =>
        {d \in open : station[d] = m} = {fd[m]} \ {None}

(* C and Z that are answered without an error have reached the crate: a    *)
(* failed bind stays an error through the two negations of its result.     *)
(* Not so once two threads have bound a module at once: findFd, which      *)
(* tests _fd and reads it again, may then answer 1, which is BOOL.         *)
CrateIsReached ==
    ~raced => \A t \in Threads : At(t, "done") /\ task[t] = "C" /\ ~IsError(rc[t]) =>
        t \in reached

(* However waits on a descriptor overlap and whatever becomes of them, the *)
(* events mask is in the end what its owner chose, unless the call that    *)
(* restores it fails, or two threads have bound a module at once.          *)
MaskIsRestored ==
    ~raced /\ ~masked => \A d \in open : Waiting(d) = {} => (d \in mask <=> d \in chosen)

(* A wait that is answered BOOL and no error has taken a LAM, unless two   *)
(* waits on the descriptor overlap: the one that ends lets the maskable    *)
(* events through to the other, which answers their bits.  Nor is it said  *)
(* of threads that have bound a module at once.                            *)
LamIsReal ==
    ~raced => \A t \in Threads : At(t, "done") /\ task[t] = "WaitLAM" /\ "BOOL" \in rc[t] /\ ~IsError(rc[t]) =>
        "LAM" \in seen[t] \/ crossed
=============================================================================
