------------------------------ MODULE WaitLam ------------------------------
(***************************************************************************)
(* dfCamacModuleBase::WaitLAM: one thread waits until the module's         *)
(* Look-At-Me line is raised and the LAM check method confirms it, or      *)
(* until a deadline.  The wait is a loop of blocking Module::waitLAM calls *)
(* of the Mamkin server, each given what is left of the time, and of probe *)
(* operations that ask the station whether the LAM is its own.             *)
(*                                                                         *)
(* Time is what now() reads, counted in ticks.  CAM_LWAIT counts in        *)
(* hundredths of a second, Centi ticks each, and its argument is           *)
(* truncated.  The clock and the line move on between any two steps of     *)
(* the thread.                                                             *)
(***************************************************************************)
EXTENDS CamacResult

CONSTANTS Methods,    \* check methods of the modules that wait
          Timeouts,   \* values of *timeout a caller passes: ticks, or Inf
          Inf,        \* DF_TIMEOUT_INF
          Centi,      \* ticks in the unit CAM_LWAIT counts in
          MaxClock    \* bound of the model on the clock

(* The last stands for the values of enum camac_lam_check_methods that the *)
(* switch of WaitLAM sends to its default label.                           *)
AllMethods == {"NONE", "BY_Q", "BY_NOTQ", "BY_BITMASK", "BY_NOTBITMASK", "OTHER"}

ASSUME WaitAssumption ==
    /\ Methods \subseteq AllMethods
    /\ Inf \notin Int
    /\ Timeouts \subseteq Nat \cup {Inf}
    /\ Centi \in Nat \ {0}
    /\ MaxClock \in Nat

VARIABLES method,   \* _lcm->method; "NONE" stands for _lcm = 0 as well
          clock,    \* now()
          lam,      \* the LAM line of the station, as the crate sees it
          bound,    \* _module # 0
          pc,       \* where the caller's thread is
          asked,    \* t, the timeout in the units of the clock
          target,   \* targetTime
          left,     \* *timeout, which WaitLAM writes back
          until,    \* when the running CAM_LWAIT gives up
          rv,       \* the result of the last server call
          ret,      \* what WaitLAM returned
          heard,    \* history: what the station said in the last round
          faults    \* history: what went wrong on the bus in this call

world == <<clock, lam>>
call  == <<pc, asked, target, left, until, rv, ret, heard, faults>>
module == <<method, bound>>
vars  == <<world, module, call>>

Time == Int \cup {Inf}

(* A definition whose name ends in _ is not the code's: it is the mistake  *)
(* a property below would catch.                                           *)
Elapsed_(t) == IF t = Inf THEN Inf ELSE clock
Remaining(t) == IF t = Inf THEN Inf ELSE t - clock

(* convertTimeoutToFedorov.                                                *)
Unclamped_(t) == t
ToFedorov(t) == IF t # Inf /\ t < 0 THEN 0 ELSE t

(* Mamkin::Crate::fd failed: GETFD returns the negated descriptor.         *)
NoFd == {{"USER_ERROR0"}, {"NOTBINDED"}}

Init ==
    /\ method \in Methods /\ bound = FALSE
    /\ clock = 0 /\ lam \in BOOLEAN
    /\ pc = "idle"
    /\ asked = 0 /\ target = 0 /\ left = 0 /\ until = 0
    /\ rv = {} /\ ret = {} /\ heard = {} /\ faults = {}
-----------------------------------------------------------------------------
(* The world: time passes, the device raises its LAM, and servicing it or  *)
(* a crate-wide reset lowers it.                                           *)
Tick == /\ clock < MaxClock
        /\ clock' = clock + 1
        /\ UNCHANGED <<lam, module, call>>

ToggleLam == /\ lam' = ~lam
             /\ UNCHANGED <<clock, module, call>>

(* Bind unbinds first, then looks the module up, which may throw.          *)
Bind == /\ pc = "idle"
        /\ bound' \in BOOLEAN
        /\ UNCHANGED <<method, world, call>>

Unbind == /\ pc = "idle"
          /\ bound' = FALSE
          /\ UNCHANGED <<method, world, call>>
-----------------------------------------------------------------------------
Return(r) == /\ pc' = "returned"
             /\ ret' = r

(* WaitLAM is entered with *timeout = t.  A call that does not wait polls  *)
(* the server once and returns its answer as it is.                        *)
Call(t) ==
    /\ pc = "idle"
    /\ t # Inf => clock + t < MaxClock
    /\ target' = (IF t = Inf THEN Inf ELSE clock + t)
    /\ heard' = {} /\ faults' = {}
    /\ asked' = t /\ left' = t
    /\ IF ~bound THEN Return({"NOTBINDED"}) /\ UNCHANGED until
       ELSE IF t = 0
         THEN pc' = "poll" /\ until' = clock /\ UNCHANGED ret
         ELSE pc' = "loop" /\ UNCHANGED <<until, ret>>
    /\ UNCHANGED <<world, module, rv>>

(* while (targetTime >= now()), and the return after the loop.             *)
Endless_ == TRUE
InTime == target = Inf \/ target >= clock

Loop ==
    /\ pc = "loop"
    /\ IF InTime
         THEN pc' = "issue" /\ UNCHANGED ret
         ELSE Return({"BOOL"})
    /\ UNCHANGED <<world, module, asked, target, left, until, rv, heard, faults>>

(* _module->waitLAM(targetTime - now()): Mamkin turns the timeout into     *)
(* whole hundredths, so less than one of them only polls.                  *)
RoundedUp_(t) == IF t <= 0 THEN 0 ELSE ((t + Centi - 1) \div Centi) * Centi
WrongUnit_(t) == IF t <= 0 THEN 0 ELSE t \div Centi
LWaitTime(t) == IF t <= 0 THEN 0 ELSE (t \div Centi) * Centi

Issue ==
    /\ pc = "issue"
    /\ until' = (IF target = Inf THEN Inf
                 ELSE clock + LWaitTime(target - clock))
    /\ heard' = {}
    /\ pc' = "server"
    /\ UNCHANGED <<world, module, asked, target, left, rv, ret, faults>>

(* Mamkin::Module::waitLAM returns r.  A CAM_LWAIT that failed and one     *)
(* that timed out are both CC_OK to it.                                    *)
ServerAnswer(r) ==
    \/ /\ r \in NoFd
       /\ faults' = faults \cup {"bus"} /\ UNCHANGED heard
    \/ /\ r = {"BOOL"} /\ lam
       /\ heard' = {"LAM"} /\ UNCHANGED faults
    \/ /\ r = {} /\ ~lam
       /\ until # Inf /\ clock >= until
       /\ UNCHANGED <<heard, faults>>
    \/ /\ r = {}
       /\ faults' = faults \cup {"lwait"} /\ UNCHANGED heard

ServerAnswers == NoFd \cup {{}, {"BOOL"}}

PollReturns ==
    /\ pc = "poll"
    /\ \E r \in ServerAnswers : ServerAnswer(r) /\ rv' = r /\ Return(r)
    /\ UNCHANGED <<world, module, asked, target, left, until>>

ServerReturns ==
    /\ pc = "server"
    /\ \E r \in ServerAnswers : ServerAnswer(r) /\ rv' = r
    /\ pc' = "served"
    /\ UNCHANGED <<world, module, asked, target, left, until, ret>>

(* if (!_lcm) and the first switch of WaitLAM: what becomes of a LAM.      *)
NeverConfirmed_ == pc' = "loop" /\ UNCHANGED ret
AfterLam ==
    CASE method = "NONE"  -> Return({"BOOL"})
      [] method = "OTHER" -> Return({"INVALID_ARG"})
      [] OTHER            -> pc' = "probe" /\ UNCHANGED ret

(* The time left is written back, errors and timeouts are returned.        *)
Served ==
    /\ pc = "served"
    /\ left' = ToFedorov(Remaining(target))
    /\ IF IsError(rv) \/ "BOOL" \notin rv THEN Return(rv) ELSE AfterLam
    /\ UNCHANGED <<world, module, asked, target, until, rv, heard, faults>>

(* The second switch of WaitLAM: is the LAM accepted, given the result of  *)
(* the probe and whether its data has a bit in common with the bitmask?    *)
Swapped_(r, match) == IF method = "BY_BITMASK" THEN ~match ELSE match
Accepts(r, match) ==
    CASE method = "BY_Q"          -> "NOT_Q" \notin r
      [] method = "BY_NOTQ"       -> "NOT_Q" \in r
      [] method = "BY_BITMASK"    -> match
      [] method = "BY_NOTBITMASK" -> ~match

ErrorsIgnored_(r, match) == IF Accepts(r, match) THEN Return({"BOOL"})
                            ELSE pc' = "loop" /\ UNCHANGED ret
AfterProbe(r, match) == IF IsError(r) THEN Return(r)
                        ELSE IF Accepts(r, match) THEN Return({"BOOL"})
                        ELSE pc' = "loop" /\ UNCHANGED ret

(* AF(_lcm->af) or AF(_lcm->af, &tmp), and what WaitLAM makes of it.       *)
Probe ==
    /\ pc = "probe"
    /\ \E r \in NoFd \cup {TxqToResultBits(xq) : xq \in Xq}, match \in BOOLEAN :
          /\ rv' = r
          /\ heard' = heard \cup {"ANSWER"}
                 \cup (IF "NOT_Q" \notin r THEN {"Q"} ELSE {})
                 \cup (IF match THEN {"MATCH"} ELSE {})
          /\ faults' = IF r \subseteq {"NOT_Q"} THEN faults
                       ELSE faults \cup {"bus"}
          /\ AfterProbe(r, match)
    /\ UNCHANGED <<world, module, asked, target, left, until>>

(* The caller looks at the result.                                         *)
Done == /\ pc = "returned"
        /\ pc' = "idle"
        /\ UNCHANGED <<world, module, asked, target, left, until, rv, ret, heard, faults>>

Thread == Loop \/ Issue \/ PollReturns \/ ServerReturns \/ Served \/ Probe

Next == \/ Tick \/ ToggleLam
        \/ Bind \/ Unbind
        \/ \E t \in Timeouts : Call(t)
        \/ Thread
        \/ Done

Spec == Init /\ [][Next]_vars

(* Time passes, and a thread that can run is run: a CAM_LWAIT whose time   *)
(* is up, or whose line is raised, returns.  No failure is ever owed, so   *)
(* fairness is for the steps without one.                                  *)
FairSpec == Spec /\ WF_vars(Tick) /\ WF_vars(Thread /\ UNCHANGED faults)
-----------------------------------------------------------------------------
PC == {"idle", "poll", "loop", "issue", "server", "served", "probe", "returned"}

(* Every variable has its type.                                            *)
TypeOK ==
    /\ method \in AllMethods
    /\ clock \in Nat
    /\ lam \in BOOLEAN
    /\ bound \in BOOLEAN
    /\ pc \in PC
    /\ asked \in Nat \cup {Inf}
    /\ target \in Time
    /\ left \in Nat \cup {Inf}
    /\ until \in Time
    /\ rv \in Result
    /\ ret \in Result
    /\ heard \subseteq {"LAM", "ANSWER", "Q", "MATCH"}
    /\ faults \subseteq {"bus", "lwait"}

(* The meaning defs.h gives each check method, of what was heard last.     *)
Confirmed ==
    /\ "LAM" \in heard
    /\ method = "NONE" \/ "ANSWER" \in heard
    /\ method = "BY_Q" => "Q" \in heard
    /\ method = "BY_NOTQ" => "Q" \notin heard
    /\ method = "BY_BITMASK" => "MATCH" \in heard
    /\ method = "BY_NOTBITMASK" => "MATCH" \notin heard

(* A wait that answers BOOL had the LAM confirmed in its last round, or    *)
(* let its deadline go by (base.cpp:253): no earlier round, no refused LAM *)
(* and no failed probe ends in BOOL.  A poll (base.cpp:194) takes the LAM  *)
(* line at its word and never asks the station.                            *)
BoolIsConfirmedOrLate ==
    pc = "returned" /\ "BOOL" \in ret =>
        \/ Confirmed
        \/ asked = 0 /\ "LAM" \in heard
        \/ asked \notin {0, Inf} /\ clock > target

(* The same for a wait, without the escape of the late one: a timeout is   *)
(* an answer without BOOL, as the comment at base.cpp:204 has it.          *)
BoolIsConfirmed ==
    pc = "returned" /\ asked # 0 /\ "BOOL" \in ret => Confirmed

(* With the method BY_NOTQ, a LAM on which the station answers without Q   *)
(* is the station's own (defs.h:420, "NotQ on LAM"), and the wait says so. *)
NotQConfirms ==
    pc = "returned" /\ method = "BY_NOTQ" /\ faults = {} /\ Confirmed =>
        "BOOL" \in ret

(* A failure of the descriptor or of the probe is never swallowed by a     *)
(* later round of the loop: it is the result of the call.                  *)
BusFaultIsReturned ==
    pc = "returned" /\ "bus" \in faults => IsError(ret)

(* An answer CC_OK means that the time is up to less than one unit of      *)
(* CAM_LWAIT, or that CAM_LWAIT itself failed; an infinite wait has no     *)
(* timeout.                                                                *)
TimeoutIsDue ==
    pc = "returned" /\ ret = {} /\ "lwait" \notin faults =>
        target # Inf /\ target - clock < Centi

(* A round never asks the server to wait beyond the caller's deadline: the *)
(* rounds share one budget.                                                *)
RoundWithinDeadline ==
    pc = "server" => \/ target = Inf /\ until = Inf
                     \/ target # Inf /\ until # Inf
                          /\ (until <= target \/ until <= clock)

(* Within a call *timeout only goes down.                                  *)
LeftNeverGrows ==
    [][pc # "idle" /\ left # Inf => left' # Inf /\ left' <= left]_vars

(* A wait with a deadline returns, however often its LAM is refused.       *)
FiniteWaitReturns ==
    (pc # "idle" /\ target # Inf) ~> (pc = "returned")

(* An endless wait is ended by a LAM that stays up, when there is no check *)
(* method to refuse it.                                                    *)
HeldLamEndsWait ==
    (method = "NONE" /\ pc # "idle" /\ []lam) ~> (pc = "returned")
=============================================================================
