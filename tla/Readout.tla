------------------------------ MODULE Readout ------------------------------
(***************************************************************************)
(* The drivers of modules that count and convert: Counter_S0301, QDC_C0312,*)
(* TDC_C0309 and TDC_C0301 over the module base, LeCroy2249 over           *)
(* Camac::Module.  Each instance is used by a thread of its own, as a LAM  *)
(* handler's callback uses it; an operation is the sequence of its         *)
(* accesses, between which pulses are counted and events converted.  Two   *)
(* instances of a class share its static lists of accesses, with the data  *)
(* in them, and all modules of a crate share its C and Z.                  *)
(***************************************************************************)
EXTENDS CamacResult, SequencesExt, FiniteSets

CONSTANTS Instances,
          Nobody,          \* whose the zeros are the lists begin with
          Setups,          \* the classes of the instances: a set of functions
          nChannels,       \* channels of a module, an even number
          Words,           \* values of a counter's word, 65536 there
          MaxPulses, MaxEvents, MaxCalls,  \* bounds on pulses, events and operations
          PointerEntries   \* sizeof(aflist)/sizeof(camac_af_list) of a pointer: 1, or 0

Classes == {"Counter_S0301", "QDC_C0312", "TDC_C0309", "TDC_C0301", "LeCroy2249"}

ASSUME ReadoutAssumption ==
    /\ Nobody \notin Instances
    /\ Setups \subseteq [Instances -> Classes]
    /\ nChannels \in Nat \ {0} /\ nChannels % 2 = 0
    /\ Words \in Nat \ {0} /\ MaxPulses \in Nat /\ MaxPulses < Words * Words
    /\ PointerEntries \in {0, 1}

Channels == 0..(nChannels - 1)
Pairs == 0..(nChannels \div 2 - 1)

VARIABLES class,
          counted,  \* a counter's words
          event,    \* the last event a converter has seen,
          fresh,    \* the channels whose result has not been cleared since,
          lam,      \* its LAM
          list,     \* the data in the static lists read_all and read_all_reset_lam
          ignoreQ,  \* LeCroy2249::_ignoreQ,
          told,     \* history: which ignoreQ() has set
          op, todo, \* the operation under way and its accesses that are left
          rcs,      \* what its accesses have answered
          data,     \* the words it has read
          made,     \* how many operations have been called
          since,    \* history: the count, or the event, at the call
          due,      \* pulses counted and not yet reported,
          spoiled,  \* a carry, a fault, a C or a Z has spoiled the count,
          wiped,    \* a C or a Z came during the operation,
          overlapped \* the operation's list was in another instance's hands, too

module == <<counted, event, fresh, lam>>
call == <<op, todo, rcs, data, made, since>>
histories == <<due, spoiled, wiped, overlapped>>
vars == <<class, module, list, ignoreQ, told, call, histories>>

Counters == {i \in Instances : class[i] = "Counter_S0301"}
None == [name |-> "none", channel |-> 0]
Nothing == [of |-> Nobody, value |-> 0, channel |-> 0]
Value(w, p) == w[2 * p + 1] * Words + w[2 * p]

Init ==
    /\ class \in Setups
    /\ counted = [i \in Instances |-> [c \in Channels |-> 0]]
    /\ event = [i \in Instances |-> 0]
    /\ fresh = [i \in Instances |-> {}]
    /\ lam = [i \in Instances |-> FALSE]
    /\ list = [l \in {"QDC_C0312", "TDC_C0309"} \X {"ReadAll", "ReadClearAll"} |->
                 [c \in Channels |-> Nothing]]
    /\ ignoreQ \in [Instances -> BOOLEAN]  \* the constructor leaves it as it is
    /\ \A i \in Instances : class[i] # "LeCroy2249" => ~ignoreQ[i]
    /\ told = [i \in Instances |-> FALSE]
    /\ op = [i \in Instances |-> None]
    /\ todo = [i \in Instances |-> <<>>]
    /\ rcs = [i \in Instances |-> {}]
    /\ data = [i \in Instances |-> <<>>]
    /\ made = 0
    /\ since = [i \in Instances |-> 0]
    /\ due = [i \in Instances |-> [p \in Pairs |-> 0]]
    /\ spoiled = [i \in Instances |-> FALSE]
    /\ wiped = [i \in Instances |-> FALSE]
    /\ overlapped = [i \in Instances |-> FALSE]
-----------------------------------------------------------------------------
(* The operations, as sequences of accesses in the order the source writes *)
(* them.  A definition whose name ends in _ is not the code's: it is the   *)
(* mistake a property below would catch.                                   *)
A(f, a) == [f |-> f, a |-> a]
Once(f, a) == <<A(f, a)>>
Each(f) == [n \in 1..nChannels |-> A(f, n - 1)]

LowFirst_(p) == <<A("F0", 2 * p), A("F0", 2 * p + 1)>>
Read2(p) == <<A("F0", 2 * p + 1), A("F0", 2 * p)>>

Unreset_(p) == <<A("F0", 2 * p + 1), A("F2", 2 * p)>>
Read2clear(p) == <<A("F0", 2 * p + 1), A("F2", 2 * p), A("F9", 2 * p + 1)>>

CZReset == <<A("C", 0), A("Z", 0)>>

(* The lists, and how much of a list is passed to ListAF: QDC_C0312 takes  *)
(* the size of the pointer.                                                *)
Entries(k, n) == IF k = "QDC_C0312"
                 THEN IF n = "ReadAll" THEN Each("F0") ELSE Append(Each("F0"), A("F10", 0))
                 ELSE IF n = "ReadAll" THEN Each("F0") ELSE Each("F2")

Pointer_(k) == PointerEntries
Passed(k) == IF k = "QDC_C0312" THEN PointerEntries ELSE nChannels
ListAF(k, n) == Append(SubSeq(Entries(k, n), 1, Passed(k)), A("copy", 0))

CounterCalls ==
    {<<"Init", c, Each("F9")>> : c \in {0}} \cup {<<"Test", c, Each("F2")>> : c \in {0}}
        \cup {<<"Read2", p, Read2(p)>> : p \in Pairs}
        \cup {<<"Read2clear", p, Read2clear(p)>> : p \in Pairs}
        \cup {<<"Reset", c, Once("F9", c)>> : c \in Channels}
        \cup {<<"ReadClear", c, Once("F2", c)>> : c \in Channels}
        \cup {<<"Increment", c, Once("F25", c)>> : c \in {2 * p : p \in Pairs}}

(* The channels that are not INVALID_ARG: channel & badChann is zero.      *)
Accepted == Channels

(* Init and Test of QDC_C0312 and TDC_C0309 are a Reset.                   *)
ListCalls(k) ==
    {<<n, 0, ListAF(k, n)>> : n \in {"ReadAll", "ReadClearAll"}}
        \cup {<<"Read", c, Once("F0", c)>> : c \in Accepted}
        \cup {<<"ReadClearLAM", c, Once("F2", c)>> : c \in Accepted}
        \cup {<<"Reset", 0, Once("F10", 0)>>}

TDC0301Calls ==
    {<<"Read", c, Once("F0", c)>> : c \in Channels}
        \cup {<<"ReadClear", c, Once("F2", c)>> : c \in Channels}
        \cup {<<"Reset", 0, Once("F10", 0)>>, <<"Test", 0, Each("F2")>>}

LeCroyCalls ==
    {<<"read", c, Once("F0", c)>> : c \in Channels}
        \cup {<<"reset", 0, Once("F9", 0)>>, <<"checkLAM", 0, Once("F8", 0)>>,
              <<"LeCroy2249", 0, Once("F26", 0)>>}

Calls(k) ==
    CASE k = "Counter_S0301" -> CounterCalls \cup {<<"CZReset", 0, CZReset>>}
      [] k \in {"QDC_C0312", "TDC_C0309"} -> ListCalls(k) \cup {<<"CZReset", 0, CZReset>>}
      [] k = "TDC_C0301" -> TDC0301Calls \cup {<<"CZReset", 0, CZReset>>}
      [] k = "LeCroy2249" -> LeCroyCalls

Call(i) ==
    /\ op[i] = None /\ made < MaxCalls
    /\ made' = made + 1
    /\ \E c \in Calls(class[i]) :
          /\ op' = [op EXCEPT ![i] = [name |-> c[1], channel |-> c[2]]]
          /\ todo' = [todo EXCEPT ![i] = c[3]]
          /\ since' = [since EXCEPT ![i] = IF i \in Counters /\ c[1] = "Read2"
                                           THEN Value(counted[i], c[2]) ELSE event[i]]
          /\ LET others == {j \in Instances \ {i} : class[j] = class[i] /\ op[j].name = c[1]}
             IN  overlapped' = [j \in Instances |->
                    IF j = i THEN others # {} ELSE overlapped[j] \/ j \in others]
    /\ wiped' = [wiped EXCEPT ![i] = FALSE]
    /\ UNCHANGED <<class, module, list, ignoreQ, told, rcs, data, due, spoiled>>

IgnoreQ(i) ==
    /\ op[i] = None /\ class[i] = "LeCroy2249"
    /\ \E ignore \in BOOLEAN : ignoreQ' = [ignoreQ EXCEPT ![i] = ignore]
    /\ told' = [told EXCEPT ![i] = TRUE]
    /\ UNCHANGED <<class, module, list, call, histories>>
-----------------------------------------------------------------------------
(* The modules.                                                            *)
Add(w, c) == IF w[c] + 1 < Words THEN [w EXCEPT ![c] = @ + 1]
             ELSE [w EXCEPT ![c] = 0, ![c + 1] = @ + 1]

Clearing(i) == op[i].name = "Read2clear"

Increment(i, p) ==
    /\ counted' = [counted EXCEPT ![i] = Add(@, 2 * p)]
    /\ due' = [due EXCEPT ![i][p] = @ + 1]
    /\ spoiled' = [spoiled EXCEPT ![i] =
          @ \/ (Clearing(i) /\ todo[i] # <<>> /\ counted'[i][2 * p + 1] # counted[i][2 * p + 1])]

Pulse(i) ==
    /\ i \in Counters
    /\ \E p \in Pairs : due[i][p] < MaxPulses /\ Value(counted[i], p) < MaxPulses /\ Increment(i, p)
    /\ UNCHANGED <<class, event, fresh, lam, list, ignoreQ, told, call, wiped, overlapped>>

(* A converter takes a gate while its LAM is down.                         *)
Gate(i) ==
    /\ i \notin Counters /\ ~lam[i]
    /\ SumFunction(event) < MaxEvents
    /\ event' = [event EXCEPT ![i] = @ + 1]
    /\ fresh' = [fresh EXCEPT ![i] = Channels]
    /\ lam' = [lam EXCEPT ![i] = TRUE]
    /\ UNCHANGED <<class, counted, list, ignoreQ, told, call, histories>>
-----------------------------------------------------------------------------
(* An access: what it does to the module, the word it brings and what it   *)
(* answers.  F2 may take the LAM down with any channel and takes it down   *)
(* with the last; F9, F10 and F26 answer no Q, and so does the reading of  *)
(* a channel that has nothing to give.  TDC_C0301's F2 leaves the LAM.     *)
Q(up) == IF up THEN {} ELSE {"NOT_Q"}

Cleared(i, c) == counted' = [counted EXCEPT ![i][c] = 0]

ByCounter(i, a) ==
    /\ \/ a.f = "F0" /\ UNCHANGED counted
       \/ a.f \in {"F2", "F9"} /\ Cleared(i, a.a)
       \/ a.f = "F25" /\ counted' = [counted EXCEPT ![i] = Add(@, a.a)]
    /\ UNCHANGED <<event, fresh, lam>>

ByConverter(i, a) ==
    /\ \/ /\ a.f \in {"F0", "F8", "F26"}
          /\ UNCHANGED <<fresh, lam>>
       \/ /\ a.f = "F2"
          /\ fresh' = [fresh EXCEPT ![i] = @ \ {a.a}]
          /\ IF class[i] = "TDC_C0301" THEN UNCHANGED lam
             ELSE \E up \in IF fresh'[i] = {} THEN {FALSE} ELSE {lam[i], FALSE} :
                     lam' = [lam EXCEPT ![i] = up]
       \/ /\ a.f \in {"F9", "F10"}
          /\ fresh' = [fresh EXCEPT ![i] = IF class[i] = "TDC_C0301" \/ a.f = "F9"
                                          THEN {} ELSE @]
          /\ lam' = [lam EXCEPT ![i] = FALSE]
    /\ UNCHANGED <<counted, event>>

Effect(i, a) == IF i \in Counters THEN ByCounter(i, a) ELSE ByConverter(i, a)

Brought(i, a) ==
    IF a.f \notin {"F0", "F2"} THEN <<>>
    ELSE <<[of |-> i, channel |-> a.a,
            value |-> IF i \in Counters THEN counted[i][a.a] ELSE event[i]]>>

Answer(i, a) ==
    CASE i \in Counters -> Q(a.f # "F9")
      [] i \notin Counters /\ a.f \in {"F0", "F2"} -> Q(a.a \in fresh[i])
      [] i \notin Counters /\ a.f = "F8" -> Q(lam[i])
      [] i \notin Counters /\ a.f \in {"F9", "F10", "F26"} -> {"NOT_Q"}

(* Reset takes the Q out of the answer.                                    *)
Told(i, a, rc) == IF a.f \in {"F9", "F10"} /\ class[i] # "LeCroy2249"
                  THEN rc \ {"NOT_Q"} ELSE rc

InList(i) == op[i].name \in {"ReadAll", "ReadClearAll"}
Listed(i, a, w) ==
    IF InList(i) /\ w # <<>> THEN [list EXCEPT ![<<class[i], op[i].name>>][a.a] = w[1]] ELSE list

Head1(i) == Head(todo[i])
Advance(i) == todo' = [todo EXCEPT ![i] = Tail(@)]
Answered(i, rc) == rcs' = [rcs EXCEPT ![i] = @ \cup {rc}]

(* Pulses that a Reset or a ReadClear takes off the count are accounted    *)
(* for; Read2clear's are at its end.                                       *)
Taken(i, a) == IF i \in Counters /\ a.f \in {"F2", "F9"} /\ op[i].name # "Read2clear"
               THEN counted[i][a.a] * (IF a.a % 2 = 0 THEN 1 ELSE Words) ELSE 0
Account(i, a) ==
    due' = [due EXCEPT ![i][a.a \div 2] =
               IF a.f = "F25" THEN @ + 1 ELSE @ - Taken(i, a)]

Transferred(i) ==
    /\ todo[i] # <<>> /\ Head1(i).f \notin {"C", "Z", "copy"}
    /\ Head1(i).f = "F25" => Value(counted[i], Head1(i).a \div 2) < MaxPulses
    /\ Effect(i, Head1(i))
    /\ Answered(i, Told(i, Head1(i), Answer(i, Head1(i))))
    /\ data' = [data EXCEPT ![i] = IF InList(i) THEN @ ELSE @ \o Brought(i, Head1(i))]
    /\ list' = Listed(i, Head1(i), Brought(i, Head1(i)))
    /\ Account(i, Head1(i))
    /\ Advance(i)
    /\ UNCHANGED <<class, ignoreQ, told, op, made, since, spoiled, wiped, overlapped>>

(* A fault: the access may have been done for all that.                    *)
Fault == {"IFACE_TIMEOUT"}
Faults == {Fault, {"DATA_XFER_ERROR"}}

Faulted(i) ==
    /\ todo[i] # <<>> /\ Head1(i).f \notin {"C", "Z", "copy"}
    /\ \/ /\ Head1(i).f # "F25" /\ Effect(i, Head1(i))
       \/ UNCHANGED module
    /\ Answered(i, Fault)
    /\ spoiled' = [spoiled EXCEPT ![i] =
          @ \/ (i \in Counters /\ (Head1(i).f # "F0" \/ Clearing(i)))]
    /\ Advance(i)
    /\ UNCHANGED <<class, ignoreQ, told, op, made, data, list, since, due, wiped, overlapped>>

(* C and Z clear the modules of the crate, whatever operation they are in, *)
(* but TDC_C0301 may be deaf to them: its CZReset "doesn't work".          *)
MaybeDeaf == {i \in Instances : class[i] = "TDC_C0301"}

Wipe ==
    /\ counted' = [i \in Instances |-> [c \in Channels |-> 0]]
    /\ \E deaf \in SUBSET MaybeDeaf :
          /\ fresh' = [i \in Instances |-> IF i \in deaf THEN fresh[i] ELSE {}]
          /\ lam' = [i \in Instances |-> i \in deaf /\ lam[i]]
    /\ due' = [i \in Instances |-> [p \in Pairs |-> 0]]
    /\ spoiled' = [i \in Instances |-> Clearing(i)]
    /\ wiped' = [i \in Instances |-> TRUE]
    /\ UNCHANGED event

CrateReset(i) ==
    /\ todo[i] # <<>> /\ Head1(i).f \in {"C", "Z"}
    /\ \/ Wipe /\ Answered(i, {})
       \/ UNCHANGED <<module, due, spoiled, wiped>> /\ \E rc \in Faults : Answered(i, rc)
    /\ Advance(i)
    /\ UNCHANGED <<class, list, ignoreQ, told, op, made, data, since, overlapped>>

(* What has been listed is copied out: all the channels, whatever the list *)
(* has brought.                                                            *)
Copy(i) ==
    /\ todo[i] # <<>> /\ Head1(i).f = "copy"
    /\ data' = [data EXCEPT ![i] =
          [n \in 1..nChannels |-> list[<<class[i], op[i].name>>][n - 1]]]
    /\ Advance(i)
    /\ UNCHANGED <<class, module, list, ignoreQ, told, op, rcs, made, since, histories>>
-----------------------------------------------------------------------------
(* The end of an operation.  CZReset is content with one of C and Z.       *)
Or(s) == UNION s
And(s) == {r \in All : \A rc \in s : r \in rc}

Bitwise_(s) == And(s)
OfCZ(s) == IF {} \notin s THEN Or(s) ELSE And(s)

Outcome(i) == IF op[i].name = "CZReset" THEN OfCZ(rcs[i]) ELSE Or(rcs[i])

Throws(i) ==
    CASE op[i].name = "read" -> Or(rcs[i]) \ (IF ignoreQ[i] THEN {"NOT_Q"} ELSE {}) # {}
      [] op[i].name \in {"reset", "LeCroy2249"} -> Or(rcs[i]) # {"NOT_Q"}
      [] op[i].name = "checkLAM" -> Or(rcs[i]) \ {"NOT_Q"} # {}

Succeeds(i) == IF class[i] = "LeCroy2249" THEN ~Throws(i) ELSE ~IsError(Outcome(i))

(* Two words make a double word: the odd channel's is the high one.        *)
Made(i) == LET of(r) == (CHOOSE n \in DOMAIN data[i] : data[i][n].channel % 2 = r)
           IN  data[i][of(1)].value * Words + data[i][of(0)].value

Returned(i) == op[i] # None /\ todo[i] = <<>>

Return(i) ==
    /\ Returned(i)
    /\ due' = IF op[i].name = "Read2clear" /\ Succeeds(i)
              THEN [due EXCEPT ![i][op[i].channel] = @ - Made(i)] ELSE due
    /\ op' = [op EXCEPT ![i] = None]
    /\ rcs' = [rcs EXCEPT ![i] = {}]
    /\ data' = [data EXCEPT ![i] = <<>>]
    /\ since' = [since EXCEPT ![i] = 0]
    /\ wiped' = [wiped EXCEPT ![i] = FALSE]
    /\ overlapped' = [overlapped EXCEPT ![i] = FALSE]
    /\ UNCHANGED <<class, module, list, ignoreQ, told, todo, made, spoiled>>

Next == \E i \in Instances :
    \/ Call(i) \/ IgnoreQ(i)
    \/ Pulse(i) \/ Gate(i)
    \/ Transferred(i) \/ Faulted(i) \/ CrateReset(i) \/ Copy(i)
    \/ Return(i)

Spec == Init /\ [][Next]_vars
-----------------------------------------------------------------------------
Data == [of : Instances \cup {Nobody}, channel : Channels, value : Nat]

(* Every variable has its type.                                            *)
TypeOK ==
    /\ counted \in [Instances -> [Channels -> 0..(Words - 1)]]
    /\ event \in [Instances -> 0..MaxEvents]
    /\ fresh \in [Instances -> SUBSET Channels]
    /\ lam \in [Instances -> BOOLEAN]
    /\ \A i \in Instances : data[i] \in Seq(Data) /\ Len(data[i]) <= nChannels
    /\ \A i \in Instances : rcs[i] \subseteq Result
    /\ \A i \in Instances : op[i].channel \in Channels

(* Read2clear loses no pulse and reports none twice: what has been counted *)
(* and not reported is in the counter, unless a carry came between its     *)
(* accesses, or a fault.                                                   *)
CountsAreKept ==
    \A i \in Counters : op[i] = None /\ ~spoiled[i] =>
        \A p \in Pairs : due[i][p] = Value(counted[i], p)

(* The double word that Read2 answers, while pulses are counted between    *)
(* its two accesses, never exceeds the count, and falls short of what it   *)
(* was at the call by less than a low word, unless C or Z came meanwhile.  *)
ReadIsClose ==
    \A i \in Counters : Returned(i) /\ op[i].name = "Read2" /\ Succeeds(i) /\ ~wiped[i] =>
        /\ Made(i) <= Value(counted[i], op[i].channel)
        /\ since[i] - Words < Made(i)

(* The channels whose words an answer has to bring.  QDC_C0312 passes less *)
(* of its lists than their names say.                                      *)
Meant(i) == IF class[i] = "QDC_C0312" /\ InList(i) THEN 1..PointerEntries ELSE DOMAIN data[i]

(* What a converter's driver answers without an error was measured by this *)
(* module, in this channel, for an event no older than the call, though    *)
(* the list it came by belongs to the class, unless two instances used the *)
(* list at once, or the Q of a LeCroy 2249 was ignored.                    *)
DataIsMine ==
    \A i \in Instances \ Counters :
        Returned(i) /\ Succeeds(i) /\ ~overlapped[i]
            /\ (class[i] = "LeCroy2249" => told[i] /\ ~ignoreQ[i]) =>
        \A n \in Meant(i) :
            /\ data[i][n].of = i
            /\ data[i][n].channel = (IF InList(i) THEN n - 1 ELSE op[i].channel) \/ op[i].name = "Test"
            /\ data[i][n].value \in since[i]..event[i] \ {0}

(* A CZReset that is answered without an error has brought a C or a Z into *)
(* the crate and left nothing to read and no LAM in its module, unless an  *)
(* event came after the call.  Not so with TDC_C0301, which answers the    *)
(* same whether it has been reset or not.                                  *)
ResetIsReal ==
    \A i \in Instances \ MaybeDeaf :
        Returned(i) /\ op[i].name = "CZReset" /\ Succeeds(i) =>
            /\ wiped[i]
            /\ event[i] = since[i] => fresh[i] = {} /\ ~lam[i]
=============================================================================
