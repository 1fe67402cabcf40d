------------------------------- MODULE Adc333 -------------------------------
(***************************************************************************)
(* The driver of the ADC333 (dfmodule/ADC333.cpp): a module with a memory  *)
(* that it fills sample by sample, scanning the enabled channels.  The     *)
(* caller sets the channels, starts a run, and reads channel by channel    *)
(* out of a buffer that the first Read after a start fills.                *)
(*                                                                         *)
(* An operation is the sequence of its accesses to the module; between two *)
(* of them the module goes on sampling, and each of them may fail, which   *)
(* throws and ends the operation where it is.                              *)
(***************************************************************************)
EXTENDS Integers, SequencesExt

CONSTANTS ChanCount,  \* CHAN_COUNT
          Size,       \* words of the memory: START_ADDRESS + 1, 65536 there
          Settings    \* arguments of EnableChannels: 0, or 1 + a gain mode

ASSUME AdcAssumption ==
    /\ ChanCount \in Nat \ {0} /\ Size \in Nat /\ Size > 1
    /\ Settings \subseteq [0..(ChanCount - 1) -> Nat]

Channels == 0..(ChanCount - 1)
StartAddress == Size - 1

Enabled(s) == {c \in Channels : s[c] > 0}
Gain(s) == [c \in Channels |-> IF s[c] > 0 THEN s[c] - 1 ELSE 0]
AllOff == [c \in Channels |-> 0]

(* The parameters: what GetStatus, GetLimits and SetStatus, SetLimits pass *)
(* between the driver and the module.                                      *)
Parameters(on, gain, cycling, numbers) ==
    [on |-> on, gain |-> gain, cycling |-> cycling, numbers |-> numbers]

VARIABLES params,   \* _parameters
          buffer,   \* _buffer
          module,   \* the parameters in the module
          halt, busy, overfill,  \* bits of its status
          lam,
          address,  \* its register 8, counting down
          memory,
          turn,     \* how many samples of the scan have been taken
          op,       \* the operation, or "none"
          todo,     \* its accesses that are left
          channel,  \* Read's argument
          status, stop_position, count,  \* locals of Readout
          result,   \* how the operation ended
          data,     \* what Read has put out
          taken,    \* history: the run's samples, until it has gone round the memory,
          retuned,  \* EnableChannels was called since the readout,
          torn,     \* a readout or a start has failed on the way,
          early     \* a run began while a start was still preparing it

locals == <<channel, status, stop_position, count>>
device == <<module, halt, busy, overfill, lam, address, memory, turn, taken>>
histories == <<retuned, torn, early>>
vars == <<params, buffer, device, op, todo, locals, result, data, histories>>

(* Words of the memory: a sample remembers, beyond the code's channel      *)
(* number and overload bit, the gain it was taken with.  What an earlier   *)
(* run has left is Blank: nobody may take it for a sample.                 *)
Blank == [number |-> 0, over |-> FALSE, gain |-> 0, of |-> 0]
Fresh == [a \in 0..StartAddress |-> Blank]
Sample(n, o, g, c) == [number |-> n, over |-> o, gain |-> g, of |-> c]

Init ==
    /\ params = Parameters({}, AllOff, FALSE, TRUE)
    /\ buffer = <<>>
    /\ module = Parameters({}, AllOff, FALSE, FALSE)
    /\ halt = FALSE /\ busy = FALSE /\ overfill = FALSE /\ lam = FALSE
    /\ address = StartAddress
    /\ memory = Fresh
    /\ turn = 0 /\ taken = <<>>
    /\ op = "none" /\ todo = <<>>
    /\ channel = 0 /\ status = [cycling |-> FALSE, overfill |-> FALSE]
    /\ stop_position = 0 /\ count = 0
    /\ result = "none" /\ data = <<>>
    /\ retuned = FALSE /\ torn = FALSE /\ early = FALSE
-----------------------------------------------------------------------------
(* The operations.  A definition whose name ends in _ is not the code's:   *)
(* it is the mistake a property below would catch.                         *)
Halt == <<"readStatus", "writeHalt">>
UnHalt == <<"readStatus", "writeUnHalt">>

Kept_ == Halt \o <<"writeLimits", "writeStatus", "writeStart", "checkStart", "clearLAM",
                   "unblockLAM">>
Uncleared_ == Halt \o <<"writeLimits", "writeStatus", "writeStart", "checkStart", "unblockLAM",
                        "clear">>
Reset == Halt \o <<"writeLimits", "writeStatus", "writeStart", "checkStart", "clearLAM",
                   "unblockLAM", "clear">>

StartSingleRun == Reset \o UnHalt
StartCycle == Reset \o UnHalt \o <<"trigger">>

Running_ == <<"getStatus", "readParameters", "readLimits", "position", "rewind", "fetch", "verify">>
Readout == Halt \o <<"getStatus", "readParameters", "readLimits", "position", "rewind", "fetch",
                     "verify">>

Program(o) ==
    CASE o = "StartCycle" -> StartCycle
      [] o = "StartSingleRun" -> StartSingleRun
      [] o = "Stop" -> Halt
      [] o = "Trigger" -> <<"trigger">>
      [] o = "Read" -> (IF buffer = <<>> THEN Readout ELSE <<>>) \o <<"decode">>

Starts == {"StartCycle", "StartSingleRun"}
Operations == Starts \cup {"Stop", "Trigger", "Read"}

(* A start sets the mode first; writeChannelNumbers goes up in Reset.      *)
Call(o, c) ==
    /\ op = "none"
    /\ op' = o /\ todo' = Program(o) /\ channel' = c
    /\ params' = IF o \in Starts
                 THEN [params EXCEPT !.cycling = (o = "StartCycle"), !.numbers = TRUE]
                 ELSE params
    /\ early' = (early /\ o \notin Starts)
    /\ UNCHANGED <<buffer, device, status, stop_position, count, result, data, retuned, torn>>

EnableChannels(s) ==
    /\ op = "none"
    /\ params' = [params EXCEPT !.on = Enabled(s), !.gain = Gain(s)]
    /\ retuned' = (retuned \/ buffer # <<>>)
    /\ UNCHANGED <<buffer, device, op, todo, locals, result, data, torn, early>>

Done ==
    /\ op # "none" /\ todo = <<>>
    /\ op' = "none" /\ channel' = 0 /\ result' = "none" /\ data' = <<>>
    /\ status' = [cycling |-> FALSE, overfill |-> FALSE]
    /\ stop_position' = 0 /\ count' = 0
    /\ UNCHANGED <<params, buffer, device, todo, histories>>
-----------------------------------------------------------------------------
(* The module.  A start, by the hardware's signal or by Trigger, is heeded *)
(* unless it is halted, running, or full in a single run.                  *)
Before(s) == s \in Range(todo)
Preparing == Before("clearLAM") /\ ~Before("writeStatus") /\ ~Before("writeLimits")

Full == ~module.cycling /\ address = 0

IsReady == ~halt /\ ~busy /\ ~Full /\ module.on # {}
Runs == /\ IsReady
        /\ busy' = TRUE /\ turn' = 0
        /\ early' = (early \/ Preparing)

HardwareStart ==
    /\ Runs
    /\ UNCHANGED <<params, buffer, module, halt, overfill, lam, address, memory, taken,
                   op, todo, locals, result, data, retuned, torn>>

Below(a) == IF a = 0 THEN StartAddress ELSE a - 1

(* Bounds: one sample of a run is overloaded at most; the samples of a run *)
(* are followed while a property speaks of them; and after a failure       *)
(* nothing fails again until a start has got through.                      *)
MayOverload == \A a \in DOMAIN memory : ~memory[a].over
Followed == ~torn /\ ~early
MayFail == ~torn

(* The scan goes through the enabled channels in the order of their        *)
(* numbers: how many of them come before a channel, and the one before     *)
(* which there are k.                                                      *)
Rank(on, c) == Cardinality({d \in on : d < c})
Scanned(on, k) == CHOOSE c \in on : Rank(on, c) = k

(* A sample is taken; a single run ends with the memory, and the LAM.      *)
Take ==
    /\ busy /\ Followed
    /\ overfill' = (overfill \/ address = 0)
    /\ LET c == Scanned(module.on, turn)
       IN  \E o \in {FALSE, MayOverload} :
              LET w == Sample(IF module.numbers THEN c ELSE 0, o, module.gain[c], c)
              IN  /\ memory' = [memory EXCEPT ![address] = w]
                  /\ taken' = IF overfill' THEN <<>> ELSE Append(taken, w)
    /\ address' = Below(address)
    /\ turn' = (turn + 1) % Cardinality(module.on)
    /\ busy' = (module.cycling \/ address' # 0)
    /\ lam' = (lam \/ ~busy')
    /\ UNCHANGED <<params, buffer, module, halt, op, todo, locals, result, data, histories>>
-----------------------------------------------------------------------------
(* The accesses.                                                           *)
Now(s) == todo # <<>> /\ Head(todo) = s
Then == todo' = Tail(todo)

(* handleCamacCode throws; a write may have been done all the same, and a  *)
(* word of the memory may be gone.  NOT_Q is no failure.                   *)
Throw(r) ==
    /\ todo' = <<>> /\ result' = r
    /\ torn' = (torn \/ op \in Starts \cup {"Read"})
    /\ UNCHANGED <<params, buffer, op, locals, data, retuned, early>>

Fails ==
    /\ todo # <<>> /\ Head(todo) \notin {"clear", "decode"}
    /\ MayFail
    /\ Throw("CamacError")
    /\ address' \in IF Now("fetch") THEN {address, Below(address)} ELSE {address}
    /\ UNCHANGED <<module, halt, busy, overfill, lam, memory, turn, taken>>

(* What a write does to the module.                                        *)
Setting(h) == halt' = h /\ busy' = (busy /\ ~h)

Written ==
    \/ /\ Now("writeHalt") /\ Setting(TRUE)
       /\ UNCHANGED <<module, overfill, lam, address, memory, turn, taken, early>>
    \/ /\ Now("writeUnHalt") /\ Setting(FALSE)
       /\ UNCHANGED <<module, overfill, lam, address, memory, turn, taken, early>>
    \/ /\ Now("writeLimits")
       /\ module' = [module EXCEPT !.gain = params.gain]
       /\ UNCHANGED <<halt, busy, overfill, lam, address, memory, turn, taken, early>>
    \/ /\ Now("writeStatus") /\ Setting(FALSE)
       /\ module' = [params EXCEPT !.gain = module.gain]
       /\ UNCHANGED <<overfill, lam, address, memory, turn, taken, early>>
    \/ /\ Now("writeStart")
       /\ address' = StartAddress /\ overfill' = FALSE
       /\ memory' = Fresh /\ taken' = <<>>
       /\ UNCHANGED <<module, halt, busy, lam, turn, early>>
    \/ /\ Now("clearLAM")
       /\ lam' = FALSE
       /\ UNCHANGED <<module, halt, busy, overfill, address, memory, turn, taken, early>>
    \/ /\ Now("trigger")
       /\ Runs \/ (~IsReady /\ UNCHANGED <<busy, turn, early>>)
       /\ UNCHANGED <<module, halt, overfill, lam, address, memory, taken>>

Writes ==
    /\ Written
    /\ \/ Then /\ UNCHANGED <<result, torn>>
       \/ /\ MayFail
          /\ todo' = <<>> /\ result' = "CamacError"
          /\ torn' = (torn \/ op \in Starts \cup {"Read"})
    /\ UNCHANGED <<params, buffer, op, locals, data, retuned>>

(* Reads that are looked at for nothing but their failure: the status that *)
(* Halt and UnHalt write back, and unblockLAM.                             *)
Passes ==
    /\ Now("readStatus") \/ Now("readParameters") \/ Now("unblockLAM")
    /\ Then
    /\ UNCHANGED <<params, buffer, device, op, locals, result, data, histories>>

CheckStart ==
    /\ Now("checkStart")
    /\ UNCHANGED device
    /\ \/ /\ address = StartAddress /\ Then
          /\ UNCHANGED <<params, buffer, op, locals, result, data, histories>>
       \/ address # StartAddress /\ Throw("VERIFICATION_ERROR")

(* The end of Reset.                                                       *)
Clear ==
    /\ Now("clear") /\ Then
    /\ buffer' = <<>>
    /\ retuned' = FALSE /\ torn' = FALSE
    /\ UNCHANGED <<params, device, op, locals, result, data, early>>
-----------------------------------------------------------------------------
(* Readout.                                                                *)
GetStatus ==
    /\ Now("getStatus") /\ Then
    /\ status' = [cycling |-> module.cycling, overfill |-> overfill]
    /\ UNCHANGED <<params, buffer, device, op, channel, stop_position, count, result, data,
                   histories>>

(* ReadParameters: the module's parameters replace the caller's.           *)
ReadLimits ==
    /\ Now("readLimits") /\ Then
    /\ params' = module
    /\ retuned' = FALSE
    /\ UNCHANGED <<buffer, device, op, locals, result, data, torn, early>>

Position ==
    /\ Now("position") /\ Then
    /\ stop_position' = address
    /\ UNCHANGED <<params, buffer, device, op, channel, status, count, result, data, histories>>

(* A memory that has been filled over is read from where it stands.        *)
IsRound(s) == s.cycling /\ s.overfill
Rewind ==
    /\ Now("rewind") /\ Then
    /\ IF IsRound(status)
       THEN count' = StartAddress + 1 /\ UNCHANGED address
       ELSE count' = StartAddress - stop_position /\ address' = StartAddress
    /\ buffer' = <<>>
    /\ UNCHANGED <<params, module, halt, busy, overfill, lam, memory, turn, taken,
                   op, channel, status, stop_position, result, data, histories>>

Fetch ==
    /\ Now("fetch")
    /\ IF Len(buffer) < count
       THEN /\ buffer' = Append(buffer, memory[address])
            /\ address' = Below(address)
            /\ UNCHANGED todo
       ELSE Then /\ UNCHANGED <<buffer, address>>
    /\ UNCHANGED <<params, module, halt, busy, overfill, lam, memory, turn, taken,
                   op, locals, result, data, histories>>

(* assert(stop_position == stop_position_verify)                           *)
Verify ==
    /\ Now("verify") /\ Then
    /\ UNCHANGED <<params, buffer, device, op, locals, result, data, histories>>

(* Read's choice of the words, and what it makes of them.  An overloaded   *)
(* sample is put out without a look at its channel number.                 *)
ChanCounted == Cardinality(params.on)
ChanIdx == IF channel \in params.on THEN Rank(params.on, channel) ELSE ChanCount

(* for (i = chanIdx; i < _buffer.size(); i += chanCount)                   *)
Turns == IF Len(buffer) <= ChanIdx THEN 0
         ELSE 1 + (Len(buffer) - 1 - ChanIdx) \div ChanCounted
Chosen == [n \in 1..Turns |-> buffer[1 + ChanIdx + (n - 1) * ChanCounted]]

Unchecked_(w) == FALSE
IsForeign(w) == ~w.over /\ params.numbers /\ w.number # channel

Decode ==
    /\ Now("decode") /\ Then
    /\ LET wrong == \E i \in DOMAIN Chosen : IsForeign(Chosen[i])
       IN  CASE channel \in Channels \ params.on -> result' = "INVALID_ARG" /\ data' = <<>>
             [] channel \notin Channels /\ params.on = {} -> result' = "SIGFPE" /\ data' = <<>>
             [] params.on # {} /\ channel \notin Channels \ params.on ->
                   IF wrong THEN result' = "VERIFICATION_ERROR" /\ data' = <<>>
                   ELSE result' = "none" /\ data' = Chosen
    /\ UNCHANGED <<params, buffer, device, op, locals, histories>>

Access == \/ Fails \/ Writes \/ Passes \/ CheckStart \/ Clear \/ GetStatus \/ ReadLimits
          \/ Position \/ Rewind \/ Fetch \/ Verify \/ Decode

Next ==
    \/ \E o \in Operations \ {"Read"} : Call(o, 0)
    \/ \E c \in Channels \cup {ChanCount} : Call("Read", c)
    \/ \E s \in Settings : EnableChannels(s)
    \/ Access
    \/ Done
    \/ HardwareStart
    \/ Take

Spec == Init /\ [][Next]_vars
-----------------------------------------------------------------------------
Samples == [number : Channels, over : BOOLEAN, gain : Nat, of : Channels]
Words == [on : SUBSET Channels, gain : {Gain(s) : s \in Settings} \cup {AllOff},
          cycling : BOOLEAN, numbers : BOOLEAN]

(* Every variable has its type.                                            *)
TypeOK ==
    /\ params \in Words
    /\ buffer \in Seq(Samples) /\ Len(buffer) <= Size
    /\ memory \in [0..StartAddress -> Samples]
    /\ address \in 0..StartAddress /\ stop_position \in 0..StartAddress /\ count \in 0..Size
    /\ turn \in 0..(ChanCount - 1)
    /\ channel \in 0..ChanCount
    /\ result \in {"none", "CamacError", "VERIFICATION_ERROR", "INVALID_ARG", "SIGFPE"}

HasRead == op = "Read" /\ todo = <<>> /\ result = "none"
Undisturbed == ~torn /\ ~early /\ ~retuned

(* What Read puts out was measured on the channel asked for, and with the  *)
(* gain it is divided by, in whatever order the caller has set channels,   *)
(* started and read.  Only an overload of a run that went round the memory *)
(* may be of another channel: its number is not looked at.  Asked for a    *)
(* channel that is beyond the last, Read may even answer with an overload: *)
(* ChanIdx is CHAN_COUNT then, and the words are counted from there on.    *)
ReadIsRight ==
    HasRead /\ Undisturbed /\ channel \in Channels =>
        \A i \in DOMAIN data :
            IF data[i].over THEN overfill \/ data[i].of = channel
            ELSE data[i].of = channel /\ data[i].gain = params.gain[channel]

(* Read puts out every sample of the channel since the last start, and     *)
(* none of an earlier run.                                                 *)
ReadIsWhole ==
    HasRead /\ Undisturbed /\ ~overfill /\ channel \in Channels =>
        LET due == {i \in DOMAIN taken : taken[i].of = channel}
        IN  /\ Len(data) = Cardinality(due)
            /\ \A i \in due : data[Cardinality({j \in due : j <= i})] = taken[i]

(* The LAM tells that a single run has filled the memory, and never that   *)
(* an earlier one has, unless the run was on before the start had cleared  *)
(* the LAM.                                                                *)
LamTellsEnd ==
    op = "none" /\ ~early /\ ~torn /\ ~module.cycling => (lam <=> Len(taken) = StartAddress)
=============================================================================
