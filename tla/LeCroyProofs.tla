---------------------------- MODULE LeCroyProofs ----------------------------
(***************************************************************************)
(* Proofs about LeCroyHV, for every set of operations, every number of     *)
(* rounds, polls and channels, and whatever the mainframe answers.         *)
(***************************************************************************)
EXTENDS LeCroyHV, SequenceTheorems, TLAPS

(* The types the arguments below need; rc holds what AF reports only.      *)
TypeInv ==
    /\ lam1 \in BOOLEAN /\ alarmed \in BOOLEAN /\ failed \in BOOLEAN
    /\ polled \subseteq {"through", "failed"}
    /\ pc \in PC /\ op \in AllOps
    /\ rc \subseteq {"NOT_Q", "DATA_XFER_ERROR"}
    /\ count \in Nat

(* What another round, or the end of the last, does with pc and ret.       *)
LEMMA NextRound ==
    ASSUME NEW f \in BOOLEAN, Again(f)
    PROVE  \/ pc' = "clear" /\ UNCHANGED ret
           \/ pc' = "returned" /\ ret' \in {rc', {}, FailedTrans}
  BY DEF Again, EnterRound, Finish, Return

(* The answers the driver makes up itself differ from each other.          *)
LEMMA OwnAnswers ==
    /\ AlarmLAM1 # {} /\ FailedTrans # {} /\ AnyOtherErr # {} /\ {"INVALID_ARG"} # {}
    /\ AlarmLAM1 \notin {{}, FailedTrans, AnyOtherErr, {"INVALID_ARG"}}
    /\ \A r : r \subseteq {"NOT_Q", "DATA_XFER_ERROR"} => r # AlarmLAM1
  BY DEF AlarmLAM1, FailedTrans, AnyOtherErr
-----------------------------------------------------------------------------
(* The types hold at the start ...                                         *)
LEMMA TypeInvInit == Init => TypeInv
  <1>1. Ops \subseteq AllOps
    BY HVAssumption
  <1> SUFFICES ASSUME Init PROVE TypeInv
    OBVIOUS
  <1>2. op \in AllOps /\ pc \in PC
    BY <1>1 DEF Init, PC
  <1>3. count \in Nat
    BY DEF Init
  <1>4. QED
    BY <1>2, <1>3 DEF Init, TypeInv

(* ... and are kept.                                                       *)
LEMMA TypeInvStep == TypeInv /\ [Next]_vars => TypeInv'
  <1> SUFFICES ASSUME TypeInv, [Next]_vars PROVE TypeInv'
    OBVIOUS
  <1> USE DEF TypeInv, PC
  <1>1. CASE Alarm \/ Arrive \/ Test
    BY <1>1 DEF Alarm, Arrive, Test, locals, history, device
  <1>2. ASSUME NEW o \in Ops, Begin(o) PROVE TypeInv'
    <2>1. Ops \subseteq AllOps
      BY HVAssumption
    <2>2. QED
      BY <1>2, <2>1 DEF Begin, Return, device
  <1>3. CASE Before
    BY <1>3 DEF Before, Reports, Hard, Fault, Return, device
  <1>4. CASE ClearInBuff
    BY <1>4, NextRound DEF ClearInBuff, Reports, Hard, Fault, Masked, Checked
  <1>5. CASE ClearLAM2
    BY <1>5, NextRound DEF ClearLAM2, Reports, Hard, Fault, Masked, Checked
  <1>6. CASE Command
    BY <1>6, NextRound DEF Command, Reports, Hard, Fault, Return
  <1>7. CASE DataWord
    BY <1>7, NextRound DEF DataWord, Reports, Hard, Fault
  <1>8. CASE Poll
    BY <1>8 DEF Poll, Hard, device
  <1>9. CASE Heard
    BY <1>9, NextRound DEF Heard, Return, device, history
  <1>10. CASE ReadWord
    <2>1. UNCHANGED <<lam1, alarmed, polled, failed, op>>
      BY <1>10 DEF ReadWord, history
    <2>2. count' = count + 1 \/ UNCHANGED count
      BY <1>10, Zenon DEF ReadWord
    <2>3. rc' \subseteq {"NOT_Q", "DATA_XFER_ERROR"}
      BY <1>10 DEF ReadWord, Inner
    <2>4. pc' \in PC
      BY <1>10, NextRound DEF ReadWord, LastWord, Take, Finish, Return
    <2>5. QED
      BY <2>1, <2>2, <2>3, <2>4
  <1>11. CASE ReadNothing
    BY <1>11, NextRound DEF ReadNothing, Hard, Fault, Inner, LastWord, Take, Finish, Return
  <1>12. CASE Done
    BY <1>12 DEF Done
  <1>13. CASE UNCHANGED vars
    BY <1>13 DEF vars, device, locals, history
  <1>14. QED
    BY <1>1, <1>2, <1>3, <1>4, <1>5, <1>6, <1>7, <1>8, <1>9, <1>10, <1>11, <1>12, <1>13
       DEF Next, Driver
-----------------------------------------------------------------------------
(* An alarm stays up while an operation is under way.  The poll that gets  *)
(* through sees it, and what the driver makes of it is no CC_OK.           *)
KeptInv ==
    /\ pc = "idle" => ~alarmed /\ polled = {}
    /\ alarmed => lam1
    /\ alarmed /\ "through" \in polled => \/ pc = "lam" /\ type = 1
                                          \/ pc = "returned" /\ ret # {}

(* type_lam says alarm only of one that is up, unless the poll failed.     *)
RealInv ==
    /\ pc = "lam" /\ type = 1 => lam1 \/ "failed" \in polled
    /\ pc = "returned" /\ ret = AlarmLAM1 => lam1 \/ "failed" \in polled

(* Steps that stay clear of the interface's LAM1 and of polls.             *)
LEMMA QuietStep ==
    ASSUME TypeInv, KeptInv, RealInv, UNCHANGED <<lam1, alarmed, polled>>,
           pc \notin {"idle", "lam", "returned"}, pc' \notin {"idle", "lam"},
           pc' = "returned" => ret' # AlarmLAM1
    PROVE  KeptInv' /\ RealInv'
  BY DEF TypeInv, KeptInv, RealInv

(* An error on its way out is not the alarm.                               *)
LEMMA OtherAnswers ==
    ASSUME TypeInv', NEW r \in {rc', {}, FailedTrans, AnyOtherErr, {"INVALID_ARG"}}
    PROVE  r # AlarmLAM1
  BY OwnAnswers DEF TypeInv

(* Every step keeps what is said of alarms.                                *)
LEMMA AlarmInvStep ==
    ASSUME TypeInv, TypeInv', KeptInv, RealInv, [Next]_vars
    PROVE  KeptInv' /\ RealInv'
  <1> USE DEF TypeInv
  <1>1. CASE Alarm \/ Arrive
    BY <1>1 DEF Alarm, Arrive, locals, history, KeptInv, RealInv
  <1>2. CASE Test
    BY <1>2 DEF Test, locals, history, KeptInv, RealInv
  <1>3. ASSUME NEW o \in Ops, Begin(o) PROVE KeptInv' /\ RealInv'
    BY <1>3, OtherAnswers DEF Begin, Return, device, KeptInv, RealInv
  <1>4. CASE Before
    BY <1>4, QuietStep, OtherAnswers DEF Before, Fault, Return, device
  <1>5. CASE ClearInBuff
    BY <1>5, QuietStep, OtherAnswers, NextRound DEF ClearInBuff, Fault, Checked
  <1>6. CASE ClearLAM2
    BY <1>6, QuietStep, OtherAnswers, NextRound DEF ClearLAM2, Fault, Checked
  <1>7. CASE Command
    BY <1>7, QuietStep, OtherAnswers, NextRound DEF Command, Fault, Return
  <1>8. CASE DataWord
    BY <1>8, QuietStep, OtherAnswers, NextRound DEF DataWord, Fault
  <1>9. CASE Poll
    <2>1. pc = "poll" /\ pc' \in {"poll", "lam"} /\ UNCHANGED <<lam1, alarmed>>
      BY <1>9 DEF Poll, device
    <2>2. ~(alarmed /\ "through" \in polled) /\ (alarmed => lam1)
      BY <2>1 DEF KeptInv
    <2>3. \/ polled' = polled \cup {"failed"}
          \/ /\ polled' = polled \cup {"through"}
             /\ lam1 => pc' = "lam" /\ type' = 1
             /\ pc' = "lam" /\ type' = 1 => lam1
      BY <1>9 DEF Poll, LAM
    <2>4. KeptInv'
      BY <2>1, <2>2, <2>3 DEF KeptInv
    <2>5. RealInv'
      BY <2>1, <2>3 DEF RealInv
    <2>6. QED
      BY <2>4, <2>5
  <1>10. CASE Heard
    <2>1. pc = "lam" /\ UNCHANGED <<lam1, alarmed, polled, failed, rc>>
      BY <1>10 DEF Heard, device, history
    <2>2. CASE type = 1
      <3>1. pc' = "returned" /\ (ret' = AlarmLAM1 \/ (ret' = rc /\ IsError(rc)))
        <4>1. CASE ~How(op).deaf /\ IsError(rc)
          BY <1>10, <2>2, <4>1, Zenon DEF Heard, Return
        <4>2. CASE How(op).deaf \/ ~IsError(rc)
          <5>1. type # 2
            BY <2>2
          <5>2. Return(AlarmLAM1)
            BY <1>10, <2>2, <4>2, <5>1, Zenon DEF Heard
          <5>3. QED
            BY <5>2 DEF Return
        <4>3. QED
          BY <4>1, <4>2
      <3>2. ret' # {}
        BY <3>1, OwnAnswers DEF IsError
      <3>3. QED
        BY <2>1, <2>2, <3>1, <3>2 DEF KeptInv, RealInv
    <2>3. CASE type # 1
      <3>1. ~(alarmed /\ "through" \in polled)
        BY <2>1, <2>3 DEF KeptInv
      <3>2. /\ pc' \in {"returned", "read", "clear"}
            /\ pc' = "returned" => ret' \in {rc', {}, FailedTrans, AnyOtherErr}
        BY <1>10, <2>3, NextRound DEF Heard, Return
      <3>3. QED
        BY <2>1, <3>1, <3>2, OtherAnswers DEF KeptInv, RealInv
    <2>4. QED
      BY <2>2, <2>3
  <1>11. CASE ReadWord
    BY <1>11, QuietStep, OtherAnswers, NextRound
       DEF ReadWord, LastWord, Take, Finish, Return, history
  <1>12. CASE ReadNothing
    BY <1>12, QuietStep, OtherAnswers, NextRound
       DEF ReadNothing, Fault, LastWord, Take, Finish, Return
  <1>13. CASE Done
    BY <1>13 DEF Done, KeptInv, RealInv
  <1>14. CASE UNCHANGED vars
    BY <1>14 DEF vars, device, locals, history, KeptInv, RealInv
  <1>15. QED
    BY <1>1, <1>2, <1>3, <1>4, <1>5, <1>6, <1>7, <1>8, <1>9, <1>10, <1>11, <1>12, <1>13, <1>14
       DEF Next, Driver
-----------------------------------------------------------------------------
(* The line between interface and mainframe carries words with tags.       *)
MessageInv == buffer \in Seq(Words) /\ pending \in Seq(Seq(Words))

(* A function on 1..n is a sequence.                                       *)
LEMMA FunctionIsSeq ==
    ASSUME NEW S, NEW n \in Nat, NEW f \in [1..n -> S] PROVE f \in Seq(S)
  BY SeqDef

(* The decisions of every operation, as far as the messages need them.     *)
LEMMA Replies == ASSUME NEW o \in AllOps PROVE How(o).reply \in Seq(Tags)
  <1>1. \A t \in Tags : Times(Channels, t) \in Seq(Tags)
    BY HVAssumption, FunctionIsSeq DEF Times
  <1>2. \A t, u \in Tags : <<t>> \in Seq(Tags) /\ <<t, u>> \in Seq(Tags)
    OBVIOUS
  <1>3. {"finished", "set", "true", "onoff", "status"} \subseteq Tags
    BY DEF Tags
  <1>4. SetVoltage.reply = <<"finished">> /\ SetAllVoltage.reply = <<"finished">>
    BY DEF SetVoltage, SetAllVoltage
  <1>5. GetVoltage.reply = <<"set">> /\ GetAllVoltage.reply = Times(Channels, "set")
    BY DEF GetVoltage, GetAllVoltage
  <1>6. /\ GetTrueVoltage.reply = <<"true">>
        /\ GetTrueAllVoltage.reply = Times(Channels, "true")
    BY DEF GetTrueVoltage, GetTrueAllVoltage
  <1>7. TurnOnOff.reply = <<"onoff">> /\ CheckTurnOn.reply = <<"onoff", "status">>
    BY DEF GetTrueVoltage, TurnOnOff, CheckTurnOn
  <1>8. QED
    BY <1>1, <1>2, <1>3, <1>4, <1>5, <1>6, <1>7 DEF How, AllOps

(* An answer is a sequence of words.                                       *)
LEMMA Sent == ASSUME NEW s \in Seq(Tags) PROVE [i \in DOMAIN s |-> Word(s[i])] \in Seq(Words)
  <1>1. DOMAIN s = 1..Len(s) /\ Len(s) \in Nat
    BY LenProperties
  <1>2. [i \in DOMAIN s |-> Word(s[i])] \in [1..Len(s) -> Words]
    BY <1>1, ElementOfSeq DEF Word, Words
  <1>3. QED
    BY <1>1, <1>2, FunctionIsSeq

(* Words that have become an earlier call's are words.                     *)
LEMMA Aged == ASSUME NEW s \in Seq(Words) PROVE Older(s) \in Seq(Words)
  <1>1. DOMAIN s = 1..Len(s) /\ Len(s) \in Nat
    BY LenProperties
  <1>2. \A w \in Words : [w EXCEPT !.mine = FALSE] \in Words
    BY DEF Words
  <1>3. Older(s) \in [1..Len(s) -> Words]
    BY <1>1, <1>2, ElementOfSeq DEF Older
  <1>4. QED
    BY <1>1, <1>3, FunctionIsSeq

(* Sequences without their last, or first, element.                        *)
LEMMA Truncated ==
    ASSUME NEW S, NEW s \in Seq(S)
    PROVE  /\ Short(s) \in Seq(S)
           /\ s # <<>> => Head(s) \in S /\ Tail(s) \in Seq(S)
  <1>1. Len(s) \in Nat
    BY LenProperties
  <1>2. \A i \in 1..(Len(s) - 1) : s[i] \in S
    BY <1>1, ElementOfSeq
  <1>3. Short(s) \in Seq(S)
    BY <1>1, <1>2, SubSeqProperties DEF Short
  <1>4. QED
    BY <1>3, HeadTailProperties

(* What a full buffer holds.                                               *)
LEMMA HeldIsShort == ASSUME NEW s \in Seq(Words) PROVE Held(s) \in Seq(Words)
  <1>1. Len(s) \in Nat /\ MaxBuffer \in Nat
    BY LenProperties, HVAssumption
  <1>2. CASE Len(s) > MaxBuffer
    <2>1. \A i \in 1..MaxBuffer : s[i] \in Words
      BY <1>1, <1>2, ElementOfSeq
    <2>2. QED
      BY <1>1, <1>2, <2>1, SubSeqProperties DEF Held
  <1>3. QED
    BY <1>1, <1>2 DEF Held

(* Whatever the mainframe answers.                                         *)
LEMMA AnsweredIsMessage ==
    ASSUME op \in AllOps, pending \in Seq(Seq(Words)), Answered
    PROVE  pending' \in Seq(Seq(Words))
  <1>1. PICK a \in Answers :
            \/ UNCHANGED pending
            \/ pending' = Append(pending, [i \in DOMAIN a |-> Word(a[i])])
    BY DEF Answered
  <1>2. <<>> \in Seq(Tags) /\ <<"error">> \in Seq(Tags)
    BY DEF Tags
  <1>3. a \in Seq(Tags)
    BY <1>2, Replies, Truncated DEF Answers
  <1>4. [i \in DOMAIN a |-> Word(a[i])] \in Seq(Words)
    BY <1>3, Sent
  <1>5. QED
    BY <1>1, <1>4

(* Every step keeps messages messages.                                     *)
LEMMA MessageInvStep == TypeInv /\ MessageInv /\ [Next]_vars => MessageInv'
  <1> SUFFICES ASSUME TypeInv, MessageInv, [Next]_vars PROVE MessageInv'
    OBVIOUS
  <1> USE DEF MessageInv
  <1>0. op \in AllOps
    BY DEF TypeInv
  <1>1. CASE Alarm \/ Test
    BY <1>1 DEF Alarm, Test
  <1>2. CASE Arrive
    <2>1. Head(pending) \in Seq(Words) /\ Tail(pending) \in Seq(Seq(Words))
      BY <1>2, HeadTailProperties DEF Arrive
    <2>2. buffer \o Head(pending) \in Seq(Words)
      BY <2>1, ConcatProperties
    <2>3. QED
      BY <1>2, <2>1, <2>2, HeldIsShort DEF Arrive
  <1>3. ASSUME NEW o \in Ops, Begin(o) PROVE MessageInv'
    BY <1>3 DEF Begin, device
  <1>4. CASE ClearInBuff
    <2>1. buffer' = <<>> \/ UNCHANGED buffer
      BY <1>4 DEF ClearInBuff, Emptied
    <2>2. <<>> \in Seq(Words)
      OBVIOUS
    <2>3. QED
      BY <1>4, <2>1, <2>2 DEF ClearInBuff
  <1>5. CASE Command
    BY <1>0, <1>5, AnsweredIsMessage DEF Command
  <1>6. CASE DataWord
    BY <1>0, <1>6, AnsweredIsMessage DEF DataWord
  <1>7. CASE ReadWord
    BY <1>7, HeadTailProperties DEF ReadWord
  <1>8. CASE ReadNothing
    BY <1>8, HeadTailProperties DEF ReadNothing
  <1>9. CASE Before \/ ClearLAM2 \/ Poll \/ Heard
    BY <1>9 DEF Before, ClearLAM2, Poll, Heard, device
  <1>10. CASE Done
    <2>1. \A s \in Seq(Words) : Older(s) \in Seq(Words)
      BY Aged
    <2>2. DOMAIN pending = 1..Len(pending) /\ Len(pending) \in Nat
      BY LenProperties
    <2>3. pending' \in [1..Len(pending) -> Seq(Words)]
      BY <1>10, <2>1, <2>2, ElementOfSeq DEF Done
    <2>4. pending' \in Seq(Seq(Words))
      BY <2>2, <2>3, FunctionIsSeq
    <2>5. QED
      BY <1>10, <2>1, <2>4 DEF Done
  <1>11. CASE UNCHANGED vars
    BY <1>11 DEF vars, device
  <1>12. QED
    BY <1>1, <1>2, <1>3, <1>4, <1>5, <1>6, <1>7, <1>8, <1>9, <1>10, <1>11 DEF Next, Driver
-----------------------------------------------------------------------------
(* Rounds and polls keep within their limits.                              *)
CountInv == round \in 0 .. Limit - 1 /\ step \in Nat /\ polls \in 0 .. PollingLimit

(* Another round stays within Limit.                                       *)
LEMMA RoundStep ==
    ASSUME CountInv, NEW f \in BOOLEAN, Again(f) PROVE round' \in 0 .. Limit - 1
  <1>1. Limit \in Nat \ {0}
    BY HVAssumption
  <1>2. \/ UNCHANGED round
        \/ round' = round + 1 /\ round + 1 < Limit
    BY DEF Again, MoreRounds
  <1>3. QED
    BY <1>1, <1>2 DEF CountInv

(* The counters start at zero and stay in range.                           *)
LEMMA CountInvInit == Init => CountInv
  BY HVAssumption DEF Init, CountInv

(* Every step keeps the counters in range.                                 *)
LEMMA CountInvStep == CountInv /\ [Next]_vars => CountInv'
  <1> SUFFICES ASSUME CountInv, [Next]_vars PROVE CountInv'
    OBVIOUS
  <1>a. Limit \in Nat \ {0} /\ PollingLimit \in Nat
    BY HVAssumption
  <1>1. CASE UNCHANGED <<round, step, polls>>
    BY <1>1 DEF CountInv
  <1>2. ASSUME NEW f \in BOOLEAN, Again(f), UNCHANGED <<step, polls>> PROVE CountInv'
    BY <1>2, RoundStep DEF CountInv
  <1>3. CASE Before
    <2>1. (step' = step + 1 \/ step' = 0) /\ UNCHANGED <<round, polls>>
      BY <1>3, Zenon DEF Before
    <2>2. QED
      BY <2>1 DEF CountInv
  <1>4. CASE ClearInBuff \/ ClearLAM2 \/ Command
    BY <1>1, <1>2, <1>4 DEF ClearInBuff, ClearLAM2, Command, Checked
  <1>5. CASE DataWord
    <2>1. (step' = step + 1 \/ step' = 0) /\ UNCHANGED polls
      BY <1>5, Zenon DEF DataWord
    <2>2. round' \in 0 .. Limit - 1
      BY <1>5, RoundStep DEF DataWord, CountInv
    <2>3. QED
      BY <2>1, <2>2 DEF CountInv
  <1>6. CASE Poll
    <2>1. /\ polls' = 0 \/ (polls < PollingLimit /\ polls' = polls + 1) \/ polls' = polls
          /\ UNCHANGED <<round, step>>
      BY <1>6 DEF Poll
    <2>2. QED
      BY <1>a, <2>1 DEF CountInv
  <1>7. CASE Heard
    BY <1>1, <1>2, <1>7 DEF Heard
  <1>8. CASE ReadWord
    BY <1>1, <1>2, <1>8 DEF ReadWord, LastWord, Take
  <1>9. CASE ReadNothing
    BY <1>1, <1>2, <1>9 DEF ReadNothing, LastWord, Take
  <1>10. CASE Done
    <2>1. round' = 0 /\ UNCHANGED <<step, polls>>
      BY <1>10 DEF Done
    <2>2. QED
      BY <1>a, <2>1 DEF CountInv
  <1>11. CASE Alarm \/ Arrive \/ Test \/ UNCHANGED vars
    BY <1>1, <1>11 DEF Alarm, Arrive, Test, vars, locals
  <1>12. ASSUME NEW o \in Ops, Begin(o) PROVE CountInv'
    BY <1>1, <1>12 DEF Begin
  <1>13. QED
    BY <1>3, <1>4, <1>5, <1>6, <1>7, <1>8, <1>9, <1>10, <1>11, <1>12 DEF Next, Driver
-----------------------------------------------------------------------------
(* The rest of the types.                                                  *)
LocalInv ==
    /\ lam2 \in BOOLEAN /\ late \in BOOLEAN
    /\ flag \in BOOLEAN /\ pure \in BOOLEAN
    /\ type \in Types
    /\ taken \in {"none", "mine", "old", "made up"}
    /\ ret \in Result

(* What is answered is a result.                                           *)
LEMMA OwnResults ==
    /\ SUBSET {"NOT_Q", "DATA_XFER_ERROR"} \subseteq Result
    /\ {{}, AlarmLAM1, FailedTrans, AnyOtherErr, {"INVALID_ARG"}} \subseteq Result
  BY DEF AlarmLAM1, FailedTrans, AnyOtherErr, Result, All, Errors, HardErrors, SoftErrors,
         StationAnswer, UserErrors

(* Nothing is answered, taken or heard at first.                           *)
LEMMA LocalInvInit == Init => LocalInv
  <1> SUFFICES ASSUME Init PROVE LocalInv
    OBVIOUS
  <1>1. type \in Types
    BY DEF Init, Types
  <1>2. ret \in Result
    BY OwnResults DEF Init
  <1>3. QED
    BY <1>1, <1>2 DEF Init, LocalInv

(* Another round, or the end of the last, leaves types as they are.        *)
LEMMA AgainTypes ==
    ASSUME TypeInv', LocalInv, NEW f \in BOOLEAN, Again(f)
    PROVE  flag' \in BOOLEAN /\ type' \in Types /\ ret' \in Result
  <1>1. CASE MoreRounds
    BY <1>1 DEF Again, EnterRound, LocalInv
  <1>2. CASE ~MoreRounds
    <2>1. ret' \in {rc', {}, FailedTrans}
      BY <1>2 DEF Again, Finish, Return
    <2>2. ret' \in Result
      BY <2>1, OwnResults DEF TypeInv
    <2>3. QED
      BY <1>2, <2>2 DEF Again, LocalInv
  <1>3. QED
    BY <1>1, <1>2

(* Every step keeps the rest of the types.                                 *)
LEMMA LocalInvStep == TypeInv /\ TypeInv' /\ LocalInv /\ [Next]_vars => LocalInv'
  <1> SUFFICES ASSUME TypeInv, TypeInv', LocalInv, [Next]_vars PROVE LocalInv'
    OBVIOUS
  <1>r. rc' \in Result
    BY OwnResults DEF TypeInv
  <1> USE OwnResults DEF LocalInv
  <1>1. CASE Alarm \/ Arrive
    BY <1>1 DEF Alarm, Arrive, locals
  <1>2. CASE Test
    BY <1>2 DEF Test, locals
  <1>3. ASSUME NEW o \in Ops, Begin(o) PROVE LocalInv'
    BY <1>3 DEF Begin, Return, device
  <1>4. CASE Before
    BY <1>r, <1>4 DEF Before, Return, device
  <1>5. CASE ClearInBuff
    BY <1>5, AgainTypes DEF ClearInBuff, Checked
  <1>6. CASE ClearLAM2
    BY <1>6, AgainTypes DEF ClearLAM2, Checked
  <1>7. CASE Command
    BY <1>r, <1>7, AgainTypes DEF Command, Return
  <1>8. CASE DataWord
    BY <1>8, AgainTypes DEF DataWord
  <1>9. CASE Poll
    <2>1. type' \in Types
      BY <1>9 DEF Poll, LAM, Types
    <2>2. QED
      BY <1>9, <2>1 DEF Poll, device
  <1>10. CASE Heard
    BY <1>r, <1>10, AgainTypes DEF Heard, Return, device, history
  <1>11. CASE ReadWord
    BY <1>r, <1>11, AgainTypes DEF ReadWord, LastWord, Take, Whose, Finish, Return, history
  <1>12. CASE ReadNothing
    BY <1>r, <1>12, AgainTypes DEF ReadNothing, LastWord, Take, Whose, Finish, Return
  <1>13. CASE Done
    <2>1. -1 \in Types
      BY DEF Types
    <2>2. QED
      BY <1>13, <2>1 DEF Done
  <1>14. CASE UNCHANGED vars
    BY <1>14 DEF vars, device, locals, history
  <1>15. QED
    BY <1>1, <1>2, <1>3, <1>4, <1>5, <1>6, <1>7, <1>8, <1>9, <1>10, <1>11, <1>12, <1>13, <1>14
       DEF Next, Driver
-----------------------------------------------------------------------------
(* The two operations that read settings look at every error before they   *)
(* go on, so that a failure on the bus is on its way to the caller at once *)
(* and no later round can forget it.                                       *)
Getters == {"GetVoltage", "GetAllVoltage"}

SettingInv ==
    /\ pc = "idle" => ~failed
    /\ op \in Getters =>
        /\ pc \notin {"before", "words"}
        /\ failed => \/ pc \in {"clearLAM2", "command", "poll", "lam"} /\ IsError(rc)
                     \/ pc = "returned" /\ ret # {}
        /\ op = "GetVoltage" /\ pc = "returned" /\ ret = {} => taken \in {"mine", "old"}
        /\ op = "GetAllVoltage" /\ pc = "returned" /\ ret = {} => taken # "none" \/ count # Size

(* The decisions of the two.                                               *)
LEMMA GetterDecisions ==
    ASSUME NEW o \in Getters
    PROVE  /\ How(o).before = 0 /\ How(o).words = 0 /\ How(o).refused = "poll"
           /\ How(o).silent = "return" /\ How(o).unread = "return"
           /\ ~How(o).gated /\ ~How(o).deaf /\ ~How(o).checked
           /\ o = "GetAllVoltage" => How(o).many
           /\ o = "GetVoltage" => /\ ~How(o).many
                                  /\ How(o).accept = {"set"} /\ How(o).reject = Tags \ {"set"}
  <1>1. CASE o = "GetVoltage"
    BY <1>1 DEF How, GetVoltage
  <1>2. CASE o = "GetAllVoltage"
    <2>1. How(o) = [GetVoltage EXCEPT !.many = TRUE, !.fresh = FALSE,
                                      !.reply = Times(Channels, "set")]
      BY <1>2 DEF How, GetAllVoltage
    <2>2. QED
      BY <1>2, <2>1 DEF GetVoltage
  <1>3. QED
    BY <1>1, <1>2 DEF Getters

(* Who else is under way is not looked at: only Done comes back to "idle". *)
LEMMA IdleStep ==
    ASSUME TypeInv, SettingInv, [Next]_vars, pc' = "idle" PROVE ~failed'
  <1>1. CASE Done
    BY <1>1 DEF Done
  <1>2. CASE Alarm \/ Arrive \/ Test \/ UNCHANGED vars
    BY <1>2 DEF Alarm, Arrive, Test, vars, history, SettingInv
  <1>3. ASSUME NEW o \in Ops, Begin(o) PROVE FALSE
    BY <1>3 DEF Begin, Return
  <1>4. Driver => FALSE
    BY NextRound DEF Driver, Before, ClearInBuff, ClearLAM2, Command, DataWord, Poll, Heard,
       ReadWord, ReadNothing, Checked, LastWord, Take, Finish, Return
  <1>5. QED
    BY <1>1, <1>2, <1>3, <1>4 DEF Next

(* Every step keeps the errors in sight.                                   *)
LEMMA SettingInvStep ==
    ASSUME TypeInv, MessageInv, SettingInv, [Next]_vars PROVE SettingInv'
  <1> USE DEF SettingInv
  <1>0. pc' = "idle" => ~failed'
    BY IdleStep
  <1>1. CASE Alarm \/ Arrive \/ Test
    <2>1. UNCHANGED <<pc, op, failed, rc, ret, taken, count>>
      BY <1>1 DEF Alarm, Arrive, Test, locals, history
    <2>2. QED
      BY <2>1
  <1>2. ASSUME NEW o \in Ops, Begin(o) PROVE SettingInv'
    BY <1>0, <1>2, GetterDecisions DEF Begin, Return, Getters
  <1>3. CASE Done
    BY <1>3 DEF Done
  <1>4. ASSUME Driver, op \notin Getters PROVE SettingInv'
    <2>1. UNCHANGED op
      BY <1>4 DEF Driver, Before, ClearInBuff, ClearLAM2, Command, DataWord, Poll, Heard, ReadWord,
         ReadNothing
    <2>2. QED
      BY <1>0, <1>4, <2>1
  <1>5. ASSUME Driver, op \in Getters PROVE SettingInv'
    <2> USE <1>5, GetterDecisions
    <2>h. IsError(Hard) /\ Hard # {} /\ \A r, q : IsError(r) => IsError(r \cup q)
      BY DEF IsError, Hard, Errors, HardErrors
    <2>n. \A r : IsError(r) => r # {}
      BY DEF IsError
    <2>1. CASE Before \/ DataWord
      BY <2>1 DEF Before, DataWord
    <2>2. CASE ClearInBuff
      BY <1>0, <2>2, <2>h DEF ClearInBuff, Masked, Fault, Checked, Hard
    <2>f. ASSUME NEW r, NEW q, Fault(r), pc \in {"clearLAM2", "command", "poll"},
                 rc' = rc \cup q, r = Hard => q = Hard
          PROVE  failed' => IsError(rc')
      <3>1. failed => IsError(rc)
        BY <2>f
      <3>2. failed' => failed \/ r = Hard
        BY <2>f DEF Fault
      <3>3. IsError(rc) => IsError(rc')
        BY <2>f, <2>h
      <3>4. r = Hard => IsError(rc')
        BY <2>f DEF IsError, Hard, Errors, HardErrors
      <3>5. QED
        BY <3>1, <3>2, <3>3, <3>4
    <2>3. CASE ClearLAM2
      <3>1. PICK r \in Reports : rc' = rc \cup Masked(r) /\ Fault(r)
        BY <2>3 DEF ClearLAM2
      <3>2. r = Hard => Masked(r) = Hard
        BY DEF Masked, Hard
      <3>3. failed' => IsError(rc')
        BY <2>3, <2>f, <3>1, <3>2 DEF ClearLAM2
      <3>4. pc' = "command" /\ UNCHANGED op
        BY <2>3 DEF ClearLAM2, Checked
      <3>5. QED
        BY <3>3, <3>4
    <2>4. CASE Command
      <3>1. PICK r \in Reports : rc' = rc \cup r /\ Fault(r)
        BY <2>4 DEF Command
      <3>2. failed' => IsError(rc')
        BY <2>4, <2>f, <3>1 DEF Command
      <3>3. pc' = "poll" /\ UNCHANGED op
        <4>1. How(op).refused \notin {"return", "again"} /\ ~(How(op).words > 0)
          OBVIOUS
        <4>2. QED
          BY <2>4, <4>1, Zenon DEF Command
      <3>4. QED
        BY <3>2, <3>3
    <2>5. CASE Poll
      <3>1. pc' \in {"poll", "lam"} /\ UNCHANGED op
        BY <2>5 DEF Poll
      <3>2. \/ failed' = TRUE /\ rc' = rc \cup Hard
            \/ UNCHANGED <<failed, rc>>
        BY <2>5 DEF Poll
      <3>3. failed' => IsError(rc')
        BY <2>5, <2>h, <3>2 DEF Poll, IsError, Hard, Errors, HardErrors
      <3>4. QED
        BY <3>1, <3>3
    <2>6. CASE Heard
      BY <1>0, <2>6, <2>n DEF Heard, Return, AlarmLAM1, AnyOtherErr, history
    <2>7. CASE ReadWord
      <3>1. ~failed /\ UNCHANGED <<failed, op>>
        BY <2>7 DEF ReadWord, history
      <3>2. pc' \in {"read", "clear", "returned"}
        BY <2>7, NextRound DEF ReadWord, LastWord, Take, Finish, Return
      <3>3. ASSUME op = "GetVoltage", pc' = "returned", ret' = {}
            PROVE  taken' \in {"mine", "old"}
        <4>1. Head(buffer).tag \in Tags
          <5>1. buffer \in Seq(Words) /\ buffer # <<>>
            BY <2>7 DEF ReadWord, MessageInv
          <5>2. Head(buffer) \in Words
            BY <5>1, HeadTailProperties
          <5>3. QED
            BY <5>2 DEF Words
        <4>2. CASE Head(buffer).tag \in How(op).accept
          <5>1. count' = count + 1 /\ taken' = Whose
            BY <2>7, <3>3, <4>2 DEF ReadWord, Take
          <5>2. count' # 0
            BY <5>1 DEF TypeInv
          <5>3. QED
            BY <5>1, <5>2 DEF Whose
        <4>3. CASE Head(buffer).tag \notin How(op).accept
          <5>1. Again(FALSE)
            BY <2>7, <3>3, <4>1, <4>3 DEF ReadWord
          <5>2. FALSE
            BY <3>3, <5>1, OwnAnswers DEF Again, EnterRound, Finish, Return
          <5>3. QED
            BY <5>2
        <4>4. QED
          BY <4>2, <4>3
      <3>4. ASSUME op = "GetAllVoltage", pc' = "returned" PROVE ret' # {}
        <4>1. LastWord(FALSE)
          BY <2>7, <3>4 DEF ReadWord
        <4>2. Again(FALSE)
          BY <3>4, <4>1 DEF LastWord
        <4>3. QED
          BY <3>4, <4>2, OwnAnswers DEF Again, EnterRound, Finish, Return
      <3>5. QED
        BY <3>1, <3>2, <3>3, <3>4
    <2>8. CASE ReadNothing
      <3>1. PICK r \in {{"NOT_Q"}, Hard} :
                /\ Fault(r)
                /\ \/ How(op).many /\ r = {"NOT_Q"} /\ LastWord(TRUE)
                   \/ ~(How(op).many /\ r = {"NOT_Q"}) /\ Return(r)
        BY <2>8, Zenon DEF ReadNothing
      <3>2. pc = "read" /\ ~failed /\ UNCHANGED op
        BY <2>8 DEF ReadNothing
      <3>3. CASE Return(r)
        BY <3>1, <3>2, <3>3, <2>h DEF Return
      <3>4. CASE How(op).many /\ r = {"NOT_Q"} /\ LastWord(TRUE)
        <4>1. ~failed'
          BY <3>1, <3>2, <3>4 DEF Fault, Hard
        <4>2. pc' \in {"clear", "returned"}
          BY <3>4, NextRound DEF LastWord, Take, Finish, Return
        <4>3. op = "GetAllVoltage" => taken' # "none" \/ count' # Size
          BY <2>8, <3>4 DEF LastWord, Take, Whose, ReadNothing
        <4>4. QED
          BY <3>2, <3>4, <4>1, <4>2, <4>3
      <3>5. QED
        BY <3>1, <3>3, <3>4
    <2>9. QED
      BY <1>5, <2>1, <2>2, <2>3, <2>4, <2>5, <2>6, <2>7, <2>8 DEF Driver
  <1>6. CASE UNCHANGED vars
    BY <1>6 DEF vars, locals, history
  <1>7. QED
    BY <1>1, <1>2, <1>3, <1>4, <1>5, <1>6 DEF Next
-----------------------------------------------------------------------------
(* Whose the words are.  As long as no answer has come late, what is under *)
(* way in a round answers this call, and so does what is in the buffer,    *)
(* unless clearing it has failed: then rc, or for the operations that are  *)
(* deaf to GetLAM's errors the way to the poll, keeps it from being read.  *)
Mine(s) == \A i \in DOMAIN s : s[i].mine
AllMine(p) == \A j \in DOMAIN p : Mine(p[j])

Lost == "DATA_XFER_ERROR" \in rc
Within == {"clearLAM2", "command", "words", "poll", "lam", "read"}

MineInv ==
    ~late =>
        /\ pc \in Within => AllMine(pending)
        /\ pc \in {"clearLAM2", "command"} /\ ~Lost => Mine(buffer)
        /\ pc \in {"words", "poll", "lam"} /\ (How(op).deaf \/ ~Lost) => Mine(buffer)
        /\ pc = "read" => Mine(buffer) /\ pure
        /\ taken # "old"

(* Who is deaf does not poll after an error of the steps before.           *)
LEMMA DeafDecisions ==
    ASSUME NEW o \in AllOps
    PROVE  /\ How(o).refused \in {"return", "again", "poll"}
           /\ How(o).deaf => How(o).refused # "poll"
  <1>1. /\ SetVoltage.refused = "return" /\ SetAllVoltage.refused = "return"
        /\ ~GetVoltage.deaf /\ GetVoltage.refused = "poll"
        /\ ~GetAllVoltage.deaf /\ GetAllVoltage.refused = "poll"
    BY DEF SetVoltage, SetAllVoltage, GetVoltage, GetAllVoltage
  <1>2. /\ GetTrueVoltage.refused = "again" /\ GetTrueAllVoltage.refused = "again"
        /\ TurnOnOff.refused = "again" /\ CheckTurnOn.refused = "again"
    BY DEF GetTrueVoltage, GetTrueAllVoltage, TurnOnOff, CheckTurnOn
  <1>3. QED
    BY <1>1, <1>2 DEF How, AllOps

(* Answers under way are mine and stay so until they are in the buffer.    *)
LEMMA AnsweredIsMine ==
    ASSUME pending \in Seq(Seq(Words)), op \in AllOps, AllMine(pending), Answered
    PROVE  AllMine(pending')
  <1>1. PICK a \in Answers :
            \/ UNCHANGED pending
            \/ pending' = Append(pending, [i \in DOMAIN a |-> Word(a[i])])
    BY DEF Answered
  <1>2. CASE UNCHANGED pending
    BY <1>2 DEF AllMine, Mine
  <1>3. CASE pending' = Append(pending, [i \in DOMAIN a |-> Word(a[i])])
    <2> DEFINE s == [i \in DOMAIN a |-> Word(a[i])]
    <2>1. Mine(s)
      BY DEF Mine, Word
    <2>2. /\ DOMAIN pending = 1..Len(pending) /\ Len(pending) \in Nat
          /\ DOMAIN pending' = 1..(Len(pending) + 1)
          /\ \A j \in 1..Len(pending) : pending'[j] = pending[j]
          /\ pending'[Len(pending) + 1] = s
      <3> HIDE DEF s
      <3>1. pending' = Append(pending, s)
        BY <1>3 DEF s
      <3>2. QED
        BY <3>1, LenProperties
    <2>3. ASSUME NEW j \in DOMAIN pending' PROVE Mine(pending'[j])
      <3> HIDE DEF s
      <3>1. CASE j = Len(pending) + 1
        BY <2>1, <2>2, <3>1
      <3>2. CASE j \in 1..Len(pending)
        BY <2>2, <3>2 DEF AllMine
      <3>3. QED
        BY <2>2, <3>1, <3>2
    <2>4. QED
      BY <2>3 DEF AllMine
  <1>4. QED
    BY <1>1, <1>2, <1>3

(* What arrives from them is, too, as much of it as the buffer holds.      *)
LEMMA ArrivedIsMine ==
    ASSUME MessageInv, Arrive, AllMine(pending)
    PROVE  AllMine(pending') /\ (Mine(buffer) => Mine(buffer'))
  <1>1. /\ pending \in Seq(Seq(Words)) /\ pending # <<>> /\ buffer \in Seq(Words)
        /\ pending' = Tail(pending) /\ buffer' = Held(buffer \o Head(pending))
    BY DEF Arrive, MessageInv
  <1>2. /\ Len(pending) \in Nat \ {0} /\ DOMAIN pending = 1..Len(pending)
        /\ Head(pending) = pending[1]
    BY <1>1, LenProperties, EmptySeq
  <1>3. /\ Tail(pending) \in Seq(Seq(Words)) /\ Len(Tail(pending)) = Len(pending) - 1
        /\ \A i \in 1..Len(Tail(pending)) : Tail(pending)[i] = pending[i + 1]
        /\ Head(pending) \in Seq(Words)
    BY <1>1, HeadTailProperties
  <1>4. AllMine(pending')
    <2>1. DOMAIN pending' = 1..(Len(pending) - 1)
      BY <1>1, <1>3, LenProperties
    <2>2. QED
      BY <1>1, <1>2, <1>3, <2>1 DEF AllMine
  <1>5. ASSUME Mine(buffer) PROVE Mine(buffer')
    <2> DEFINE s == buffer \o Head(pending)
    <2>1. Mine(Head(pending))
      BY <1>2 DEF AllMine
    <2>2. /\ s \in Seq(Words) /\ Len(s) = Len(buffer) + Len(Head(pending))
          /\ \A i \in 1..(Len(buffer) + Len(Head(pending))) :
                s[i] = IF i <= Len(buffer) THEN buffer[i] ELSE Head(pending)[i - Len(buffer)]
      BY <1>1, <1>3, ConcatProperties
    <2>3. /\ Len(buffer) \in Nat /\ DOMAIN buffer = 1..Len(buffer)
          /\ Len(Head(pending)) \in Nat /\ DOMAIN Head(pending) = 1..Len(Head(pending))
          /\ DOMAIN s = 1..Len(s)
      BY <1>1, <1>3, <2>2, LenProperties
    <2> HIDE DEF s
    <2>4. ASSUME NEW i \in 1..Len(s) PROVE s[i].mine
      <3>1. CASE i <= Len(buffer)
        BY <1>5, <2>2, <2>3, <3>1 DEF Mine
      <3>2. CASE i > Len(buffer)
        <4>1. i - Len(buffer) \in DOMAIN Head(pending)
          BY <2>2, <2>3, <3>2
        <4>2. s[i] = Head(pending)[i - Len(buffer)]
          BY <2>2, <2>3, <3>2
        <4>3. QED
          BY <2>1, <4>1, <4>2 DEF Mine
      <3>3. QED
        BY <2>2, <2>3, <3>1, <3>2
    <2>5. CASE Len(s) <= MaxBuffer
      BY <1>1, <2>3, <2>4, <2>5 DEF Held, Mine, s
    <2>6. CASE ~(Len(s) <= MaxBuffer)
      <3>1. MaxBuffer \in Nat
        BY HVAssumption
      <3>2. buffer' = SubSeq(s, 1, MaxBuffer)
        BY <1>1, <2>6 DEF Held, s
      <3>3. \A i \in 1..MaxBuffer : i \in 1..Len(s) /\ s[i] \in Words
        BY <2>2, <2>3, <2>6, <3>1, ElementOfSeq
      <3>4. /\ SubSeq(s, 1, MaxBuffer) \in Seq(Words)
            /\ Len(SubSeq(s, 1, MaxBuffer)) = MaxBuffer
            /\ \A i \in 1..MaxBuffer : SubSeq(s, 1, MaxBuffer)[i] = s[i]
        BY <3>1, <3>3, SubSeqProperties
      <3>5. DOMAIN buffer' = 1..MaxBuffer
        BY <3>2, <3>4, LenProperties
      <3>6. QED
        BY <2>4, <3>2, <3>3, <3>4, <3>5 DEF Mine
    <2>7. QED
      BY <2>5, <2>6
  <1>6. QED
    BY <1>4, <1>5

(* A buffer without its first word.                                        *)
LEMMA ReadIsMine ==
    ASSUME NEW s \in Seq(Words), s # <<>>, Mine(s) PROVE Mine(Tail(s)) /\ Head(s).mine
  <1>1. Len(s) \in Nat \ {0} /\ DOMAIN s = 1..Len(s) /\ Head(s) = s[1]
    BY LenProperties, EmptySeq
  <1>2. /\ Len(Tail(s)) = Len(s) - 1 /\ Tail(s) \in Seq(Words)
        /\ \A i \in 1..Len(Tail(s)) : Tail(s)[i] = s[i + 1]
    BY HeadTailProperties
  <1>3. DOMAIN Tail(s) = 1..(Len(s) - 1)
    BY <1>2, LenProperties
  <1>4. QED
    BY <1>1, <1>2, <1>3 DEF Mine

(* A round that is left has nothing to keep but what the caller was given. *)
LEMMA LeaveRound ==
    ASSUME MineInv, late => late', pc' \notin Within, UNCHANGED taken \/ taken' # "old"
    PROVE  MineInv'
  BY DEF MineInv, Within

(* Another round, or the end, is outside what is kept.                     *)
LEMMA AgainLeaves == ASSUME NEW f \in BOOLEAN, Again(f) PROVE pc' \notin Within
  BY NextRound DEF Within

(* What is read last is given to the caller as mine.                       *)
LEMMA LastIsMine ==
    ASSUME NEW f \in BOOLEAN, LastWord(f), pure'
    PROVE  pc' \notin Within /\ (UNCHANGED taken \/ taken' # "old")
  BY AgainLeaves DEF LastWord, Take, Finish, Return, Whose, Within

(* A failure on the bus is an error.                                       *)
LEMMA LostIsError == Lost => IsError(rc)
  BY DEF Lost, IsError, Errors, HardErrors

(* Every step keeps the words mine.                                        *)
LEMMA MineInvStep == ASSUME TypeInv, MessageInv, MineInv, [Next]_vars PROVE MineInv'
  <1>0. op \in AllOps /\ MessageInv
    BY DEF TypeInv
  <1>1. CASE Alarm \/ Test
    <2>1. UNCHANGED <<buffer, pending, pc, op, rc, pure, taken, late>>
      BY <1>1 DEF Alarm, Test, locals
    <2>2. QED
      BY <2>1 DEF MineInv, AllMine, Mine, Lost
  <1>2. CASE Arrive
    <2>1. UNCHANGED <<pc, op, rc, pure, taken, late>>
      BY <1>2 DEF Arrive, locals
    <2>2. AllMine(pending) => AllMine(pending') /\ (Mine(buffer) => Mine(buffer'))
      BY <1>2, ArrivedIsMine
    <2>3. QED
      BY <2>1, <2>2 DEF MineInv, Lost, Within
  <1>3. ASSUME NEW o \in Ops, Begin(o) PROVE MineInv'
    BY <1>3, LeaveRound DEF Begin, Return, Within
  <1>4. CASE Before
    BY <1>4, LeaveRound DEF Before, Return, Within
  <1>5. CASE ClearInBuff
    <2>1. late' = (late \/ pending # <<>>) /\ UNCHANGED <<pending, taken>>
      BY <1>5 DEF ClearInBuff
    <2>2. CASE pc' \notin Within
      BY <2>1, <2>2, LeaveRound
    <2>3. CASE pc' \in Within
      <3>1. pc' = "clearLAM2"
        BY <1>5, <2>3, AgainLeaves DEF ClearInBuff, Checked
      <3>2. pending = <<>> => AllMine(pending')
        BY <2>1 DEF AllMine
      <3>3. buffer' = <<>> \/ Lost'
        BY <1>5 DEF ClearInBuff, Emptied, Masked, Hard, Lost
      <3>4. buffer' = <<>> => Mine(buffer')
        BY DEF Mine
      <3>5. QED
        BY <2>1, <3>1, <3>2, <3>3, <3>4 DEF MineInv, Within
    <2>4. QED
      BY <2>2, <2>3
  <1>6. CASE ClearLAM2
    <2>1. /\ pc = "clearLAM2" /\ UNCHANGED <<pending, buffer, taken, late>>
          /\ Lost => Lost'
      BY <1>6 DEF ClearLAM2, Lost
    <2>2. pc' \notin Within \/ pc' = "command"
      BY <1>6, AgainLeaves DEF ClearLAM2, Checked
    <2>3. CASE pc' = "command"
      BY <2>1, <2>3 DEF MineInv, Within, AllMine, Mine
    <2>4. QED
      BY <2>1, <2>2, <2>3, LeaveRound
  <1>7. CASE Command
    <2>1. /\ pc = "command" /\ UNCHANGED <<buffer, op, taken, late>>
          /\ Lost => Lost'
          /\ UNCHANGED pending \/ Answered
      BY <1>7 DEF Command, Lost
    <2>2. \/ pc' \notin Within
          \/ pc' \in {"words", "poll"} /\ (How(op).deaf => ~IsError(rc'))
      <3>1. CASE IsError(rc') /\ How(op).refused = "return"
        BY <1>7, <3>1 DEF Command, Return, Within
      <3>2. CASE IsError(rc') /\ How(op).refused = "again"
        <4>1. Again(TRUE)
          BY <1>7, <3>2 DEF Command
        <4>2. QED
          BY <4>1, AgainLeaves
      <3>3. CASE ~IsError(rc') \/ How(op).refused = "poll"
        <4>1. pc' = (IF How(op).words > 0 THEN "words" ELSE "poll")
          BY <1>7, <3>3, Zenon DEF Command
        <4>2. How(op).deaf => ~IsError(rc')
          BY <1>0, <3>3, DeafDecisions
        <4>3. QED
          BY <4>1, <4>2
      <3>4. QED
        BY <1>0, <3>1, <3>2, <3>3, DeafDecisions
    <2>3. CASE pc' \in {"words", "poll"} /\ (How(op).deaf => ~IsError(rc'))
      <3>1. ASSUME ~late PROVE AllMine(pending')
        <4>1. AllMine(pending)
          BY <2>1, <3>1 DEF MineInv, Within
        <4>2. UNCHANGED pending => AllMine(pending')
          BY <4>1 DEF AllMine, Mine
        <4>3. QED
          BY <1>0, <2>1, <4>1, <4>2, AnsweredIsMine DEF MessageInv
      <3>2. Lost' => IsError(rc')
        BY DEF Lost, IsError, Errors, HardErrors
      <3>3. ASSUME ~late, How(op).deaf \/ ~Lost' PROVE Mine(buffer')
        BY <2>1, <2>3, <3>2, <3>3 DEF MineInv, Mine
      <3>4. taken' # "old" \/ late'
        BY <2>1 DEF MineInv
      <3>5. QED
        BY <2>1, <2>3, <3>1, <3>3, <3>4 DEF MineInv
    <2>4. QED
      BY <2>1, <2>2, <2>3, LeaveRound
  <1>8. CASE DataWord
    <2>1. /\ pc = "words" /\ UNCHANGED <<buffer, op, taken, late>>
          /\ Lost => Lost'
          /\ UNCHANGED pending \/ Answered
      BY <1>8 DEF DataWord, Lost
    <2>2. \/ pc' \notin Within
          \/ pc' \in {"words", "poll"}
      BY <1>8, AgainLeaves DEF DataWord
    <2>3. CASE pc' \in {"words", "poll"}
      <3>1. ASSUME ~late PROVE AllMine(pending')
        <4>1. AllMine(pending)
          BY <2>1, <3>1 DEF MineInv, Within
        <4>2. UNCHANGED pending => AllMine(pending')
          BY <4>1 DEF AllMine, Mine
        <4>3. QED
          BY <1>0, <2>1, <4>1, <4>2, AnsweredIsMine DEF MessageInv
      <3>3. ASSUME ~late, How(op).deaf \/ ~Lost' PROVE Mine(buffer')
        BY <2>1, <2>3, <3>3 DEF MineInv, Mine
      <3>4. taken' # "old" \/ late'
        BY <2>1 DEF MineInv
      <3>5. QED
        BY <2>1, <2>3, <3>1, <3>3, <3>4 DEF MineInv
    <2>4. QED
      BY <2>1, <2>2, <2>3, LeaveRound
  <1>9. CASE Poll
    <2>1. /\ pc = "poll" /\ pc' \in {"poll", "lam"}
          /\ UNCHANGED <<buffer, pending, op, taken, late>>
      BY <1>9 DEF Poll, device
    <2>2. ~How(op).deaf /\ Lost => Lost'
      BY <1>9 DEF Poll, Lost, Hard
    <2>3. QED
      BY <2>1, <2>2 DEF MineInv, Within, AllMine, Mine
  <1>10. CASE Heard
    <2>1. /\ pc = "lam" /\ pure' = TRUE
          /\ UNCHANGED <<buffer, pending, op, rc, taken, late>>
      BY <1>10 DEF Heard, device
    <2>2. \/ pc' \notin Within
          \/ pc' = "read" /\ (How(op).deaf \/ ~IsError(rc))
      BY <1>10, AgainLeaves DEF Heard, Return, Within
    <2>3. CASE pc' = "read" /\ (How(op).deaf \/ ~IsError(rc))
      BY <2>1, <2>3, LostIsError DEF MineInv, Within, AllMine, Mine
    <2>4. QED
      BY <2>1, <2>2, <2>3, LeaveRound
  <1>11. CASE ReadWord
    <2> SUFFICES ASSUME ~late' PROVE MineInv'
      BY DEF MineInv
    <2>1. /\ pc = "read" /\ buffer # <<>> /\ buffer' = Tail(buffer)
          /\ UNCHANGED <<pending, op, late>>
      BY <1>11 DEF ReadWord
    <2>2. /\ AllMine(pending') /\ Mine(buffer') /\ Head(buffer).mine /\ pure
          /\ taken # "old"
      BY <2>1, ReadIsMine DEF MineInv, MessageInv, Within, AllMine, Mine
    <2>3. pure'
      BY <1>11, <2>2 DEF ReadWord
    <2>4. taken' # "old" /\ (pc' = "read" \/ pc' \notin Within)
      <3>1. UNCHANGED taken \/ taken' # "old"
        BY <1>11, <2>3, LastIsMine DEF ReadWord, Take, Whose
      <3>2. pc' = "read" \/ pc' \notin Within
        BY <1>11, <2>1, <2>3, AgainLeaves, LastIsMine
           DEF ReadWord, Take, Finish, Return, Within
      <3>3. QED
        BY <2>2, <3>1, <3>2
    <2>5. QED
      BY <2>2, <2>3, <2>4 DEF MineInv, Within
  <1>12. CASE ReadNothing
    <2> SUFFICES ASSUME ~late' PROVE MineInv'
      BY DEF MineInv
    <2>1. pc = "read" /\ UNCHANGED <<pure, late>>
      BY <1>12 DEF ReadNothing
    <2>2. pure'
      BY <2>1 DEF MineInv
    <2>3. pc' \notin Within /\ (UNCHANGED taken \/ taken' # "old")
      BY <1>12, <2>2, AgainLeaves, LastIsMine DEF ReadNothing, Return, Within
    <2>4. QED
      BY <2>1, <2>3, LeaveRound
  <1>13. CASE Done
    BY <1>13, LeaveRound DEF Done, Within
  <1>14. CASE UNCHANGED vars
    <2>1. UNCHANGED <<buffer, pending, pc, op, rc, pure, taken, late>>
      BY <1>14 DEF vars, device, locals
    <2>2. QED
      BY <2>1 DEF MineInv, AllMine, Mine, Lost
  <1>15. QED
    BY <1>1, <1>2, <1>3, <1>4, <1>5, <1>6, <1>7, <1>8, <1>9, <1>10, <1>11, <1>12, <1>13, <1>14
       DEF Next, Driver
-----------------------------------------------------------------------------
(* How many the words are.  As long as no answer has come late, a round    *)
(* gets one answer, which is under way, in the buffer, or partly in the    *)
(* caller's array; together they are no more than a full answer.           *)
Full == Len(How(op).reply)

Room(n) == \/ pending = <<>> /\ n + Len(buffer) <= Full
           \/ buffer = <<>> /\ Len(pending) = 1 /\ n + Len(pending[1]) <= Full

FitInv ==
    /\ pc = "idle" => count = 0
    /\ ~late =>
        /\ count <= Full
        /\ pc \in {"clearLAM2", "command", "words"} => pending = <<>>
        /\ pc \in {"clearLAM2", "command"} /\ ~Lost => buffer = <<>>
        /\ pc = "words" /\ (How(op).deaf \/ ~Lost) => buffer = <<>>
        /\ pc \in {"poll", "lam"} /\ (How(op).deaf \/ ~Lost) => Room(0)
        /\ pc = "read" => Room(count)

(* A full answer has a word for each channel, or one, or two.              *)
LEMMA FullAnswers ==
    ASSUME NEW o \in AllOps
    PROVE  Len(How(o).reply) \in Nat \ {0}
  <1>0. Channels \in Nat \ {0}
    BY HVAssumption
  <1>1. \A t : Len(Times(Channels, t)) = Channels
    BY <1>0, FunctionIsSeq, LenProperties DEF Times
  <1>2. Len(<<"onoff", "status">>) = 2 /\ \A t : Len(<<t>>) = 1
    OBVIOUS
  <1>3. SetVoltage.reply = <<"finished">> /\ SetAllVoltage.reply = <<"finished">>
    BY DEF SetVoltage, SetAllVoltage
  <1>4. GetVoltage.reply = <<"set">> /\ GetAllVoltage.reply = Times(Channels, "set")
    BY DEF GetVoltage, GetAllVoltage
  <1>5. /\ GetTrueVoltage.reply = <<"true">>
        /\ GetTrueAllVoltage.reply = Times(Channels, "true")
    BY DEF GetTrueVoltage, GetTrueAllVoltage
  <1>6. TurnOnOff.reply = <<"onoff">> /\ CheckTurnOn.reply = <<"onoff", "status">>
    BY DEF GetTrueVoltage, TurnOnOff, CheckTurnOn
  <1>7. How(o).reply \in {<<"finished">>, <<"set">>, <<"true">>, <<"onoff">>, <<"onoff", "status">>,
                          Times(Channels, "set"), Times(Channels, "true")}
    BY <1>3, <1>4, <1>5, <1>6 DEF How, AllOps
  <1>8. QED
    BY <1>0, <1>1, <1>2, <1>7

(* No other answer is longer.                                              *)
LEMMA AnswersFit ==
    ASSUME op \in AllOps, NEW a \in Answers
    PROVE  Len(a) \in Nat /\ Len(a) <= Full /\ DOMAIN a = 1..Len(a)
  <1> DEFINE s == How(op).reply
  <1>1. s \in Seq(Tags) /\ Len(s) \in Nat \ {0} /\ Full = Len(s)
    BY FullAnswers, Replies DEF Full
  <1>2. CASE a = s
    BY <1>1, <1>2, LenProperties
  <1>3. CASE a = Short(s)
    <2> HIDE DEF s
    <2>1. \A i \in 1..(Len(s) - 1) : s[i] \in Tags
      BY <1>1, ElementOfSeq
    <2>2. Short(s) \in Seq(Tags)
      BY <1>1, Truncated
    <2>3. Len(Short(s)) = Len(s) - 1
      BY <1>1, <2>1, SubSeqProperties DEF Short
    <2>4. Len(Short(s)) <= Full
      BY <1>1, <2>3
    <2>5. Len(Short(s)) \in Nat /\ DOMAIN Short(s) = 1..Len(Short(s))
      BY <2>2, LenProperties
    <2>6. QED
      BY <1>3, <2>4, <2>5
  <1>4. CASE a = <<"error">> \/ a = <<>>
    BY <1>1, <1>4
  <1>5. QED
    BY <1>2, <1>3, <1>4 DEF Answers

(* The first answer of a round, when the buffer is empty, has room.        *)
LEMMA AnsweredFits ==
    ASSUME op \in AllOps, pending = <<>>, UNCHANGED op,
           UNCHANGED pending \/ Answered, buffer' = <<>>
    PROVE  Room(0)'
  <1>0. Full \in Nat /\ Full' = Full
    BY FullAnswers DEF Full
  <1>1. CASE UNCHANGED pending
    BY <1>0, <1>1 DEF Room
  <1>2. ASSUME NEW a \in Answers, pending' = Append(pending, [i \in DOMAIN a |-> Word(a[i])])
        PROVE  Room(0)'
    <2> DEFINE w == [i \in DOMAIN a |-> Word(a[i])]
    <2>1. Len(a) \in Nat /\ Len(a) <= Full /\ DOMAIN w = 1..Len(a)
      BY AnswersFit
    <2>2. Len(w) = Len(a)
      BY <2>1, FunctionIsSeq, LenProperties
    <2> HIDE DEF w
    <2>3. pending' = <<w>>
      BY <1>2 DEF w
    <2>4. QED
      BY <1>0, <2>1, <2>2, <2>3 DEF Room
  <1>3. QED
    BY <1>1, <1>2 DEF Answered

(* What arrives was counted when it was under way; the buffer may lose     *)
(* some of it.                                                             *)
LEMMA ArrivedFits ==
    ASSUME TypeInv, MessageInv, Arrive, NEW n \in Nat, Room(n)
    PROVE  n + Len(buffer') <= Full /\ pending' = <<>>
  <1>1. /\ pending \in Seq(Seq(Words)) /\ pending # <<>>
        /\ pending' = Tail(pending) /\ buffer' = Held(buffer \o Head(pending))
    BY DEF Arrive, MessageInv
  <1>2. buffer = <<>> /\ Len(pending) = 1 /\ n + Len(pending[1]) <= Full
    BY <1>1 DEF Room
  <1>3. Head(pending) = pending[1] /\ Head(pending) \in Seq(Words) /\ pending' = <<>>
    BY <1>1, <1>2, HeadTailProperties, EmptySeq
  <1>4. buffer' = Held(pending[1])
    BY <1>1, <1>2, <1>3
  <1>5. Len(pending[1]) \in Nat /\ MaxBuffer \in Nat /\ Full \in Nat
    BY <1>3, LenProperties, HVAssumption, FullAnswers DEF Full, TypeInv
  <1>6. Len(Held(pending[1])) \in Nat /\ Len(Held(pending[1])) <= Len(pending[1])
    <2> DEFINE s == pending[1]
    <2>0. s \in Seq(Words)
      BY <1>3
    <2>1. CASE Len(s) > MaxBuffer
      <3>1. \A i \in 1..MaxBuffer : s[i] \in Words
        BY <1>5, <2>0, <2>1, ElementOfSeq
      <3>2. Len(SubSeq(s, 1, MaxBuffer)) = MaxBuffer
        BY <1>5, <3>1, SubSeqProperties
      <3>3. QED
        BY <1>5, <2>1, <3>2 DEF Held
    <2>2. QED
      BY <1>5, <2>1 DEF Held
  <1>7. QED
    BY <1>2, <1>3, <1>4, <1>5, <1>6

(* How many data words an operation writes.                                *)
LEMMA WordsWritten == ASSUME NEW o \in AllOps PROVE How(o).words \in Nat
  <1>0. Size \in Nat
    BY HVAssumption
  <1>1. SetVoltage.words = 0 /\ SetAllVoltage.words = Size
    BY DEF SetVoltage, SetAllVoltage
  <1>2. GetVoltage.words = 0 /\ GetAllVoltage.words = 0
    BY DEF GetVoltage, GetAllVoltage
  <1>3. GetTrueVoltage.words = 0 /\ GetTrueAllVoltage.words = 0
    BY DEF GetTrueVoltage, GetTrueAllVoltage
  <1>4. TurnOnOff.words = 0 /\ CheckTurnOn.words = 0
    BY DEF GetTrueVoltage, TurnOnOff, CheckTurnOn
  <1>5. QED
    BY <1>0, <1>1, <1>2, <1>3, <1>4 DEF How, AllOps

(* A round that is left has nothing to keep but the words it has read.     *)
LEMMA LeaveFit ==
    ASSUME pc' \notin Within \cup {"idle"}, ~late' => count' <= Full'
    PROVE  FitInv'
  BY DEF FitInv, Within

(* Again and the end of an operation do not end the call.                  *)
LEMMA AgainGoesOn ==
    ASSUME NEW f \in BOOLEAN, Again(f) PROVE pc' \notin Within \cup {"idle"}
  BY NextRound DEF Within

(* Neither does what follows the last word.                                *)
LEMMA LastGoesOn ==
    ASSUME NEW f \in BOOLEAN, LastWord(f) PROVE pc' \notin Within \cup {"idle"}
  BY AgainGoesOn DEF LastWord, Take, Finish, Return, Within

(* A step that touches none of this.                                       *)
LEMMA SameFit ==
    ASSUME FitInv, UNCHANGED <<buffer, pending, pc, op, rc, count, late>> PROVE FitInv'
  BY DEF FitInv, Full, Room, Lost

(* The command and the data words: nothing is under way before the answer. *)
LEMMA SentFits ==
    ASSUME TypeInv, FitInv, pc \in {"command", "words"}, pc' \in {"words", "poll"},
           UNCHANGED <<buffer, op, count, late>>, Lost => Lost',
           pc = "command" => (How(op).deaf => ~IsError(rc')),
           pc' = "words" => UNCHANGED pending,
           UNCHANGED pending \/ Answered
    PROVE  FitInv'
  <1> SUFFICES ASSUME ~late' PROVE FitInv'
    BY DEF FitInv
  <1>1. ~late /\ pending = <<>> /\ count <= Full /\ op \in AllOps /\ Full' = Full
    BY DEF FitInv, TypeInv, Full
  <1>2. Lost' => IsError(rc')
    BY DEF Lost, IsError, Errors, HardErrors
  <1>3. ASSUME How(op).deaf \/ ~Lost' PROVE buffer' = <<>>
    <2>1. CASE pc = "command"
      BY <1>1, <1>2, <1>3, <2>1 DEF FitInv
    <2>2. CASE pc = "words"
      BY <1>1, <1>3, <2>2 DEF FitInv
    <2>3. QED
      BY <2>1, <2>2
  <1>4. ASSUME How(op).deaf \/ ~Lost' PROVE Room(0)'
    BY <1>1, <1>3, <1>4, AnsweredFits
  <1>5. pc' = "words" => pending' = <<>>
    BY <1>1
  <1>6. QED
    BY <1>1, <1>3, <1>4, <1>5 DEF FitInv

(* Every step keeps the words within the array.                            *)
LEMMA FitInvStep ==
    ASSUME TypeInv, MessageInv, FitInv, [Next]_vars PROVE FitInv'
  <1>0. /\ op \in AllOps /\ count \in Nat /\ Full \in Nat /\ Size \in Nat
        /\ ~late => count <= Full
        /\ op' = op => Full' = Full
        /\ op' \in AllOps => Full' \in Nat
    BY HVAssumption, FullAnswers DEF TypeInv, FitInv, Full
  <1>1. CASE Alarm \/ Test
    <2>1. UNCHANGED <<buffer, pending, pc, op, rc, count, late>>
      BY <1>1 DEF Alarm, Test, locals
    <2>2. QED
      BY <2>1, SameFit
  <1>2. CASE Arrive
    <2>1. pending # <<>> /\ UNCHANGED <<pc, op, rc, count, late>>
      BY <1>2 DEF Arrive, locals
    <2>2. \A n \in Nat : Room(n) => Room(n)'
      BY <1>0, <1>2, <2>1, ArrivedFits DEF Room
    <2>3. QED
      BY <1>0, <2>1, <2>2 DEF FitInv, Lost
  <1>3. ASSUME NEW o \in Ops, Begin(o) PROVE FitInv'
    <2>1. pc = "idle" /\ pc' \notin Within \cup {"idle"} /\ count' = count
      BY <1>3 DEF Begin, Return, Within
    <2>2. count = 0 /\ Full' \in Nat
      <3>1. op' \in AllOps
        BY <1>3, HVAssumption DEF Begin
      <3>2. QED
        BY <1>0, <2>1, <3>1 DEF FitInv
    <2>3. QED
      BY <1>0, <2>1, <2>2, LeaveFit
  <1>4. CASE Before
    <2>1. pc' \notin Within \cup {"idle"} /\ UNCHANGED <<count, op, late>>
      BY <1>4 DEF Before, Return, Within
    <2>2. QED
      BY <1>0, <2>1, LeaveFit
  <1>5. CASE ClearInBuff
    <2>1. /\ late' = (late \/ pending # <<>>)
          /\ UNCHANGED <<pending, op, count>>
      BY <1>5 DEF ClearInBuff
    <2>2. pc' \notin Within \cup {"idle"} \/ pc' = "clearLAM2"
      BY <1>5, AgainGoesOn DEF ClearInBuff, Checked
    <2>3. CASE pc' = "clearLAM2"
      <3>1. buffer' = <<>> \/ Lost'
        BY <1>5 DEF ClearInBuff, Emptied, Masked, Hard, Lost
      <3>2. QED
        BY <1>0, <2>1, <2>3, <3>1 DEF FitInv
    <2>4. QED
      BY <1>0, <2>1, <2>2, <2>3, LeaveFit
  <1>6. CASE ClearLAM2
    <2>1. /\ pc = "clearLAM2" /\ UNCHANGED <<pending, buffer, op, count, late>>
          /\ Lost => Lost'
      BY <1>6 DEF ClearLAM2, Lost
    <2>2. pc' \notin Within \cup {"idle"} \/ pc' = "command"
      BY <1>6, AgainGoesOn DEF ClearLAM2, Checked
    <2>3. CASE pc' = "command"
      BY <1>0, <2>1, <2>3 DEF FitInv
    <2>4. QED
      BY <1>0, <2>1, <2>2, <2>3, LeaveFit
  <1>7. CASE Command
    <2>1. /\ pc = "command" /\ UNCHANGED <<buffer, op, count, late>>
          /\ Lost => Lost'
          /\ UNCHANGED pending \/ Answered
      BY <1>7 DEF Command, Lost
    <2>2. \/ pc' \notin Within \cup {"idle"}
          \/ pc' \in {"words", "poll"} /\ (How(op).deaf => ~IsError(rc'))
             /\ (pc' = "words" => How(op).words > 0)
      <3>1. CASE IsError(rc') /\ How(op).refused = "return"
        BY <1>7, <3>1 DEF Command, Return, Within
      <3>2. CASE IsError(rc') /\ How(op).refused = "again"
        <4>1. Again(TRUE)
          BY <1>7, <3>2 DEF Command
        <4>2. QED
          BY <4>1, AgainGoesOn
      <3>3. CASE ~IsError(rc') \/ How(op).refused = "poll"
        <4>1. pc' = (IF How(op).words > 0 THEN "words" ELSE "poll")
          BY <1>7, <3>3, Zenon DEF Command
        <4>2. How(op).deaf => ~IsError(rc')
          BY <1>0, <3>3, DeafDecisions
        <4>3. QED
          BY <4>1, <4>2
      <3>4. QED
        BY <1>0, <3>1, <3>2, <3>3, DeafDecisions
    <2>3. How(op).words > 0 => UNCHANGED pending
      BY <1>7 DEF Command
    <2>4. QED
      BY <1>0, <2>1, <2>2, <2>3, SentFits, LeaveFit
  <1>8. CASE DataWord
    <2>1. /\ pc = "words" /\ UNCHANGED <<buffer, op, count, late>>
          /\ Lost => Lost'
          /\ UNCHANGED pending \/ Answered
      BY <1>8 DEF DataWord, Lost
    <2>2. \/ pc' \notin Within \cup {"idle"}
          \/ pc' = "words" /\ step + 1 < How(op).words
          \/ pc' = "poll"
      BY <1>8, AgainGoesOn DEF DataWord
    <2>3. step + 1 < How(op).words => UNCHANGED pending
      <3>1. CASE step + 1 = How(op).words /\ Answered
        <4>1. How(op).words \in Nat
          BY <1>0, WordsWritten
        <4>2. QED
          BY <3>1, <4>1
      <3>2. CASE UNCHANGED pending
        BY <3>2
      <3>3. QED
        BY <1>8, <3>1, <3>2 DEF DataWord
    <2>4. QED
      BY <1>0, <2>1, <2>2, <2>3, SentFits, LeaveFit
  <1>9. CASE Poll
    <2>1. /\ pc = "poll" /\ pc' \in {"poll", "lam"}
          /\ UNCHANGED <<buffer, pending, op, count, late>>
      BY <1>9 DEF Poll, device
    <2>2. ~How(op).deaf /\ Lost => Lost'
      BY <1>9 DEF Poll, Lost, Hard
    <2>3. QED
      BY <1>0, <2>1, <2>2 DEF FitInv, Room
  <1>10. CASE Heard
    <2>1. /\ pc = "lam" /\ count' = 0
          /\ UNCHANGED <<buffer, pending, op, rc, late>>
      BY <1>10 DEF Heard, device
    <2>2. \/ pc' \notin Within \cup {"idle"}
          \/ pc' = "read" /\ (How(op).deaf \/ ~IsError(rc))
      BY <1>10, AgainGoesOn DEF Heard, Return, Within
    <2>3. CASE pc' = "read" /\ (How(op).deaf \/ ~IsError(rc))
      <3>1. ~late => Room(0)
        BY <2>1, <2>3, LostIsError DEF FitInv
      <3>2. QED
        BY <1>0, <2>1, <2>3, <3>1 DEF FitInv, Room
    <2>4. QED
      BY <1>0, <2>1, <2>2, <2>3, LeaveFit
  <1>11. CASE ReadWord
    <2>1. /\ pc = "read" /\ buffer # <<>> /\ buffer' = Tail(buffer)
          /\ count' \in {count, count + 1}
          /\ UNCHANGED <<pending, op, late>>
      BY <1>11 DEF ReadWord
    <2>2. Len(buffer) \in Nat \ {0} /\ Len(Tail(buffer)) = Len(buffer) - 1
      BY <2>1, HeadTailProperties, LenProperties, EmptySeq DEF MessageInv
    <2>3. ASSUME ~late PROVE count' <= Full /\ Room(count)'
      <3>1. pending = <<>> /\ count + Len(buffer) <= Full
        BY <2>1, <2>3 DEF FitInv, Room
      <3>2. count' <= Full /\ count' + Len(buffer') <= Full
        BY <1>0, <2>1, <2>2, <3>1
      <3>3. QED
        BY <1>0, <2>1, <3>1, <3>2 DEF Room
    <2>4. pc' = "read" \/ pc' \notin Within \cup {"idle"}
      BY <1>11, <2>1, AgainGoesOn, LastGoesOn DEF ReadWord, Take, Finish, Return, Within
    <2>5. ~late' => ~late
      BY <2>1
    <2>6. CASE pc' = "read"
      BY <1>0, <2>1, <2>3, <2>5, <2>6 DEF FitInv
    <2>7. QED
      BY <1>0, <2>1, <2>3, <2>4, <2>5, <2>6, LeaveFit
  <1>12. CASE ReadNothing
    <2>1. UNCHANGED <<count, op, late>>
      BY <1>12 DEF ReadNothing
    <2>2. pc' \notin Within \cup {"idle"}
      BY <1>12, AgainGoesOn, LastGoesOn DEF ReadNothing, Return, Within
    <2>3. QED
      BY <1>0, <2>1, <2>2, LeaveFit
  <1>13. CASE Done
    BY <1>0, <1>13 DEF Done, FitInv
  <1>14. CASE UNCHANGED vars
    <2>1. UNCHANGED <<buffer, pending, pc, op, rc, count, late>>
      BY <1>14 DEF vars, device, locals
    <2>2. QED
      BY <2>1, SameFit
  <1>15. QED
    BY <1>1, <1>2, <1>3, <1>4, <1>5, <1>6, <1>7, <1>8, <1>9, <1>10, <1>11, <1>12, <1>13, <1>14
       DEF Next, Driver
-----------------------------------------------------------------------------
(* The strengthening.                                                      *)
IInv == /\ TypeInv /\ CountInv /\ LocalInv /\ MessageInv
        /\ KeptInv /\ RealInv
        /\ SettingInv /\ MineInv

(* The invariant holds in every state, whatever the mainframe does.        *)
THEOREM Invariance == Spec => []IInv
  <1>1. Init => IInv
    <2> SUFFICES ASSUME Init PROVE IInv
      OBVIOUS
    <2>1. MessageInv
      BY DEF Init, MessageInv
    <2>2. KeptInv /\ RealInv /\ SettingInv /\ MineInv
      BY DEF Init, KeptInv, RealInv, SettingInv, MineInv, Within
    <2>3. QED
      BY <2>1, <2>2, TypeInvInit, CountInvInit, LocalInvInit DEF IInv
  <1>2. IInv /\ [Next]_vars => IInv'
    BY TypeInvStep, CountInvStep, LocalInvStep, MessageInvStep, AlarmInvStep, SettingInvStep,
       MineInvStep DEF IInv
  <1>3. QED
    BY <1>1, <1>2, PTL DEF Spec

(* Every variable has its type; rounds and polls keep within their limits. *)
THEOREM TypeCorrect == Spec => []TypeOK
  <1>1. TypeInv => rc \in Result
    BY OwnResults DEF TypeInv
  <1>2. IInv => TypeOK
    BY <1>1 DEF IInv, TypeInv, CountInv, LocalInv, MessageInv, TypeOK
  <1>3. QED
    BY <1>2, Invariance, PTL

(* An alarm that is up when an operation is called is not papered over.    *)
THEOREM AlarmsAreKept == Spec => []AlarmIsKept
  <1>1. IInv => AlarmIsKept
    BY DEF IInv, KeptInv, AlarmIsKept
  <1>2. QED
    BY <1>1, Invariance, PTL

(* AlarmLAM1 is the mainframe's alarm, unless a poll of the call failed.   *)
THEOREM AlarmsAreReal == Spec => []AlarmIsReal
  <1>1. IInv => AlarmIsReal
    BY DEF IInv, RealInv, AlarmIsReal
  <1>2. QED
    BY <1>1, Invariance, PTL

(* The operations that read settings never answer CC_OK after a failure on *)
(* the bus, in whatever round it was; GetVoltage answers it only with a    *)
(* reading, and GetAllVoltage without one only to an answer of a length    *)
(* that is not the caller's.                                               *)
THEOREM SettingsAreRead == Spec => []SettingIsRead
  <1>1. IInv => SettingIsRead
    BY DEF IInv, SettingInv, Getters, SettingIsRead
  <1>2. QED
    BY <1>1, Invariance, PTL

(* As long as no answer came late, what a caller is given answers its own  *)
(* call, although a word does not say which command it answers.            *)
THEOREM AnswersAreMine == Spec => []AnswerIsMine
  <1>1. IInv => AnswerIsMine
    BY DEF IInv, MineInv, AnswerIsMine
  <1>2. QED
    BY <1>1, Invariance, PTL

(* As long as no answer came late, no operation reads more words in a      *)
(* round than a full answer to its command has.                            *)
THEOREM WordsAreBounded == Spec => []WordsKeepToAnswer
  <1>1. Init => FitInv
    <2> SUFFICES ASSUME Init PROVE FitInv
      OBVIOUS
    <2>1. op \in AllOps /\ pc = "idle" /\ count = 0
      BY HVAssumption DEF Init
    <2>2. Full \in Nat
      BY <2>1, FullAnswers DEF Full
    <2>3. QED
      BY <2>1, <2>2 DEF FitInv
  <1>2. IInv /\ FitInv /\ [Next]_vars => FitInv'
    BY FitInvStep DEF IInv
  <1>3. FitInv => WordsKeepToAnswer
    BY DEF FitInv, Full, WordsKeepToAnswer
  <1>4. QED
    BY <1>1, <1>2, <1>3, Invariance, PTL DEF Spec
=============================================================================
