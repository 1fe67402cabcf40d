------------------------------ MODULE LeCroyHV ------------------------------
(***************************************************************************)
(* LeCroy (LeCroy.h, LeCroy_public.cpp, LeCroy_private.cpp): the driver of *)
(* the 2132 interface to a high voltage mainframe.  An operation writes    *)
(* command words, polls the interface for the LAM that says that answers   *)
(* are in its buffer, reads them, and makes another round of it when it is *)
(* not content, Limit of them at most.  The mainframe answers in its own   *)
(* time over a serial line that garbles and loses words, and raises LAM1   *)
(* when it is in trouble.                                                  *)
(*                                                                         *)
(* The operations are one loop with other decisions in it: a record for    *)
(* each operation holds the decisions its code makes.                      *)
(***************************************************************************)
EXTENDS CamacResult, Sequences

CONSTANTS Ops,           \* the operations callers use, by name
          Limit,         \* VoltageLimit and TurnLimit
          PollingLimit,
          Size,          \* "size" of the callers' arrays
          Channels,      \* channels of the mainframe
          MaxPending,    \* bound on the answers under way
          MaxBuffer      \* words the buffer of the interface holds

(* Answers of the mainframe: what a tag of the code stands for.  "error"   *)
(* is T_ParityErr, T_OverwriteErr or T_TransmissionErr.                    *)
Tags == {"finished", "set", "true", "onoff", "status", "error"}

Times(n, tag) == [i \in 1..n |-> tag]

(* The decisions.  "before": command words written ahead of the rounds;    *)
(* "words": data words after the command; "gated": each step of a round is *)
(* checked before the next; "refused": what an error of those steps does;  *)
(* "deaf": an error of GetLAM goes unnoticed; "silent": GetLAM gave up;    *)
(* "unread": a read failed, "shadow": in an rc of its own; "many": words   *)
(* are read until there is no Q; tags that end it well or make it try      *)
(* again; "checked": rc is looked at after the last round; "fresh":        *)
(* type_lam is declared in the round; "reply": a full answer.              *)
SetVoltage ==
    [before |-> 2, words |-> 0, gated |-> FALSE, refused |-> "return",
     deaf |-> TRUE, silent |-> "again", unread |-> "return", shadow |-> FALSE,
     many |-> FALSE, accept |-> {"finished"}, reject |-> Tags \ {"finished"},
     checked |-> TRUE, fresh |-> TRUE, reply |-> <<"finished">>]

SetAllVoltage == [SetVoltage EXCEPT !.before = 1, !.words = Size]

(* A definition whose name ends in _ is not the code's: it is the mistake  *)
(* a property below would catch.                                           *)
LikeSetVoltage_ == [SetVoltage EXCEPT !.before = 0, !.accept = {"set"},
                                !.reject = Tags \ {"set"}, !.reply = <<"set">>]

GetVoltage ==
    [before |-> 0, words |-> 0, gated |-> FALSE, refused |-> "poll",
     deaf |-> FALSE, silent |-> "return", unread |-> "return", shadow |-> TRUE,
     many |-> FALSE, accept |-> {"set"}, reject |-> Tags \ {"set"},
     checked |-> FALSE, fresh |-> TRUE, reply |-> <<"set">>]

GetAllVoltage == [GetVoltage EXCEPT !.many = TRUE, !.fresh = FALSE,
                                    !.reply = Times(Channels, "set")]

GetTrueVoltage ==
    [before |-> 0, words |-> 0, gated |-> FALSE, refused |-> "again",
     deaf |-> TRUE, silent |-> "again", unread |-> "again", shadow |-> TRUE,
     many |-> FALSE, accept |-> {"true"}, reject |-> {"error"},
     checked |-> TRUE, fresh |-> FALSE, reply |-> <<"true">>]

GetTrueAllVoltage == [GetTrueVoltage EXCEPT !.gated = TRUE, !.many = TRUE,
                                            !.reject = Tags \ {"true"},
                                            !.reply = Times(Channels, "true")]

TurnOnOff == [GetTrueVoltage EXCEPT !.shadow = FALSE,
                                    !.accept = Tags \ {"error"},
                                    !.reply = <<"onoff">>]

(* Every round of it is made, whatever the rounds before have read.        *)
CheckTurnOn == [GetTrueVoltage EXCEPT !.shadow = FALSE, !.many = TRUE,
                                      !.accept = {"onoff", "status"},
                                      !.reply = <<"onoff", "status">>]

How(o) == CASE o = "SetVoltage" -> SetVoltage
            [] o = "SetAllVoltage" -> SetAllVoltage
            [] o = "GetVoltage" -> GetVoltage
            [] o = "GetAllVoltage" -> GetAllVoltage
            [] o = "GetTrueVoltage" -> GetTrueVoltage
            [] o = "GetTrueAllVoltage" -> GetTrueAllVoltage
            [] o = "TurnOnOff" -> TurnOnOff
            [] o = "CheckTurnOn" -> CheckTurnOn

AllOps == {"SetVoltage", "SetAllVoltage", "GetVoltage", "GetAllVoltage",
           "GetTrueVoltage", "GetTrueAllVoltage", "TurnOnOff", "CheckTurnOn"}

ASSUME HVAssumption ==
    /\ Ops \subseteq AllOps
    /\ Limit \in Nat \ {0}
    /\ PollingLimit \in Nat
    /\ Size \in Nat
    /\ Channels \in Nat \ {0}
    /\ MaxPending \in Nat
    /\ MaxBuffer \in Nat

VARIABLES lam1, lam2,  \* the LAMs of the interface: alarm, answer
          buffer,      \* words of answers that can be read
          pending,     \* answers under way: sequences of words
          pc, op,      \* where the caller's thread is, in which operation
          round,       \* i of the operation's loop
          step,        \* words written of "before" or of "words"
          polls,       \* count of GetLAM
          rc, flag, type, count,
          taken,       \* whose answer the caller was given
          pure,        \* words of an answer read so far are of this call
          ret,
          alarmed,     \* history of the call: LAM1 was up when it began,
          polled,      \* what became of its polls: "through", "failed",
          failed,      \* an AF failed on the bus
          late         \* history: an answer was under way when a round began

device == <<lam1, lam2, buffer, pending>>
locals == <<round, step, polls, rc, flag, type, count, taken, pure>>
history == <<alarmed, polled, failed>>
vars == <<device, pc, op, locals, ret, history, late>>

AlarmLAM1 == {"USER_ERROR1"}
FailedTrans == {"USER_ERROR2"}
AnyOtherErr == {"USER_ERROR0"}

Hard == {"DATA_XFER_ERROR"}

(* What type_lam holds: GetLAM's answer, or what was there before.         *)
Types == {-1, 1, 2}

Init ==
    /\ lam1 = FALSE /\ lam2 = FALSE /\ buffer = <<>> /\ pending = <<>>
    /\ pc = "idle" /\ op \in Ops
    /\ round = 0 /\ step = 0 /\ polls = 0
    /\ rc = {} /\ flag = TRUE /\ type = -1 /\ count = 0
    /\ taken = "none" /\ pure = TRUE
    /\ ret = {}
    /\ alarmed = FALSE /\ polled = {} /\ failed = FALSE
    /\ late = FALSE
-----------------------------------------------------------------------------
(* The mainframe and its interface.                                        *)
Alarm ==
    /\ ~lam1 /\ lam1' = TRUE
    /\ UNCHANGED <<lam2, buffer, pending, pc, op, locals, ret, history, late>>

(* A full buffer loses the rest of an answer.                              *)
Held(s) == IF Len(s) <= MaxBuffer THEN s ELSE SubSeq(s, 1, MaxBuffer)

Arrive ==
    /\ pending # <<>>
    /\ buffer' = Held(buffer \o Head(pending))
    /\ pending' = Tail(pending)
    /\ lam2' = TRUE
    /\ UNCHANGED <<lam1, pc, op, locals, ret, history, late>>

(* A command is answered in full, a word short, garbled, or not at all.    *)
Short(s) == SubSeq(s, 1, Len(s) - 1)
Answers == {How(op).reply, Short(How(op).reply), <<"error">>, <<>>}

Word(tag) == [tag |-> tag, mine |-> TRUE]

Answered ==
    \E a \in Answers :
        IF a = <<>> \/ Len(pending) = MaxPending THEN UNCHANGED pending
        ELSE pending' = Append(pending, [i \in DOMAIN a |-> Word(a[i])])

Older(s) == [i \in DOMAIN s |-> [s[i] EXCEPT !.mine = FALSE]]
-----------------------------------------------------------------------------
Return(r) == pc' = "returned" /\ ret' = r

(* The statements after the last round: rc first, then flag.               *)
Finish == Return(IF How(op).checked /\ rc' \cap (Errors \ {"NOT_Q"}) # {} THEN rc'
                 ELSE IF flag' THEN {} ELSE FailedTrans)

(* Another round, with flag up again and, declared in it, a new type_lam.  *)
EnterRound == /\ flag' = TRUE
              /\ pc' = "clear"
              /\ IF How(op).fresh THEN type' \in Types ELSE UNCHANGED type

MoreRounds == round + 1 < Limit

Endless_(f) == EnterRound /\ UNCHANGED <<round, ret>>
Again(f) == IF MoreRounds
            THEN round' = round + 1 /\ EnterRound /\ UNCHANGED ret
            ELSE flag' = f /\ Finish /\ UNCHANGED <<round, type>>

(* The call.  SetVoltage alone looks at its channel.                       *)
Begin(o) ==
    /\ pc = "idle"
    /\ op' = o
    /\ type' \in Types
    /\ alarmed' = lam1
    /\ \/ o = "SetVoltage" /\ Return({"INVALID_ARG"})
       \/ pc' = (IF How(o).before > 0 THEN "before" ELSE "clear") /\ UNCHANGED ret
    /\ UNCHANGED <<device, round, step, polls, rc, flag, count, taken, pure,
                   polled, failed, late>>

(* Test: ClearAllLAM, which Init calls as well, takes the alarm back.      *)
Test ==
    /\ pc = "idle"
    /\ lam1' \in {FALSE, lam1} /\ lam2' \in {FALSE, lam2}
    /\ UNCHANGED <<buffer, pending, pc, op, locals, ret, history, late>>

(* What AF reports: done, no Q, or a failure that leaves open whether it   *)
(* was done.                                                               *)
Reports == {{}, {"NOT_Q"}, Hard}

Fault(r) == failed' = (failed \/ r = Hard)

(* ClearInBuff, ClearLAM2: no Q is no error to them.                       *)
Masked(r) == r \ {"NOT_Q"}

(* Write of the words ahead of the rounds, tested when all are written.    *)
Before ==
    /\ pc = "before"
    /\ \E r \in Reports : rc' = rc \cup r /\ Fault(r)
    /\ IF step + 1 < How(op).before THEN step' = step + 1 /\ UNCHANGED <<pc, ret>>
       ELSE /\ step' = 0
            /\ IF IsError(rc') THEN Return(rc') ELSE pc' = "clear" /\ UNCHANGED ret
    /\ UNCHANGED <<device, op, round, polls, flag, type, count, taken, pure,
                   alarmed, polled, late>>

(* A step of a round that may end it there and then.                       *)
Checked(next) ==
    IF How(op).gated /\ IsError(rc') THEN Again(TRUE)
    ELSE pc' = next /\ UNCHANGED <<round, flag, type, ret>>

Uncleared_(r) == UNCHANGED buffer
Emptied(r) == \/ buffer' = <<>>
              \/ r = Hard /\ UNCHANGED buffer

ClearInBuff ==
    /\ pc = "clear"
    /\ late' = (late \/ pending # <<>>)
    /\ \E r \in Reports : /\ rc' = Masked(r)
                           /\ Emptied(r)
                           /\ Fault(r)
    /\ Checked("clearLAM2")
    /\ UNCHANGED <<lam1, lam2, pending, op, step, polls, count, taken, pure,
                   alarmed, polled>>

ClearLAM2 ==
    /\ pc = "clearLAM2"
    /\ \E r \in Reports : /\ rc' = rc \cup Masked(r)
                           /\ lam2' \in (IF r = Hard THEN {FALSE, lam2} ELSE {FALSE})
                           /\ Fault(r)
    /\ Checked("command")
    /\ UNCHANGED <<lam1, buffer, pending, op, step, polls, count, taken, pure,
                   alarmed, polled, late>>

(* The command, or the one that data words follow.                         *)
Command ==
    /\ pc = "command"
    /\ \E r \in Reports :
          /\ rc' = rc \cup r
          /\ \/ r # {} /\ UNCHANGED pending
             \/ r # {"NOT_Q"} /\ IF How(op).words > 0 THEN UNCHANGED pending ELSE Answered
          /\ Fault(r)
    /\ CASE IsError(rc') /\ How(op).refused = "return" ->
              Return(rc') /\ UNCHANGED <<round, flag, type>>
         [] IsError(rc') /\ How(op).refused = "again" -> Again(TRUE)
         [] OTHER -> /\ pc' = (IF How(op).words > 0 THEN "words" ELSE "poll")
                     /\ UNCHANGED <<round, flag, type, ret>>
    /\ UNCHANGED <<lam1, lam2, buffer, op, step, polls, count, taken, pure,
                   alarmed, polled, late>>

(* SetAllVoltage's loop over the channels; the last word is answered.      *)
DataWord ==
    /\ pc = "words"
    /\ \E r \in Reports :
          /\ rc' = rc \cup r
          /\ \/ (r # {} \/ step + 1 < How(op).words) /\ UNCHANGED pending
             \/ r # {"NOT_Q"} /\ step + 1 = How(op).words /\ Answered
          /\ Fault(r)
    /\ \/ IsError(rc') /\ step' = 0 /\ Again(TRUE)
       \/ /\ ~IsError(rc')
          /\ IF step + 1 < How(op).words THEN step' = step + 1 /\ UNCHANGED pc
             ELSE step' = 0 /\ pc' = "poll"
          /\ UNCHANGED <<round, flag, type, ret>>
    /\ UNCHANGED <<lam1, lam2, buffer, op, polls, count, taken, pure, alarmed, polled, late>>

(* GetLAM.  An alarm comes first; a failed poll ends it and leaves type    *)
(* as it was.  Only some callers join its rc to that of the steps before.  *)
Crossed_ == IF lam2 THEN 1 ELSE IF lam1 THEN 2 ELSE -1
AnswerFirst_ == IF lam2 THEN 2 ELSE IF lam1 THEN 1 ELSE -1
LAM == IF lam1 THEN 1 ELSE IF lam2 THEN 2 ELSE -1

Poll ==
    /\ pc = "poll"
    /\ \/ /\ rc' = (IF How(op).deaf THEN Hard ELSE rc \cup Hard)
          /\ failed' = TRUE /\ polled' = polled \cup {"failed"}
          /\ pc' = "lam" /\ polls' = 0
          /\ UNCHANGED type
       \/ /\ rc' = (IF How(op).deaf THEN {} ELSE rc)
          /\ polled' = polled \cup {"through"}
          /\ IF LAM = -1 /\ polls < PollingLimit
             THEN polls' = polls + 1 /\ UNCHANGED <<type, pc>>
             ELSE type' = LAM /\ pc' = "lam" /\ polls' = 0
          /\ UNCHANGED failed
    /\ UNCHANGED <<device, op, round, step, flag, count, taken, pure, ret, alarmed, late>>

(* What the round makes of GetLAM's answer.                                *)
Heard ==
    /\ pc = "lam"
    /\ UNCHANGED rc
    /\ CASE ~How(op).deaf /\ IsError(rc) ->
              Return(rc) /\ UNCHANGED <<round, flag, type>>
         [] (How(op).deaf \/ ~IsError(rc)) /\ type = 1 ->
              Return(AlarmLAM1) /\ UNCHANGED <<round, flag, type>>
         [] (How(op).deaf \/ ~IsError(rc)) /\ type = 2 ->
              pc' = "read" /\ UNCHANGED <<round, flag, type, ret>>
         [] OTHER -> IF How(op).silent = "return"
                     THEN Return(AnyOtherErr) /\ UNCHANGED <<round, flag, type>>
                     ELSE Again(TRUE)
    /\ count' = 0 /\ pure' = TRUE
    /\ UNCHANGED <<device, op, step, polls, taken, history, late>>

Whose == IF count' = 0 THEN "made up" ELSE IF pure' THEN "mine" ELSE "old"

(* What was read is the caller's, and the operation ends.                  *)
Take == /\ flag' = TRUE /\ taken' = Whose
        /\ Finish /\ UNCHANGED <<round, type>>

(* The end of a loop of reads, with flag f.                                *)
LastWord(f) ==
    \/ /\ op = "CheckTurnOn"
       /\ taken' = (IF f THEN Whose ELSE taken)
       /\ Again(f)
    \/ op # "CheckTurnOn" /\ f /\ count = Size /\ Take
    \/ op # "CheckTurnOn" /\ ~(f /\ count = Size) /\ Again(f) /\ UNCHANGED taken

Inner(r) == rc' = (IF How(op).shadow THEN rc ELSE r)

(* Read gave a word.                                                       *)
ReadWord ==
    /\ pc = "read" /\ buffer # <<>>
    /\ buffer' = Tail(buffer)
    /\ Inner({})
    /\ LET w == Head(buffer)
       IN  \/ /\ w.tag \in How(op).accept
              /\ count' = count + 1 /\ pure' = (pure /\ w.mine)
              /\ IF How(op).many THEN UNCHANGED <<pc, round, flag, type, taken, ret>>
                 ELSE Take
           \/ /\ w.tag \in How(op).reject
              /\ UNCHANGED <<count, pure>>
              /\ IF How(op).many THEN LastWord(FALSE) ELSE Again(FALSE) /\ UNCHANGED taken
           \/ /\ w.tag \notin How(op).accept \cup How(op).reject
              /\ UNCHANGED <<count, pure, taken>>
              /\ IF How(op).many THEN UNCHANGED <<pc, round, flag, type, ret>>
                 ELSE Again(TRUE)
    /\ UNCHANGED <<lam1, lam2, pending, op, step, polls, history, late>>

(* Read failed, for want of a word or on the bus.                          *)
ReadNothing ==
    /\ pc = "read"
    /\ \E r \in {{"NOT_Q"}, Hard} :
          /\ r = {"NOT_Q"} => buffer = <<>>
          /\ buffer' \in {buffer} \cup (IF r = Hard /\ buffer # <<>>
                                        THEN {Tail(buffer)} ELSE {})
          /\ Fault(r)
          /\ UNCHANGED <<count, pure>>
          /\ IF How(op).many /\ r = {"NOT_Q"} THEN Inner(r) /\ LastWord(TRUE)
             ELSE IF How(op).unread = "return"
               THEN rc' = r /\ Return(r) /\ UNCHANGED <<round, flag, type, taken>>
             ELSE /\ Inner(r)
                  /\ IF How(op).many THEN LastWord(FALSE)
                     ELSE Again(TRUE) /\ UNCHANGED taken
    /\ UNCHANGED <<lam1, lam2, pending, op, step, polls, alarmed, polled, late>>

(* The caller takes the result, and what is left of the call in the        *)
(* interface is an earlier call's from now on.                             *)
Done ==
    /\ pc = "returned"
    /\ pc' = "idle"
    /\ round' = 0 /\ rc' = {} /\ flag' = TRUE /\ type' = -1 /\ count' = 0
    /\ taken' = "none" /\ pure' = TRUE /\ ret' = {}
    /\ alarmed' = FALSE /\ polled' = {} /\ failed' = FALSE
    /\ buffer' = Older(buffer)
    /\ pending' = [i \in DOMAIN pending |-> Older(pending[i])]
    /\ UNCHANGED <<lam1, lam2, op, step, polls, late>>

Driver == \/ Before \/ ClearInBuff \/ ClearLAM2 \/ Command \/ DataWord
          \/ Poll \/ Heard \/ ReadWord \/ ReadNothing

Next == \/ Alarm \/ Arrive
        \/ Test \/ \E o \in Ops : Begin(o)
        \/ Driver
        \/ Done

Spec == Init /\ [][Next]_vars

(* The thread runs; answers that are under way arrive.                     *)
FairSpec == Spec /\ WF_vars(Driver) /\ WF_vars(Arrive)
-----------------------------------------------------------------------------
PC == {"idle", "before", "clear", "clearLAM2", "command", "words", "poll",
       "lam", "read", "returned"}

Words == [tag : Tags, mine : BOOLEAN]

(* Every variable has its type.                                            *)
TypeOK ==
    /\ lam1 \in BOOLEAN /\ lam2 \in BOOLEAN
    /\ buffer \in Seq(Words) /\ pending \in Seq(Seq(Words))
    /\ pc \in PC /\ op \in AllOps
    /\ round \in 0 .. Limit - 1
    /\ step \in Nat
    /\ polls \in 0 .. PollingLimit
    /\ rc \in Result /\ flag \in BOOLEAN
    /\ type \in Types
    /\ count \in Nat
    /\ taken \in {"none", "mine", "old", "made up"}
    /\ pure \in BOOLEAN
    /\ ret \in Result
    /\ alarmed \in BOOLEAN /\ polled \subseteq {"through", "failed"} /\ failed \in BOOLEAN
    /\ late \in BOOLEAN

(* An alarm that is up when the operation is called is not papered over:   *)
(* an operation that polled the interface and still answers CC_OK never    *)
(* got as far as a poll that could see it.                                 *)
AlarmIsKept == pc = "returned" /\ alarmed /\ ret = {} => "through" \notin polled

(* AlarmLAM1 is the mainframe's alarm, unless a poll of the call has       *)
(* failed, after which some operations go by an uninitialised or outdated  *)
(* type_lam; no other failure excuses it.                                  *)
AlarmIsReal == pc = "returned" /\ ret = AlarmLAM1 => lam1 \/ "failed" \in polled

(* The two operations that read settings never answer CC_OK after a fault  *)
(* on the bus, in whatever round.  GetVoltage answers it with a reading;   *)
(* GetAllVoltage with a reading of every channel or, data being as it was, *)
(* when its last answer was of another length than the caller's array ...  *)
SettingIsRead ==
    pc = "returned" /\ op \in {"GetVoltage", "GetAllVoltage"} /\ ret = {} =>
        /\ ~failed
        /\ op = "GetVoltage" => taken \in {"mine", "old"}
        /\ op = "GetAllVoltage" => taken # "none" \/ count # Size

(* ... although the comments of LeCroy.h say of all the operations that    *)
(* read what they read: CC_OK comes with the values they are called for.   *)
OkIsRead ==
    pc = "returned" /\ ret = {} /\ op \notin {"SetVoltage", "SetAllVoltage", "TurnOnOff"} =>
        taken \in {"mine", "old"}

(* As long as answers have come before the driver gave up on them, what    *)
(* the caller is given, or is told was done, answers this call, no earlier *)
(* one, although nothing in a word says which command it answers.          *)
AnswerIsMine == ~late => taken # "old"

(* Nor does a round read more words than one full answer has, though the   *)
(* loops of reads end with a Q only and put each word one place further in *)
(* an array.  The answer alone bounds them: they never look at the size of *)
(* the array (LeCroy_public.cpp:362, 494), so that a caller with room for  *)
(* fewer words than its mainframe has channels is overrun all the same.    *)
WordsKeepToAnswer == ~late => count <= Len(How(op).reply)

(* An operation returns, after Limit rounds at most.                       *)
CallReturns == (pc # "idle") ~> (pc = "returned")
=============================================================================
