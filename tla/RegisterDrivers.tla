-------------------------- MODULE RegisterDrivers --------------------------
(***************************************************************************)
(* The drivers of modules that are a few registers: CAS, Attenuator_A0605, *)
(* Coincide_L0306_4A and _C0308, ZIF_L0323, DelayPulseShaper_L0323,        *)
(* Discriminator_D0302, LIZA_B0608, IV_C0309, HVS_B0307 and _B0308, U0302. *)
(* Each keeps a shadow of what it has written, against which Verify reads  *)
(* the device and from which Test restores it.                             *)
(*                                                                         *)
(* A driver is the tuple of its registers, each a record of the decisions  *)
(* its setter and its getter make; an operation is the sequence of steps   *)
(* its code makes, setters and getters most of them.  A word is the set of *)
(* its bits that are up, so a mask is an intersection.                     *)
(***************************************************************************)
EXTENDS CamacResult, SequencesExt

CONSTANTS Drivers,  \* the drivers of this instance, by class
          Data      \* the bits a register holds

(* "x" is a bit no register holds, which a read has when the module is     *)
(* overloaded; "on" is the switch of a voltage supply or a channel.        *)
Bits == Data \cup {"on", "x"}
Word == SUBSET Bits

Classes == {"CAS", "Attenuator_A0605", "Coincide_L0306_4A", "Coincide_C0308",
            "ZIF_L0323", "DelayPulseShaper_L0323", "Discriminator_D0302",
            "LIZA_B0608", "IV_C0309", "HVS_B0307", "HVS_B0308", "U0302"}

ASSUME RegisterAssumption ==
    Drivers \subseteq Classes /\ IsFiniteSet(Data) /\ Data \cap {"on", "x"} = {}

Hard == {"DATA_XFER_ERROR"}
-----------------------------------------------------------------------------
(* The registers.  "unset": the shadow before the first write; "refusal":  *)
(* the answer to a word with bits the register lacks, {} where the setter  *)
(* does not look; "keeps": when the setter stores the word in the shadow;  *)
(* "width": bits of the shadow; "reads": what the getter makes of a word   *)
(* ("early" hands nothing out unless the word is good, "bad" replaces one  *)
(* with other bits by all ones); "lax": Q does not matter.                 *)
MaskAND == [unset |-> {}, refusal |-> {"INVALID_ARG"}, keeps |-> "done",
            width |-> Data, reads |-> "mask", lax |-> FALSE]

MaskOR == [MaskAND EXCEPT !.unset = {"x"}, !.width = Bits, !.reads = "bad"]

(* A definition whose name ends in _ is not the code's: it is the mistake  *)
(* a property below would catch.                                           *)
Coincide_L0306_4A == <<MaskAND, MaskOR>>
Coincide_C0308 == <<[MaskAND EXCEPT !.keeps = "failed"], MaskOR>>

CAS == <<[MaskAND EXCEPT !.unset = Bits, !.refusal = {"USER_ERROR0"},
                         !.width = Bits, !.reads = "early"]>>

Attenuator_A0605 == <<[MaskAND EXCEPT !.unset = {"x"}, !.width = Bits]>>

ZIF_L0323 == LET r == [MaskAND EXCEPT !.reads = "bad"] IN <<r, r>>

DelayPulseShaper_L0323 ==
    LET r == [MaskAND EXCEPT !.refusal = {}, !.reads = "bad"] IN <<r, r>>

Wide_ == LET r == [MaskAND EXCEPT !.refusal = {}, !.width = Bits] IN <<r, r>>
Discriminator_D0302 == LET r == [MaskAND EXCEPT !.refusal = {}] IN <<r, r>>

(* !rc&CAMAC_CC_ERRORS is 0 whatever rc is.                                *)
LIZA_B0608 == <<[MaskOR EXCEPT !.refusal = {}, !.keeps = "never", !.lax = TRUE]>>

IV_C0309 == <<[MaskAND EXCEPT !.refusal = {}, !.reads = "plain"]>>

(* Code &= ~VoltageMask|v.                                                 *)
Supply == [MaskAND EXCEPT !.refusal = {}, !.keeps = "clears", !.width = Bits,
                          !.reads = "plain"]
HVS_B0307 == <<Supply>>
HVS_B0308 == <<Supply, Supply>>

(* Its _enabled and _length go ahead of the writes.                        *)
U0302 == LET r == [MaskAND EXCEPT !.unset = Data, !.refusal = {}, !.width = Bits]
         IN  <<r, r>>

Registers(d) ==
    CASE d = "CAS" -> CAS
      [] d = "Attenuator_A0605" -> Attenuator_A0605
      [] d = "Coincide_L0306_4A" -> Coincide_L0306_4A
      [] d = "Coincide_C0308" -> Coincide_C0308
      [] d = "ZIF_L0323" -> ZIF_L0323
      [] d = "DelayPulseShaper_L0323" -> DelayPulseShaper_L0323
      [] d = "Discriminator_D0302" -> Discriminator_D0302
      [] d = "LIZA_B0608" -> LIZA_B0608
      [] d = "IV_C0309" -> IV_C0309
      [] d = "HVS_B0307" -> HVS_B0307
      [] d = "HVS_B0308" -> HVS_B0308
      [] d = "U0302" -> U0302
-----------------------------------------------------------------------------
(* The steps an operation is made of: what it does, to which channel, with *)
(* which word.                                                             *)
Step(do, c, w) == <<[do |-> do, c |-> c, w |-> w]>>

Set(c) == Step("set", c, {})          \* the setter, with the caller's word
SetBack(c) == Step("setBack", c, {})  \* ... with the word read last
Restore(c) == Step("restore", c, {})  \* ... with the word saved
Try(c, w) == Step("try", c, w)        \* ... with w
Write(c) == Step("write", c, {})      \* AF with the caller's word
Put(c, w) == Step("put", c, w)        \* AF with w
Refresh(c) == Step("refresh", c, {})  \* AF with the shadow
Get(c) == Step("get", c, {})          \* the getter
Update(c) == Step("update", c, {})    \* read into the shadow
Switch(c, on) == Step("switch", c, on)   \* AF(afOn), AF(afOff)
Turn(c, on) == Step("turn", c, on)       \* ... and the shadow's switch
Lam == Step("lam", 0, {})                \* AF(afClearLAM), start, stop
CheckLam == Step("checkLam", 0, {})      \* AF(afCheckLAM), no Q is no error,
NoLam == Step("noLam", 0, {})            \* ... and Q is a failure of Test
Gate == Step("gate", 0, {})              \* an error so far ends the operation
Forget(c) == Step("forget", c, {})
Assume(c, on) == Step("assume", c, on)   \* the shadow's switch,
AssumeLength(c) == Step("assumeLength", c, {})  \* ... the rest of it
Adopt(c) == Step("adopt", c, {})
Save(c) == Step("save", c, {})
SaveRead(c) == Step("saveRead", c, {})
Compare(c) == Step("compare", c, {})     \* Verify's
Same(c) == Step("same", c, {})           \* SetControl's
Check(c, w) == Step("check", c, w)       \* Test's, goes on
Must(c, w) == Step("must", c, w)         \* Test's, ends it
MustBe(c, on) == Step("mustBe", c, on)   \* ... on the switch

(* One part per register, of which a driver has one or two, and one of k   *)
(* steps per word of a set.                                                *)
Each(regs, steps(_)) == IF Len(regs) = 1 THEN steps(1) ELSE steps(1) \o steps(2)
EachOf(W, k, steps(_)) ==
    LET s == SetToSeq(W)
    IN  [n \in 1..(k * Len(s)) |-> steps(s[((n - 1) \div k) + 1])[((n - 1) % k) + 1]]

(* Init with the caller's words, and without: most drivers take over what  *)
(* the device has.                                                         *)
SetAll(regs) == Each(regs, Set)
Adjust(regs) == Each(regs, LAMBDA c : Get(c) \o SetBack(c))
SetFirst_(regs) == Each(regs, SetBack) \o Each(regs, Get)
TakeOver(regs) == Each(regs, Get) \o Each(regs, SetBack)
AdoptAll(regs) == Each(regs, LAMBDA c : Get(c) \o Gate \o Adopt(c))

Last_(regs) == Each(regs, Get) \o Gate \o Compare(Len(regs))
VerifyAll(regs) == Each(regs, LAMBDA c : Get(c) \o Gate \o Compare(c))

(* Test writes every word, reads it back and restores the shadow's word.   *)
WriteAndRead(c, W) == EachOf(W, 3, LAMBDA w : Try(c, w) \o Get(c) \o Check(c, w))

Unrestored_(regs, W) == Each(regs, LAMBDA c : Save(c) \o WriteAndRead(c, W))
TestAll(regs, W) == Each(regs, LAMBDA c : Save(c) \o WriteAndRead(c, W) \o Restore(c))

CASCalls(o, c) ==
    CASE o = "InitTo" -> Forget(1) \o Set(1)
      [] o = "Init" -> Forget(1) \o Try(1, {})
      [] o = "Verify" -> VerifyAll(CAS)
      [] o = "Test" -> TestAll(CAS, SUBSET Data)
      [] o = "Set" -> Set(c)

AttenuatorCalls(o, c) ==
    CASE o = "InitTo" -> Forget(1) \o Set(1)
      [] o = "Init" -> Get(1) \o Forget(1) \o SetBack(1)
      [] o = "Verify" -> VerifyAll(Attenuator_A0605)
      [] o = "Test" -> TestAll(Attenuator_A0605, SUBSET Data)
      [] o = "Set" -> Set(c)

(* The last read of Verify is not gated.                                   *)
VerifyMasks == Get(1) \o Gate \o Compare(1) \o Get(2) \o Compare(2)

L0306Calls(o, c) ==
    CASE o = "InitTo" -> SetAll(Coincide_L0306_4A)
      [] o = "Init" -> TakeOver(Coincide_L0306_4A)
      [] o = "Verify" -> VerifyMasks
      [] o = "Test" -> TestAll(Coincide_L0306_4A, SUBSET Data)
      [] o = "Set" -> Set(c)

C0308Calls(o, c) ==
    CASE o = "InitTo" -> SetAll(Coincide_C0308)
      [] o = "Init" -> TakeOver(Coincide_C0308)
      [] o = "Verify" -> VerifyMasks
      [] o = "Test" -> TestAll(Coincide_C0308, SUBSET Data)
      [] o = "Set" -> Set(c)

(* Test counts up to maxDuration, which is a time and not a word.          *)
ZIFCalls(o, c) ==
    CASE o = "InitTo" -> SetAll(ZIF_L0323)
      [] o = "Init" -> Adjust(ZIF_L0323)
      [] o = "Verify" -> VerifyAll(ZIF_L0323)
      [] o = "Test" -> TestAll(ZIF_L0323, SUBSET (Data \cup {"x"}))
      [] o = "Set" -> Set(c)

ShaperCalls(o, c) ==
    CASE o = "InitTo" -> SetAll(DelayPulseShaper_L0323)
      [] o = "Init" -> Adjust(DelayPulseShaper_L0323)
      [] o = "Verify" -> VerifyAll(DelayPulseShaper_L0323)
      [] o = "Test" -> TestAll(DelayPulseShaper_L0323, SUBSET Data)
      [] o = "Set" -> Set(c)

D0302Calls(o, c) ==
    CASE o = "InitTo" -> SetAll(Discriminator_D0302)
      [] o = "Init" -> TakeOver(Discriminator_D0302)
      [] o = "Verify" -> VerifyAll(Discriminator_D0302)
      [] o = "Test" -> TestAll(Discriminator_D0302, SUBSET Data)
      [] o = "Set" -> Set(c)

(* Test restores what it has read, after every word.                       *)
LIZACalls(o, c) ==
    CASE o = "InitTo" -> Get(1) \o Adopt(1) \o Gate \o Set(1)
      [] o = "Init" -> Get(1) \o Adopt(1)
      [] o = "Verify" -> VerifyAll(LIZA_B0608)
      [] o = "Test" -> Get(1) \o SaveRead(1)
              \o EachOf(SUBSET Data, 4, LAMBDA w : Try(1, w) \o Get(1) \o Check(1, w) \o Restore(1))
      [] o = "Set" -> Set(c)

(* SetControl reads back (no build of the repository defines NDEBUG).  Its *)
(* answer to a wrong word, 1, is no error to Test.  A Gate looks at all of *)
(* rc: when ClearLAM has failed, Init skips the reading back and answers   *)
(* an error all the same.  Test starts and stops the meter even after a    *)
(* SetControl that failed; nothing here follows what that does.            *)
SetControl == Set(1) \o Gate \o Get(1) \o Same(1)
TestControl == Try(1, {}) \o Gate \o Get(1) \o Gate \o Lam \o Gate

IVCalls(o, c) ==
    CASE o = "InitTo" -> Lam \o SetControl
      [] o = "Init" -> Lam \o AdoptAll(IV_C0309)
      [] o = "Verify" -> VerifyAll(IV_C0309)
      [] o = "Test" -> Lam \o Gate \o TestControl \o TestControl \o CheckLam
      [] o = "Set" -> SetControl

TestSupply(c) ==
    Try(c, {}) \o Switch(c, {}) \o Gate
    \o Switch(c, {"on"}) \o Get(c) \o Gate \o MustBe(c, {"on"})
    \o Switch(c, {}) \o Get(c) \o Gate \o MustBe(c, {})
    \o EachOf({{b} : b \in Data}, 5,
               LAMBDA w : Put(c, w) \o Gate \o Get(c) \o Gate \o Must(c, w))
    \o Try(c, {}) \o Switch(c, {"on"}) \o Gate
TestSupplies(regs) == Lam \o Gate \o Each(regs, TestSupply) \o NoLam

WriteAndTurnOn(c) == Write(c) \o Switch(c, {"on"})

(* Init reads the code and leaves it there.                                *)
B0307Calls(o, c) ==
    CASE o = "InitTo" -> Lam \o Each(HVS_B0307, WriteAndTurnOn)
      [] o = "Init" -> Lam \o Get(1)
      [] o = "Verify" -> VerifyAll(HVS_B0307)
      [] o = "Test" -> TestSupplies(HVS_B0307)
      [] o = "Set" -> Set(c)
      [] o = "TurnOn" -> Turn(c, {"on"})
      [] o = "TurnOff" -> Turn(c, {})
      [] o = "Update" -> Update(c)
      [] o = "ResetOverload" -> Lam

B0308Calls(o, c) ==
    CASE o = "InitTo" -> Lam \o Each(HVS_B0308, WriteAndTurnOn)
      [] o = "Init" -> Lam \o AdoptAll(HVS_B0308)
      [] o = "Verify" -> VerifyAll(HVS_B0308)
      [] o = "Test" -> TestSupplies(HVS_B0308)
      [] o = "Set" -> Set(c)
      [] o = "TurnOn" -> Turn(c, {"on"})
      [] o = "TurnOff" -> Turn(c, {})
      [] o = "Update" -> Update(c)
      [] o = "UpdateAll" -> Each(HVS_B0308, Update)
      [] o = "ResetOverload" -> Lam

(* It writes all its channels whichever is set.                            *)
U0302Calls(o, c) ==
    CASE o = "SetLength" -> Each(U0302, AssumeLength) \o Each(U0302, Refresh)
      [] o = "TurnOn" -> Assume(c, {"on"}) \o Each(U0302, Refresh)
      [] o = "TurnOff" -> Assume(c, {}) \o Each(U0302, Refresh)

Supplies == {"HVS_B0307", "HVS_B0308"}

OfChannel == {"Set", "TurnOn", "TurnOff", "Update"}
Operations(d) ==
    IF d = "U0302" THEN {"TurnOn", "TurnOff", "SetLength"}
    ELSE {"InitTo", "Init", "Verify", "Test", "Set"}
         \cup (IF d \in Supplies THEN {"TurnOn", "TurnOff", "Update", "ResetOverload"}
               ELSE {})
         \cup (IF d = "HVS_B0308" THEN {"UpdateAll"} ELSE {})

Program(d, o, c) ==
    CASE d = "CAS" -> CASCalls(o, c)
      [] d = "Attenuator_A0605" -> AttenuatorCalls(o, c)
      [] d = "Coincide_L0306_4A" -> L0306Calls(o, c)
      [] d = "Coincide_C0308" -> C0308Calls(o, c)
      [] d = "ZIF_L0323" -> ZIFCalls(o, c)
      [] d = "DelayPulseShaper_L0323" -> ShaperCalls(o, c)
      [] d = "Discriminator_D0302" -> D0302Calls(o, c)
      [] d = "LIZA_B0608" -> LIZACalls(o, c)
      [] d = "IV_C0309" -> IVCalls(o, c)
      [] d = "HVS_B0307" -> B0307Calls(o, c)
      [] d = "HVS_B0308" -> B0308Calls(o, c)
      [] d = "U0302" -> U0302Calls(o, c)
-----------------------------------------------------------------------------
VARIABLES class,   \* the driver
          reg,     \* the registers of its device
          code,    \* its shadow of them
          op,      \* the operation it is in, or was in last
          todo,    \* the steps of it that are left
          arg,     \* the caller's words
          rc, dt,  \* result and test state so far, and when it is over
          data,    \* what the getters have handed out
          saved,   \* Test's saved word
          over,    \* history of the call: a read was overloaded,
          failed,  \* an AF failed,
          before,  \* what reg was,
          synced,  \* and whether code agreed with it
          clean    \* history: since InitTo, calls have answered CC_OK

call == <<op, arg, before, synced>>
locals == <<rc, dt, data, saved, over, failed>>
vars == <<class, reg, code, todo, call, locals, clean>>

Channels == DOMAIN Registers(class)
R(c) == Registers(class)[c]

(* Of a shadow, what the driver means the register to hold: an overload is *)
(* part of the word of a supply.                                           *)
Shown(w) == IF class \in Supplies THEN w \ {"x"} ELSE w
HasSwitch == IF class \in Supplies \cup {"U0302"} THEN {"on"} ELSE {}
InSync == \A c \in Channels : Shown(code[c]) = reg[c]

Zero == [c \in Channels |-> {}]

Init ==
    /\ class \in Drivers
    /\ reg \in [Channels -> SUBSET (Data \cup HasSwitch)]
    /\ code = [c \in Channels |-> R(c).unset]
    /\ op = "none" /\ todo = <<>>
    /\ arg = Zero /\ before = Zero /\ synced = FALSE
    /\ rc = {} /\ dt = "SUCCESS" /\ data = Zero /\ saved = {}
    /\ over = FALSE /\ failed = FALSE
    /\ clean = FALSE

(* The words a caller can pass: Init's arrays are as wide as the shadow,   *)
(* but for Discriminator_D0302's, which are wider; SetLength has one word  *)
(* for all channels.                                                       *)
Args(o) ==
    CASE o = "InitTo" -> {a \in [Channels -> SUBSET (Data \cup {"x"})] :
                              \A c \in Channels : \/ a[c] \subseteq R(c).width
                                                 \/ class = "Discriminator_D0302"}
      [] o = "Set" -> {[c \in Channels |-> w] : w \in SUBSET (Data \cup {"x"})}
      [] o = "SetLength" -> {[c \in Channels |-> w] : w \in SUBSET Data}
      [] OTHER -> {Zero}

Call(o, c) ==
    /\ op = "none"
    /\ op' = o
    /\ arg' \in Args(o)
    /\ before' = reg /\ synced' = InSync
    /\ todo' = Program(class, o, c)
    /\ UNCHANGED <<class, reg, code, locals, clean>>

(* What AF reports.  Only without an error is a write sure to be done and  *)
(* a word sure to be the register's, but for a module that gives no Q.     *)
Reports == {{}, {"NOT_Q"}, Hard}

Counts(c, r) == IF R(c).lax THEN r \ {"NOT_Q"} ELSE r

Fails(c, r) == failed' = (failed \/ Counts(c, r) # {})
-----------------------------------------------------------------------------
Rest == Tail(todo)
Now(do) == todo # <<>> /\ Head(todo).do = do

(* The setter's word.                                                      *)
Given(do, c, w) == CASE do = "set" -> arg[c]
                     [] do = "setBack" -> data[c]
                     [] do = "restore" -> saved
                     [] do = "try" -> w

Written(c, w) == [reg EXCEPT ![c] = (@ \ Data) \cup (w \cap Data)]

(* The shadow after a write of w that reports r.                           *)
Kept(c, w, r) ==
    CASE R(c).keeps = "done" /\ Counts(c, r) = {} -> w \cap R(c).width
      [] R(c).keeps = "failed" /\ r # {} -> w \cap R(c).width
      [] R(c).keeps = "clears" /\ r = {} -> code[c] \cap ((Bits \ Data) \cup w)
      [] OTHER -> code[c]

(* The setters: SetMaskAND, SetDuration and so on.                         *)
Setter(do, c) ==
    /\ Now(do) /\ Head(todo).c = c
    /\ todo' = Rest
    /\ LET w == Given(do, c, Head(todo).w)
       IN  \/ /\ R(c).refusal # {} /\ ~(w \subseteq Data)
              /\ rc' = rc \cup R(c).refusal
              /\ UNCHANGED <<reg, code, failed>>
           \/ /\ R(c).refusal = {} \/ w \subseteq Data
              /\ \E r \in Reports :
                    /\ reg' \in {Written(c, w)} \cup (IF Counts(c, r) = {} THEN {} ELSE {reg})
                    /\ code' = [code EXCEPT ![c] = Kept(c, w, r)]
                    /\ rc' = rc \cup Counts(c, r)
                    /\ Fails(c, r)
    /\ UNCHANGED <<class, call, dt, data, saved, over, clean>>

(* AF(afWrite) of the caller's word, of w, of U0302's word.                *)
Bare(do, c, w) == CASE do = "write" -> arg[c] [] do = "put" -> w
                    [] do = "refresh" -> code[c]

RawWrite(do, c) ==
    /\ Now(do) /\ Head(todo).c = c
    /\ todo' = Rest
    /\ \E r \in Reports :
          /\ LET w == Bare(do, c, Head(todo).w)
                 on == IF do = "refresh" THEN {"on"} ELSE {}
             IN  reg' \in {[reg EXCEPT ![c] = (@ \ (Data \cup on)) \cup (w \cap (Data \cup on))]}
                          \cup (IF r = {} THEN {} ELSE {reg})
          /\ rc' = rc \cup r
          /\ Fails(c, r)
    /\ UNCHANGED <<class, code, call, dt, data, saved, over, clean>>

(* AF(afOn) and AF(afOff); Turn keeps the switch in the shadow.            *)
RawSwitch(do, c) ==
    /\ Now(do) /\ Head(todo).c = c
    /\ todo' = Rest
    /\ \E r \in Reports :
          /\ LET On(w) == (w \ {"on"}) \cup Head(todo).w
             IN  /\ reg' \in {[reg EXCEPT ![c] = On(@)]} \cup (IF r = {} THEN {} ELSE {reg})
                 /\ code' = IF do = "turn" /\ r = {} THEN [code EXCEPT ![c] = On(@)] ELSE code
          /\ rc' = rc \cup r
          /\ Fails(c, r)
    /\ UNCHANGED <<class, call, dt, data, saved, over, clean>>

(* What the getter makes of a word read with report r: the words that may  *)
(* come out, and the errors it adds.                                       *)
Out(c, w, r) ==
    CASE R(c).reads = "mask" -> {w \cap Data}
      [] R(c).reads = "bad" -> {IF w \subseteq Data \cup {"on"} THEN w ELSE Bits}
      [] R(c).reads = "early" -> IF r = {} /\ w \subseteq Data THEN {w} ELSE SUBSET Data
      [] R(c).reads = "plain" -> {w}

Refused(c, w, r) ==
    IF R(c).reads = "early" /\ r = {} /\ ~(w \subseteq Data) THEN {"USER_ERROR0"} ELSE {}

(* The words a read may give: the register's, with an overload, garbage.   *)
(* (After a failed read no supply's driver looks at the switch.)           *)
OnBus(c, r) == IF Counts(c, r) = {} THEN {reg[c], reg[c] \cup {"x"}}
               ELSE SUBSET (Data \cup {"x"})

(* The getters: GetMaskAND, GetDuration, AF(afRead) and so on.  Update     *)
(* stores what it has read.                                                *)
Getter(do, c) ==
    /\ Now(do) /\ Head(todo).c = c
    /\ todo' = Rest
    /\ \E r \in Reports : \E w \in OnBus(c, r) : \E v \in Out(c, w, r) :
          /\ data' = (IF do = "get" THEN [data EXCEPT ![c] = v] ELSE data)
          /\ code' = (IF do = "update" /\ r = {} THEN [code EXCEPT ![c] = v] ELSE code)
          /\ over' = (over \/ (Counts(c, r) = {} /\ "x" \in w))
          /\ rc' = rc \cup Counts(c, r) \cup Refused(c, w, r)
          /\ Fails(c, r)
    /\ UNCHANGED <<class, reg, call, dt, saved, clean>>
-----------------------------------------------------------------------------
(* The bare LAM functions.  Test of a supply wants no Q of afCheckLAM: a Q *)
(* is the LAM of an overload.                                              *)
LamFunction(do) ==
    /\ Now(do)
    /\ todo' = Rest
    /\ \E r \in Reports :
          LET e == IF do = "lam" THEN r ELSE r \ {"NOT_Q"}
              up == do = "noLam" /\ r = {}
          IN  /\ rc' = rc \cup e
              /\ failed' = (failed \/ e # {})
              /\ dt' = (IF up THEN "BROKEN" ELSE dt)
              /\ over' = (over \/ up)
    /\ UNCHANGED <<class, reg, code, call, data, saved, clean>>

AnError ==
    /\ Now("gate")
    /\ todo' = (IF IsError(rc) THEN <<>> ELSE Rest)
    /\ UNCHANGED <<class, reg, code, call, locals, clean>>

(* What the code between the accesses makes of the shadow.                 *)
Noted(do, c, w) ==
    CASE do = "forget" -> R(c).unset
      [] do = "assume" -> (code[c] \ {"on"}) \cup w
      [] do = "assumeLength" -> (code[c] \cap {"on"}) \cup (arg[c] \cap Data)
      [] do = "adopt" -> data[c] \cap R(c).width

Note(do, c) ==
    /\ Now(do) /\ Head(todo).c = c
    /\ todo' = Rest
    /\ code' = [code EXCEPT ![c] = Noted(do, c, Head(todo).w)]
    /\ UNCHANGED <<class, reg, call, locals, clean>>

Saves(do, c) ==
    /\ Now(do) /\ Head(todo).c = c
    /\ todo' = Rest
    /\ saved' = (IF do = "save" THEN code[c] ELSE data[c])
    /\ UNCHANGED <<class, reg, code, call, rc, dt, data, over, failed, clean>>

(* A mismatch is Verify's answer; of SetControl too, but after an error.   *)
Matches(do, c) ==
    IF do = "compare" THEN data[c] = code[c] ELSE data[c] \cap Data = arg[c]

Compares(do, c) ==
    /\ Now(do) /\ Head(todo).c = c
    /\ IF Matches(do, c) \/ (do = "same" /\ IsError(rc)) THEN todo' = Rest /\ rc' = rc
       ELSE /\ todo' = <<>>
            /\ rc' = IF do = "compare" THEN {"VERIFICATION_ERROR"} ELSE {"BOOL"}
    /\ UNCHANGED <<class, reg, code, call, dt, data, saved, over, failed, clean>>

(* Test has read another word than it wrote.                               *)
IsRight(do, c, w) ==
    CASE do = "check" -> data[c] = w
      [] do = "must" -> data[c] \cap Data = w
      [] do = "mustBe" -> data[c] \cap {"on"} = w

Judges(do, c) ==
    /\ Now(do) /\ Head(todo).c = c
    /\ IF IsRight(do, c, Head(todo).w) THEN todo' = Rest /\ dt' = dt
       ELSE /\ todo' = (IF do = "check" THEN Rest ELSE <<>>)
            /\ dt' = "BROKEN"
    /\ UNCHANGED <<class, reg, code, call, rc, data, saved, over, failed, clean>>
-----------------------------------------------------------------------------
(* The answers: a result, and Test's state.                                *)
rc2test(r) ==
    CASE "IFACE_TIMEOUT" \in r -> "INTERMEDIATE_ABSENT"
      [] "IFACE_TIMEOUT" \notin r /\ "NOT_X" \in r -> "ABSENT"
      [] "IFACE_TIMEOUT" \notin r /\ "NOT_X" \notin r ->
            IF IsError(r) THEN "BROKEN" ELSE "SUCCESS"

Careless_ == dt
TestState == IF IsError(rc) THEN rc2test(rc) ELSE dt

Returned == op # "none" /\ todo = <<>>
Answers(o) == Returned /\ op = o

(* Every operation of U0302 writes all of its registers.                   *)
WritesAll == op = "InitTo" \/ class = "U0302"

Done ==
    /\ Returned
    /\ op' = "none" /\ todo' = <<>>
    /\ arg' = Zero /\ before' = Zero /\ synced' = FALSE
    /\ rc' = {} /\ dt' = "SUCCESS" /\ data' = Zero /\ saved' = {}
    /\ over' = FALSE /\ failed' = FALSE
    /\ clean' = (~failed /\ IF WritesAll THEN rc = {} ELSE clean)
    /\ UNCHANGED <<class, reg, code>>

CallOne(c) == \E o \in Operations(class) \cap OfChannel : Call(o, c)
CallAll == \E o \in Operations(class) \ OfChannel : Call(o, 1)

StepOf(c) ==
    \/ \E do \in {"set", "setBack", "restore", "try"} : Setter(do, c)
    \/ \E do \in {"write", "put", "refresh"} : RawWrite(do, c)
    \/ \E do \in {"switch", "turn"} : RawSwitch(do, c)
    \/ \E do \in {"get", "update"} : Getter(do, c)
    \/ \E do \in {"forget", "assume", "assumeLength", "adopt"} : Note(do, c)
    \/ \E do \in {"save", "saveRead"} : Saves(do, c)
    \/ \E do \in {"compare", "same"} : Compares(do, c)
    \/ \E do \in {"check", "must", "mustBe"} : Judges(do, c)

Next ==
    \/ CallAll
    \/ \E c \in Channels : CallOne(c) \/ StepOf(c)
    \/ \E do \in {"lam", "checkLam", "noLam"} : LamFunction(do)
    \/ AnError
    \/ Done

Spec == Init /\ [][Next]_vars
-----------------------------------------------------------------------------
(* Every variable has its type.                                            *)
TypeOK ==
    /\ class \in Drivers
    /\ reg \in [Channels -> SUBSET (Data \cup {"on"})]
    /\ code \in [Channels -> Word] /\ data \in [Channels -> Word]
    /\ op \in Operations(class) \cup {"none"}
    /\ arg \in [Channels -> Word] /\ before \in [Channels -> SUBSET (Data \cup {"on"})]
    /\ rc \in Result /\ dt \in {"SUCCESS", "BROKEN"}
    /\ saved \in Word
    /\ synced \in BOOLEAN /\ over \in BOOLEAN /\ failed \in BOOLEAN /\ clean \in BOOLEAN

(* A driver does not lose a failure on the way: when an access of a call   *)
(* has failed, its result is an error and its test state no success.       *)
AnswerTellsFailure == Returned /\ failed => IsError(rc) /\ TestState # "SUCCESS"

(* When Verify answers CC_OK the device has the words its driver believes  *)
(* it has, whatever was called before.  (LIZA_B0608 takes the all ones of  *)
(* an overload for a word, and finds them again in the next overload.)     *)
VerifyIsHonest == Answers("Verify") /\ rc = {} /\ ~over => InSync

(* A Test that succeeds leaves the device with the words it had, and the   *)
(* driver knowing them, if the driver knew them before.                    *)
Restoring == Classes \ (Supplies \cup {"IV_C0309", "Coincide_C0308", "LIZA_B0608", "U0302"})
TestRestores ==
    /\ Answers("Test") /\ TestState = "SUCCESS" /\ synced
    /\ class \in Restoring
    => reg = before /\ InSync

(* An Init without words takes the words of the device over: it answers    *)
(* CC_OK only with the device as it was and the driver in agreement.       *)
Adopting == Classes \ {"CAS", "Coincide_C0308", "HVS_B0307", "U0302"}
InitAdopts ==
    Answers("Init") /\ rc = {} /\ ~over /\ class \in Adopting => reg = before /\ InSync

(* As long as calls answer CC_OK or refuse their arguments, the driver     *)
(* agrees with its device from the Init with words on.                     *)
Following == Classes \ (Supplies \cup {"Coincide_C0308", "LIZA_B0608"})
StaysInSync == op = "none" /\ clean /\ class \in Following => InSync
=============================================================================
