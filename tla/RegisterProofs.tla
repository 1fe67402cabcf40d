--------------------------- MODULE RegisterProofs ---------------------------
(***************************************************************************)
(* For every set of drivers and every finite set of bits: no driver loses  *)
(* a failed access on the way to its answer; a Verify that answers CC_OK   *)
(* is honest, an Init without words takes the device over, a Test restores *)
(* it, and the drivers that stay in agreement with their devices do.       *)
(*                                                                         *)
(* What each operation is made of is proved first, of its program, and     *)
(* then an invariant for each property: what the steps that are left will  *)
(* still put right.                                                        *)
(***************************************************************************)
EXTENDS RegisterDrivers, FiniteSetTheorems, SequenceTheorems, TLAPS

(* What is inductive: rc holds an error from the failure on.  Only a step  *)
(* that ends the call replaces rc, Verify's by another error and that of   *)
(* SetControl when there was none.                                         *)
FailureKept == failed => IsError(rc)

USE DEF vars, call, locals

(* All that AF reports besides CC_OK are errors.                           *)
LEMMA ReportsAreErrors ==
    ASSUME NEW r \in Reports, NEW c PROVE r \subseteq Errors /\ Counts(c, r) \subseteq Errors
  BY DEF Reports, Counts, Hard, Errors, SoftErrors, HardErrors, StationAnswer, UserErrors

(* Nothing has failed before the first call.                               *)
LEMMA StartsKept == Init => FailureKept
  BY DEF Init, FailureKept

(* A setter adds what its access reports, or its refusal, to rc.           *)
LEMMA SetterKeeps ==
    ASSUME FailureKept, NEW do, NEW c, Setter(do, c) PROVE FailureKept'
  <1> DEFINE w == Given(do, c, Head(todo).w)
  <1>1. CASE R(c).refusal # {} /\ ~(w \subseteq Data) /\ rc' = rc \cup R(c).refusal
             /\ UNCHANGED <<reg, code, failed>>
    BY <1>1 DEF FailureKept, IsError
  <1>2. CASE \E r \in Reports : rc' = rc \cup Counts(c, r) /\ Fails(c, r)
    BY <1>2, ReportsAreErrors DEF FailureKept, IsError, Fails
  <1>3. QED
    BY <1>1, <1>2 DEF Setter

(* A write past the setter does the same ...                               *)
LEMMA RawWriteKeeps ==
    ASSUME FailureKept, NEW do, NEW c, RawWrite(do, c) PROVE FailureKept'
  <1>1. PICK r \in Reports : rc' = rc \cup r /\ Fails(c, r)
    BY DEF RawWrite
  <1>2. Counts(c, r) \subseteq r
    BY DEF Counts
  <1>3. QED
    BY <1>1, <1>2, ReportsAreErrors DEF FailureKept, IsError, Fails

(* ... and so does a switch.                                               *)
LEMMA RawSwitchKeeps ==
    ASSUME FailureKept, NEW do, NEW c, RawSwitch(do, c) PROVE FailureKept'
  <1>1. PICK r \in Reports : rc' = rc \cup r /\ Fails(c, r)
    BY DEF RawSwitch
  <1>2. Counts(c, r) \subseteq r
    BY DEF Counts
  <1>3. QED
    BY <1>1, <1>2, ReportsAreErrors DEF FailureKept, IsError, Fails

(* A getter adds its report, and what it has against the word.             *)
LEMMA GetterKeeps ==
    ASSUME FailureKept, NEW do, NEW c, Getter(do, c) PROVE FailureKept'
  <1>1. PICK r \in Reports : \E w \in OnBus(c, r) :
            rc' = rc \cup Counts(c, r) \cup Refused(c, w, r) /\ Fails(c, r)
    BY DEF Getter
  <1>2. PICK w \in OnBus(c, r) :
            rc' = rc \cup Counts(c, r) \cup Refused(c, w, r) /\ Fails(c, r)
    BY <1>1
  <1>3. QED
    BY <1>2, ReportsAreErrors DEF FailureKept, IsError, Fails

(* A LAM function adds its report, except for the no Q it asked for.       *)
LEMMA LamKeeps ==
    ASSUME FailureKept, NEW do, LamFunction(do) PROVE FailureKept'
  <1>1. PICK r \in Reports : LET e == IF do = "lam" THEN r ELSE r \ {"NOT_Q"}
                             IN  rc' = rc \cup e /\ failed' = (failed \/ e # {})
    BY DEF LamFunction
  <1>2. QED
    BY <1>1, ReportsAreErrors DEF FailureKept, IsError

(* A comparison replaces rc by an error, or when there was none.           *)
LEMMA ComparesKeeps ==
    ASSUME FailureKept, NEW do \in {"compare", "same"}, NEW c, Compares(do, c)
    PROVE  FailureKept'
  <1>1. CASE Matches(do, c) \/ (do = "same" /\ IsError(rc))
    BY <1>1 DEF Compares, FailureKept, IsError
  <1>2. CASE ~Matches(do, c) /\ do = "compare"
    BY <1>2 DEF Compares, FailureKept, IsError, Errors, HardErrors
  <1>3. CASE ~Matches(do, c) /\ do = "same" /\ ~IsError(rc)
    BY <1>3 DEF Compares, FailureKept
  <1>4. QED
    BY <1>1, <1>2, <1>3

(* Every step keeps the error.                                             *)
LEMMA StepKeeps == FailureKept /\ [Next]_vars => FailureKept'
  <1> SUFFICES ASSUME FailureKept, [Next]_vars PROVE FailureKept'
    OBVIOUS
  <1>1. CASE CallAll
    BY <1>1 DEF CallAll, Call, FailureKept, IsError
  <1>2. CASE \E c \in Channels : CallOne(c)
    BY <1>2 DEF CallOne, Call, FailureKept, IsError
  <1>3. CASE \E c \in Channels : StepOf(c)
    <2> SUFFICES ASSUME NEW c \in Channels, StepOf(c) PROVE FailureKept'
      BY <1>3
    <2>1. CASE \E do \in {"set", "setBack", "restore", "try"} : Setter(do, c)
      BY <2>1, SetterKeeps
    <2>2. CASE \E do \in {"write", "put", "refresh"} : RawWrite(do, c)
      BY <2>2, RawWriteKeeps
    <2>3. CASE \E do \in {"switch", "turn"} : RawSwitch(do, c)
      BY <2>3, RawSwitchKeeps
    <2>4. CASE \E do \in {"get", "update"} : Getter(do, c)
      BY <2>4, GetterKeeps
    <2>5. CASE \E do \in {"compare", "same"} : Compares(do, c)
      BY <2>5, ComparesKeeps
    <2>6. CASE UNCHANGED <<rc, failed>>
      BY <2>6 DEF FailureKept, IsError
    <2>7. QED
      BY <2>1, <2>2, <2>3, <2>4, <2>5, <2>6 DEF StepOf, Note, Saves, Judges
  <1>4. CASE \E do \in {"lam", "checkLam", "noLam"} : LamFunction(do)
    BY <1>4, LamKeeps
  <1>5. CASE AnError
    BY <1>5 DEF AnError, FailureKept, IsError
  <1>6. CASE Done
    BY <1>6 DEF Done, FailureKept
  <1>7. CASE UNCHANGED vars
    BY <1>7 DEF FailureKept, IsError
  <1>8. QED
    BY <1>1, <1>2, <1>3, <1>4, <1>5, <1>6, <1>7 DEF Next

(* An error is never a success of Test.                                    *)
LEMMA ErrorIsNoSuccess == ASSUME IsError(rc) PROVE TestState # "SUCCESS"
  BY DEF TestState, rc2test

(* No driver of the twelve loses a failed access: whatever else the call   *)
(* goes on to do, it answers with an error, and Test with no success.      *)
THEOREM FailuresAreTold == Spec => []AnswerTellsFailure
  <1>1. FailureKept => AnswerTellsFailure
    BY ErrorIsNoSuccess DEF FailureKept, AnswerTellsFailure
  <1>2. QED
    BY <1>1, StartsKept, StepKeeps, PTL DEF Spec
-----------------------------------------------------------------------------
(* What the classes decide, as far as shadow and device depend on it: a    *)
(* shadow has room for what its register holds, and the drivers that stay  *)
(* in agreement store in it just what a successful write has left there.   *)
Decided(d, r) ==
    /\ r.unset \subseteq Bits /\ Data \subseteq r.width /\ r.width \subseteq Bits
    /\ r.refusal \subseteq Errors
    /\ r.keeps \in {"done", "failed", "never", "clears"}
    /\ r.reads \in {"mask", "bad", "early", "plain"}
    /\ r.lax \in BOOLEAN
    /\ d \in Supplies \cup {"U0302"} => r.width = Bits
    /\ d \in Following \ {"U0302"} => r.keeps = "done" /\ (r.refusal # {} \/ r.width = Data)
    /\ d \in Following => ~r.lax
    /\ d = "Attenuator_A0605" => r.reads = "mask"
    /\ d \in Supplies => r.reads = "plain"
    /\ r.reads = "early" => ~r.lax
    /\ d = "IV_C0309" => r.reads = "plain" /\ r.width = Data

(* A register that decides as listed.                                      *)
Is(r, unset, refusal, keeps, width, reads, lax) ==
    /\ r.unset = unset /\ r.refusal = refusal /\ r.keeps = keeps
    /\ r.width = width /\ r.reads = reads /\ r.lax = lax

(* The decisions in full, without the exceptions they are written with.    *)
LEMMA Plainly ==
    LET bad == {"INVALID_ARG"}
    IN  /\ Is(CAS[1], Bits, {"USER_ERROR0"}, "done", Bits, "early", FALSE)
        /\ Is(Attenuator_A0605[1], {"x"}, bad, "done", Bits, "mask", FALSE)
        /\ Is(Coincide_L0306_4A[1], {}, bad, "done", Data, "mask", FALSE)
        /\ Is(Coincide_L0306_4A[2], {"x"}, bad, "done", Bits, "bad", FALSE)
        /\ Is(Coincide_C0308[1], {}, bad, "failed", Data, "mask", FALSE)
        /\ Is(Coincide_C0308[2], {"x"}, bad, "done", Bits, "bad", FALSE)
        /\ \A c \in {1, 2} : Is(ZIF_L0323[c], {}, bad, "done", Data, "bad", FALSE)
        /\ \A c \in {1, 2} : Is(DelayPulseShaper_L0323[c], {}, {}, "done", Data, "bad", FALSE)
        /\ \A c \in {1, 2} : Is(Discriminator_D0302[c], {}, {}, "done", Data, "mask", FALSE)
        /\ Is(LIZA_B0608[1], {"x"}, {}, "never", Bits, "bad", TRUE)
        /\ Is(IV_C0309[1], {}, {}, "done", Data, "plain", FALSE)
        /\ Is(HVS_B0307[1], {}, {}, "clears", Bits, "plain", FALSE)
        /\ \A c \in {1, 2} : Is(HVS_B0308[c], {}, {}, "clears", Bits, "plain", FALSE)
        /\ \A c \in {1, 2} : Is(U0302[c], Data, {}, "done", Bits, "mask", FALSE)
  <1> USE DEF Is, MaskAND
  <1>1. /\ Is(CAS[1], Bits, {"USER_ERROR0"}, "done", Bits, "early", FALSE)
        /\ Is(Attenuator_A0605[1], {"x"}, {"INVALID_ARG"}, "done", Bits, "mask", FALSE)
    BY DEF CAS, Attenuator_A0605
  <1>2. /\ Is(Coincide_L0306_4A[1], {}, {"INVALID_ARG"}, "done", Data, "mask", FALSE)
        /\ Is(Coincide_L0306_4A[2], {"x"}, {"INVALID_ARG"}, "done", Bits, "bad", FALSE)
    BY DEF Coincide_L0306_4A, MaskOR
  <1>3. /\ Is(Coincide_C0308[1], {}, {"INVALID_ARG"}, "failed", Data, "mask", FALSE)
        /\ Is(Coincide_C0308[2], {"x"}, {"INVALID_ARG"}, "done", Bits, "bad", FALSE)
    BY DEF Coincide_C0308, MaskOR
  <1>4. \A c \in {1, 2} : Is(ZIF_L0323[c], {}, {"INVALID_ARG"}, "done", Data, "bad", FALSE)
    BY DEF ZIF_L0323
  <1>5. /\ Is(DelayPulseShaper_L0323[1], {}, {}, "done", Data, "bad", FALSE)
        /\ Is(DelayPulseShaper_L0323[2], {}, {}, "done", Data, "bad", FALSE)
    BY DEF DelayPulseShaper_L0323
  <1>6. \A c \in {1, 2} : Is(Discriminator_D0302[c], {}, {}, "done", Data, "mask", FALSE)
    BY DEF Discriminator_D0302
  <1>7. /\ Is(LIZA_B0608[1], {"x"}, {}, "never", Bits, "bad", TRUE)
        /\ Is(IV_C0309[1], {}, {}, "done", Data, "plain", FALSE)
    BY DEF LIZA_B0608, IV_C0309, MaskOR
  <1>8. /\ Is(HVS_B0307[1], {}, {}, "clears", Bits, "plain", FALSE)
        /\ Is(HVS_B0308[1], {}, {}, "clears", Bits, "plain", FALSE)
        /\ Is(HVS_B0308[2], {}, {}, "clears", Bits, "plain", FALSE)
    BY DEF HVS_B0307, HVS_B0308, Supply
  <1>9. /\ Is(U0302[1], Data, {}, "done", Bits, "mask", FALSE)
        /\ Is(U0302[2], Data, {}, "done", Bits, "mask", FALSE)
    BY DEF U0302
  <1>10. QED
    BY <1>1, <1>2, <1>3, <1>4, <1>5, <1>6, <1>7, <1>8, <1>9 DEF Is

(* How many registers a driver has.                                        *)
Single == {"CAS", "Attenuator_A0605", "LIZA_B0608", "IV_C0309", "HVS_B0307"}

LEMMA OneOrTwo ==
    ASSUME NEW d \in Classes
    PROVE  /\ Len(Registers(d)) = IF d \in Single THEN 1 ELSE 2
           /\ DOMAIN Registers(d) = IF d \in Single THEN {1} ELSE {1, 2}
  <1>1. /\ Len(CAS) = 1 /\ Len(Attenuator_A0605) = 1 /\ Len(LIZA_B0608) = 1
        /\ Len(IV_C0309) = 1 /\ Len(HVS_B0307) = 1
        /\ DOMAIN CAS = {1} /\ DOMAIN Attenuator_A0605 = {1} /\ DOMAIN LIZA_B0608 = {1}
        /\ DOMAIN IV_C0309 = {1} /\ DOMAIN HVS_B0307 = {1}
    BY DEF CAS, Attenuator_A0605, LIZA_B0608, IV_C0309, HVS_B0307
  <1>2. /\ Len(Coincide_L0306_4A) = 2 /\ Len(Coincide_C0308) = 2 /\ Len(ZIF_L0323) = 2
        /\ Len(DelayPulseShaper_L0323) = 2 /\ Len(Discriminator_D0302) = 2
        /\ Len(HVS_B0308) = 2 /\ Len(U0302) = 2
    BY DEF Coincide_L0306_4A, Coincide_C0308, ZIF_L0323, DelayPulseShaper_L0323,
           Discriminator_D0302, HVS_B0308, U0302
  <1>3. /\ DOMAIN Coincide_L0306_4A = {1, 2} /\ DOMAIN Coincide_C0308 = {1, 2}
        /\ DOMAIN ZIF_L0323 = {1, 2} /\ DOMAIN DelayPulseShaper_L0323 = {1, 2}
        /\ DOMAIN Discriminator_D0302 = {1, 2} /\ DOMAIN HVS_B0308 = {1, 2}
        /\ DOMAIN U0302 = {1, 2}
    BY DEF Coincide_L0306_4A, Coincide_C0308, ZIF_L0323, DelayPulseShaper_L0323,
           Discriminator_D0302, HVS_B0308, U0302
  <1>4. QED
    BY <1>1, <1>2, <1>3 DEF Registers, Classes, Single

(* Every driver decides so.                                                *)
LEMMA Decisions ==
    ASSUME NEW d \in Classes, NEW c \in DOMAIN Registers(d)
    PROVE  c \in {1, 2} /\ Decided(d, Registers(d)[c])
  <1>1. {"INVALID_ARG"} \subseteq Errors /\ {"USER_ERROR0"} \subseteq Errors /\ {} \subseteq Errors
    BY DEF Errors, SoftErrors, UserErrors
  <1>2. Data \subseteq Bits /\ {"x"} \subseteq Bits /\ {"INVALID_ARG"} # {} /\ {"USER_ERROR0"} # {}
    BY DEF Bits
  <1>3. c \in {1, 2} /\ (d \in Single => c = 1)
    BY OneOrTwo
  <1>4. CASE d = "CAS"
    <2>1. Registers(d) = CAS
      BY <1>4 DEF Registers
    <2>2. Is(Registers(d)[c], Bits, {"USER_ERROR0"}, "done", Bits, "early", FALSE)
      BY <1>3, <1>4, <2>1, Plainly DEF Single
    <2>3. QED
      BY <1>1, <1>2, <1>3, <1>4, <2>2 DEF Is, Decided, Following, Supplies
  <1>5. CASE d = "Attenuator_A0605"
    <2>1. Registers(d) = Attenuator_A0605
      BY <1>5 DEF Registers
    <2>2. Is(Registers(d)[c], {"x"}, {"INVALID_ARG"}, "done", Bits, "mask", FALSE)
      BY <1>3, <1>5, <2>1, Plainly DEF Single
    <2>3. QED
      BY <1>1, <1>2, <1>3, <1>5, <2>2 DEF Is, Decided, Following, Supplies
  <1>6. CASE d = "Coincide_L0306_4A"
    <2>1. Registers(d) = Coincide_L0306_4A
      BY <1>6 DEF Registers
    <2>2. \/ Is(Registers(d)[c], {}, {"INVALID_ARG"}, "done", Data, "mask", FALSE)
          \/ Is(Registers(d)[c], {"x"}, {"INVALID_ARG"}, "done", Bits, "bad", FALSE)
      BY <1>3, <1>6, <2>1, Plainly DEF Single
    <2>3. QED
      BY <1>1, <1>2, <1>3, <1>6, <2>2 DEF Is, Decided, Following, Supplies
  <1>7. CASE d = "Coincide_C0308"
    <2>1. Registers(d) = Coincide_C0308
      BY <1>7 DEF Registers
    <2>2. \/ Is(Registers(d)[c], {}, {"INVALID_ARG"}, "failed", Data, "mask", FALSE)
          \/ Is(Registers(d)[c], {"x"}, {"INVALID_ARG"}, "done", Bits, "bad", FALSE)
      BY <1>3, <1>7, <2>1, Plainly DEF Single
    <2>3. QED
      BY <1>1, <1>2, <1>3, <1>7, <2>2 DEF Is, Decided, Following, Supplies
  <1>8. CASE d = "ZIF_L0323"
    <2>1. Registers(d) = ZIF_L0323
      BY <1>8 DEF Registers
    <2>2. Is(Registers(d)[c], {}, {"INVALID_ARG"}, "done", Data, "bad", FALSE)
      BY <1>3, <1>8, <2>1, Plainly DEF Single
    <2>3. QED
      BY <1>1, <1>2, <1>3, <1>8, <2>2 DEF Is, Decided, Following, Supplies
  <1>9. CASE d = "DelayPulseShaper_L0323"
    <2>1. Registers(d) = DelayPulseShaper_L0323
      BY <1>9 DEF Registers
    <2>2. Is(Registers(d)[c], {}, {}, "done", Data, "bad", FALSE)
      BY <1>3, <1>9, <2>1, Plainly DEF Single
    <2>3. QED
      BY <1>1, <1>2, <1>3, <1>9, <2>2 DEF Is, Decided, Following, Supplies
  <1>10. CASE d = "Discriminator_D0302"
    <2>1. Registers(d) = Discriminator_D0302
      BY <1>10 DEF Registers
    <2>2. Is(Registers(d)[c], {}, {}, "done", Data, "mask", FALSE)
      BY <1>3, <1>10, <2>1, Plainly DEF Single
    <2>3. QED
      BY <1>1, <1>2, <1>3, <1>10, <2>2 DEF Is, Decided, Following, Supplies
  <1>11. CASE d = "LIZA_B0608"
    <2>1. Registers(d) = LIZA_B0608
      BY <1>11 DEF Registers
    <2>2. Is(Registers(d)[c], {"x"}, {}, "never", Bits, "bad", TRUE)
      BY <1>3, <1>11, <2>1, Plainly DEF Single
    <2>3. QED
      BY <1>1, <1>2, <1>3, <1>11, <2>2 DEF Is, Decided, Following, Supplies
  <1>12. CASE d = "IV_C0309"
    <2>1. Registers(d) = IV_C0309
      BY <1>12 DEF Registers
    <2>2. Is(Registers(d)[c], {}, {}, "done", Data, "plain", FALSE)
      BY <1>3, <1>12, <2>1, Plainly DEF Single
    <2>3. QED
      BY <1>1, <1>2, <1>3, <1>12, <2>2 DEF Is, Decided, Following, Supplies
  <1>13. CASE d = "HVS_B0307"
    <2>1. Registers(d) = HVS_B0307
      BY <1>13 DEF Registers
    <2>2. Is(Registers(d)[c], {}, {}, "clears", Bits, "plain", FALSE)
      BY <1>3, <1>13, <2>1, Plainly DEF Single
    <2>3. QED
      BY <1>1, <1>2, <1>3, <1>13, <2>2 DEF Is, Decided, Following, Supplies
  <1>14. CASE d = "HVS_B0308"
    <2>1. Registers(d) = HVS_B0308
      BY <1>14 DEF Registers
    <2>2. Is(Registers(d)[c], {}, {}, "clears", Bits, "plain", FALSE)
      BY <1>3, <1>14, <2>1, Plainly DEF Single
    <2>3. QED
      BY <1>1, <1>2, <1>3, <1>14, <2>2 DEF Is, Decided, Following, Supplies
  <1>15. CASE d = "U0302"
    <2>1. Registers(d) = U0302
      BY <1>15 DEF Registers
    <2>2. Is(Registers(d)[c], Data, {}, "done", Bits, "mask", FALSE)
      BY <1>3, <1>15, <2>1, Plainly DEF Single
    <2>3. QED
      BY <1>1, <1>2, <1>3, <1>15, <2>2 DEF Is, Decided, Following, Supplies
  <1>16. QED
    BY <1>4, <1>5, <1>6, <1>7, <1>8, <1>9, <1>10, <1>11, <1>12, <1>13, <1>14, <1>15 DEF Classes
-----------------------------------------------------------------------------
(* The programs.  Which steps an operation is made of, where a property    *)
(* depends on it ...                                                       *)
Does == {"set", "setBack", "restore", "try", "write", "put", "refresh", "get", "update",
         "switch", "turn", "lam", "checkLam", "noLam", "gate", "forget", "assume",
         "assumeLength", "adopt", "save", "saveRead", "compare", "same", "check", "must",
         "mustBe"}

Wiping == {"CAS", "Attenuator_A0605"}

Kinds(d, o) ==
    IF o = "Verify" THEN {"get", "gate", "compare"}
    ELSE IF d = "U0302" THEN {"assume", "assumeLength", "refresh"}
    ELSE IF o = "Test" /\ d \in Restoring THEN {"save", "try", "get", "check", "restore"}
    ELSE IF o = "Init" /\ d = "CAS" THEN {"forget", "try"}
    ELSE IF o = "Init" /\ d = "Attenuator_A0605" THEN {"get", "forget", "setBack"}
    ELSE IF o = "Init" /\ d = "IV_C0309" THEN {"lam", "get", "gate", "adopt"}
    ELSE IF o = "Init" /\ d \in Adopting
         THEN {"get", "lam", "gate", IF d \in Following THEN "setBack" ELSE "adopt"}
    ELSE IF d \in Following
         THEN {"set", "setBack", "try", "get", "gate", "lam", "checkLam", "same"}
              \cup (IF o = "InitTo" THEN {"forget"} ELSE {})
    ELSE Does \ {"refresh"}

(* ... and with which words.                                               *)
Worded(d, o, x) ==
    /\ x.do \in {"switch", "turn"} => d \in Supplies
    /\ x.do \in {"switch", "turn", "assume"} => x.w \subseteq {"on"}
    /\ o = "Init" /\ x.do = "try" => x.w = {}

StepsOf(d, o) == {x \in [do : Kinds(d, o), c : 0..2, w : SUBSET Bits] : Worded(d, o, x)}

(* A step of the kinds of A comes before, or after, every one of B.        *)
Before(s, A, B) ==
    \A n \in DOMAIN s : s[n].do \in B =>
        \E k \in DOMAIN s : k < n /\ s[k].do \in A /\ s[k].c = s[n].c
After(s, A, B) ==
    \A n \in DOMAIN s : s[n].do \in B =>
        \E k \in DOMAIN s : n < k /\ s[k].do \in A /\ s[k].c = s[n].c
Has(s, A, c) == \E n \in DOMAIN s : s[n].do \in A /\ s[n].c = c

(* A sequence of steps that do this, to these channels.                    *)
Acts(s, a) ==
    /\ Len(s) = Len(a) /\ DOMAIN s = 1..Len(s)
    /\ \A n \in 1..Len(a) : s[n].do = a[n][1] /\ s[n].c = a[n][2]

(* Verify and the Init that takes over: what is read is used, everywhere.  *)
Uses == {"compare", "setBack", "adopt"}
ReadsThenUses(d, p) ==
    /\ Before(p, {"get"}, Uses) /\ After(p, Uses, {"forget"})
    /\ \A c \in DOMAIN Registers(d) : Has(p, Uses, c)

(* Verify reads a word before it compares one, and compares every one.     *)
LEMMA VerifyPrograms ==
    ASSUME NEW d \in Classes \ {"U0302"}, NEW c
    PROVE  LET p == Program(d, "Verify", c)
           IN  p \in Seq(StepsOf(d, "Verify")) /\ ReadsThenUses(d, p)
  <1> DEFINE p == Program(d, "Verify", c)
             S == StepsOf(d, "Verify")
             one == Get(1) \o Gate \o Compare(1)
             two == Get(1) \o Gate \o Compare(1) \o (Get(2) \o Gate \o Compare(2))
             masks == Get(1) \o Gate \o Compare(1) \o Get(2) \o Compare(2)
  <1>1. CASE d \in Single
    <2>1. p = one
      BY <1>1, OneOrTwo DEF Program, CASCalls, AttenuatorCalls, LIZACalls, IVCalls, B0307Calls,
                            VerifyAll, Each, Single, Registers
    <2>2. one \in Seq(S) /\ Before(one, {"get"}, Uses) /\ After(one, Uses, {"forget"})
      BY DEF Get, Gate, Compare, Step, StepsOf, Kinds, Worded, Before, After, Uses
    <2>3. Has(one, Uses, 1)
      BY DEF Get, Gate, Compare, Step, Has, Uses
    <2>4. QED
      BY <1>1, <2>1, <2>2, <2>3, OneOrTwo DEF ReadsThenUses
  <1>2. CASE d \in {"Coincide_L0306_4A", "Coincide_C0308"}
    <2>1. p = masks
      BY <1>2 DEF Program, L0306Calls, C0308Calls, VerifyMasks
    <2>2. masks \in Seq(S) /\ Before(masks, {"get"}, Uses) /\ After(masks, Uses, {"forget"})
      BY DEF Get, Gate, Compare, Step, StepsOf, Kinds, Worded, Before, After, Uses
    <2>3. Has(masks, Uses, 1) /\ Has(masks, Uses, 2)
      BY DEF Get, Gate, Compare, Step, Has, Uses
    <2>4. QED
      BY <1>2, <2>1, <2>2, <2>3, OneOrTwo DEF ReadsThenUses, Single
  <1>3. CASE d \in {"ZIF_L0323", "DelayPulseShaper_L0323", "Discriminator_D0302", "HVS_B0308"}
    <2>0. Len(Registers(d)) = 2
      BY <1>3, OneOrTwo DEF Single
    <2>1. p = VerifyAll(Registers(d))
      BY <1>3 DEF Program, ZIFCalls, ShaperCalls, D0302Calls, B0308Calls, Registers
    <2>. HIDE DEF p
    <2>4. p = two
      BY <2>0, <2>1 DEF VerifyAll, Each
    <2>2. two \in Seq(S) /\ Before(two, {"get"}, Uses) /\ After(two, Uses, {"forget"})
      BY DEF Get, Gate, Compare, Step, StepsOf, Kinds, Worded, Before, After, Uses
    <2>3. Has(two, Uses, 1) /\ Has(two, Uses, 2)
      BY DEF Get, Gate, Compare, Step, Has, Uses
    <2>5. QED
      BY <1>3, <2>4, <2>2, <2>3, OneOrTwo DEF ReadsThenUses, Single, p
  <1>4. QED
    BY <1>1, <1>2, <1>3 DEF Classes, Single

(* An Init without words reads before it uses what it has read.            *)
LEMMA AdoptingPrograms ==
    ASSUME NEW d \in Adopting, NEW c
    PROVE  LET p == Program(d, "Init", c)
           IN  p \in Seq(StepsOf(d, "Init")) /\ ReadsThenUses(d, p)
  <1> DEFINE p == Program(d, "Init", c)
             S == StepsOf(d, "Init")
  <1> USE DEF Get, Gate, SetBack, Adopt, Forget, Lam, Step
  <1>1. CASE d = "Attenuator_A0605"
    <2> DEFINE q == Get(1) \o Forget(1) \o SetBack(1)
    <2>1. DOMAIN Registers(d) = {1} /\ Len(Registers(d)) = 1
      BY <1>1, OneOrTwo DEF Classes, Single
    <2>3. p = q
      BY <1>1 DEF Program, AttenuatorCalls
    <2>4. q \in Seq(S)
      BY <1>1 DEF StepsOf, Kinds, Worded, Wiping, Adopting, Following, Supplies, Classes
    <2>5. Acts(q, <<<<"get", 1>>, <<"forget", 1>>, <<"setBack", 1>>>>)
      BY DEF Acts
    <2> HIDE DEF p, q
    <2>6. /\ Before(q, {"get"}, Uses) /\ After(q, Uses, {"forget"})
          /\ Has(q, Uses, 1)
      BY <2>5 DEF Acts, Before, After, Has, Uses
    <2>7. QED
      BY <2>1, <2>3, <2>4, <2>6 DEF ReadsThenUses, p
  <1>2. CASE d \in {"Coincide_L0306_4A", "Discriminator_D0302"}
    <2> DEFINE q == Get(1) \o Get(2) \o (SetBack(1) \o SetBack(2))
    <2>1. DOMAIN Registers(d) = {1, 2} /\ Len(Registers(d)) = 2
      BY <1>2, OneOrTwo DEF Classes, Single
    <2>2. p = TakeOver(Registers(d))
      BY <1>2 DEF Program, L0306Calls, D0302Calls, Registers
    <2>3. p = q
      <3> HIDE DEF p
      <3>1. QED
        BY <2>1, <2>2 DEF TakeOver, Each
    <2>4. q \in Seq(S)
      BY <1>2 DEF StepsOf, Kinds, Worded, Wiping, Adopting, Following, Supplies, Classes
    <2>5. Acts(q, <<<<"get", 1>>, <<"get", 2>>, <<"setBack", 1>>, <<"setBack", 2>>>>)
      BY DEF Acts
    <2> HIDE DEF p, q
    <2>6. /\ Before(q, {"get"}, Uses) /\ After(q, Uses, {"forget"})
          /\ Has(q, Uses, 1) /\ Has(q, Uses, 2)
      BY <2>5 DEF Acts, Before, After, Has, Uses
    <2>7. QED
      BY <2>1, <2>3, <2>4, <2>6 DEF ReadsThenUses, p
  <1>3. CASE d \in {"ZIF_L0323", "DelayPulseShaper_L0323"}
    <2> DEFINE q == Get(1) \o SetBack(1) \o (Get(2) \o SetBack(2))
    <2>1. DOMAIN Registers(d) = {1, 2} /\ Len(Registers(d)) = 2
      BY <1>3, OneOrTwo DEF Classes, Single
    <2>2. p = Adjust(Registers(d))
      BY <1>3 DEF Program, ZIFCalls, ShaperCalls, Registers
    <2>3. p = q
      <3> HIDE DEF p
      <3>1. QED
        BY <2>1, <2>2 DEF Adjust, Each
    <2>4. q \in Seq(S)
      BY <1>3 DEF StepsOf, Kinds, Worded, Wiping, Adopting, Following, Supplies, Classes
    <2>5. Acts(q, <<<<"get", 1>>, <<"setBack", 1>>, <<"get", 2>>, <<"setBack", 2>>>>)
      BY DEF Acts
    <2> HIDE DEF p, q
    <2>6. /\ Before(q, {"get"}, Uses) /\ After(q, Uses, {"forget"})
          /\ Has(q, Uses, 1) /\ Has(q, Uses, 2)
      BY <2>5 DEF Acts, Before, After, Has, Uses
    <2>7. QED
      BY <2>1, <2>3, <2>4, <2>6 DEF ReadsThenUses, p
  <1>4. CASE d = "LIZA_B0608"
    <2> DEFINE q == Get(1) \o Adopt(1)
    <2>1. DOMAIN Registers(d) = {1} /\ Len(Registers(d)) = 1
      BY <1>4, OneOrTwo DEF Classes, Single
    <2>3. p = q
      BY <1>4 DEF Program, LIZACalls
    <2>4. q \in Seq(S)
      BY <1>4 DEF StepsOf, Kinds, Worded, Wiping, Adopting, Following, Supplies, Classes
    <2>5. Acts(q, <<<<"get", 1>>, <<"adopt", 1>>>>)
      BY DEF Acts
    <2> HIDE DEF p, q
    <2>6. /\ Before(q, {"get"}, Uses) /\ After(q, Uses, {"forget"})
          /\ Has(q, Uses, 1)
      BY <2>5 DEF Acts, Before, After, Has, Uses
    <2>7. QED
      BY <2>1, <2>3, <2>4, <2>6 DEF ReadsThenUses, p
  <1>5. CASE d = "IV_C0309"
    <2> DEFINE q == Lam \o (Get(1) \o Gate \o Adopt(1))
    <2>1. DOMAIN Registers(d) = {1} /\ Len(Registers(d)) = 1
      BY <1>5, OneOrTwo DEF Classes, Single
    <2>2. p = Lam \o AdoptAll(Registers(d))
      BY <1>5 DEF Program, IVCalls, Registers
    <2>3. p = q
      <3> HIDE DEF p
      <3>1. QED
        BY <2>1, <2>2 DEF AdoptAll, Each
    <2>4. q \in Seq(S)
      BY <1>5 DEF StepsOf, Kinds, Worded, Wiping, Adopting, Following, Supplies, Classes
    <2>5. Acts(q, <<<<"lam", 0>>, <<"get", 1>>, <<"gate", 0>>, <<"adopt", 1>>>>)
      BY DEF Acts
    <2> HIDE DEF p, q
    <2>6. /\ Before(q, {"get"}, Uses) /\ After(q, Uses, {"forget"})
          /\ Has(q, Uses, 1)
      BY <2>5 DEF Acts, Before, After, Has, Uses
    <2>7. QED
      BY <2>1, <2>3, <2>4, <2>6 DEF ReadsThenUses, p
  <1>6. CASE d = "HVS_B0308"
    <2> DEFINE q == Lam \o (Get(1) \o Gate \o Adopt(1) \o (Get(2) \o Gate \o Adopt(2)))
    <2>1. DOMAIN Registers(d) = {1, 2} /\ Len(Registers(d)) = 2
      BY <1>6, OneOrTwo DEF Classes, Single
    <2>2. p = Lam \o AdoptAll(Registers(d))
      BY <1>6 DEF Program, B0308Calls, Registers
    <2>3. p = q
      <3> HIDE DEF p
      <3>1. QED
        BY <2>1, <2>2 DEF AdoptAll, Each
    <2>4. q \in Seq(S)
      BY <1>6 DEF StepsOf, Kinds, Worded, Wiping, Adopting, Following, Supplies, Classes
    <2>5. Acts(q, <<<<"lam", 0>>, <<"get", 1>>, <<"gate", 0>>, <<"adopt", 1>>,
                <<"get", 2>>, <<"gate", 0>>, <<"adopt", 2>>>>)
      BY DEF Acts
    <2> HIDE DEF p, q
    <2>6. /\ Before(q, {"get"}, Uses) /\ After(q, Uses, {"forget"})
          /\ Has(q, Uses, 1) /\ Has(q, Uses, 2)
      BY <2>5 DEF Acts, Before, After, Has, Uses
    <2>7. QED
      BY <2>1, <2>3, <2>4, <2>6 DEF ReadsThenUses, p
  <1>7. QED
    BY <1>1, <1>2, <1>3, <1>4, <1>5, <1>6 DEF Adopting, Classes

(* A finite set can be listed.                                             *)
LEMMA Listing == ASSUME NEW W, IsFiniteSet(W) PROVE SetToSeq(W) \in Seq(W)
  <1> DEFINE n == Cardinality(W)
  <1>1. n \in Nat /\ ExistsBijection(1..n, W)
    BY FS_CardinalityType
  <1>2. \E f \in [1..n -> W] : IsInjective(f)
    BY <1>1 DEF ExistsBijection, Bijection, Injection, IsInjective
  <1>3. SetToSeq(W) \in [1..n -> W]
    BY <1>2 DEF SetToSeq
  <1>4. QED
    BY <1>1, <1>3, SeqDef

(* The words Test writes are finitely many.                                *)
LEMMA FiniteWords ==
    /\ IsFiniteSet(SUBSET Data) /\ IsFiniteSet(SUBSET (Data \cup {"x"}))
    /\ IsFiniteSet({{b} : b \in Data})
  <1>1. IsFiniteSet(Data)
    BY RegisterAssumption
  <1>2. IsFiniteSet(Data \cup {"x"})
    BY <1>1, FS_AddElement
  <1>3. {{b} : b \in Data} \in SUBSET (SUBSET Data)
    OBVIOUS
  <1>4. QED
    BY <1>1, <1>2, <1>3, FS_SUBSET, FS_Subset

(* Equally long parts, one after the other: each step is one of a part.    *)
LEMMA Parts ==
    ASSUME NEW T, NEW W, NEW s \in Seq(W), NEW k \in {3, 4, 5}, NEW f,
           \A w \in W : \A m \in 1..k : f[w][m] \in T
    PROVE  [n \in 1..(k * Len(s)) |-> f[s[((n - 1) \div k) + 1]][((n - 1) % k) + 1]] \in Seq(T)
  <1> DEFINE l == Len(s)
             i(n) == ((n - 1) \div k) + 1
             j(n) == ((n - 1) % k) + 1
             g == [n \in 1..(k * l) |-> f[s[i(n)]][j(n)]]
  <1>1. l \in Nat
    BY LenProperties
  <1> HIDE DEF l
  <1>2. ASSUME NEW n \in 1..(k * l) PROVE i(n) \in 1..l /\ j(n) \in 1..k
    <2>1. CASE k = 3
      BY <1>1, <1>2, <2>1
    <2>2. CASE k = 4
      BY <1>1, <1>2, <2>2
    <2>3. CASE k = 5
      BY <1>1, <1>2, <2>3
    <2>4. QED
      BY <2>1, <2>2, <2>3
  <1> HIDE DEF i, j
  <1>3. ASSUME NEW n \in 1..(k * l) PROVE f[s[i(n)]][j(n)] \in T
    <2>1. s[i(n)] \in W
      BY <1>2, <1>3, ElementOfSeq DEF l
    <2>2. QED
      BY <1>2, <1>3, <2>1
  <1>4. g \in [1..(k * l) -> T] /\ k * l \in Nat
    BY <1>1, <1>3
  <1>5. g \in Seq(T)
    <2> HIDE DEF g
    <2>1. QED
      BY <1>4, SeqDef
  <1>6. QED
    BY <1>5 DEF i, j, l

(* Writing words and reading them back is nothing but that.                *)
LEMMA WordTests ==
    ASSUME NEW c \in 0..2, NEW W \in SUBSET (SUBSET Bits), IsFiniteSet(W)
    PROVE  WriteAndRead(c, W) \in Seq([do : {"try", "get", "check"}, c : {c}, w : SUBSET Bits])
  <1> DEFINE T == [do : {"try", "get", "check"}, c : {c}, w : SUBSET Bits]
             s == SetToSeq(W)
             f == [w \in W |-> Try(c, w) \o Get(c) \o Check(c, w)]
             i(n) == ((n - 1) \div 3) + 1
             j(n) == ((n - 1) % 3) + 1
  <1>1. s \in Seq(W)
    BY Listing
  <1>2. ASSUME NEW w \in W, NEW m \in 1..3 PROVE f[w][m] \in T
    BY DEF Try, Get, Check, Step
  <1>3. [n \in 1..(3 * Len(s)) |-> f[s[i(n)]][j(n)]] \in Seq(T)
    <2> HIDE DEF f, T, s
    <2>1. QED
      BY <1>1, <1>2, Parts
  <1>4. ASSUME NEW n \in 1..(3 * Len(s)) PROVE s[i(n)] \in W
    <2> HIDE DEF s
    <2>1. Len(s) \in Nat
      BY <1>1, LenProperties
    <2>2. i(n) \in 1..Len(s)
      BY <1>4, <2>1
    <2>3. QED
      <3> HIDE DEF i
      <3>1. QED
        BY <1>1, <2>2, ElementOfSeq
  <1>5. WriteAndRead(c, W) = [n \in 1..(3 * Len(s)) |->
                                 (Try(c, s[i(n)]) \o Get(c) \o Check(c, s[i(n)]))[j(n)]]
    BY DEF WriteAndRead, EachOf
  <1>6. WriteAndRead(c, W) = [n \in 1..(3 * Len(s)) |-> f[s[i(n)]][j(n)]]
    <2> HIDE DEF s, i, j
    <2>1. QED
      BY <1>4, <1>5
  <1>7. QED
    BY <1>3, <1>6

(* Test: between the saving of a channel's word and its restoring nothing  *)
(* else is saved, and only there is the channel written.                   *)
Unsaved(s, n, m) == \A k \in DOMAIN s : n < k /\ k < m => s[k].do # "save"
Restored(s) ==
    \A n \in DOMAIN s : s[n].do = "try" =>
        \E m \in DOMAIN s : /\ n < m /\ s[m].do = "restore" /\ s[m].c = s[n].c
                            /\ Unsaved(s, n, m)
Saved(s) ==
    \A m \in DOMAIN s : s[m].do = "restore" =>
        \E n \in DOMAIN s : /\ n < m /\ s[n].do = "save" /\ s[n].c = s[m].c
                            /\ Unsaved(s, n, m)

(* A step, others and a last one.                                          *)
LEMMA Framed ==
    ASSUME NEW T, NEW u \in Seq(T), NEW a, NEW b
    PROVE  LET p == <<a>> \o u \o <<b>>
           IN  /\ DOMAIN p = 1..(Len(u) + 2) /\ Len(p) = Len(u) + 2
               /\ p[1] = a /\ p[Len(u) + 2] = b
               /\ \A n \in 2..(Len(u) + 1) : p[n] = u[n - 1] /\ u[n - 1] \in T
  <1> DEFINE U == T \cup {a, b}
             q == <<a>> \o u
             p == q \o <<b>>
  <1>1. u \in Seq(U) /\ <<a>> \in Seq(U) /\ <<b>> \in Seq(U) /\ Len(u) \in Nat
    OBVIOUS
  <1>2. q \in Seq(U) /\ Len(q) = Len(u) + 1 /\ q[1] = a
        /\ \A n \in 2..(Len(u) + 1) : q[n] = u[n - 1] /\ u[n - 1] \in T
    BY <1>1
  <1> HIDE DEF q
  <1>3. p \in Seq(U) /\ Len(p) = Len(u) + 2 /\ p[Len(u) + 2] = b
        /\ \A n \in 1..(Len(u) + 1) : p[n] = q[n]
    BY <1>1, <1>2
  <1>4. DOMAIN p = 1..(Len(u) + 2)
    BY <1>3
  <1>5. QED
    BY <1>1, <1>2, <1>3, <1>4 DEF q

(* One channel's part of a Test.                                           *)
LEMMA TestParts ==
    ASSUME NEW d \in Restoring \cup {"Coincide_C0308"}, NEW c \in {1, 2},
           NEW W \in SUBSET (SUBSET Bits), IsFiniteSet(W)
    PROVE  LET p == Save(c) \o WriteAndRead(c, W) \o Restore(c)
           IN  p \in Seq(StepsOf(d, "Test")) /\ Restored(p) /\ Saved(p)
  <1> DEFINE T == [do : {"try", "get", "check"}, c : {c}, w : SUBSET Bits]
             u == WriteAndRead(c, W)
             a == [do |-> "save", c |-> c, w |-> {}]
             b == [do |-> "restore", c |-> c, w |-> {}]
             p == <<a>> \o u \o <<b>>
             S == StepsOf(d, "Test")
  <1>1. u \in Seq(T) /\ Len(u) \in Nat
    <2>1. c \in 0..2
      OBVIOUS
    <2>2. u \in Seq(T)
      BY <2>1, WordTests
    <2>3. QED
      <3> HIDE DEF u, T
      <3>1. QED
        BY <2>2, LenProperties
  <1>2. T \subseteq S /\ a \in S /\ b \in S
    BY DEF StepsOf, Kinds, Worded, Restoring, Following, Supplies, Classes, Does
  <1>3. p \in Seq(S)
    <2> HIDE DEF u, a, b, S, T
    <2>1. u \in Seq(S)
      BY <1>1, <1>2
    <2>2. QED
      BY <1>2, <2>1
  <1>4. /\ DOMAIN p = 1..(Len(u) + 2)
        /\ p[1].do = "save" /\ p[1].c = c
        /\ p[Len(u) + 2].do = "restore" /\ p[Len(u) + 2].c = c
        /\ \A n \in 2..(Len(u) + 1) : p[n].do \in {"try", "get", "check"} /\ p[n].c = c
    <2>1. /\ DOMAIN p = 1..(Len(u) + 2)
          /\ p[1] = a /\ p[Len(u) + 2] = b
          /\ \A n \in 2..(Len(u) + 1) : p[n] = u[n - 1] /\ u[n - 1] \in T
      <3> HIDE DEF u, a, b, T
      <3>1. QED
        BY <1>1, Framed
    <2>2. QED
      <3> HIDE DEF u, p
      <3>1. QED
        BY <2>1
  <1>5. Restored(p) /\ Saved(p)
    <2> HIDE DEF p
    <2> DEFINE l == Len(u) + 2
    <2>1. l \in Nat /\ DOMAIN p = 1..l
      BY <1>1, <1>4
    <2>2. ASSUME NEW n \in 2..(l - 1) PROVE p[n].do \in {"try", "get", "check"} /\ p[n].c = c
      BY <1>1, <1>4, <2>2
    <2>3. 2 <= l /\ p[1].do = "save" /\ p[1].c = c /\ p[l].do = "restore" /\ p[l].c = c
      BY <1>1, <1>4
    <2> HIDE DEF l, u
    <2>4. Restored(p)
      BY <2>1, <2>2, <2>3 DEF Restored, Unsaved
    <2>5. Saved(p)
      BY <2>1, <2>2, <2>3 DEF Saved, Unsaved
    <2>6. QED
      BY <2>4, <2>5
  <1>6. QED
    BY <1>3, <1>5 DEF Save, Restore, Step

(* Two such parts.                                                         *)
LEMMA TestsInTurn ==
    ASSUME NEW S, NEW p \in Seq(S), NEW q \in Seq(S), Restored(p), Saved(p), Restored(q), Saved(q)
    PROVE  Restored(p \o q) /\ Saved(p \o q)
  <1> DEFINE r == p \o q
             l == Len(p)
             k == Len(q)
  <1>1. /\ l \in Nat /\ k \in Nat /\ DOMAIN p = 1..l /\ DOMAIN q = 1..k
        /\ DOMAIN r = 1..(l + k)
        /\ \A n \in 1..l : r[n] = p[n]
        /\ \A n \in 1..k : r[l + n] = q[n]
    OBVIOUS
  <1>2. \A n \in 1..(l + k) : n \in 1..l \/ \E i \in 1..k : n = l + i
    <2> HIDE DEF l, k
    <2> SUFFICES ASSUME NEW n \in 1..(l + k), n \notin 1..l PROVE \E i \in 1..k : n = l + i
      OBVIOUS
    <2>1. n - l \in 1..k /\ n = l + (n - l)
      BY <1>1
    <2>2. QED
      BY <2>1
  <1> HIDE DEF r, l, k
  <1>3. ASSUME NEW n \in 1..l, NEW m \in 1..l, Unsaved(p, n, m) PROVE Unsaved(r, n, m)
    BY <1>1, <1>3 DEF Unsaved
  <1>4. ASSUME NEW n \in 1..k, NEW m \in 1..k, Unsaved(q, n, m) PROVE Unsaved(r, l + n, l + m)
    <2> SUFFICES ASSUME NEW i \in 1..(l + k), l + n < i, i < l + m PROVE r[i].do # "save"
      BY <1>1 DEF Unsaved
    <2>1. i - l \in 1..k /\ n < i - l /\ i - l < m /\ i = l + (i - l)
      BY <1>1
    <2>2. q[i - l].do # "save"
      BY <1>1, <1>4, <2>1 DEF Unsaved
    <2>3. r[l + (i - l)] = q[i - l]
      BY <1>1, <2>1
    <2>4. QED
      BY <2>1, <2>2, <2>3
  <1>5. Restored(r)
    <2> SUFFICES ASSUME NEW n \in 1..(l + k), r[n].do = "try"
                 PROVE  \E m \in 1..(l + k) : /\ n < m /\ r[m].do = "restore" /\ r[m].c = r[n].c
                                              /\ Unsaved(r, n, m)
      BY <1>1 DEF Restored
    <2>1. CASE n \in 1..l
      <3>1. PICK m \in 1..l : /\ n < m /\ p[m].do = "restore" /\ p[m].c = p[n].c
                              /\ Unsaved(p, n, m)
        BY <1>1, <2>1 DEF Restored
      <3>2. m \in 1..(l + k)
        BY <1>1
      <3>3. QED
        BY <1>1, <1>3, <2>1, <3>1, <3>2
    <2>2. ASSUME NEW i \in 1..k, n = l + i
          PROVE  \E m \in 1..(l + k) : /\ n < m /\ r[m].do = "restore" /\ r[m].c = r[n].c
                                       /\ Unsaved(r, n, m)
      <3>1. PICK m \in 1..k : /\ i < m /\ q[m].do = "restore" /\ q[m].c = q[i].c
                              /\ Unsaved(q, i, m)
        BY <1>1, <2>2 DEF Restored
      <3>2. l + m \in 1..(l + k) /\ n < l + m
        BY <1>1, <2>2, <3>1
      <3>3. Unsaved(r, n, l + m)
        BY <1>4, <2>2, <3>1
      <3>4. r[l + m] = q[m] /\ r[n] = q[i]
        BY <1>1, <2>2
      <3>5. QED
        BY <3>1, <3>2, <3>3, <3>4
    <2>3. QED
      BY <1>2, <2>1, <2>2
  <1>6. Saved(r)
    <2> SUFFICES ASSUME NEW m \in 1..(l + k), r[m].do = "restore"
                 PROVE  \E n \in 1..(l + k) : /\ n < m /\ r[n].do = "save" /\ r[n].c = r[m].c
                                              /\ Unsaved(r, n, m)
      BY <1>1 DEF Saved
    <2>1. CASE m \in 1..l
      <3>1. PICK n \in 1..l : /\ n < m /\ p[n].do = "save" /\ p[n].c = p[m].c
                              /\ Unsaved(p, n, m)
        BY <1>1, <2>1 DEF Saved
      <3>2. n \in 1..(l + k)
        BY <1>1
      <3>3. QED
        BY <1>1, <1>3, <2>1, <3>1, <3>2
    <2>2. ASSUME NEW i \in 1..k, m = l + i
          PROVE  \E n \in 1..(l + k) : /\ n < m /\ r[n].do = "save" /\ r[n].c = r[m].c
                                       /\ Unsaved(r, n, m)
      <3>1. PICK n \in 1..k : /\ n < i /\ q[n].do = "save" /\ q[n].c = q[i].c
                              /\ Unsaved(q, n, i)
        BY <1>1, <2>2 DEF Saved
      <3>2. l + n \in 1..(l + k) /\ l + n < m
        BY <1>1, <2>2, <3>1
      <3>3. Unsaved(r, l + n, m)
        BY <1>4, <2>2, <3>1
      <3>4. r[l + n] = q[n] /\ r[m] = q[i]
        BY <1>1, <2>2
      <3>5. QED
        BY <3>1, <3>2, <3>3, <3>4
    <2>3. QED
      BY <1>2, <2>1, <2>2
  <1>7. QED
    BY <1>5, <1>6 DEF r

(* Test saves, writes and restores its channels one after the other.       *)
LEMMA TestPrograms ==
    ASSUME NEW d \in Restoring \cup {"Coincide_C0308"}, NEW c
    PROVE  LET p == Program(d, "Test", c)
           IN  p \in Seq(StepsOf(d, "Test")) /\ Restored(p) /\ Saved(p)
  <1> DEFINE p == Program(d, "Test", c)
             S == StepsOf(d, "Test")
             W == IF d = "ZIF_L0323" THEN SUBSET (Data \cup {"x"}) ELSE SUBSET Data
             part(i) == Save(i) \o WriteAndRead(i, W) \o Restore(i)
  <1>1. W \in SUBSET (SUBSET Bits) /\ IsFiniteSet(W)
    BY FiniteWords DEF Bits
  <1>2. p = TestAll(Registers(d), W)
    BY DEF Program, CASCalls, AttenuatorCalls, L0306Calls, C0308Calls, ZIFCalls, ShaperCalls,
           D0302Calls, Registers, Restoring, Classes, Supplies
  <1> HIDE DEF W, p, S
  <1>3. \A i \in {1, 2} : part(i) \in Seq(S) /\ Restored(part(i)) /\ Saved(part(i))
    BY <1>1, TestParts DEF S
  <1>4. p = IF Len(Registers(d)) = 1 THEN part(1) ELSE part(1) \o part(2)
    BY <1>2 DEF TestAll, Each
  <1> HIDE DEF part
  <1>5. part(1) \o part(2) \in Seq(S)
    BY <1>3
  <1>6. QED
    BY <1>3, <1>4, <1>5, TestsInTurn DEF p, S

(* The drivers that stay in agreement with their device.  Which steps of   *)
(* an operation make shadow and register the same, whatever they were.     *)
Sure(d, o) ==
    IF d = "U0302" THEN {"refresh"}
    ELSE IF o = "InitTo" THEN {"set"}
    ELSE IF o = "Init" /\ d \in Wiping THEN {"setBack", "try"}
    ELSE {}

(* Where the shadow is changed on its own one of these is to come, and an  *)
(* Init with words makes one for every channel.                            *)
Follows(d, o, p) ==
    /\ After(p, Sure(d, o), {"forget", "assume", "assumeLength"})
    /\ Before(p, {"get"}, {"adopt"})
    /\ o = "InitTo" \/ d = "U0302" => \A c \in DOMAIN Registers(d) : Has(p, Sure(d, o), c)

(* Init with words.                                                        *)
LEMMA InitToPrograms ==
    ASSUME NEW d \in Classes \ {"U0302"}, NEW c
    PROVE  LET p == Program(d, "InitTo", c)
           IN  /\ p \in Seq(StepsOf(d, "InitTo"))
               /\ d \in Following => Follows(d, "InitTo", p)
  <1> DEFINE p == Program(d, "InitTo", c)
             S == StepsOf(d, "InitTo")
  <1> USE DEF Get, Gate, Set, Adopt, Forget, Lam, Same, Step
  <1>0. DOMAIN Registers(d) = (IF d \in Single THEN {1} ELSE {1, 2})
        /\ Len(Registers(d)) = (IF d \in Single THEN 1 ELSE 2)
    BY OneOrTwo
  <1>1. CASE d \in Wiping
    <2> DEFINE q == Forget(1) \o Set(1)
    <2>1. p = q
      BY <1>1 DEF Program, CASCalls, AttenuatorCalls, Wiping
    <2>2. q \in Seq(S)
      BY <1>1 DEF StepsOf, Kinds, Worded, Wiping, Restoring, Following, Supplies, Classes
    <2>3. Acts(q, <<<<"forget", 1>>, <<"set", 1>>>>)
      BY DEF Acts
    <2> HIDE DEF p, q
    <2>4. Follows(d, "InitTo", q)
      BY <1>0, <1>1, <2>3 DEF Acts, Before, After, Has, Follows, Sure, Wiping, Single
    <2>5. QED
      BY <2>1, <2>2, <2>4 DEF p
  <1>2. CASE d \in {"Coincide_L0306_4A", "Coincide_C0308", "ZIF_L0323",
                    "DelayPulseShaper_L0323", "Discriminator_D0302"}
    <2> DEFINE q == Set(1) \o Set(2)
    <2>1. p = SetAll(Registers(d))
      BY <1>2 DEF Program, L0306Calls, C0308Calls, ZIFCalls, ShaperCalls, D0302Calls, Registers
    <2>2. Len(Registers(d)) = 2 /\ DOMAIN Registers(d) = {1, 2}
      BY <1>0, <1>2 DEF Single
    <2>3. p = q
      <3> HIDE DEF p
      <3>1. QED
        BY <2>1, <2>2 DEF SetAll, Each
    <2>4. q \in Seq(S)
      BY <1>2 DEF StepsOf, Kinds, Worded, Wiping, Restoring, Following, Supplies, Classes, Does
    <2>5. Acts(q, <<<<"set", 1>>, <<"set", 2>>>>)
      BY DEF Acts
    <2> HIDE DEF p, q
    <2>6. Follows(d, "InitTo", q)
      BY <1>2, <2>2, <2>5 DEF Acts, Before, After, Has, Follows, Sure
    <2>7. QED
      BY <2>3, <2>4, <2>6 DEF p
  <1>3. CASE d = "LIZA_B0608"
    <2>1. p = Get(1) \o Adopt(1) \o Gate \o Set(1)
      BY <1>3 DEF Program, LIZACalls
    <2>2. Get(1) \o Adopt(1) \o Gate \o Set(1) \in Seq(S)
      BY <1>3 DEF StepsOf, Kinds, Worded, Following, Does
    <2>3. QED
      BY <1>3, <2>1, <2>2 DEF Following
  <1>4. CASE d = "IV_C0309"
    <2> DEFINE q == Lam \o (Set(1) \o Gate \o Get(1) \o Same(1))
    <2>1. p = q
      BY <1>4 DEF Program, IVCalls, SetControl
    <2>2. q \in Seq(S)
      BY <1>4 DEF StepsOf, Kinds, Worded, Wiping, Restoring, Following, Supplies, Classes
    <2>3. Acts(q, <<<<"lam", 0>>, <<"set", 1>>, <<"gate", 0>>, <<"get", 1>>, <<"same", 1>>>>)
      BY DEF Acts
    <2> HIDE DEF p, q
    <2>4. Follows(d, "InitTo", q)
      BY <1>0, <1>4, <2>3 DEF Acts, Before, After, Has, Follows, Sure, Wiping, Single
    <2>5. QED
      BY <2>1, <2>2, <2>4 DEF p
  <1>5. CASE d \in Supplies
    <2> DEFINE w(i) == Write(i) \o Switch(i, {"on"})
    <2>1. p = Lam \o Each(Registers(d), WriteAndTurnOn)
      BY <1>5 DEF Program, B0307Calls, B0308Calls, Supplies, Registers
    <2>2. p = IF d \in Single THEN Lam \o w(1) ELSE Lam \o (w(1) \o w(2))
      <3> HIDE DEF p
      <3>1. QED
        BY <1>0, <2>1 DEF Each, WriteAndTurnOn
    <2>3. Lam \o w(1) \in Seq(S) /\ Lam \o (w(1) \o w(2)) \in Seq(S)
      BY <1>5 DEF Write, Switch, StepsOf, Kinds, Worded, Following, Supplies, Does, Bits
    <2>4. QED
      <3> HIDE DEF p, w
      <3>1. QED
        BY <1>5, <2>2, <2>3 DEF Following, p
  <1>6. QED
    BY <1>1, <1>2, <1>3, <1>4, <1>5 DEF Classes, Wiping, Supplies

(* Init without words.                                                     *)
LEMMA InitPrograms ==
    ASSUME NEW d \in Classes \ {"U0302"}, NEW c
    PROVE  LET p == Program(d, "Init", c)
           IN  /\ p \in Seq(StepsOf(d, "Init"))
               /\ d \in Following => Follows(d, "Init", p)
  <1> DEFINE p == Program(d, "Init", c)
             S == StepsOf(d, "Init")
  <1> USE DEF Get, Gate, SetBack, Try, Forget, Lam, Step
  <1>1. CASE d = "CAS"
    <2> DEFINE q == Forget(1) \o Try(1, {})
    <2>1. p = q
      BY <1>1 DEF Program, CASCalls
    <2>2. q \in Seq(S)
      BY <1>1 DEF StepsOf, Kinds, Worded, Wiping
    <2>3. Acts(q, <<<<"forget", 1>>, <<"try", 1>>>>)
      BY DEF Acts
    <2> HIDE DEF p, q
    <2>4. Follows(d, "Init", q)
      BY <1>1, <2>3 DEF Acts, Before, After, Follows, Sure, Wiping
    <2>5. QED
      BY <2>1, <2>2, <2>4 DEF p
  <1>2. CASE d = "Coincide_C0308"
    <2> DEFINE q == Get(1) \o Get(2) \o (SetBack(1) \o SetBack(2))
    <2>1. p = TakeOver(Coincide_C0308) /\ Len(Coincide_C0308) = 2
      BY <1>2 DEF Program, C0308Calls, Coincide_C0308
    <2>2. p = q
      <3> HIDE DEF p
      <3>1. QED
        BY <2>1 DEF TakeOver, Each
    <2>3. q \in Seq(S)
      BY <1>2 DEF StepsOf, Kinds, Worded, Wiping, Adopting, Following, Does
    <2>4. QED
      BY <1>2, <2>2, <2>3 DEF Following
  <1>3. CASE d = "HVS_B0307"
    <2>1. p = Lam \o Get(1)
      BY <1>3 DEF Program, B0307Calls
    <2>2. Lam \o Get(1) \in Seq(S)
      BY <1>3 DEF StepsOf, Kinds, Worded, Wiping, Adopting, Following, Supplies, Does
    <2>3. QED
      BY <1>3, <2>1, <2>2 DEF Following, Supplies
  <1>4. CASE d \in Adopting
    <2>1. p \in Seq(S) /\ ReadsThenUses(d, p)
      BY <1>4, AdoptingPrograms
    <2>2. ASSUME NEW n \in DOMAIN p PROVE p[n].do \in Kinds(d, "Init")
      <3> HIDE DEF p, S
      <3>1. p[n] \in S
        BY <2>1, <2>2
      <3>2. QED
        BY <3>1 DEF S, StepsOf
    <2> HIDE DEF p
    <2>3. After(p, Sure(d, "Init"), {"forget", "assume", "assumeLength"})
      <3>1. CASE d = "Attenuator_A0605"
        <4>1. \A n \in DOMAIN p : p[n].do \in {"get", "forget", "setBack", "try"}
          BY <2>2, <3>1 DEF Kinds, Wiping
        <4>2. Sure(d, "Init") = {"setBack", "try"}
          BY <3>1 DEF Sure, Wiping
        <4>3. QED
          BY <2>1, <4>1, <4>2 DEF ReadsThenUses, After, Uses
      <3>2. CASE d # "Attenuator_A0605"
        <4>1. \A n \in DOMAIN p : p[n].do \in {"get", "setBack", "adopt", "lam", "gate"}
          BY <1>4, <2>2, <3>2 DEF Kinds, Wiping, Adopting
        <4>2. QED
          BY <4>1 DEF After
      <3>3. QED
        BY <3>1, <3>2
    <2>4. Before(p, {"get"}, {"adopt"})
      BY <2>1 DEF ReadsThenUses, Before, Uses
    <2>5. QED
      BY <1>4, <2>1, <2>3, <2>4 DEF Follows, p
  <1>5. QED
    BY <1>1, <1>2, <1>3, <1>4 DEF Adopting, Classes

(* U0302 writes all its channels after every change of its shadow.         *)
LEMMA U0302Programs ==
    ASSUME NEW o \in Operations("U0302"), NEW c \in {1, 2}
    PROVE  LET p == Program("U0302", o, c)
           IN  p \in Seq(StepsOf("U0302", o)) /\ Follows("U0302", o, p)
  <1> DEFINE p == Program("U0302", o, c)
             S == StepsOf("U0302", o)
             r == Refresh(1) \o Refresh(2)
             l == AssumeLength(1) \o AssumeLength(2) \o r
             on == Assume(c, {"on"}) \o r
             off == Assume(c, {}) \o r
  <1> USE DEF Refresh, AssumeLength, Assume, Step
  <1>1. o \in {"TurnOn", "TurnOff", "SetLength"}
    BY DEF Operations
  <1>2. Len(U0302) = 2 /\ DOMAIN Registers("U0302") = {1, 2}
    BY OneOrTwo DEF Classes, Single, U0302
  <1>3. CASE o = "SetLength"
    <2>1. p = l
      BY <1>2, <1>3 DEF Program, U0302Calls, Each
    <2>2. l \in Seq(S)
      BY <1>3 DEF StepsOf, Kinds, Worded
    <2>3. Acts(l, <<<<"assumeLength", 1>>, <<"assumeLength", 2>>, <<"refresh", 1>>,
                    <<"refresh", 2>>>>)
      BY DEF Acts
    <2> HIDE DEF p, l
    <2>4. Follows("U0302", o, l)
      BY <1>2, <1>3, <2>3 DEF Acts, Before, After, Has, Follows, Sure
    <2>5. QED
      BY <2>1, <2>2, <2>4 DEF p
  <1>4. CASE o = "TurnOn"
    <2>1. p = on
      BY <1>2, <1>4 DEF Program, U0302Calls, Each
    <2>2. on \in Seq(S)
      BY <1>4 DEF StepsOf, Kinds, Worded, Bits
    <2>3. Acts(on, <<<<"assume", c>>, <<"refresh", 1>>, <<"refresh", 2>>>>)
      BY DEF Acts
    <2> HIDE DEF p, on
    <2>4. Follows("U0302", o, on)
      BY <1>2, <1>4, <2>3 DEF Acts, Before, After, Has, Follows, Sure
    <2>5. QED
      BY <2>1, <2>2, <2>4 DEF p
  <1>5. CASE o = "TurnOff"
    <2>1. p = off
      BY <1>2, <1>5 DEF Program, U0302Calls, Each
    <2>2. off \in Seq(S)
      BY <1>5 DEF StepsOf, Kinds, Worded, Bits
    <2>3. Acts(off, <<<<"assume", c>>, <<"refresh", 1>>, <<"refresh", 2>>>>)
      BY DEF Acts
    <2> HIDE DEF p, off
    <2>4. Follows("U0302", o, off)
      BY <1>2, <1>5, <2>3 DEF Acts, Before, After, Has, Follows, Sure
    <2>5. QED
      BY <2>1, <2>2, <2>4 DEF p
  <1>6. QED
    BY <1>1, <1>3, <1>4, <1>5

(* The Tests of the other drivers: of LIZA_B0608, ...                      *)
LEMMA LIZATest ==
    ASSUME NEW c
    PROVE  Program("LIZA_B0608", "Test", c) \in Seq(StepsOf("LIZA_B0608", "Test"))
  <1> DEFINE S == StepsOf("LIZA_B0608", "Test")
             W == SUBSET Data
             part(w) == Try(1, w) \o Get(1) \o Check(1, w) \o Restore(1)
             f == [w \in W |-> part(w)]
             s == SetToSeq(W)
             i(n) == ((n - 1) \div 4) + 1
             j(n) == ((n - 1) % 4) + 1
             e == EachOf(W, 4, part)
  <1>1. s \in Seq(W)
    BY Listing, FiniteWords
  <1>2. ASSUME NEW w \in W, NEW m \in 1..4 PROVE f[w][m] \in S
    BY DEF Try, Get, Check, Restore, Step, StepsOf, Kinds, Worded, Restoring, Following, Does, Bits
  <1>3. [n \in 1..(4 * Len(s)) |-> f[s[i(n)]][j(n)]] \in Seq(S)
    <2> HIDE DEF f, S, s, W
    <2>1. QED
      BY <1>1, <1>2, Parts
  <1>4. ASSUME NEW n \in 1..(4 * Len(s)) PROVE s[i(n)] \in W
    <2> HIDE DEF s, W
    <2>1. Len(s) \in Nat
      BY <1>1, LenProperties
    <2>2. i(n) \in 1..Len(s)
      BY <1>4, <2>1
    <2>3. QED
      <3> HIDE DEF i
      <3>1. QED
        BY <1>1, <2>2, ElementOfSeq
  <1>5. e = [n \in 1..(4 * Len(s)) |-> part(s[i(n)])[j(n)]]
    BY DEF EachOf
  <1>6. e = [n \in 1..(4 * Len(s)) |-> f[s[i(n)]][j(n)]]
    <2> HIDE DEF s, i, j, W, e, part
    <2>1. QED
      BY <1>4, <1>5
  <1>7. e \in Seq(S)
    BY <1>3, <1>6
  <1>8. Get(1) \o SaveRead(1) \in Seq(S)
    BY DEF Get, SaveRead, Step, StepsOf, Kinds, Worded, Restoring, Following, Does
  <1>9. Program("LIZA_B0608", "Test", c) = Get(1) \o SaveRead(1) \o e
    BY DEF Program, LIZACalls
  <1>10. QED
    <2> HIDE DEF e, S
    <2>1. Get(1) \o SaveRead(1) \o e \in Seq(S)
      BY <1>7, <1>8
    <2>2. QED
      BY <1>9, <2>1 DEF S

(* ... of IV_C0309, ...                                                    *)
LEMMA IVTest ==
    ASSUME NEW c
    PROVE  Program("IV_C0309", "Test", c) \in Seq(StepsOf("IV_C0309", "Test"))
  <1> DEFINE S == StepsOf("IV_C0309", "Test")
  <1>1. TestControl \in Seq(S) /\ Lam \o Gate \in Seq(S) /\ CheckLam \in Seq(S)
    BY DEF TestControl, Try, Gate, Get, Lam, CheckLam, Step, StepsOf, Kinds, Worded, Restoring,
           Following, Supplies, Classes
  <1> HIDE DEF S
  <1>2. Lam \o Gate \o TestControl \o TestControl \o CheckLam \in Seq(S)
    BY <1>1
  <1>3. Program("IV_C0309", "Test", c) = Lam \o Gate \o TestControl \o TestControl \o CheckLam
    BY DEF Program, IVCalls
  <1>4. QED
    BY <1>2, <1>3 DEF S

(* ... and of the supplies.                                                *)
LEMMA SupplyTests ==
    ASSUME NEW d \in Supplies, NEW c
    PROVE  Program(d, "Test", c) \in Seq(StepsOf(d, "Test"))
  <1> DEFINE S == StepsOf(d, "Test")
             W == {{b} : b \in Data}
             s == SetToSeq(W)
             i(n) == ((n - 1) \div 5) + 1
             j(n) == ((n - 1) % 5) + 1
  <1>1. s \in Seq(W)
    BY Listing, FiniteWords
  <1>2. ASSUME NEW n \in 1..(5 * Len(s)) PROVE s[i(n)] \in W
    <2> HIDE DEF s, W
    <2>1. Len(s) \in Nat
      BY <1>1, LenProperties
    <2>2. i(n) \in 1..Len(s)
      BY <1>2, <2>1
    <2>3. QED
      <3> HIDE DEF i
      <3>1. QED
        BY <1>1, <2>2, ElementOfSeq
  <1>3. ASSUME NEW k \in {1, 2} PROVE TestSupply(k) \in Seq(S)
    <2> DEFINE part(w) == Put(k, w) \o Gate \o Get(k) \o Gate \o Must(k, w)
               f == [w \in W |-> part(w)]
               e == EachOf(W, 5, part)
    <2>1. ASSUME NEW w \in W, NEW m \in 1..5 PROVE f[w][m] \in S
      BY DEF Put, Gate, Get, Must, Step, StepsOf, Kinds, Worded, Restoring, Following,
             Supplies, Does, Bits
    <2>2. [n \in 1..(5 * Len(s)) |-> f[s[i(n)]][j(n)]] \in Seq(S)
      <3> HIDE DEF f, S, s, W
      <3>1. QED
        BY <1>1, <2>1, Parts
    <2>3. e = [n \in 1..(5 * Len(s)) |-> part(s[i(n)])[j(n)]]
      BY DEF EachOf
    <2>4. e = [n \in 1..(5 * Len(s)) |-> f[s[i(n)]][j(n)]]
      <3> HIDE DEF s, i, j, W, e, part
      <3>1. QED
        BY <1>2, <2>3
    <2>5. e \in Seq(S)
      BY <2>2, <2>4
    <2>6. /\ Try(k, {}) \in Seq(S) /\ Gate \in Seq(S) /\ Get(k) \in Seq(S)
          /\ \A on \in {{}, {"on"}} : Switch(k, on) \in Seq(S) /\ MustBe(k, on) \in Seq(S)
      BY DEF Try, Switch, Gate, Get, MustBe, Step, StepsOf, Kinds, Worded, Restoring, Following,
             Supplies, Does, Bits
    <2> HIDE DEF e, S
    <2>7. TestSupply(k) = Try(k, {}) \o Switch(k, {}) \o Gate
            \o Switch(k, {"on"}) \o Get(k) \o Gate \o MustBe(k, {"on"})
            \o Switch(k, {}) \o Get(k) \o Gate \o MustBe(k, {})
            \o e \o Try(k, {}) \o Switch(k, {"on"}) \o Gate
      BY DEF TestSupply, e
    <2>8. Try(k, {}) \o Switch(k, {}) \o Gate
            \o Switch(k, {"on"}) \o Get(k) \o Gate \o MustBe(k, {"on"})
            \o Switch(k, {}) \o Get(k) \o Gate \o MustBe(k, {}) \in Seq(S)
      BY <2>6
    <2>9. QED
      BY <2>5, <2>6, <2>7, <2>8
  <1>4. Lam \o Gate \in Seq(S) /\ NoLam \in Seq(S)
    BY DEF Lam, Gate, NoLam, Step, StepsOf, Kinds, Worded, Restoring, Following, Supplies,
           Does, Bits
  <1>5. Program(d, "Test", c) = TestSupplies(Registers(d))
    BY DEF Program, B0307Calls, B0308Calls, Supplies, Registers
  <1> HIDE DEF S
  <1>6. Each(Registers(d), TestSupply) \in Seq(S)
    BY <1>3 DEF Each
  <1>7. TestSupplies(Registers(d)) \in Seq(S)
    BY <1>4, <1>6 DEF TestSupplies
  <1>8. QED
    BY <1>5, <1>7 DEF S

(* The remaining operations.                                               *)
LEMMA OtherPrograms ==
    ASSUME NEW d \in Classes \ {"U0302"}, NEW c \in DOMAIN Registers(d),
           NEW o \in Operations(d) \ {"InitTo", "Init", "Verify", "Test"}
    PROVE  Program(d, o, c) \in Seq(StepsOf(d, o))
  <1> DEFINE S == StepsOf(d, o)
  <1>1. c \in {1, 2} /\ (d \in Single => c = 1)
    BY OneOrTwo
  <1>2. CASE o = "Set"
    <2>1. Program(d, o, c) = IF d = "IV_C0309" THEN SetControl ELSE Set(c)
      BY <1>2 DEF Program, CASCalls, AttenuatorCalls, L0306Calls, C0308Calls, ZIFCalls,
                  ShaperCalls, D0302Calls, LIZACalls, IVCalls, B0307Calls, B0308Calls, Classes
    <2>2. d = "IV_C0309" => SetControl \in Seq(S)
      BY <1>2 DEF SetControl, Set, Gate, Get, Same, Step, StepsOf, Kinds, Worded, Following,
                  Supplies, Classes
    <2>3. Set(c) \in Seq(S)
      BY <1>1, <1>2 DEF Set, Step, StepsOf, Kinds, Worded, Following, Supplies, Does
    <2>4. QED
      BY <2>1, <2>2, <2>3
  <1>3. CASE o # "Set"
    <2>1. d \in Supplies /\ o \in {"TurnOn", "TurnOff", "Update", "ResetOverload", "UpdateAll"}
      BY <1>3 DEF Operations, Supplies
    <2>2. ASSUME NEW k \in {1, 2}
          PROVE  /\ Turn(k, {"on"}) \in Seq(S) /\ Turn(k, {}) \in Seq(S)
                 /\ Update(k) \in Seq(S) /\ Lam \in Seq(S)
      BY <2>1 DEF Turn, Update, Lam, Step, StepsOf, Kinds, Worded, Following, Supplies, Does, Bits
    <2>3. CASE o # "UpdateAll"
      <3> HIDE DEF S
      <3>1. Program(d, o, c) \in {Turn(c, {"on"}), Turn(c, {}), Update(c), Lam}
        BY <2>1, <2>3 DEF Program, B0307Calls, B0308Calls, Supplies
      <3>2. QED
        BY <1>1, <2>2, <3>1 DEF S
    <2>4. CASE o = "UpdateAll"
      <3>1. d = "HVS_B0308" /\ Len(HVS_B0308) = 2
        BY <2>4 DEF Operations, HVS_B0308
      <3>2. Program(d, o, c) = Update(1) \o Update(2)
        BY <2>4, <3>1 DEF Program, B0308Calls, Each
      <3> HIDE DEF S
      <3>3. Update(1) \o Update(2) \in Seq(S)
        BY <2>2
      <3>4. QED
        BY <3>2, <3>3 DEF S
    <2>5. QED
      BY <2>3, <2>4
  <1>4. QED
    BY <1>2, <1>3

(* What every program is made of, and that the drivers that stay in        *)
(* agreement make the shadow and the register the same.                    *)
LEMMA Programs ==
    ASSUME NEW d \in Classes, NEW o \in Operations(d), NEW c \in DOMAIN Registers(d)
    PROVE  LET p == Program(d, o, c)
           IN  p \in Seq(StepsOf(d, o)) /\ (d \in Following => Follows(d, o, p))
  <1> DEFINE p == Program(d, o, c)
             S == StepsOf(d, o)
  <1>1. CASE d = "U0302"
    <2>1. c \in {1, 2} /\ o \in Operations("U0302")
      BY <1>1, OneOrTwo DEF Single
    <2>2. QED
      BY <1>1, <2>1, U0302Programs
  <1>2. CASE d # "U0302" /\ o = "InitTo"
    BY <1>2, InitToPrograms
  <1>3. CASE d # "U0302" /\ o = "Init"
    BY <1>3, InitPrograms
  <1>4. CASE d # "U0302" /\ o \notin {"InitTo", "Init"}
    <2>1. p \in Seq(S)
      <3>1. CASE o = "Verify"
        BY <1>4, <3>1, VerifyPrograms
      <3>2. CASE o = "Test"
        <4>1. CASE d \in Restoring \cup {"Coincide_C0308"}
          BY <3>2, <4>1, TestPrograms
        <4>2. CASE d \in Supplies
          BY <3>2, <4>2, SupplyTests
        <4>3. QED
          BY <1>4, <3>2, <4>1, <4>2, LIZATest, IVTest DEF Restoring
      <3>3. QED
        BY <1>4, <3>1, <3>2, OtherPrograms
    <2>2. CASE d \in Following
      <3>1. Kinds(d, o) \cap {"forget", "assume", "assumeLength", "adopt"} = {}
        BY <1>4, <2>2 DEF Kinds, Restoring
      <3> HIDE DEF p, S
      <3>2. ASSUME NEW n \in DOMAIN p PROVE p[n].do \in Kinds(d, o)
        <4>1. p[n] \in S
          BY <2>1, <3>2
        <4>2. QED
          BY <4>1 DEF S, StepsOf
      <3>3. Follows(d, o, p)
        BY <1>4, <3>1, <3>2 DEF Follows, After, Before
      <3>4. QED
        BY <2>1, <3>3 DEF p, S
    <2>3. QED
      BY <2>1, <2>2
  <1>5. QED
    BY <1>1, <1>2, <1>3, <1>4
-----------------------------------------------------------------------------
(* What is kept.  The types, and what a call has left to do.               *)
Types ==
    /\ class \in Drivers
    /\ op \in Operations(class) \cup {"none"}
    /\ todo \in Seq(StepsOf(class, op)) /\ (op = "none" => todo = <<>>)
    /\ reg \in [Channels -> SUBSET (Data \cup HasSwitch)]
    /\ before \in [Channels -> SUBSET (Data \cup HasSwitch)]
    /\ code \in [Channels -> Word] /\ data \in [Channels -> Word]
    /\ arg \in [Channels -> Word] /\ saved \in Word
    /\ class = "U0302" => \A c \in Channels : code[c] \subseteq Data \cup {"on"}
    /\ class = "Attenuator_A0605" => \A c \in Channels : data[c] \subseteq Data
    /\ rc \in Result /\ dt \in {"SUCCESS", "BROKEN"}
    /\ synced \in BOOLEAN /\ over \in BOOLEAN /\ failed \in BOOLEAN /\ clean \in BOOLEAN

(* A step of the kinds of B is for a channel of G, or comes after a getter *)
(* of its channel.                                                         *)
Covered(s, B, G) ==
    \A n \in DOMAIN s : s[n].do \in B =>
        s[n].c \in G \/ \E k \in DOMAIN s : k < n /\ s[k].do = "get" /\ s[k].c = s[n].c

(* Verify and Init without words, until something is amiss: what is used   *)
(* is the register's word, and who has no use left agrees with it.         *)
Reading == op = "Verify" \/ (op = "Init" /\ class \in Adopting)
ReadInv ==
    Reading /\ rc = {} /\ ~over =>
        /\ reg = before
        /\ Covered(todo, Uses, {c \in Channels : data[c] = reg[c]})
        /\ After(todo, Uses, {"forget"})
        /\ \A c \in Channels : Has(todo, Uses, c) \/ Shown(code[c]) = reg[c]

(* A restoring comes after a saving of its channel, with none in between,  *)
(* or is the next one's of a channel of P.  A channel's is due when no     *)
(* saving comes before it.                                                 *)
Held(s, P) ==
    \A m \in DOMAIN s : s[m].do = "restore" =>
        \/ \E n \in DOMAIN s : /\ n < m /\ s[n].do = "save" /\ s[n].c = s[m].c
                               /\ Unsaved(s, n, m)
        \/ Unsaved(s, 0, m) /\ s[m].c \in P
Due(s, c) == \E m \in DOMAIN s : s[m].do = "restore" /\ s[m].c = c /\ Unsaved(s, 0, m)

(* Test, until it knows of an error: the word saved is the channel's from  *)
(* its saving to its restoring, and who has no restoring due has its word. *)
Testing == op = "Test" /\ class \in Restoring /\ synced
RestoreInv ==
    Testing /\ ~IsError(rc) =>
        /\ Restored(todo)
        /\ Held(todo, {c \in Channels : saved = before[c]})
        /\ \A c \in Channels : (reg[c] = before[c] /\ code[c] = before[c]) \/ Due(todo, c)

(* The drivers that stay in agreement.                                     *)
Agreed(c) == code[c] = reg[c]
SyncInv ==
    class \in Following =>
        /\ After(todo, Sure(class, op), {"forget", "assume", "assumeLength"})
        /\ class = "IV_C0309" /\ op = "Init" /\ ~failed =>
              Covered(todo, {"adopt"}, {c \in Channels : data[c] \cap Data = reg[c]})
        /\ op = "none" /\ clean => \A c \in Channels : Agreed(c)
        /\ op # "none" /\ ~failed /\ (IF WritesAll THEN rc = {} ELSE clean) =>
              \A c \in Channels : Agreed(c) \/ Has(todo, Sure(class, op), c)

(* The step at hand, and what is left after it.                            *)
LEMMA FirstStep ==
    ASSUME NEW S, NEW s \in Seq(S), s # <<>>
    PROVE  /\ 1 \in DOMAIN s /\ Head(s) = s[1] /\ Head(s) \in S /\ Tail(s) \in Seq(S)
           /\ \A n \in DOMAIN Tail(s) : n + 1 \in DOMAIN s /\ Tail(s)[n] = s[n + 1]
           /\ \A n \in DOMAIN s : n \in Nat /\ n >= 1 /\ (n # 1 => n - 1 \in DOMAIN Tail(s))
  <1>1. /\ Len(s) \in Nat /\ Len(s) # 0 /\ DOMAIN s = 1..Len(s) /\ Head(s) = s[1]
        /\ Len(Tail(s)) = Len(s) - 1 /\ DOMAIN Tail(s) = 1..Len(Tail(s))
        /\ \A n \in 1..Len(Tail(s)) : Tail(s)[n] = s[n + 1]
    OBVIOUS
  <1>2. s[1] \in S /\ Tail(s) \in Seq(S)
    BY <1>1
  <1>3. QED
    BY <1>1, <1>2

(* A step of the program that is running.                                  *)
LEMMA CurrentStep ==
    ASSUME Types, NEW do, Now(do)
    PROVE  /\ class \in Classes /\ op \in Operations(class)
           /\ op # "none" /\ do \in Kinds(class, op)
           /\ Head(todo).c \in 0..2 /\ Head(todo).w \in Word
           /\ Worded(class, op, Head(todo))
           /\ Rest \in Seq(StepsOf(class, op)) /\ <<>> \in Seq(StepsOf(class, op))
  <1>1. class \in Classes /\ op \in Operations(class) /\ op # "none"
    BY RegisterAssumption DEF Types, Now
  <1>2. todo \in Seq(StepsOf(class, op)) /\ todo # <<>> /\ Head(todo).do = do
    BY DEF Types, Now
  <1>3. Head(todo) \in StepsOf(class, op) /\ Rest \in Seq(StepsOf(class, op))
        /\ <<>> \in Seq(StepsOf(class, op))
    BY <1>2, FirstStep DEF Rest
  <1>4. QED
    BY <1>1, <1>2, <1>3 DEF StepsOf, Word

(* The decisions of the channel at hand.                                   *)
LEMMA ChannelDecides ==
    ASSUME Types, NEW c \in Channels
    PROVE  class \in Classes /\ c \in {1, 2} /\ Decided(class, R(c))
  BY RegisterAssumption, Decisions DEF Types, Channels, R

(* What an access can report.                                              *)
LEMMA ReportTypes ==
    ASSUME NEW r \in Reports, NEW c
    PROVE  r \subseteq Errors /\ Counts(c, r) \subseteq r /\ Errors \subseteq All
  BY ReportsAreErrors DEF Counts, All

(* A setter keeps the types.                                               *)
LEMMA SetterTypes ==
    ASSUME Types, NEW c \in Channels, NEW do \in {"set", "setBack", "restore", "try"},
           Setter(do, c)
    PROVE  Types'
  <1> DEFINE w == Given(do, c, Head(todo).w)
  <1>1. UNCHANGED <<class, call, dt, data, saved, over, clean>> /\ Now(do) /\ todo' = Rest
    BY DEF Setter
  <1>2. Channels' = Channels /\ HasSwitch' = HasSwitch
    BY <1>1 DEF Channels, HasSwitch
  <1>3. /\ op # "none" /\ op \in Operations(class) /\ do \in Kinds(class, op)
        /\ Rest \in Seq(StepsOf(class, op))
    BY <1>1, CurrentStep
  <1>4. class # "U0302"
    BY <1>3 DEF Kinds, Operations
  <1>5. Decided(class, R(c))
    BY ChannelDecides
  <1>6. /\ reg' \in [Channels -> SUBSET (Data \cup HasSwitch)] /\ code' \in [Channels -> Word]
        /\ rc' \in Result /\ failed' \in BOOLEAN
    <2>1. CASE UNCHANGED <<reg, code, failed>> /\ rc' = rc \cup R(c).refusal
      BY <1>5, <2>1 DEF Types, Decided, Result, All
    <2>2. ASSUME NEW r \in Reports,
                 reg' \in {Written(c, w)} \cup (IF Counts(c, r) = {} THEN {} ELSE {reg}),
                 code' = [code EXCEPT ![c] = Kept(c, w, r)],
                 rc' = rc \cup Counts(c, r),
                 Fails(c, r)
          PROVE  /\ reg' \in [Channels -> SUBSET (Data \cup HasSwitch)]
                 /\ code' \in [Channels -> Word] /\ rc' \in Result /\ failed' \in BOOLEAN
      <3>1. reg[c] \subseteq Data \cup HasSwitch /\ code[c] \subseteq Bits
        BY DEF Types, Word
      <3>2. Written(c, w) \in [Channels -> SUBSET (Data \cup HasSwitch)]
        BY <3>1 DEF Written, Types
      <3>3. Kept(c, w, r) \in Word
        BY <1>5, <3>1 DEF Kept, Decided, Word
      <3>4. rc' \in Result
        BY <2>2, ReportTypes DEF Types, Result
      <3>5. QED
        BY <2>2, <3>2, <3>3, <3>4 DEF Types, Fails
    <2> HIDE DEF w
    <2>3. QED
      BY <2>1, <2>2 DEF Setter, w
  <1>7. QED
    BY <1>1, <1>2, <1>3, <1>4, <1>6 DEF Types

(* A write past the setter keeps them.                                     *)
LEMMA RawWriteTypes ==
    ASSUME Types, NEW c \in Channels, NEW do \in {"write", "put", "refresh"}, RawWrite(do, c)
    PROVE  Types'
  <1>1. UNCHANGED <<class, code, call, dt, data, saved, over, clean>> /\ Now(do) /\ todo' = Rest
    BY DEF RawWrite
  <1>2. Channels' = Channels /\ HasSwitch' = HasSwitch
    BY <1>1 DEF Channels, HasSwitch
  <1>3. /\ op # "none" /\ op \in Operations(class) /\ do \in Kinds(class, op)
        /\ Rest \in Seq(StepsOf(class, op))
    BY <1>1, CurrentStep
  <1> DEFINE w == Bare(do, c, Head(todo).w)
             on == IF do = "refresh" THEN {"on"} ELSE {}
             new == [reg EXCEPT ![c] = (@ \ (Data \cup on)) \cup (w \cap (Data \cup on))]
  <1>4. PICK r \in Reports : /\ reg' \in {new} \cup (IF r = {} THEN {} ELSE {reg})
                             /\ rc' = rc \cup r /\ Fails(c, r)
    BY DEF RawWrite
  <1>5. on \subseteq HasSwitch
    <2>1. do = "refresh" => class = "U0302"
      BY <1>3 DEF Kinds, Does
    <2>2. QED
      BY <2>1 DEF HasSwitch
  <1>6. new \in [Channels -> SUBSET (Data \cup HasSwitch)]
    <2> HIDE DEF on, w
    <2>1. QED
      BY <1>5 DEF Types
  <1>7. rc' \in Result /\ failed' \in BOOLEAN
    BY <1>4, ReportTypes DEF Types, Result, Fails
  <1>8. reg' \in [Channels -> SUBSET (Data \cup HasSwitch)]
    <2> HIDE DEF new
    <2>1. QED
      BY <1>4, <1>6 DEF Types
  <1>9. QED
    BY <1>1, <1>2, <1>3, <1>7, <1>8 DEF Types

(* So does a switch ...                                                    *)
LEMMA RawSwitchTypes ==
    ASSUME Types, NEW c \in Channels, NEW do \in {"switch", "turn"}, RawSwitch(do, c)
    PROVE  Types'
  <1>1. UNCHANGED <<class, call, dt, data, saved, over, clean>> /\ Now(do) /\ todo' = Rest
    BY DEF RawSwitch
  <1>2. Channels' = Channels /\ HasSwitch' = HasSwitch
    BY <1>1 DEF Channels, HasSwitch
  <1>3. /\ op # "none" /\ op \in Operations(class) /\ Rest \in Seq(StepsOf(class, op))
        /\ Worded(class, op, Head(todo)) /\ Head(todo).do = do
    BY <1>1, CurrentStep DEF Now
  <1> DEFINE v == Head(todo).w
             On(x) == (x \ {"on"}) \cup v
  <1>4. PICK r \in Reports :
            /\ reg' \in {[reg EXCEPT ![c] = On(@)]} \cup (IF r = {} THEN {} ELSE {reg})
            /\ code' = IF do = "turn" /\ r = {} THEN [code EXCEPT ![c] = On(@)] ELSE code
            /\ rc' = rc \cup r /\ Fails(c, r)
    BY DEF RawSwitch
  <1>5. class \in Supplies /\ v \subseteq {"on"} /\ {"on"} \subseteq Bits
    BY <1>3 DEF Worded, Bits
  <1>6. class # "U0302" /\ HasSwitch = {"on"}
    BY <1>5 DEF Supplies, HasSwitch
  <1> HIDE DEF v
  <1>7. reg' \in [Channels -> SUBSET (Data \cup HasSwitch)]
    BY <1>4, <1>5, <1>6 DEF Types
  <1>8. code' \in [Channels -> Word]
    BY <1>4, <1>5 DEF Types, Word
  <1>9. rc' \in Result /\ failed' \in BOOLEAN
    BY <1>4, ReportTypes DEF Types, Result, Fails
  <1>10. QED
    BY <1>1, <1>2, <1>3, <1>6, <1>7, <1>8, <1>9 DEF Types

(* ... and a getter.                                                       *)
LEMMA GetterTypes ==
    ASSUME Types, NEW c \in Channels, NEW do \in {"get", "update"}, Getter(do, c)
    PROVE  Types'
  <1>1. UNCHANGED <<class, reg, call, dt, saved, clean>> /\ Now(do) /\ todo' = Rest
    BY DEF Getter
  <1>2. Channels' = Channels /\ HasSwitch' = HasSwitch
    BY <1>1 DEF Channels, HasSwitch
  <1>3. /\ op # "none" /\ op \in Operations(class) /\ do \in Kinds(class, op)
        /\ Rest \in Seq(StepsOf(class, op))
    BY <1>1, CurrentStep
  <1>4. class # "U0302"
    BY <1>3 DEF Kinds, Operations
  <1>5. Decided(class, R(c))
    BY ChannelDecides
  <1>6. PICK r \in Reports : \E w \in OnBus(c, r) : \E v \in Out(c, w, r) :
            /\ data' = (IF do = "get" THEN [data EXCEPT ![c] = v] ELSE data)
            /\ code' = (IF do = "update" /\ r = {} THEN [code EXCEPT ![c] = v] ELSE code)
            /\ over' = (over \/ (Counts(c, r) = {} /\ "x" \in w))
            /\ rc' = rc \cup Counts(c, r) \cup Refused(c, w, r)
            /\ Fails(c, r)
    BY DEF Getter
  <1>15. PICK w \in OnBus(c, r) : \E v \in Out(c, w, r) :
            /\ data' = (IF do = "get" THEN [data EXCEPT ![c] = v] ELSE data)
            /\ code' = (IF do = "update" /\ r = {} THEN [code EXCEPT ![c] = v] ELSE code)
            /\ over' = (over \/ (Counts(c, r) = {} /\ "x" \in w))
            /\ rc' = rc \cup Counts(c, r) \cup Refused(c, w, r)
            /\ Fails(c, r)
    BY <1>6
  <1>7. PICK v \in Out(c, w, r) :
            /\ data' = (IF do = "get" THEN [data EXCEPT ![c] = v] ELSE data)
            /\ code' = (IF do = "update" /\ r = {} THEN [code EXCEPT ![c] = v] ELSE code)
            /\ over' = (over \/ (Counts(c, r) = {} /\ "x" \in w))
            /\ rc' = rc \cup Counts(c, r) \cup Refused(c, w, r)
            /\ Fails(c, r)
    BY <1>15
  <1>8. w \subseteq Bits
    <2>1. reg[c] \subseteq Data \cup {"on"}
      BY DEF Types, HasSwitch
    <2>2. QED
      BY <2>1 DEF OnBus, Bits
  <1>9. v \in Word /\ (class = "Attenuator_A0605" => v \subseteq Data)
    BY <1>5, <1>8 DEF Out, Decided, Word, Bits
  <1>10. rc' \in Result
    <2>1. Refused(c, w, r) \subseteq Errors
      BY DEF Refused, Errors, UserErrors
    <2>2. QED
      BY <1>7, <2>1, ReportTypes DEF Types, Result
  <1>11. over' \in BOOLEAN /\ failed' \in BOOLEAN
    BY <1>7 DEF Types, Fails
  <1>12. data' \in [Channels -> Word] /\ code' \in [Channels -> Word]
    BY <1>7, <1>9 DEF Types
  <1>13. class = "Attenuator_A0605" => \A i \in Channels : data'[i] \subseteq Data
    BY <1>7, <1>9 DEF Types
  <1>14. QED
    BY <1>1, <1>2, <1>3, <1>4, <1>10, <1>11, <1>12, <1>13 DEF Types

(* The LAM functions and the gates touch neither shadow nor device.        *)
LEMMA LamTypes ==
    ASSUME Types, NEW do \in {"lam", "checkLam", "noLam"}, LamFunction(do)
    PROVE  Types'
  <1>1. UNCHANGED <<class, reg, code, call, data, saved, clean>> /\ Now(do) /\ todo' = Rest
    BY DEF LamFunction
  <1>2. Channels' = Channels /\ HasSwitch' = HasSwitch
    BY <1>1 DEF Channels, HasSwitch
  <1>3. op # "none" /\ op \in Operations(class) /\ Rest \in Seq(StepsOf(class, op))
    BY <1>1, CurrentStep
  <1>4. PICK r \in Reports :
          LET e == IF do = "lam" THEN r ELSE r \ {"NOT_Q"}
              up == do = "noLam" /\ r = {}
          IN  /\ rc' = rc \cup e
              /\ failed' = (failed \/ e # {})
              /\ dt' = (IF up THEN "BROKEN" ELSE dt)
              /\ over' = (over \/ up)
    BY DEF LamFunction
  <1>5. rc' \in Result
    BY <1>4, ReportTypes DEF Types, Result
  <1>6. failed' \in BOOLEAN /\ over' \in BOOLEAN /\ dt' \in {"SUCCESS", "BROKEN"}
    BY <1>4 DEF Types
  <1>7. QED
    BY <1>1, <1>2, <1>3, <1>5, <1>6 DEF Types

(* The same of a gate.                                                     *)
LEMMA GateTypes == ASSUME Types, AnError PROVE Types'
  <1>1. UNCHANGED <<class, reg, code, call, locals, clean>> /\ Now("gate")
        /\ todo' \in {Rest, <<>>}
    BY DEF AnError
  <1>2. Channels' = Channels /\ HasSwitch' = HasSwitch
    BY <1>1 DEF Channels, HasSwitch
  <1>3. op # "none" /\ op \in Operations(class) /\ todo' \in Seq(StepsOf(class, op))
    BY <1>1, CurrentStep
  <1>4. QED
    BY <1>1, <1>2, <1>3 DEF Types

(* What is noted in the shadow is a word.                                  *)
LEMMA NoteTypes ==
    ASSUME Types, NEW c \in Channels,
           NEW do \in {"forget", "assume", "assumeLength", "adopt"}, Note(do, c)
    PROVE  Types'
  <1>1. UNCHANGED <<class, reg, call, locals, clean>> /\ Now(do) /\ todo' = Rest
        /\ code' = [code EXCEPT ![c] = Noted(do, c, Head(todo).w)]
    BY DEF Note
  <1>2. Channels' = Channels /\ HasSwitch' = HasSwitch
    BY <1>1 DEF Channels, HasSwitch
  <1>3. /\ op # "none" /\ op \in Operations(class) /\ Rest \in Seq(StepsOf(class, op))
        /\ do \in Kinds(class, op) /\ Worded(class, op, Head(todo)) /\ Head(todo).do = do
    BY <1>1, CurrentStep DEF Now
  <1>4. Decided(class, R(c))
    BY ChannelDecides
  <1>5. /\ do = "assume" => Head(todo).w \subseteq {"on"}
        /\ code[c] \subseteq Bits /\ data[c] \subseteq Bits /\ arg[c] \subseteq Bits
        /\ {"on"} \subseteq Bits
    BY <1>3 DEF Worded, Types, Word, Bits
  <1>6. Noted(do, c, Head(todo).w) \in Word
    BY <1>4, <1>5 DEF Noted, Decided, Word
  <1>7. code' \in [Channels -> Word]
    BY <1>1, <1>6 DEF Types
  <1>8. ASSUME class = "U0302" PROVE \A i \in Channels : code'[i] \subseteq Data \cup {"on"}
    <2>1. do \in {"assume", "assumeLength"}
      BY <1>3, <1>8 DEF Kinds, Operations
    <2>2. code[c] \subseteq Data \cup {"on"}
      BY <1>8 DEF Types
    <2>3. Noted(do, c, Head(todo).w) \subseteq Data \cup {"on"}
      BY <1>5, <2>1, <2>2 DEF Noted
    <2>4. QED
      BY <1>1, <1>8, <2>3 DEF Types
  <1>9. QED
    BY <1>1, <1>2, <1>3, <1>7, <1>8 DEF Types

(* What Test saves is a word.                                              *)
LEMMA SavesTypes ==
    ASSUME Types, NEW c \in Channels, NEW do \in {"save", "saveRead"}, Saves(do, c)
    PROVE  Types'
  <1>1. UNCHANGED <<class, reg, code, call, rc, dt, data, over, failed, clean>> /\ Now(do)
        /\ todo' = Rest /\ saved' \in {code[c], data[c]}
    BY DEF Saves
  <1>2. Channels' = Channels /\ HasSwitch' = HasSwitch
    BY <1>1 DEF Channels, HasSwitch
  <1>3. op # "none" /\ op \in Operations(class) /\ Rest \in Seq(StepsOf(class, op))
    BY <1>1, CurrentStep
  <1>4. saved' \in Word
    BY <1>1 DEF Types
  <1>5. QED
    BY <1>1, <1>2, <1>3, <1>4 DEF Types

(* A comparison answers with a result.                                     *)
LEMMA ComparesTypes ==
    ASSUME Types, NEW c \in Channels, NEW do \in {"compare", "same"}, Compares(do, c)
    PROVE  Types'
  <1>1. UNCHANGED <<class, reg, code, call, dt, data, saved, over, failed, clean>> /\ Now(do)
        /\ todo' \in {Rest, <<>>} /\ rc' \in {rc, {"VERIFICATION_ERROR"}, {"BOOL"}}
    BY DEF Compares
  <1>2. Channels' = Channels /\ HasSwitch' = HasSwitch
    BY <1>1 DEF Channels, HasSwitch
  <1>3. op # "none" /\ op \in Operations(class) /\ todo' \in Seq(StepsOf(class, op))
    BY <1>1, CurrentStep
  <1>4. rc' \in Result
    BY <1>1 DEF Types, Result, All, Errors, HardErrors
  <1>5. QED
    BY <1>1, <1>2, <1>3, <1>4 DEF Types

(* A judgement of Test is one of its states.                               *)
LEMMA JudgesTypes ==
    ASSUME Types, NEW c \in Channels, NEW do \in {"check", "must", "mustBe"}, Judges(do, c)
    PROVE  Types'
  <1>1. UNCHANGED <<class, reg, code, call, rc, data, saved, over, failed, clean>> /\ Now(do)
        /\ todo' \in {Rest, <<>>} /\ dt' \in {dt, "BROKEN"}
    BY DEF Judges
  <1>2. Channels' = Channels /\ HasSwitch' = HasSwitch
    BY <1>1 DEF Channels, HasSwitch
  <1>3. op # "none" /\ op \in Operations(class) /\ todo' \in Seq(StepsOf(class, op))
    BY <1>1, CurrentStep
  <1>4. QED
    BY <1>1, <1>2, <1>3 DEF Types

(* A call has its program to do.                                           *)
LEMMA CallTypes ==
    ASSUME Types, NEW o \in Operations(class), NEW c \in Channels, Call(o, c)
    PROVE  Types'
  <1>1. /\ UNCHANGED <<class, reg, code, locals, clean>>
        /\ op' = o /\ arg' \in Args(o) /\ before' = reg /\ synced' = InSync
        /\ todo' = Program(class, o, c)
    BY DEF Call
  <1>2. Channels' = Channels /\ HasSwitch' = HasSwitch
    BY <1>1 DEF Channels, HasSwitch
  <1>3. class \in Classes
    BY RegisterAssumption DEF Types
  <1>4. todo' \in Seq(StepsOf(class, o)) /\ o # "none"
    BY <1>1, <1>3, Programs DEF Channels, Operations
  <1>5. arg' \in [Channels -> Word]
    BY <1>1 DEF Args, Zero, Word, Bits
  <1>6. QED
    BY <1>1, <1>2, <1>4, <1>5 DEF Types, InSync

(* At its end it has none.                                                 *)
LEMMA DoneTypes == ASSUME Types, Done PROVE Types'
  <1>1. /\ UNCHANGED <<class, reg, code>> /\ op' = "none" /\ todo' = <<>>
        /\ arg' = Zero /\ before' = Zero /\ synced' = FALSE
        /\ rc' = {} /\ dt' = "SUCCESS" /\ data' = Zero /\ saved' = {}
        /\ over' = FALSE /\ failed' = FALSE /\ clean' \in BOOLEAN
    BY DEF Done, Types
  <1>2. Channels' = Channels /\ HasSwitch' = HasSwitch
    BY <1>1 DEF Channels, HasSwitch
  <1>3. Zero \in [Channels -> SUBSET (Data \cup HasSwitch)] /\ Zero \in [Channels -> Word]
        /\ {} \in Word /\ {} \in Result /\ \A c \in Channels : Zero[c] = {}
    BY DEF Zero, Word, Result
  <1>4. <<>> \in Seq(StepsOf(class, "none"))
    OBVIOUS
  <1>5. QED
    BY <1>1, <1>2, <1>3, <1>4 DEF Types

(* Before the first call the shadow has what it is made with.              *)
LEMMA StartTypes == ASSUME Init PROVE Types
  <1>1. class \in Classes
    BY RegisterAssumption DEF Init
  <1>2. ASSUME NEW c \in Channels PROVE R(c).unset \subseteq Bits
    BY <1>1, <1>2, Decisions DEF Decided, Channels, R
  <1>3. ASSUME class = "U0302", NEW c \in Channels PROVE R(c).unset \subseteq Data \cup {"on"}
    <2>1. c \in {1, 2}
      BY <1>1, <1>3, Decisions DEF Channels
    <2>2. Is(U0302[c], Data, {}, "done", Bits, "mask", FALSE)
      BY <2>1, Plainly
    <2>3. R(c) = U0302[c]
      BY <1>3 DEF R, Registers
    <2>4. QED
      BY <2>2, <2>3 DEF Is
  <1>4. code \in [Channels -> Word] /\ reg \in [Channels -> SUBSET (Data \cup HasSwitch)]
    BY <1>2 DEF Init, Word
  <1>5. Zero \in [Channels -> SUBSET (Data \cup HasSwitch)] /\ Zero \in [Channels -> Word]
        /\ {} \in Word /\ {} \in Result /\ \A c \in Channels : Zero[c] = {}
    BY DEF Zero, Word, Result
  <1>6. <<>> \in Seq(StepsOf(class, "none"))
    OBVIOUS
  <1>7. QED
    BY <1>3, <1>4, <1>5, <1>6 DEF Init, Types

(* A stuttering step changes nothing.                                      *)
LEMMA IdleTypes == ASSUME Types, UNCHANGED vars PROVE Types'
  BY DEF Types, Channels, HasSwitch

(* Every step keeps the types.                                             *)
LEMMA StepTypes == ASSUME Types, [Next]_vars PROVE Types'
  <1>1. 1 \in Channels
    BY RegisterAssumption, OneOrTwo DEF Types, Channels
  <1>2. CASE CallAll
    BY <1>1, <1>2, CallTypes DEF CallAll
  <1>3. ASSUME NEW c \in Channels, CallOne(c) PROVE Types'
    BY <1>3, CallTypes DEF CallOne
  <1>4. ASSUME NEW c \in Channels, StepOf(c) PROVE Types'
    BY <1>4, SetterTypes, RawWriteTypes, RawSwitchTypes, GetterTypes, NoteTypes, SavesTypes,
       ComparesTypes, JudgesTypes DEF StepOf
  <1>5. CASE \E do \in {"lam", "checkLam", "noLam"} : LamFunction(do)
    BY <1>5, LamTypes
  <1>6. QED
    BY <1>2, <1>3, <1>4, <1>5, GateTypes, DoneTypes, IdleTypes DEF Next
-----------------------------------------------------------------------------
(* Steps that are left after the first one.                                *)
LEMMA TailHas ==
    ASSUME NEW S, NEW s \in Seq(S), s # <<>>, NEW A, NEW c
    PROVE  /\ Has(Tail(s), A, c) => Has(s, A, c)
           /\ Has(s, A, c) => Has(Tail(s), A, c) \/ (Head(s).do \in A /\ Head(s).c = c)
  <1>1. Has(Tail(s), A, c) => Has(s, A, c)
    BY FirstStep DEF Has
  <1>2. ASSUME NEW n \in DOMAIN s, s[n].do \in A, s[n].c = c, n # 1 PROVE Has(Tail(s), A, c)
    <2>1. n - 1 \in DOMAIN Tail(s) /\ Tail(s)[n - 1] = s[(n - 1) + 1] /\ (n - 1) + 1 = n
      BY <1>2, FirstStep
    <2>2. QED
      BY <1>2, <2>1 DEF Has
  <1>3. QED
    BY <1>1, <1>2, FirstStep DEF Has

(* What is to come after a step still is.                                  *)
LEMMA TailAfter ==
    ASSUME NEW S, NEW s \in Seq(S), s # <<>>, NEW A, NEW B, After(s, A, B)
    PROVE  /\ After(Tail(s), A, B)
           /\ Head(s).do \in B => Has(Tail(s), A, Head(s).c)
  <1>1. ASSUME NEW n \in DOMAIN s, NEW k \in DOMAIN s, n < k
        PROVE  k - 1 \in DOMAIN Tail(s) /\ Tail(s)[k - 1] = s[k] /\ n - 1 < k - 1
    <2>1. k # 1 /\ k - 1 \in DOMAIN Tail(s) /\ (k - 1) + 1 = k
      BY <1>1, FirstStep
    <2>2. QED
      BY <1>1, <2>1, FirstStep
  <1>2. ASSUME NEW n \in DOMAIN Tail(s), Tail(s)[n].do \in B
        PROVE  \E k \in DOMAIN Tail(s) : n < k /\ Tail(s)[k].do \in A
                                         /\ Tail(s)[k].c = Tail(s)[n].c
    <2>1. n + 1 \in DOMAIN s /\ Tail(s)[n] = s[n + 1] /\ (n + 1) - 1 = n
      <3>1. n + 1 \in DOMAIN s /\ Tail(s)[n] = s[n + 1]
        BY FirstStep
      <3>2. n + 1 \in Nat /\ n \in Nat
        <4>1. Tail(s) \in Seq(S)
          BY FirstStep
        <4>2. QED
          BY <4>1
      <3>3. QED
        BY <3>1, <3>2
    <2>2. PICK k \in DOMAIN s : n + 1 < k /\ s[k].do \in A /\ s[k].c = s[n + 1].c
      BY <1>2, <2>1 DEF After
    <2>3. QED
      BY <1>1, <2>1, <2>2
  <1>3. ASSUME Head(s).do \in B PROVE Has(Tail(s), A, Head(s).c)
    <2>1. 1 \in DOMAIN s /\ Head(s) = s[1]
      BY FirstStep
    <2>2. PICK k \in DOMAIN s : 1 < k /\ s[k].do \in A /\ s[k].c = s[1].c
      BY <1>3, <2>1 DEF After
    <2>3. QED
      BY <1>1, <2>1, <2>2 DEF Has
  <1>4. QED
    BY <1>2, <1>3 DEF After

(* A getter's channel needs no getter any more.                            *)
LEMMA TailCovered ==
    ASSUME NEW S, NEW s \in Seq(S), s # <<>>, NEW B, NEW G, NEW H, Covered(s, B, G)
    PROVE  /\ Head(s).do \in B => Head(s).c \in G
           /\ G \subseteq H /\ (Head(s).do = "get" => Head(s).c \in H) => Covered(Tail(s), B, H)
  <1>1. Head(s).do \in B => Head(s).c \in G
    <2>1. 1 \in DOMAIN s /\ Head(s) = s[1] /\ \A k \in DOMAIN s : ~(k < 1)
      BY FirstStep
    <2>2. QED
      BY <2>1 DEF Covered
  <1>2. ASSUME G \subseteq H, Head(s).do = "get" => Head(s).c \in H,
               NEW n \in DOMAIN Tail(s), Tail(s)[n].do \in B, Tail(s)[n].c \notin H
        PROVE  \E k \in DOMAIN Tail(s) : k < n /\ Tail(s)[k].do = "get"
                                         /\ Tail(s)[k].c = Tail(s)[n].c
    <2>1. n + 1 \in DOMAIN s /\ Tail(s)[n] = s[n + 1]
      BY FirstStep
    <2>2. PICK k \in DOMAIN s : k < n + 1 /\ s[k].do = "get" /\ s[k].c = s[n + 1].c
      BY <1>2, <2>1 DEF Covered
    <2>3. k # 1
      BY <1>2, <2>1, <2>2, FirstStep
    <2>4. k - 1 \in DOMAIN Tail(s) /\ Tail(s)[k - 1] = s[(k - 1) + 1] /\ (k - 1) + 1 = k
      BY <2>3, FirstStep
    <2>5. n \in Nat
      <3>1. Tail(s) \in Seq(S)
        BY FirstStep
      <3>2. QED
        BY <3>1
    <2>6. k - 1 < n
      BY <2>2, <2>5, FirstStep
    <2>7. QED
      BY <2>1, <2>2, <2>4, <2>6
  <1>3. QED
    BY <1>1, <1>2 DEF Covered

(* A setter of the drivers that stay in agreement writes shadow and        *)
(* register, or refuses, or its access fails.                              *)
LEMMA SetterOutcomes ==
    ASSUME Types, NEW c \in Channels, class \in Following \ {"U0302"},
           NEW do \in {"set", "setBack", "restore", "try"}, Setter(do, c)
    PROVE  LET w == Given(do, c, Head(todo).w)
           IN  \/ /\ reg' = [reg EXCEPT ![c] = w \cap Data]
                  /\ code' = [code EXCEPT ![c] = w \cap Data]
                  /\ UNCHANGED <<rc, failed>>
               \/ ~(w \subseteq Data) /\ IsError(rc') /\ UNCHANGED <<reg, code, failed>>
               \/ failed' /\ IsError(rc')
  <1> DEFINE w == Given(do, c, Head(todo).w)
  <1>1. Decided(class, R(c)) /\ reg[c] \subseteq Data
    BY ChannelDecides DEF Types, HasSwitch, Following
  <1>2. CASE R(c).refusal # {} /\ ~(w \subseteq Data) /\ rc' = rc \cup R(c).refusal
             /\ UNCHANGED <<reg, code, failed>>
    BY <1>1, <1>2 DEF Decided, IsError
  <1>3. ASSUME R(c).refusal = {} \/ w \subseteq Data, NEW r \in Reports,
               reg' \in {Written(c, w)} \cup (IF Counts(c, r) = {} THEN {} ELSE {reg}),
               code' = [code EXCEPT ![c] = Kept(c, w, r)],
               rc' = rc \cup Counts(c, r), Fails(c, r)
        PROVE  \/ /\ reg' = [reg EXCEPT ![c] = w \cap Data]
                  /\ code' = [code EXCEPT ![c] = w \cap Data]
                  /\ UNCHANGED <<rc, failed>>
               \/ failed' /\ IsError(rc')
    <2>1. CASE Counts(c, r) = {}
      <3>1. reg' = [reg EXCEPT ![c] = w \cap Data]
        <4>1. (reg[c] \ Data) \cup (w \cap Data) = w \cap Data
          BY <1>1
        <4>2. QED
          BY <1>3, <2>1, <4>1 DEF Written, Types
      <3>2. Kept(c, w, r) = w \cap Data
        BY <1>1, <1>3, <2>1 DEF Kept, Decided
      <3>3. QED
        BY <1>3, <2>1, <3>1, <3>2 DEF Fails, Types
    <2>2. CASE Counts(c, r) # {}
      BY <1>3, <2>2, ReportTypes DEF Fails, IsError
    <2>3. QED
      BY <2>1, <2>2
  <1> HIDE DEF w
  <1>4. QED
    BY <1>2, <1>3 DEF Setter, w

(* A getter that has nothing to report hands the register's word out.      *)
LEMMA GoodRead ==
    ASSUME Types, NEW c \in Channels, NEW r \in Reports, NEW w \in OnBus(c, r),
           NEW v \in Out(c, w, r), Counts(c, r) = {}, Refused(c, w, r) = {}, "x" \notin w,
           class # "U0302"
    PROVE  v = reg[c]
  <1>1. Decided(class, R(c))
    BY ChannelDecides
  <1>2. w = reg[c] /\ reg[c] \subseteq Data \cup {"on"}
    BY DEF OnBus, Types, HasSwitch
  <1>3. class \notin Supplies => reg[c] \subseteq Data
    BY DEF Types, HasSwitch
  <1>4. CASE R(c).reads = "mask"
    BY <1>1, <1>2, <1>3, <1>4 DEF Out, Decided
  <1>5. CASE R(c).reads = "bad"
    BY <1>2, <1>5 DEF Out
  <1>6. CASE R(c).reads = "early"
    BY <1>1, <1>2, <1>6 DEF Out, Refused, Decided, Counts
  <1>7. CASE R(c).reads = "plain"
    BY <1>2, <1>7 DEF Out
  <1>8. QED
    BY <1>1, <1>4, <1>5, <1>6, <1>7 DEF Decided

(* A register has no overload, and its shadow has room for what it holds.  *)
LEMMA RoomForRegister ==
    ASSUME Types, NEW c \in Channels
    PROVE  Shown(reg[c]) = reg[c] /\ reg[c] \cap R(c).width = reg[c] /\ "x" \notin reg[c]
  <1>1. Decided(class, R(c)) /\ reg[c] \subseteq Data \cup HasSwitch
    BY ChannelDecides DEF Types
  <1>2. "x" \notin reg[c]
    BY <1>1, RegisterAssumption DEF HasSwitch
  <1>3. QED
    BY <1>1, <1>2 DEF Shown, Decided, HasSwitch, Bits

(* The steps of Verify and of an Init without words.                       *)
LEMMA ReadingKinds ==
    ASSUME Types, Reading, op \in Operations(class)
    PROVE  /\ Kinds(class, op) \subseteq
                {"get", "gate", "compare", "forget", "setBack", "lam", "adopt"}
           /\ class # "U0302"
           /\ "setBack" \in Kinds(class, op) => class \in Following \ {"U0302"}
  <1>1. class \in Classes /\ class # "U0302"
    BY RegisterAssumption DEF Types, Operations, Reading
  <1>2. CASE op = "Verify"
    BY <1>1, <1>2 DEF Kinds
  <1>3. CASE op = "Init" /\ class \in Adopting
    <2>1. CASE class = "Attenuator_A0605"
      BY <1>1, <1>3, <2>1 DEF Kinds, Following, Supplies, Restoring
    <2>2. CASE class = "IV_C0309"
      BY <1>1, <1>3, <2>2 DEF Kinds, Following, Supplies, Restoring
    <2>3. CASE class \in Supplies \cup {"LIZA_B0608"}
      <3>1. Kinds(class, op) = {"get", "lam", "gate", "adopt"}
        BY <1>3, <2>3 DEF Kinds, Following, Supplies, Adopting
      <3>2. QED
        BY <1>1, <3>1
    <2>4. QED
      BY <1>1, <1>3, <2>1, <2>2, <2>3 DEF Kinds, Following, Adopting, Restoring
  <1>4. QED
    BY <1>2, <1>3 DEF Reading

(* A step that keeps what is read and brings the shadow no further away.   *)
LEMMA ReadStep ==
    ASSUME Types, ReadInv, Reading, rc = {}, ~over, todo # <<>>, todo' = Rest,
           UNCHANGED <<class, op, before, reg>>,
           \A c \in Channels : data[c] = reg[c] \/ (Head(todo).do = "get" /\ Head(todo).c = c)
                                   => data'[c] = reg[c],
           \A c \in Channels : \/ code'[c] = code[c]
                                  /\ ~(Head(todo).do \in Uses /\ Head(todo).c = c)
                               \/ Shown(code'[c]) = reg[c]
                               \/ Head(todo).do = "forget" /\ Head(todo).c = c,
           Head(todo).do = "get" => Head(todo).c \in Channels
    PROVE  ReadInv'
  <1> DEFINE G == {c \in Channels : data[c] = reg[c]}
             H == {c \in Channels : data'[c] = reg[c]}
             A == {"forget"}
  <1>1. Channels' = Channels /\ todo \in Seq(StepsOf(class, op)) /\ todo' = Tail(todo)
        /\ \A w : Shown(w)' = Shown(w)
    BY DEF Channels, Types, Shown, Rest
  <1>2. /\ reg = before /\ Covered(todo, Uses, G) /\ After(todo, Uses, A)
        /\ \A c \in Channels : Has(todo, Uses, c) \/ Shown(code[c]) = reg[c]
    BY DEF ReadInv
  <1>3. reg' = before'
    BY <1>2
  <1>4. Covered(todo', Uses, {c \in Channels : data[c] = reg[c]}')
    <2>1. {c \in Channels : data[c] = reg[c]}' = H
      BY <1>1
    <2>2. G \subseteq H /\ (Head(todo).do = "get" => Head(todo).c \in H)
      OBVIOUS
    <2> HIDE DEF G, H
    <2>3. Covered(Tail(todo), Uses, H)
      BY <1>1, <1>2, <2>2, TailCovered
    <2>4. QED
      BY <1>1, <2>1, <2>3
  <1>5. After(Tail(todo), Uses, A) /\ (Head(todo).do \in A => Has(Tail(todo), Uses, Head(todo).c))
    <2> HIDE DEF A
    <2>1. QED
      BY <1>1, <1>2, TailAfter
  <1>6. ASSUME NEW c \in Channels PROVE Has(Tail(todo), Uses, c) \/ Shown(code'[c]) = reg[c]
    <2>1. Has(todo, Uses, c) =>
              Has(Tail(todo), Uses, c) \/ (Head(todo).do \in Uses /\ Head(todo).c = c)
      BY <1>1, TailHas
    <2>2. QED
      BY <1>2, <1>5, <2>1
  <1>7. /\ After(todo, Uses, {"forget"})'
        /\ \A c \in Channels' : Has(todo, Uses, c)' \/ Shown(code[c])' = reg'[c]
    <2>1. After(todo, Uses, {"forget"})'
      BY <1>1, <1>5 DEF After
    <2>2. ASSUME NEW c \in Channels PROVE Has(todo, Uses, c)' \/ Shown(code[c])' = reg'[c]
      <3>1. CASE Has(Tail(todo), Uses, c)
        BY <1>1, <3>1 DEF Has
      <3>2. CASE Shown(code'[c]) = reg[c]
        BY <3>2 DEF Shown
      <3>3. QED
        BY <1>6, <3>1, <3>2
    <2>3. QED
      BY <1>1, <2>1, <2>2
  <1>8. QED
    BY <1>1, <1>3, <1>4, <1>7 DEF ReadInv

(* What is used next has been read.                                        *)
LEMMA ReadBefore ==
    ASSUME Types, ReadInv, Reading, rc = {}, ~over, NEW do, Now(do)
    PROVE  /\ do \in {"get", "gate", "compare", "forget", "setBack", "lam", "adopt"}
           /\ class # "U0302" /\ (do = "setBack" => class \in Following \ {"U0302"})
           /\ do \in Uses => Head(todo).c \in Channels /\ data[Head(todo).c] = reg[Head(todo).c]
           /\ todo # <<>> /\ Head(todo).do = do
  <1>1. op \in Operations(class) /\ do \in Kinds(class, op)
    BY CurrentStep
  <1>2. todo \in Seq(StepsOf(class, op)) /\ todo # <<>> /\ Head(todo).do = do
    BY DEF Types, Now
  <1>3. Covered(todo, Uses, {c \in Channels : data[c] = reg[c]})
    BY DEF ReadInv
  <1> DEFINE G == {c \in Channels : data[c] = reg[c]}
  <1>4. do \in Uses => Head(todo).c \in G
    <2> HIDE DEF G
    <2>1. Covered(todo, Uses, G)
      BY <1>3 DEF G
    <2>2. QED
      BY <1>2, <2>1, TailCovered
  <1>5. QED
    BY <1>1, <1>2, <1>4, ReadingKinds

(* A setter that takes the word read leaves the register as it was.        *)
LEMMA SetterReads ==
    ASSUME Types, ReadInv, NEW c \in Channels, NEW do \in {"set", "setBack", "restore", "try"},
           Setter(do, c)
    PROVE  ReadInv'
  <1>1. UNCHANGED <<class, call, dt, data, saved, over, clean>> /\ Now(do) /\ todo' = Rest
        /\ Head(todo).c = c /\ rc \subseteq rc'
    BY DEF Setter
  <1> SUFFICES ASSUME Reading, rc' = {}, ~over PROVE ReadInv'
    BY <1>1 DEF ReadInv, Reading
  <1>2. rc = {} /\ ~IsError(rc')
    BY <1>1 DEF IsError
  <1>3. /\ do = "setBack" /\ class \in Following \ {"U0302"} /\ data[c] = reg[c]
        /\ todo # <<>> /\ Head(todo).do = do
    BY <1>1, <1>2, ReadBefore DEF Uses
  <1>4. reg[c] \subseteq Data
    BY <1>3 DEF Types, HasSwitch, Following
  <1>5. Given(do, c, Head(todo).w) = reg[c]
    BY <1>3 DEF Given
  <1>6. reg' = [reg EXCEPT ![c] = reg[c]] /\ code' = [code EXCEPT ![c] = reg[c]]
    <2> DEFINE w == Given(do, c, Head(todo).w)
    <2>1. w = reg[c] /\ w \subseteq Data /\ w \cap Data = reg[c]
      BY <1>4, <1>5
    <2>2. \/ /\ reg' = [reg EXCEPT ![c] = w \cap Data]
             /\ code' = [code EXCEPT ![c] = w \cap Data]
          \/ ~(w \subseteq Data)
          \/ IsError(rc')
      BY <1>3, SetterOutcomes
    <2> HIDE DEF w
    <2>3. QED
      BY <1>2, <2>1, <2>2
  <1>7. reg' = reg /\ code'[c] = reg[c] /\ \A i \in Channels \ {c} : code'[i] = code[i]
    BY <1>6 DEF Types
  <1>8. Shown(code'[c]) = reg[c]
    BY <1>7, RoomForRegister
  <1>9. QED
    BY <1>1, <1>2, <1>3, <1>7, <1>8, ReadStep

(* A getter hands the register's word out, or reports.                     *)
LEMMA GetterReads ==
    ASSUME Types, ReadInv, NEW c \in Channels, NEW do \in {"get", "update"}, Getter(do, c)
    PROVE  ReadInv'
  <1>1. UNCHANGED <<class, reg, call, dt, saved, clean>> /\ Now(do) /\ todo' = Rest
        /\ Head(todo).c = c
    BY DEF Getter
  <1>2. PICK r \in Reports : \E w \in OnBus(c, r) : \E v \in Out(c, w, r) :
            /\ data' = (IF do = "get" THEN [data EXCEPT ![c] = v] ELSE data)
            /\ code' = (IF do = "update" /\ r = {} THEN [code EXCEPT ![c] = v] ELSE code)
            /\ over' = (over \/ (Counts(c, r) = {} /\ "x" \in w))
            /\ rc' = rc \cup Counts(c, r) \cup Refused(c, w, r)
    BY DEF Getter
  <1>3. PICK w \in OnBus(c, r) : \E v \in Out(c, w, r) :
            /\ data' = (IF do = "get" THEN [data EXCEPT ![c] = v] ELSE data)
            /\ code' = (IF do = "update" /\ r = {} THEN [code EXCEPT ![c] = v] ELSE code)
            /\ over' = (over \/ (Counts(c, r) = {} /\ "x" \in w))
            /\ rc' = rc \cup Counts(c, r) \cup Refused(c, w, r)
    BY <1>2
  <1>4. PICK v \in Out(c, w, r) :
            /\ data' = (IF do = "get" THEN [data EXCEPT ![c] = v] ELSE data)
            /\ code' = (IF do = "update" /\ r = {} THEN [code EXCEPT ![c] = v] ELSE code)
            /\ over' = (over \/ (Counts(c, r) = {} /\ "x" \in w))
            /\ rc' = rc \cup Counts(c, r) \cup Refused(c, w, r)
    BY <1>3
  <1> SUFFICES ASSUME Reading, rc' = {}, ~over' PROVE ReadInv'
    BY <1>1 DEF ReadInv, Reading
  <1>5. rc = {} /\ ~over /\ Counts(c, r) = {} /\ Refused(c, w, r) = {} /\ "x" \notin w
    BY <1>4
  <1>6. do = "get" /\ class # "U0302" /\ todo # <<>> /\ Head(todo).do = do
    BY <1>1, <1>5, ReadBefore
  <1>7. v = reg[c]
    BY <1>5, <1>6, GoodRead
  <1>8. code' = code /\ data'[c] = reg[c] /\ \A i \in Channels \ {c} : data'[i] = data[i]
    BY <1>4, <1>6, <1>7 DEF Types
  <1>9. QED
    BY <1>1, <1>5, <1>6, <1>8, ReadStep DEF Uses

(* The shadow is forgotten before it is set, and takes over a word read.   *)
LEMMA NoteReads ==
    ASSUME Types, ReadInv, NEW c \in Channels,
           NEW do \in {"forget", "assume", "assumeLength", "adopt"}, Note(do, c)
    PROVE  ReadInv'
  <1>1. UNCHANGED <<class, reg, call, locals, clean>> /\ Now(do) /\ todo' = Rest
        /\ Head(todo).c = c /\ code' = [code EXCEPT ![c] = Noted(do, c, Head(todo).w)]
    BY DEF Note
  <1> SUFFICES ASSUME Reading, rc = {}, ~over PROVE ReadInv'
    BY <1>1 DEF ReadInv, Reading
  <1>2. /\ do \in {"forget", "adopt"} /\ (do = "adopt" => data[c] = reg[c])
        /\ todo # <<>> /\ Head(todo).do = do
    BY <1>1, ReadBefore DEF Uses
  <1>3. do = "adopt" => Shown(code'[c]) = reg[c]
    BY <1>1, <1>2, RoomForRegister DEF Noted, Types
  <1>4. \A i \in Channels \ {c} : code'[i] = code[i]
    BY <1>1 DEF Types
  <1>5. QED
    BY <1>1, <1>2, <1>3, <1>4, ReadStep DEF Uses

(* Verify ends with an error, or with a word that is the register's.       *)
LEMMA ComparesReads ==
    ASSUME Types, ReadInv, NEW c \in Channels, NEW do \in {"compare", "same"}, Compares(do, c)
    PROVE  ReadInv'
  <1>1. UNCHANGED <<class, reg, code, call, dt, data, saved, over, failed, clean>> /\ Now(do)
        /\ Head(todo).c = c
    BY DEF Compares
  <1> SUFFICES ASSUME Reading, rc' = {}, ~over PROVE ReadInv'
    BY <1>1 DEF ReadInv, Reading
  <1>2. Matches(do, c) \/ (do = "same" /\ IsError(rc))
    BY DEF Compares
  <1>3. todo' = Rest /\ rc = {}
    BY <1>2 DEF Compares
  <1>4. do = "compare" /\ data[c] = reg[c] /\ todo # <<>> /\ Head(todo).do = do
    BY <1>1, <1>3, ReadBefore DEF Uses
  <1>5. code[c] = reg[c]
    BY <1>2, <1>4 DEF Matches
  <1>6. Shown(code[c]) = reg[c]
    BY <1>5, RoomForRegister
  <1>7. QED
    BY <1>1, <1>3, <1>4, <1>6, ReadStep

(* The other steps keep what is read.                                      *)
LEMMA OtherReads ==
    ASSUME Types, ReadInv, NEW do, Now(do), do \notin Uses \cup {"get"},
           UNCHANGED <<class, call, data>>, rc \subseteq rc', over' = FALSE => over = FALSE,
           todo' = Rest \/ (todo' = <<>> /\ IsError(rc)),
           Reading => UNCHANGED <<reg, code>>
    PROVE  ReadInv'
  <1> SUFFICES ASSUME Reading, rc' = {}, ~over' PROVE ReadInv'
    BY DEF ReadInv, Reading
  <1>1. rc = {} /\ ~over
    BY DEF Types
  <1>2. todo' = Rest
    BY <1>1 DEF IsError
  <1>3. todo # <<>> /\ Head(todo).do = do
    BY <1>1, ReadBefore
  <1>4. QED
    BY <1>1, <1>2, <1>3, ReadStep

(* A call starts with its program, which reads what it uses.               *)
LEMMA CallReads ==
    ASSUME Types, ReadInv, NEW o \in Operations(class), NEW c \in Channels, Call(o, c)
    PROVE  ReadInv'
  <1>1. UNCHANGED <<class, reg, code, locals, clean>> /\ op' = o /\ before' = reg
        /\ todo' = Program(class, o, c)
    BY DEF Call
  <1>2. class \in Classes /\ Channels' = Channels /\ Channels = DOMAIN Registers(class)
    BY <1>1, RegisterAssumption DEF Types, Channels
  <1>3. Reading' => ReadsThenUses(class, todo')
    <2>1. o = "Verify" => class # "U0302"
      BY DEF Operations
    <2>2. QED
      BY <1>1, <1>2, <2>1, VerifyPrograms, AdoptingPrograms DEF Reading
  <1>4. ASSUME ReadsThenUses(class, todo')
        PROVE  /\ Covered(todo', Uses, {i \in Channels : data[i] = reg[i]}')
               /\ After(todo, Uses, {"forget"})'
               /\ \A i \in Channels' : Has(todo, Uses, i)'
    <2>1. Covered(todo', Uses, {i \in Channels : data[i] = reg[i]}')
      BY <1>4 DEF ReadsThenUses, Before, Covered
    <2>2. After(todo, Uses, {"forget"})'
      BY <1>4 DEF ReadsThenUses, After
    <2>3. \A i \in Channels' : Has(todo, Uses, i)'
      BY <1>2, <1>4 DEF ReadsThenUses, Has
    <2>4. QED
      BY <2>1, <2>2, <2>3
  <1>5. QED
    BY <1>1, <1>3, <1>4 DEF ReadInv

(* Every step keeps what is read ...                                       *)
LEMMA StepReads == ASSUME Types, ReadInv, [Next]_vars PROVE ReadInv'
  <1>0. 1 \in Channels
    BY RegisterAssumption, OneOrTwo DEF Types, Channels
  <1>1. CASE CallAll
    BY <1>0, <1>1, CallReads DEF CallAll
  <1>2. ASSUME NEW c \in Channels, CallOne(c) PROVE ReadInv'
    BY <1>2, CallReads DEF CallOne
  <1>3. ASSUME NEW c \in Channels, StepOf(c) PROVE ReadInv'
    <2>1. ASSUME NEW do \in {"write", "put", "refresh"}, RawWrite(do, c) PROVE ReadInv'
      <3>1. Reading /\ rc = {} /\ ~over => FALSE
        BY <2>1, ReadBefore DEF RawWrite
      <3>2. UNCHANGED <<class, call, over>> /\ rc \subseteq rc'
        BY <2>1 DEF RawWrite
      <3>3. QED
        BY <3>1, <3>2 DEF ReadInv, Reading
    <2>2. ASSUME NEW do \in {"switch", "turn"}, RawSwitch(do, c) PROVE ReadInv'
      <3>1. Reading /\ rc = {} /\ ~over => FALSE
        BY <2>2, ReadBefore DEF RawSwitch
      <3>2. UNCHANGED <<class, call, over>> /\ rc \subseteq rc'
        BY <2>2 DEF RawSwitch
      <3>3. QED
        BY <3>1, <3>2 DEF ReadInv, Reading
    <2>3. ASSUME NEW do \in {"save", "saveRead"}, Saves(do, c) PROVE ReadInv'
      BY <2>3, OtherReads DEF Saves, Uses
    <2>4. ASSUME NEW do \in {"check", "must", "mustBe"}, Judges(do, c) PROVE ReadInv'
      <3>1. Reading /\ rc = {} /\ ~over => FALSE
        BY <2>4, ReadBefore DEF Judges
      <3>2. UNCHANGED <<class, call, over, rc>>
        BY <2>4 DEF Judges
      <3>3. QED
        BY <3>1, <3>2 DEF ReadInv, Reading
    <2>5. QED
      BY <1>3, <2>1, <2>2, <2>3, <2>4, SetterReads, GetterReads, NoteReads, ComparesReads
         DEF StepOf
  <1>4. ASSUME NEW do \in {"lam", "checkLam", "noLam"}, LamFunction(do) PROVE ReadInv'
    <2>1. UNCHANGED <<class, reg, code, call, data>> /\ Now(do) /\ todo' = Rest
          /\ rc \subseteq rc'
      BY <1>4 DEF LamFunction
    <2>2. over' = FALSE => over = FALSE
      <3>1. over \in BOOLEAN
        BY DEF Types
      <3>2. QED
        BY <1>4, <3>1 DEF LamFunction
    <2>3. QED
      BY <2>1, <2>2, OtherReads DEF Uses
  <1>5. CASE AnError
    <2>1. UNCHANGED <<class, reg, code, call, data, rc, over>> /\ Now("gate")
          /\ (todo' = Rest \/ (todo' = <<>> /\ IsError(rc)))
      BY <1>5 DEF AnError
    <2>2. QED
      BY <2>1, OtherReads DEF Uses
  <1>6. CASE Done
    BY <1>6 DEF Done, ReadInv, Reading
  <1>7. CASE UNCHANGED vars
    BY <1>7 DEF ReadInv, Reading, Covered, After, Has, Shown, Channels
  <1>8. QED
    BY <1>1, <1>2, <1>3, <1>4, <1>5, <1>6, <1>7 DEF Next

(* ... from the first on.                                                  *)
LEMMA ReadsKept == Spec => [](Types /\ ReadInv)
  <1>1. Init => ReadInv
    BY DEF Init, ReadInv, Reading
  <1>2. QED
    BY <1>1, StartTypes, StepTypes, StepReads, PTL DEF Spec

(* The types of the variables are kept whatever the drivers do: no shadow  *)
(* and no register comes to hold a bit it has no room for.                 *)
THEOREM TypeCorrect == Spec => []TypeOK
  <1>1. Types => TypeOK
    BY DEF Types, TypeOK, HasSwitch
  <1>2. QED
    BY <1>1, ReadsKept, PTL

(* A Verify that answers CC_OK has compared a word of every register, and  *)
(* found it in the shadow: for all eleven drivers that have one.           *)
THEOREM VerifiesAreHonest == Spec => []VerifyIsHonest
  <1>1. Types /\ ReadInv => VerifyIsHonest
    BY DEF Types, ReadInv, Reading, VerifyIsHonest, Answers, Returned, InSync, Has
  <1>2. QED
    BY <1>1, ReadsKept, PTL

(* An Init without words that answers CC_OK leaves the device as it was    *)
(* and every channel's shadow with the word of its register.               *)
THEOREM InitsAdopt == Spec => []InitAdopts
  <1>1. Types /\ ReadInv => InitAdopts
    BY DEF Types, ReadInv, Reading, InitAdopts, Answers, Returned, InSync, Has
  <1>2. QED
    BY <1>1, ReadsKept, PTL
-----------------------------------------------------------------------------
(* The savings and restorings left after the first step.                   *)
LEMMA TailUnsaved ==
    ASSUME NEW S, NEW s \in Seq(S), s # <<>>, NEW m \in DOMAIN s
    PROVE  /\ \A n \in DOMAIN s : n < m /\ Unsaved(s, n, m) => Unsaved(Tail(s), n - 1, m - 1)
           /\ m # 1 /\ Unsaved(s, 0, m) => Head(s).do # "save" /\ Unsaved(Tail(s), 0, m - 1)
  <1>1. ASSUME NEW n \in {0} \cup DOMAIN s, NEW k \in DOMAIN Tail(s), n - 1 < k, k < m - 1
        PROVE  k + 1 \in DOMAIN s /\ n < k + 1 /\ k + 1 < m /\ Tail(s)[k] = s[k + 1]
    <2>1. k \in Nat
      <3>1. Tail(s) \in Seq(S)
        BY FirstStep
      <3>2. QED
        BY <3>1
    <2>2. n \in Nat /\ m \in Nat
      BY FirstStep
    <2>3. QED
      BY <1>1, <2>1, <2>2, FirstStep
  <1>2. ASSUME NEW n \in DOMAIN s, n < m, Unsaved(s, n, m) PROVE Unsaved(Tail(s), n - 1, m - 1)
    BY <1>1, <1>2 DEF Unsaved
  <1>3. ASSUME m # 1, Unsaved(s, 0, m)
        PROVE  Head(s).do # "save" /\ Unsaved(Tail(s), 0, m - 1)
    <2>1. 1 \in DOMAIN s /\ Head(s) = s[1] /\ 0 < 1 /\ 1 < m
      BY <1>3, FirstStep
    <2>2. ASSUME NEW k \in DOMAIN Tail(s), 0 < k, k < m - 1 PROVE Tail(s)[k].do # "save"
      <3>1. k \in Nat
        <4>1. Tail(s) \in Seq(S)
          BY FirstStep
        <4>2. QED
          BY <4>1
      <3>2. 0 - 1 < k /\ 0 < k + 1
        BY <3>1
      <3>3. QED
        BY <1>1, <1>3, <2>2, <3>2 DEF Unsaved
    <2>3. QED
      BY <1>3, <2>1, <2>2 DEF Unsaved
  <1>4. QED
    BY <1>2, <1>3

(* A channel that is written has a restoring due, until it is restored or  *)
(* another one saved.                                                      *)
LEMMA TailDue ==
    ASSUME NEW S, NEW s \in Seq(S), s # <<>>
    PROVE  /\ \A c : Due(s, c) => \/ Head(s).do = "restore" /\ Head(s).c = c
                                  \/ Head(s).do # "save" /\ Due(Tail(s), c)
           /\ Restored(s) => /\ Restored(Tail(s))
                             /\ Head(s).do = "try" => Due(Tail(s), Head(s).c)
  <1>1. /\ 1 \in DOMAIN s
        /\ Head(s) = s[1]
        /\ \A n \in DOMAIN s : n \in Nat /\ n >= 1 /\ (n # 1 => n - 1 \in DOMAIN Tail(s))
        /\ \A n \in DOMAIN Tail(s) : n + 1 \in DOMAIN s /\ Tail(s)[n] = s[n + 1]
    BY FirstStep
  <1>2. \A n \in DOMAIN Tail(s) : n \in Nat /\ (n + 1) - 1 = n
    <2>1. Tail(s) \in Seq(S)
      BY FirstStep
    <2>2. QED
      BY <2>1
  <1>3. \A n \in DOMAIN s : n # 1 => n - 1 \in DOMAIN Tail(s) /\ Tail(s)[n - 1] = s[n]
    <2> SUFFICES ASSUME NEW n \in DOMAIN s, n # 1
                 PROVE  n - 1 \in DOMAIN Tail(s) /\ Tail(s)[n - 1] = s[n]
      OBVIOUS
    <2>1. n - 1 \in DOMAIN Tail(s) /\ (n - 1) + 1 = n
      BY <1>1
    <2>2. QED
      BY <1>1, <2>1
  <1>4. ASSUME NEW c, NEW m \in DOMAIN s, s[m].do = "restore", s[m].c = c, Unsaved(s, 0, m),
               m # 1
        PROVE  Head(s).do # "save" /\ Due(Tail(s), c)
    <2>1. Head(s).do # "save" /\ Unsaved(Tail(s), 0, m - 1)
      BY <1>4, TailUnsaved
    <2>2. QED
      BY <1>3, <1>4, <2>1 DEF Due
  <1>5. ASSUME Restored(s), NEW n \in DOMAIN Tail(s), Tail(s)[n].do = "try"
        PROVE  \E m \in DOMAIN Tail(s) : /\ n < m /\ Tail(s)[m].do = "restore"
                                         /\ Tail(s)[m].c = Tail(s)[n].c /\ Unsaved(Tail(s), n, m)
    <2>1. n + 1 \in DOMAIN s /\ Tail(s)[n] = s[n + 1] /\ n \in Nat /\ (n + 1) - 1 = n
      BY <1>1, <1>2
    <2>2. PICK m \in DOMAIN s : /\ n + 1 < m /\ s[m].do = "restore" /\ s[m].c = s[n + 1].c
                                /\ Unsaved(s, n + 1, m)
      BY <1>5, <2>1 DEF Restored
    <2>3. m # 1 /\ m \in Nat
      BY <1>1, <2>1, <2>2
    <2>4. n < m - 1 /\ m - 1 \in DOMAIN Tail(s) /\ Tail(s)[m - 1] = s[m]
      BY <1>3, <2>1, <2>2, <2>3
    <2>5. Unsaved(Tail(s), n, m - 1)
      <3>1. Unsaved(Tail(s), (n + 1) - 1, m - 1)
        BY <2>1, <2>2, TailUnsaved
      <3>2. QED
        BY <2>1, <3>1
    <2>6. QED
      BY <2>1, <2>2, <2>4, <2>5
  <1>6. ASSUME Restored(s), Head(s).do = "try" PROVE Due(Tail(s), Head(s).c)
    <2>1. PICK m \in DOMAIN s : /\ 1 < m /\ s[m].do = "restore" /\ s[m].c = s[1].c
                                /\ Unsaved(s, 1, m)
      BY <1>1, <1>6 DEF Restored
    <2>2. Unsaved(Tail(s), 0, m - 1)
      <3>1. Unsaved(Tail(s), 1 - 1, m - 1)
        BY <1>1, <2>1, TailUnsaved
      <3>2. QED
        BY <3>1
    <2>3. m # 1
      BY <2>1
    <2>4. QED
      BY <1>1, <1>3, <2>1, <2>2, <2>3 DEF Due
  <1>7. Restored(s) => Restored(Tail(s))
    BY <1>5 DEF Restored
  <1>8. QED
    BY <1>1, <1>4, <1>6, <1>7 DEF Due

(* A restoring writes the word of its own channel.                         *)
LEMMA TailHeld ==
    ASSUME NEW S, NEW s \in Seq(S), s # <<>>, NEW P, NEW Q, Held(s, P),
           IF Head(s).do = "save" THEN Head(s).c \in Q ELSE P \subseteq Q
    PROVE  /\ Head(s).do = "restore" => Head(s).c \in P
           /\ Held(Tail(s), Q)
  <1>1. /\ 1 \in DOMAIN s
        /\ Head(s) = s[1]
        /\ \A n \in DOMAIN s : n \in Nat /\ n >= 1 /\ (n # 1 => n - 1 \in DOMAIN Tail(s))
        /\ \A n \in DOMAIN Tail(s) : n + 1 \in DOMAIN s /\ Tail(s)[n] = s[n + 1]
    BY FirstStep
  <1>2. Head(s).do = "restore" => Head(s).c \in P
    <2>1. \A n \in DOMAIN s : ~(n < 1)
      BY <1>1
    <2>2. QED
      BY <1>1, <2>1 DEF Held
  <1>3. ASSUME NEW m \in DOMAIN Tail(s), Tail(s)[m].do = "restore"
        PROVE  \/ \E n \in DOMAIN Tail(s) : /\ n < m /\ Tail(s)[n].do = "save"
                                            /\ Tail(s)[n].c = Tail(s)[m].c
                                            /\ Unsaved(Tail(s), n, m)
               \/ Unsaved(Tail(s), 0, m) /\ Tail(s)[m].c \in Q
    <2>1. m \in Nat /\ (m + 1) - 1 = m /\ m + 1 # 1
      <3>1. Tail(s) \in Seq(S)
        BY FirstStep
      <3>2. m \in Nat /\ m >= 1
        BY <3>1
      <3>3. QED
        BY <3>2
    <2>2. m + 1 \in DOMAIN s /\ Tail(s)[m] = s[m + 1]
      BY <1>1
    <2>3. CASE Unsaved(s, 0, m + 1) /\ s[m + 1].c \in P
      <3>1. Head(s).do # "save" /\ Unsaved(Tail(s), 0, (m + 1) - 1)
        BY <2>1, <2>2, <2>3, TailUnsaved
      <3>2. Unsaved(Tail(s), 0, m)
        BY <2>1, <3>1
      <3>3. QED
        BY <2>2, <2>3, <3>1, <3>2
    <2>4. ASSUME NEW n \in DOMAIN s, n < m + 1, s[n].do = "save", s[n].c = s[m + 1].c,
                 Unsaved(s, n, m + 1)
          PROVE  \/ \E i \in DOMAIN Tail(s) : /\ i < m /\ Tail(s)[i].do = "save"
                                              /\ Tail(s)[i].c = Tail(s)[m].c
                                              /\ Unsaved(Tail(s), i, m)
                 \/ Unsaved(Tail(s), 0, m) /\ Tail(s)[m].c \in Q
      <3>1. Unsaved(Tail(s), n - 1, m)
        <4>1. Unsaved(Tail(s), n - 1, (m + 1) - 1)
          BY <2>2, <2>4, TailUnsaved
        <4>2. QED
          BY <2>1, <4>1
      <3>2. CASE n = 1
        <4>1. n - 1 = 0
          BY <3>2
        <4>2. Unsaved(Tail(s), 0, m)
          BY <3>1, <4>1
        <4>3. QED
          BY <1>1, <2>2, <2>4, <3>2, <4>2
      <3>3. CASE n # 1
        <4>0. n - 1 \in DOMAIN Tail(s) /\ n \in Nat
          BY <1>1, <3>3
        <4>1. n - 1 < m /\ (n - 1) + 1 = n
          BY <2>1, <2>4, <4>0
        <4>2. Tail(s)[n - 1] = s[n]
          BY <1>1, <4>0, <4>1
        <4>3. QED
          BY <2>2, <2>4, <3>1, <4>0, <4>1, <4>2
      <3>4. QED
        BY <3>2, <3>3
    <2>5. QED
      BY <1>3, <2>2, <2>3, <2>4 DEF Held
  <1>4. QED
    BY <1>2, <1>3 DEF Held

(* What a step of Test is, while all is well.                              *)
LEMMA TestingStep ==
    ASSUME Types, Testing, NEW do, Now(do)
    PROVE  /\ do \in {"save", "try", "get", "check", "restore"}
           /\ class \in Following \ {"U0302"}
           /\ \A c \in Channels : reg[c] \subseteq Data /\ before[c] \subseteq Data
           /\ todo \in Seq(StepsOf(class, op)) /\ todo # <<>> /\ Head(todo).do = do
  <1>1. class \in Following \ {"U0302"} /\ class \notin Supplies \cup {"U0302"}
    BY DEF Testing, Restoring, Following
  <1>2. Kinds(class, op) = {"save", "try", "get", "check", "restore"}
    BY <1>1 DEF Testing, Kinds
  <1>3. do \in Kinds(class, op)
    BY CurrentStep
  <1>4. \A c \in Channels : reg[c] \subseteq Data /\ before[c] \subseteq Data
    BY <1>1 DEF Types, HasSwitch
  <1>5. QED
    BY <1>1, <1>2, <1>3, <1>4 DEF Types, Now

(* A step that leaves a channel as it was unless its restoring is due.     *)
LEMMA RestoreStep ==
    ASSUME Types, RestoreInv, Testing, ~IsError(rc), NEW do, Now(do), todo' = Rest,
           UNCHANGED <<class, call>>,
           do = "restore" => Head(todo).c \in Channels,
           do = "save" => Head(todo).c \in Channels /\ saved' = before[Head(todo).c],
           do # "save" => saved' = saved,
           \A c \in Channels : \/ UNCHANGED <<reg[c], code[c]>>
                                  /\ ~(do = "restore" /\ Head(todo).c = c)
                               \/ do = "try" /\ Head(todo).c = c
                               \/ reg'[c] = before[c] /\ code'[c] = before[c]
    PROVE  RestoreInv'
  <1> DEFINE P == {c \in Channels : saved = before[c]}
             Q == {c \in Channels : saved' = before[c]}
  <1>1. Channels' = Channels /\ todo \in Seq(StepsOf(class, op)) /\ todo' = Tail(todo)
        /\ todo # <<>> /\ Head(todo).do = do /\ before' = before
    BY DEF Channels, Types, Rest, Now
  <1>2. /\ Restored(todo) /\ Held(todo, P)
        /\ \A c \in Channels : (reg[c] = before[c] /\ code[c] = before[c]) \/ Due(todo, c)
    BY DEF RestoreInv
  <1>3. IF Head(todo).do = "save" THEN Head(todo).c \in Q ELSE P \subseteq Q
    BY <1>1
  <1>4. {c \in Channels : saved = before[c]}' = Q
    BY <1>1
  <1> HIDE DEF P, Q
  <1>5. Held(todo', Q)
    BY <1>1, <1>2, <1>3, TailHeld
  <1>6. Restored(todo') /\ (do = "try" => Due(todo', Head(todo).c))
        /\ \A c : Due(todo, c) => (do = "restore" /\ Head(todo).c = c) \/ Due(todo', c)
    BY <1>1, <1>2, TailDue
  <1>7. ASSUME NEW c \in Channels
        PROVE  (reg'[c] = before'[c] /\ code'[c] = before'[c]) \/ Due(todo', c)
    BY <1>1, <1>2, <1>6
  <1>8. Restored(todo)' /\ Held(todo, {c \in Channels : saved = before[c]})'
        /\ \A c \in Channels' : (reg[c] = before[c] /\ code[c] = before[c])' \/ Due(todo, c)'
    <2>1. Restored(todo)'
      BY <1>6 DEF Restored, Unsaved
    <2>2. Held(todo, {c \in Channels : saved = before[c]})'
      BY <1>4, <1>5 DEF Held, Unsaved
    <2>3. \A c \in Channels' : (reg[c] = before[c] /\ code[c] = before[c])' \/ Due(todo, c)'
      BY <1>1, <1>7 DEF Due, Unsaved
    <2>4. QED
      BY <2>1, <2>2, <2>3
  <1>9. QED
    BY <1>8 DEF RestoreInv

(* A word written is due to be restored, a word restored is the channel's. *)
LEMMA SetterRestores ==
    ASSUME Types, RestoreInv, NEW c \in Channels,
           NEW do \in {"set", "setBack", "restore", "try"}, Setter(do, c)
    PROVE  RestoreInv'
  <1>1. UNCHANGED <<class, call, dt, data, saved, over, clean>> /\ Now(do) /\ todo' = Rest
        /\ Head(todo).c = c /\ rc \subseteq rc'
    BY DEF Setter
  <1> SUFFICES ASSUME Testing, ~IsError(rc') PROVE RestoreInv'
    BY <1>1 DEF RestoreInv, Testing
  <1>2. ~IsError(rc)
    BY <1>1 DEF IsError
  <1>3. /\ do \in {"try", "restore"} /\ class \in Following \ {"U0302"}
        /\ before[c] \subseteq Data
        /\ todo \in Seq(StepsOf(class, op)) /\ todo # <<>> /\ Head(todo).do = do
    BY <1>1, TestingStep
  <1> DEFINE w == Given(do, c, Head(todo).w)
  <1>4. \/ /\ reg' = [reg EXCEPT ![c] = w \cap Data]
           /\ code' = [code EXCEPT ![c] = w \cap Data]
        \/ UNCHANGED <<reg, code>> /\ ~(w \subseteq Data)
    <2>1. \/ /\ reg' = [reg EXCEPT ![c] = w \cap Data]
             /\ code' = [code EXCEPT ![c] = w \cap Data]
          \/ UNCHANGED <<reg, code>> /\ ~(w \subseteq Data)
          \/ IsError(rc')
      BY <1>3, SetterOutcomes
    <2> HIDE DEF w
    <2>2. QED
      BY <2>1
  <1>5. do = "restore" => w = before[c]
    <2> DEFINE P == {i \in Channels : saved = before[i]}
    <2>1. Held(todo, P)
      BY <1>2 DEF RestoreInv
    <2>2. IF Head(todo).do = "save" THEN Head(todo).c \in {Head(todo).c} \cup P
          ELSE P \subseteq {Head(todo).c} \cup P
      OBVIOUS
    <2> HIDE DEF P
    <2>3. Head(todo).do = "restore" => Head(todo).c \in P
      BY <1>3, <2>1, <2>2, TailHeld
    <2>4. QED
      BY <1>1, <1>3, <2>3 DEF P, Given
  <1> HIDE DEF w
  <1>6. do = "restore" => reg'[c] = before[c] /\ code'[c] = before[c]
    <2>1. do = "restore" => w \subseteq Data /\ w \cap Data = before[c]
      BY <1>3, <1>5
    <2>2. QED
      BY <1>4, <2>1 DEF Types
  <1>7. \A i \in Channels \ {c} : reg'[i] = reg[i] /\ code'[i] = code[i]
    BY <1>4 DEF Types
  <1>8. QED
    BY <1>1, <1>2, <1>3, <1>6, <1>7, RestoreStep

(* The word saved is the channel's: none is due when one is saved.         *)
LEMMA SavesRestores ==
    ASSUME Types, RestoreInv, NEW c \in Channels, NEW do \in {"save", "saveRead"}, Saves(do, c)
    PROVE  RestoreInv'
  <1>1. UNCHANGED <<class, reg, code, call, rc, dt, data, over, failed, clean>> /\ Now(do)
        /\ todo' = Rest /\ Head(todo).c = c /\ (do = "save" => saved' = code[c])
    BY DEF Saves
  <1> SUFFICES ASSUME Testing, ~IsError(rc) PROVE RestoreInv'
    BY <1>1 DEF RestoreInv, Testing
  <1>2. /\ do = "save"
        /\ todo \in Seq(StepsOf(class, op)) /\ todo # <<>> /\ Head(todo).do = do
    BY <1>1, TestingStep
  <1>3. ~Due(todo, c)
    BY <1>2, TailDue
  <1>4. code[c] = before[c]
    BY <1>3 DEF RestoreInv
  <1>5. QED
    BY <1>1, <1>2, <1>4, RestoreStep

(* The other steps leave shadow, register and the word saved alone.        *)
LEMMA OtherRestores ==
    ASSUME Types, RestoreInv, NEW do, Now(do), UNCHANGED <<class, call, saved>>,
           Testing /\ do \in {"get", "check"} => UNCHANGED <<reg, code>> /\ todo' = Rest,
           rc \subseteq rc',
           do \notin {"save", "try", "restore"}
    PROVE  RestoreInv'
  <1> SUFFICES ASSUME Testing, ~IsError(rc') PROVE RestoreInv'
    BY DEF RestoreInv, Testing
  <1>1. ~IsError(rc)
    BY DEF IsError
  <1>2. do \in {"get", "check"}
    BY TestingStep
  <1>3. QED
    BY <1>1, <1>2, RestoreStep

(* A call of Test starts with its program.                                 *)
LEMMA CallRestores ==
    ASSUME Types, RestoreInv, NEW o \in Operations(class), NEW c \in Channels, Call(o, c)
    PROVE  RestoreInv'
  <1>1. UNCHANGED <<class, reg, code, locals, clean>> /\ op' = o /\ before' = reg
        /\ synced' = InSync /\ todo' = Program(class, o, c)
    BY DEF Call
  <1>2. Channels' = Channels
    BY <1>1 DEF Channels
  <1> SUFFICES ASSUME Testing' PROVE RestoreInv'
    BY DEF RestoreInv
  <1>3. o = "Test" /\ class \in Restoring /\ InSync
    BY <1>1 DEF Testing
  <1>4. Restored(todo') /\ Saved(todo')
    BY <1>1, <1>3, TestPrograms
  <1>5. Restored(todo)' /\ Held(todo, {i \in Channels : saved = before[i]})'
    <2>1. Restored(todo)'
      BY <1>4 DEF Restored, Unsaved
    <2>2. Held(todo', {i \in Channels : saved = before[i]}')
      BY <1>4 DEF Saved, Held
    <2>3. QED
      BY <2>1, <2>2 DEF Held, Unsaved
  <1>6. \A i \in Channels : code[i] = reg[i]
    BY <1>3 DEF InSync, Shown, Restoring
  <1>7. QED
    BY <1>1, <1>2, <1>5, <1>6 DEF RestoreInv

(* Every step keeps what is saved ...                                      *)
LEMMA StepRestores == ASSUME Types, RestoreInv, [Next]_vars PROVE RestoreInv'
  <1>0. 1 \in Channels
    BY RegisterAssumption, OneOrTwo DEF Types, Channels
  <1>1. CASE CallAll
    BY <1>0, <1>1, CallRestores DEF CallAll
  <1>2. ASSUME NEW c \in Channels, CallOne(c) PROVE RestoreInv'
    BY <1>2, CallRestores DEF CallOne
  <1>3. ASSUME NEW c \in Channels, StepOf(c) PROVE RestoreInv'
    <2>1. ASSUME NEW do \in {"write", "put", "refresh"}, RawWrite(do, c) PROVE RestoreInv'
      BY <2>1, OtherRestores DEF RawWrite
    <2>2. ASSUME NEW do \in {"switch", "turn"}, RawSwitch(do, c) PROVE RestoreInv'
      BY <2>2, OtherRestores DEF RawSwitch
    <2>3. ASSUME NEW do \in {"get", "update"}, Getter(do, c) PROVE RestoreInv'
      <3>1. UNCHANGED <<class, reg, call, saved>> /\ Now(do) /\ todo' = Rest
            /\ rc \subseteq rc' /\ (do = "get" => code' = code)
        BY <2>3 DEF Getter
      <3>2. QED
        BY <3>1, OtherRestores
    <2>4. ASSUME NEW do \in {"forget", "assume", "assumeLength", "adopt"}, Note(do, c)
          PROVE  RestoreInv'
      BY <2>4, OtherRestores DEF Note
    <2>5. ASSUME NEW do \in {"compare", "same"}, Compares(do, c) PROVE RestoreInv'
      <3>1. UNCHANGED <<class, call>> /\ Now(do)
        BY <2>5 DEF Compares
      <3>2. ~Testing
        BY <3>1, TestingStep
      <3>3. QED
        BY <3>1, <3>2 DEF RestoreInv, Testing
    <2>6. ASSUME NEW do \in {"check", "must", "mustBe"}, Judges(do, c) PROVE RestoreInv'
      <3>1. UNCHANGED <<class, reg, code, call, rc, saved>> /\ Now(do)
            /\ (do = "check" => todo' = Rest)
        BY <2>6 DEF Judges
      <3>2. QED
        BY <3>1, OtherRestores
    <2>7. QED
      BY <1>3, <2>1, <2>2, <2>3, <2>4, <2>5, <2>6, SetterRestores, SavesRestores DEF StepOf
  <1>4. ASSUME NEW do \in {"lam", "checkLam", "noLam"}, LamFunction(do) PROVE RestoreInv'
    <2>1. UNCHANGED <<class, call, saved>> /\ Now(do) /\ rc \subseteq rc'
      BY <1>4 DEF LamFunction
    <2>2. QED
      BY <2>1, OtherRestores
  <1>5. CASE AnError
    BY <1>5, OtherRestores DEF AnError
  <1>6. CASE Done
    BY <1>6 DEF Done, RestoreInv, Testing
  <1>7. CASE UNCHANGED vars
    BY <1>7 DEF RestoreInv, Testing, Restored, Held, Due, Unsaved, Channels
  <1>8. QED
    BY <1>1, <1>2, <1>3, <1>4, <1>5, <1>6, <1>7 DEF Next

(* A Test that succeeds has restored every channel's word, in the device   *)
(* and in its shadow, if the driver knew the words before.                 *)
THEOREM TestsRestore == Spec => []TestRestores
  <1>1. Init => RestoreInv
    BY DEF Init, RestoreInv, Testing
  <1>2. Types /\ RestoreInv => TestRestores
    <2> SUFFICES ASSUME Types, RestoreInv, Answers("Test"), TestState = "SUCCESS", synced,
                        class \in Restoring
                 PROVE  reg = before /\ InSync
      BY DEF TestRestores
    <2>1. Testing /\ ~IsError(rc) /\ todo = <<>>
      BY ErrorIsNoSuccess DEF Testing, Answers, Returned
    <2>2. \A c \in Channels : reg[c] = before[c] /\ code[c] = before[c]
      BY <2>1 DEF RestoreInv, Due
    <2>3. QED
      BY <2>2 DEF Types, InSync, Shown, Restoring
  <1>3. QED
    BY <1>1, <1>2, StartTypes, StepTypes, StepRestores, PTL DEF Spec
-----------------------------------------------------------------------------
(* The steps of the drivers that stay in agreement.                        *)
LEMMA FollowingStep ==
    ASSUME Types, class \in Following, NEW do, Now(do)
    PROVE  /\ do \notin {"write", "put", "switch", "turn", "update", "must", "mustBe"}
           /\ do = "refresh" => class = "U0302"
           /\ class = "U0302" => do \in {"assume", "assumeLength", "refresh"}
           /\ do = "adopt" => class = "IV_C0309" /\ op = "Init"
           /\ do \in {"gate", "compare", "same"} => op = "InitTo" \/ Sure(class, op) = {}
           /\ op = "Init" /\ class \in Wiping => /\ do = "setBack" => class = "Attenuator_A0605"
                                                 /\ do = "try" => class = "CAS"
           /\ op # "none" /\ todo \in Seq(StepsOf(class, op)) /\ todo # <<>>
           /\ Head(todo).do = do /\ Worded(class, op, Head(todo))
  <1>1. /\ class \in Classes /\ op \in Operations(class) /\ op # "none"
        /\ do \in Kinds(class, op) /\ Worded(class, op, Head(todo))
    BY CurrentStep
  <1>2. todo \in Seq(StepsOf(class, op)) /\ todo # <<>> /\ Head(todo).do = do
    BY DEF Types, Now
  <1>3. CASE class = "U0302"
    <2>1. op \in {"TurnOn", "TurnOff", "SetLength"}
      BY <1>1, <1>3 DEF Operations
    <2>2. do \in {"assume", "assumeLength", "refresh"}
      BY <1>1, <1>3, <2>1 DEF Kinds
    <2>3. QED
      BY <1>1, <1>2, <1>3, <2>1, <2>2
  <1>4. CASE class # "U0302" /\ op = "Verify"
    <2>1. do \in {"get", "gate", "compare"}
      BY <1>1, <1>4 DEF Kinds
    <2>2. QED
      BY <1>1, <1>2, <1>4, <2>1 DEF Sure
  <1>5. CASE class # "U0302" /\ op = "Test" /\ class \in Restoring
    <2>1. do \in {"save", "try", "get", "check", "restore"}
      BY <1>1, <1>5 DEF Kinds
    <2>2. QED
      BY <1>1, <1>2, <1>5, <2>1
  <1>6. CASE class # "U0302" /\ op = "Init"
    <2>1. CASE class = "CAS"
      BY <1>1, <1>2, <1>6, <2>1 DEF Kinds
    <2>2. CASE class = "Attenuator_A0605"
      BY <1>1, <1>2, <1>6, <2>2 DEF Kinds
    <2>3. CASE class = "IV_C0309"
      BY <1>1, <1>2, <1>6, <2>3 DEF Kinds, Sure, Wiping
    <2>4. CASE class \notin {"CAS", "Attenuator_A0605", "IV_C0309"}
      <3>1. do \in {"get", "lam", "gate", "setBack"}
        <4>1. class \in Adopting
          BY <1>1, <1>6, <2>4 DEF Adopting, Following, Supplies
        <4>2. QED
          BY <1>1, <1>6, <2>4, <4>1 DEF Kinds
      <3>2. QED
        BY <1>1, <1>2, <1>6, <2>4, <3>1 DEF Sure, Wiping
    <2>5. QED
      BY <2>1, <2>2, <2>3, <2>4
  <1>7. CASE /\ class # "U0302" /\ op \notin {"Verify", "Init"}
             /\ ~(op = "Test" /\ class \in Restoring)
    <2>1. do \in {"set", "setBack", "try", "get", "gate", "lam", "checkLam", "same", "forget"}
      BY <1>1, <1>7 DEF Kinds
    <2>2. op = "InitTo" \/ Sure(class, op) = {}
      BY <1>7 DEF Sure
    <2>3. QED
      BY <1>1, <1>2, <1>7, <2>1, <2>2
  <1>8. QED
    BY <1>3, <1>4, <1>5, <1>6, <1>7

(* A step after which a channel still agrees, or has a sure step to come,  *)
(* or is the sure step of it.                                              *)
LEMMA SyncStep ==
    ASSUME Types, SyncInv, class \in Following, NEW do, Now(do),
           UNCHANGED <<class, op, clean>>,
           todo' = Rest \/ (todo' = <<>> /\ ((op = "InitTo" /\ rc' # {}) \/ Sure(class, op) = {})),
           failed => failed', rc' = {} => rc = {},
           class = "IV_C0309" /\ op = "Init" /\ ~failed' =>
              \A c \in Channels :
                  data[c] \cap Data = reg[c] \/ (do = "get" /\ Head(todo).c = c)
                      => data'[c] \cap Data = reg'[c],
           ~failed' /\ (op = "InitTo" => rc' = {}) =>
              \A c \in Channels :
                  \/ UNCHANGED <<reg[c], code[c]>>
                     /\ ~(do \in Sure(class, op) /\ Head(todo).c = c)
                  \/ code'[c] = reg'[c]
                  \/ do \in {"forget", "assume", "assumeLength"} /\ Head(todo).c = c,
           do = "get" => Head(todo).c \in Channels
    PROVE  SyncInv'
  <1> DEFINE A == Sure(class, op)
             B == {"forget", "assume", "assumeLength"}
             G == {c \in Channels : data[c] \cap Data = reg[c]}
             H == {c \in Channels : data'[c] \cap Data = reg'[c]}
  <1>1. op # "none" /\ todo \in Seq(StepsOf(class, op)) /\ todo # <<>> /\ Head(todo).do = do
    BY FollowingStep
  <1>2. Channels' = Channels /\ (todo' = Tail(todo) \/ todo' = <<>>)
        /\ Sure(class, op)' = A
    BY DEF Channels, Rest, Sure
  <1>3. /\ After(todo, A, B)
        /\ class = "IV_C0309" /\ op = "Init" /\ ~failed => Covered(todo, {"adopt"}, G)
        /\ ~failed /\ (IF WritesAll THEN rc = {} ELSE clean) =>
              \A c \in Channels : Agreed(c) \/ Has(todo, A, c)
    BY <1>1 DEF SyncInv
  <1>4. ~failed' /\ (op = "InitTo" => rc' = {}) =>
              \A c \in Channels :
                  \/ UNCHANGED <<reg[c], code[c]>> /\ ~(do \in A /\ Head(todo).c = c)
                  \/ code'[c] = reg'[c]
                  \/ do \in B /\ Head(todo).c = c
    OBVIOUS
  <1>5. class = "IV_C0309" /\ op = "Init" /\ ~failed' =>
            G \subseteq H /\ (Head(todo).do = "get" => Head(todo).c \in H)
    BY <1>1
  <1>6. todo' = Rest \/ (todo' = <<>> /\ ((op = "InitTo" /\ rc' # {}) \/ A = {}))
    OBVIOUS
  <1>7. {c \in Channels : data[c] \cap Data = reg[c]}' = H
    BY <1>2
  <1> HIDE DEF A, B, G, H
  <1>8. After(Tail(todo), A, B) /\ (do \in B => Has(Tail(todo), A, Head(todo).c))
    BY <1>1, <1>3, TailAfter
  <1>9. After(todo', A, B)
    <2>1. CASE todo' = Tail(todo)
      BY <1>8, <2>1
    <2>2. CASE todo' = <<>>
      BY <2>2 DEF After
    <2>3. QED
      BY <1>2, <2>1, <2>2
  <1>10. class = "IV_C0309" /\ op = "Init" /\ ~failed' => Covered(todo', {"adopt"}, H)
    <2> SUFFICES ASSUME class = "IV_C0309", op = "Init", ~failed'
                 PROVE  Covered(todo', {"adopt"}, H)
      OBVIOUS
    <2>1. Covered(Tail(todo), {"adopt"}, H)
      <3> DEFINE D == {"adopt"}
      <3>1. Covered(todo, D, G)
        BY <1>3
      <3> HIDE DEF D
      <3>2. Covered(Tail(todo), D, H)
        BY <1>1, <1>5, <3>1, TailCovered
      <3>3. QED
        BY <3>2 DEF D
    <2>2. CASE todo' = Tail(todo)
      BY <2>1, <2>2
    <2>3. CASE todo' = <<>>
      BY <2>3 DEF Covered
    <2>4. QED
      BY <1>2, <2>2, <2>3
  <1>11. ASSUME ~failed', IF WritesAll THEN rc' = {} ELSE clean, NEW c \in Channels
         PROVE  code'[c] = reg'[c] \/ Has(todo', A, c)
    <2>1. ~failed /\ (IF WritesAll THEN rc = {} ELSE clean) /\ (op = "InitTo" => rc' = {})
      BY <1>11 DEF WritesAll
    <2>2. Agreed(c) \/ Has(todo, A, c)
      BY <1>3, <2>1
    <2>3. Has(todo, A, c) => Has(Tail(todo), A, c) \/ (do \in A /\ Head(todo).c = c)
      BY <1>1, TailHas
    <2>4. code'[c] = reg'[c] \/ Has(Tail(todo), A, c)
      BY <1>4, <1>8, <1>11, <2>1, <2>2, <2>3 DEF Agreed
    <2>5. CASE todo' = Rest
      BY <2>4, <2>5 DEF Rest
    <2>6. CASE todo' = <<>> /\ A = {}
      BY <2>4, <2>6 DEF Has
    <2>7. QED
      BY <1>6, <2>1, <2>5, <2>6
  <1>12. WritesAll' = WritesAll
    BY DEF WritesAll
  <1>13. After(todo, Sure(class, op), {"forget", "assume", "assumeLength"})'
    BY <1>2, <1>9 DEF After, B
  <1>14. (class = "IV_C0309" /\ op = "Init" /\ ~failed =>
            Covered(todo, {"adopt"}, {c \in Channels : data[c] \cap Data = reg[c]}))'
    <2>1. class' = "IV_C0309" /\ op' = "Init" /\ ~failed' =>
            Covered(todo', {"adopt"}, {c \in Channels : data[c] \cap Data = reg[c]}')
      BY <1>7, <1>10
    <2>2. QED
      BY <2>1 DEF Covered
  <1>15. (op # "none" /\ ~failed /\ (IF WritesAll THEN rc = {} ELSE clean) =>
              \A c \in Channels : Agreed(c) \/ Has(todo, Sure(class, op), c))'
    BY <1>2, <1>11, <1>12 DEF Agreed, Has
  <1>16. QED
    BY <1>1, <1>13, <1>14, <1>15 DEF SyncInv

(* A setter makes shadow and register the same, refuses a word that need   *)
(* not be written, or answers with an error.                               *)
LEMMA SetterSyncs ==
    ASSUME Types, SyncInv, class \in Following, NEW c \in Channels,
           NEW do \in {"set", "setBack", "restore", "try"}, Setter(do, c)
    PROVE  SyncInv'
  <1>1. /\ UNCHANGED <<class, call, dt, data, saved, over, clean>>
        /\ Now(do) /\ todo' = Rest /\ Head(todo).c = c
        /\ rc \subseteq rc' /\ (failed => failed')
    <2>1. UNCHANGED <<class, call, dt, data, saved, over, clean>>
          /\ Now(do) /\ todo' = Rest /\ Head(todo).c = c
      BY DEF Setter
    <2>2. rc \subseteq rc'
      BY DEF Setter
    <2>3. failed' = failed \/ \E r \in Reports : Fails(c, r)
      BY DEF Setter
    <2>4. failed => failed'
      BY <2>3 DEF Fails
    <2>5. QED
      BY <2>1, <2>2, <2>4
  <1>2. /\ class # "U0302" /\ (class # "IV_C0309" \/ op # "Init")
        /\ op = "Init" /\ class \in Wiping => /\ do = "setBack" => class = "Attenuator_A0605"
                                              /\ do = "try" => class = "CAS"
        /\ Worded(class, op, Head(todo)) /\ Head(todo).do = do
    <2>1. do \in Kinds(class, op)
      BY <1>1, CurrentStep
    <2>2. class = "IV_C0309" /\ op = "Init" => FALSE
      BY <2>1 DEF Kinds, Restoring
    <2>3. QED
      BY <1>1, <2>2, FollowingStep
  <1> DEFINE w == Given(do, c, Head(todo).w)
  <1>3. do \in Sure(class, op) => (op = "InitTo" \/ w \subseteq Data)
    <2>1. CASE op = "InitTo"
      BY <2>1
    <2>2. CASE op = "Init" /\ class \in Wiping
      <3>1. CASE do = "setBack"
        BY <1>2, <2>2, <3>1 DEF Given, Types
      <3>2. CASE do = "try"
        BY <1>2, <2>2, <3>2 DEF Given, Worded
      <3>3. QED
        BY <2>2, <3>1, <3>2 DEF Sure, Wiping
    <2>3. CASE op # "InitTo" /\ ~(op = "Init" /\ class \in Wiping)
      BY <1>2, <2>3 DEF Sure
    <2>4. QED
      BY <2>1, <2>2, <2>3
  <1>4. \/ /\ reg' = [reg EXCEPT ![c] = w \cap Data]
           /\ code' = [code EXCEPT ![c] = w \cap Data]
        \/ ~(w \subseteq Data) /\ IsError(rc') /\ UNCHANGED <<reg, code>>
        \/ failed'
    BY <1>2, SetterOutcomes
  <1> HIDE DEF w
  <1>5. ASSUME ~failed', op = "InitTo" => rc' = {}, NEW i \in Channels
        PROVE  \/ UNCHANGED <<reg[i], code[i]>>
                  /\ ~(do \in Sure(class, op) /\ Head(todo).c = i)
               \/ code'[i] = reg'[i]
    <2>1. CASE /\ reg' = [reg EXCEPT ![c] = w \cap Data]
               /\ code' = [code EXCEPT ![c] = w \cap Data]
      BY <1>1, <2>1 DEF Types
    <2>2. CASE ~(w \subseteq Data) /\ IsError(rc') /\ UNCHANGED <<reg, code>>
      <3>1. op # "InitTo"
        BY <1>5, <2>2 DEF IsError
      <3>2. QED
        BY <1>3, <2>2, <3>1
    <2>3. QED
      BY <1>4, <1>5, <2>1, <2>2
  <1>6. rc' = {} => rc = {}
    BY <1>1
  <1>7. ~(class = "IV_C0309" /\ op = "Init") /\ do # "get"
    BY <1>2
  <1>8. QED
    BY <1>1, <1>5, <1>6, <1>7, SyncStep

(* U0302 writes its shadow.                                                *)
LEMMA RefreshSyncs ==
    ASSUME Types, SyncInv, class \in Following, NEW c \in Channels,
           NEW do \in {"write", "put", "refresh"}, RawWrite(do, c)
    PROVE  SyncInv'
  <1>1. UNCHANGED <<class, code, call, dt, data, saved, over, clean>> /\ Now(do) /\ todo' = Rest
        /\ Head(todo).c = c /\ rc \subseteq rc' /\ (failed => failed')
    BY DEF RawWrite, Fails
  <1>2. do = "refresh" /\ class = "U0302"
    BY <1>1, FollowingStep
  <1>3. code[c] \subseteq Data \cup {"on"} /\ reg[c] \subseteq Data \cup {"on"}
    BY <1>2 DEF Types, HasSwitch
  <1> DEFINE new == [reg EXCEPT ![c] = (@ \ (Data \cup {"on"}))
                                       \cup (code[c] \cap (Data \cup {"on"}))]
  <1>4. new[c] = code[c] /\ \A i \in Channels \ {c} : new[i] = reg[i]
    BY <1>3 DEF Types
  <1>5. ~failed' => reg' = new
    <2>1. PICK r \in Reports : /\ reg' \in {new} \cup (IF r = {} THEN {} ELSE {reg})
                               /\ Fails(c, r)
      BY <1>2 DEF RawWrite, Bare
    <2>2. ~R(c).lax
      BY <1>2, ChannelDecides DEF Decided
    <2>3. ~failed' => r = {}
      BY <2>1, <2>2 DEF Fails, Counts
    <2> HIDE DEF new
    <2>4. QED
      BY <2>1, <2>3
  <1> HIDE DEF new
  <1>6. ASSUME ~failed', NEW i \in Channels
        PROVE  \/ UNCHANGED <<reg[i], code[i]>>
                  /\ ~(do \in Sure(class, op) /\ Head(todo).c = i)
               \/ code'[i] = reg'[i]
    BY <1>1, <1>4, <1>5, <1>6
  <1>7. rc' = {} => rc = {}
    BY <1>1
  <1>8. QED
    BY <1>1, <1>2, <1>6, <1>7, SyncStep

(* A getter of IV_C0309 that does not fail hands the register's word out.  *)
LEMMA GetterSyncs ==
    ASSUME Types, SyncInv, class \in Following, NEW c \in Channels,
           NEW do \in {"get", "update"}, Getter(do, c)
    PROVE  SyncInv'
  <1>1. UNCHANGED <<class, reg, call, dt, saved, clean>> /\ Now(do) /\ todo' = Rest
        /\ Head(todo).c = c /\ rc \subseteq rc' /\ (failed => failed')
    BY DEF Getter, Fails
  <1>2. do = "get"
    BY <1>1, FollowingStep
  <1>3. code' = code
    BY <1>2 DEF Getter
  <1>4. do \notin Sure(class, op)
    BY <1>2 DEF Sure
  <1>5. ASSUME class = "IV_C0309", ~failed'
        PROVE  \A i \in Channels : data[i] \cap Data = reg[i] \/ i = c
                                      => data'[i] \cap Data = reg'[i]
    <2>1. PICK r \in Reports : \E w \in OnBus(c, r) : \E v \in Out(c, w, r) :
              data' = [data EXCEPT ![c] = v] /\ Fails(c, r)
      BY <1>2 DEF Getter
    <2>2. PICK w \in OnBus(c, r) : \E v \in Out(c, w, r) :
              data' = [data EXCEPT ![c] = v] /\ Fails(c, r)
      BY <2>1
    <2>3. PICK v \in Out(c, w, r) : data' = [data EXCEPT ![c] = v] /\ Fails(c, r)
      BY <2>2
    <2>4. Counts(c, r) = {} /\ R(c).reads = "plain"
      BY <1>5, <2>3, ChannelDecides DEF Fails, Decided
    <2>5. w \in {reg[c], reg[c] \cup {"x"}} /\ v = w
      BY <2>4 DEF OnBus, Out
    <2>6. reg[c] \subseteq Data /\ "x" \notin Data
      BY <1>5, RegisterAssumption DEF Types, HasSwitch, Supplies
    <2>7. v \cap Data = reg[c]
      BY <2>5, <2>6
    <2>8. QED
      BY <1>1, <2>3, <2>7 DEF Types
  <1>6. rc' = {} => rc = {}
    BY <1>1
  <1>7. QED
    BY <1>1, <1>2, <1>3, <1>4, <1>5, <1>6, SyncStep

(* The shadow takes a word read over, or is written out later.             *)
LEMMA NoteSyncs ==
    ASSUME Types, SyncInv, class \in Following, NEW c \in Channels,
           NEW do \in {"forget", "assume", "assumeLength", "adopt"}, Note(do, c)
    PROVE  SyncInv'
  <1>1. UNCHANGED <<class, reg, call, locals, clean>> /\ Now(do) /\ todo' = Rest
        /\ Head(todo).c = c /\ code' = [code EXCEPT ![c] = Noted(do, c, Head(todo).w)]
    BY DEF Note
  <1>2. /\ do = "adopt" => class = "IV_C0309" /\ op = "Init"
        /\ todo \in Seq(StepsOf(class, op)) /\ todo # <<>> /\ Head(todo).do = do
    BY <1>1, FollowingStep
  <1>3. do \notin Sure(class, op)
    BY DEF Sure
  <1>4. ASSUME do = "adopt", ~failed' PROVE code'[c] = reg'[c]
    <2> DEFINE B == {"adopt"}
               G == {i \in Channels : data[i] \cap Data = reg[i]}
    <2>1. Covered(todo, B, G)
      BY <1>1, <1>2, <1>4 DEF SyncInv
    <2>2. Head(todo).do \in B => Head(todo).c \in G
      <3> HIDE DEF B, G
      <3>1. QED
        BY <1>2, <2>1, TailCovered
    <2>3. data[c] \cap Data = reg[c]
      BY <1>1, <1>2, <1>4, <2>2
    <2>4. R(c).width = Data
      BY <1>2, <1>4, ChannelDecides DEF Decided
    <2>5. QED
      BY <1>1, <1>4, <2>3, <2>4 DEF Noted, Types
  <1>5. \A i \in Channels \ {c} : UNCHANGED <<reg[i], code[i]>>
    BY <1>1 DEF Types
  <1>6. ASSUME ~failed', NEW i \in Channels
        PROVE  \/ UNCHANGED <<reg[i], code[i]>>
                  /\ ~(do \in Sure(class, op) /\ Head(todo).c = i)
               \/ code'[i] = reg'[i]
               \/ do \in {"forget", "assume", "assumeLength"} /\ Head(todo).c = i
    BY <1>1, <1>3, <1>4, <1>5, <1>6
  <1>7. QED
    BY <1>1, <1>6, SyncStep

(* The other steps leave shadow and device alone.                          *)
LEMMA OtherSyncs ==
    ASSUME Types, SyncInv, class \in Following, NEW do, Now(do),
           UNCHANGED <<class, reg, code, call, data, clean>>,
           todo' = Rest \/ (todo' = <<>> /\ rc' # {} /\ do \in {"gate", "compare", "same"}),
           failed => failed', rc' = {} => rc = {},
           do \in {"save", "saveRead", "check", "must", "mustBe", "compare", "same", "lam",
                   "checkLam", "noLam", "gate"}
    PROVE  SyncInv'
  <1>1. do \notin Sure(class, op)
    BY DEF Sure
  <1>2. todo' = Rest \/ (todo' = <<>> /\ ((op = "InitTo" /\ rc' # {}) \/ Sure(class, op) = {}))
    BY FollowingStep
  <1>3. QED
    BY <1>1, <1>2, SyncStep

(* A call starts in agreement, or will write every channel.                *)
LEMMA CallSyncs ==
    ASSUME Types, SyncInv, class \in Following,
           NEW o \in Operations(class), NEW c \in Channels, Call(o, c)
    PROVE  SyncInv'
  <1>1. UNCHANGED <<class, reg, code, locals, clean>> /\ op = "none" /\ op' = o
        /\ todo' = Program(class, o, c)
    BY DEF Call
  <1>2. class \in Classes /\ Channels' = Channels /\ Channels = DOMAIN Registers(class)
        /\ o # "none"
    BY <1>1, RegisterAssumption DEF Types, Channels, Operations
  <1>3. Follows(class, o, todo')
    BY <1>1, <1>2, Programs
  <1>4. After(todo, Sure(class, op), {"forget", "assume", "assumeLength"})'
    BY <1>1, <1>3 DEF Follows, After, Sure
  <1>5. Covered(todo, {"adopt"}, {i \in Channels : data[i] \cap Data = reg[i]})'
    <2>1. Covered(todo', {"adopt"}, {i \in Channels : data[i] \cap Data = reg[i]}')
      BY <1>3 DEF Follows, Before, Covered
    <2>2. QED
      BY <2>1 DEF Covered
  <1>6. ASSUME (IF WritesAll THEN rc = {} ELSE clean)'
        PROVE  \A i \in Channels : Agreed(i)' \/ Has(todo, Sure(class, op), i)'
    <2>1. CASE WritesAll'
      BY <1>1, <1>2, <1>3, <2>1 DEF WritesAll, Follows, Has, Sure
    <2>2. CASE ~WritesAll'
      BY <1>1, <1>6, <2>2 DEF SyncInv, Agreed
    <2>3. QED
      BY <2>1, <2>2
  <1>7. QED
    BY <1>1, <1>2, <1>4, <1>5, <1>6 DEF SyncInv

(* Every step keeps it ...                                                 *)
LEMMA StepSyncs == ASSUME Types, SyncInv, [Next]_vars PROVE SyncInv'
  <1> SUFFICES ASSUME class' \in Following PROVE SyncInv'
    BY DEF SyncInv
  <1>1. class' = class
    BY DEF Next, CallAll, CallOne, Call, StepOf, Setter, RawWrite, RawSwitch, Getter, Note, Saves,
           Compares, Judges, LamFunction, AnError, Done
  <1>2. class \in Following /\ 1 \in Channels
    BY <1>1, RegisterAssumption, OneOrTwo DEF Types, Channels
  <1>3. CASE CallAll
    BY <1>2, <1>3, CallSyncs DEF CallAll
  <1>4. ASSUME NEW c \in Channels, CallOne(c) PROVE SyncInv'
    BY <1>2, <1>4, CallSyncs DEF CallOne
  <1>5. ASSUME NEW c \in Channels, StepOf(c) PROVE SyncInv'
    <2>1. ASSUME NEW do \in {"switch", "turn"}, RawSwitch(do, c) PROVE SyncInv'
      BY <1>2, <2>1, FollowingStep DEF RawSwitch
    <2>2. ASSUME NEW do \in {"save", "saveRead"}, Saves(do, c) PROVE SyncInv'
      BY <1>2, <2>2, OtherSyncs DEF Saves
    <2>3. ASSUME NEW do \in {"compare", "same"}, Compares(do, c) PROVE SyncInv'
      <3>1. UNCHANGED <<class, reg, code, call, data, clean>> /\ Now(do) /\ (failed => failed')
        BY <2>3 DEF Compares
      <3>2. \/ todo' = Rest /\ rc' = rc
            \/ todo' = <<>> /\ rc' # {}
        BY <2>3 DEF Compares
      <3>3. QED
        BY <1>2, <3>1, <3>2, OtherSyncs
    <2>4. ASSUME NEW do \in {"check", "must", "mustBe"}, Judges(do, c) PROVE SyncInv'
      <3>1. UNCHANGED <<class, reg, code, call, data, rc, failed, clean>> /\ Now(do)
            /\ (do = "check" => todo' = Rest)
        BY <2>4 DEF Judges
      <3>2. do = "check"
        BY <1>2, <3>1, FollowingStep
      <3>3. QED
        BY <1>2, <3>1, <3>2, OtherSyncs
    <2>5. QED
      BY <1>2, <1>5, <2>1, <2>2, <2>3, <2>4, SetterSyncs, RefreshSyncs, GetterSyncs, NoteSyncs
         DEF StepOf
  <1>6. ASSUME NEW do \in {"lam", "checkLam", "noLam"}, LamFunction(do) PROVE SyncInv'
    <2>1. UNCHANGED <<class, reg, code, call, data, clean>> /\ Now(do) /\ todo' = Rest
          /\ rc \subseteq rc' /\ (failed => failed')
      BY <1>6 DEF LamFunction
    <2>2. rc' = {} => rc = {}
      BY <2>1
    <2>3. QED
      BY <1>2, <2>1, <2>2, OtherSyncs
  <1>7. CASE AnError
    <2>1. UNCHANGED <<class, reg, code, call, data, rc, failed, clean>> /\ Now("gate")
          /\ (todo' = Rest \/ (todo' = <<>> /\ IsError(rc)))
      BY <1>7 DEF AnError
    <2>2. IsError(rc) => rc # {}
      BY DEF IsError
    <2>3. QED
      BY <1>2, <2>1, <2>2, OtherSyncs
  <1>8. CASE Done
    <2>1. /\ op' = "none" /\ todo = <<>> /\ op # "none" /\ todo' = <<>>
          /\ UNCHANGED <<class, reg, code>> /\ Channels' = Channels
          /\ clean' = (~failed /\ IF WritesAll THEN rc = {} ELSE clean)
      BY <1>8 DEF Done, Returned, Channels
    <2>2. After(todo, Sure(class, op), {"forget", "assume", "assumeLength"})'
      BY <2>1 DEF After
    <2>3. clean' => \A c \in Channels : Agreed(c) \/ Has(todo, Sure(class, op), c)
      BY <1>2, <2>1 DEF SyncInv
    <2>4. clean' => \A c \in Channels : Agreed(c)'
      BY <2>1, <2>3 DEF Has, Agreed
    <2>5. QED
      BY <2>1, <2>2, <2>4 DEF SyncInv
  <1>9. CASE UNCHANGED vars
    BY <1>9 DEF SyncInv, After, Covered, Has, Agreed, Sure, WritesAll, Channels
  <1>10. QED
    BY <1>3, <1>4, <1>5, <1>6, <1>7, <1>8, <1>9 DEF Next

(* From the Init with words on, and as long as its calls answer CC_OK or   *)
(* refuse their arguments, a driver's shadow is its device's register.     *)
THEOREM DriversStayInSync == Spec => []StaysInSync
  <1>1. Init => SyncInv
    BY DEF Init, SyncInv, After
  <1>2. Types /\ SyncInv => StaysInSync
    BY DEF SyncInv, StaysInSync, InSync, Shown, Agreed, Following
  <1>3. QED
    BY <1>1, <1>2, StartTypes, StepTypes, StepSyncs, PTL DEF Spec
=============================================================================
