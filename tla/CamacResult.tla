---------------------------- MODULE CamacResult ----------------------------
(***************************************************************************)
(* The result word every CAMAC operation returns (enum ResultBits of       *)
(* include/CamacServer.h).  A Result is an int whose bits are conditions;  *)
(* here it is the set of the conditions whose bit is up, so CC_OK is {}    *)
(* and -1, which has every bit up, is All.                                 *)
(***************************************************************************)
EXTENDS Integers

SoftErrors == {"SYSCALL_ERROR", "INVALID_ARG", "NOTBINDED", "NOTINITED"}

HardErrors == {"IFACE_TIMEOUT", "DATA_XFER_ERROR", "VERIFICATION_ERROR",
               "INTERMEDIATE_ERROR", "TEST_FAILED"}

StationAnswer == {"NOT_X", "NOT_Q"}

UserErrors == {"USER_ERROR0", "USER_ERROR1", "USER_ERROR2", "USER_ERROR3"}

(* CC_ERRORS: a NOT_Q answer is an error to whoever tests against it.      *)
Errors == SoftErrors \cup HardErrors \cup StationAnswer \cup UserErrors

All == Errors \cup {"BOOL"}

Result == SUBSET All

IsError(rv) == rv \cap Errors # {}

(* Bit i of a two's complement integer.                                    *)
Bit(n, i) == (n \div (2^i)) % 2 = 1

Shift == [BOOL |-> 0,
          SYSCALL_ERROR |-> 1, INVALID_ARG |-> 2, NOTBINDED |-> 3, NOTINITED |-> 4,
          IFACE_TIMEOUT |-> 5, DATA_XFER_ERROR |-> 6, VERIFICATION_ERROR |-> 7,
          INTERMEDIATE_ERROR |-> 8, TEST_FAILED |-> 9,
          NOT_X |-> 10, NOT_Q |-> 11,
          USER_ERROR0 |-> 12, USER_ERROR1 |-> 13, USER_ERROR2 |-> 14,
          USER_ERROR3 |-> 15]

FromInt(n) == {r \in All : Bit(n, Shift[r])}

(* What CAM and its siblings of the lsi6 library answer: bit 2 is no reply *)
(* from the interface, bit 1 no X, bit 0 no Q, and -1 a failed call.       *)
Xq == -1..7

TxqToResultBits(xq) ==
    {r \in {"IFACE_TIMEOUT", "NOT_X", "NOT_Q", "DATA_XFER_ERROR"} :
        \/ r = "IFACE_TIMEOUT" /\ Bit(xq, 2)
        \/ r = "NOT_X" /\ Bit(xq, 1)
        \/ r = "NOT_Q" /\ Bit(xq, 0)
        \/ r = "DATA_XFER_ERROR" /\ xq < 0}
=============================================================================
