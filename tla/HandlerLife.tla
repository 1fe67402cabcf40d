---------------------------- MODULE HandlerLife ----------------------------
(***************************************************************************)
(* What a LAMHandler promises to the code that owns it: callbacks come one *)
(* at a time and only between construction and destruction, and once the   *)
(* destructor has begun there is at most one more, over before it returns. *)
(***************************************************************************)
CONSTANT Handlers

VARIABLES phase,    \* "absent", "active" or, in the destructor, "closing"
          calling,  \* the handlers in a callback
          spent     \* closing handlers that had the callback they may begin

vars == <<phase, calling, spent>>

Init == /\ phase = [h \in Handlers |-> "absent"]
        /\ calling = {}
        /\ spent = {}

Open(h) == /\ phase[h] = "absent"
           /\ phase' = [phase EXCEPT ![h] = "active"]
           /\ spent' = spent \ {h}
           /\ UNCHANGED calling

Begin(h) == /\ h \notin calling
            /\ \/ phase[h] = "active" /\ UNCHANGED spent
               \/ /\ phase[h] = "closing" /\ h \notin spent
                  /\ spent' = spent \cup {h}
            /\ calling' = calling \cup {h}
            /\ UNCHANGED phase

End(h) == /\ h \in calling
          /\ calling' = calling \ {h}
          /\ UNCHANGED <<phase, spent>>

Close(h) == /\ phase[h] = "active"
            /\ phase' = [phase EXCEPT ![h] = "closing"]
            /\ UNCHANGED <<calling, spent>>

Gone(h) == /\ phase[h] = "closing" /\ h \notin calling
           /\ phase' = [phase EXCEPT ![h] = "absent"]
           /\ UNCHANGED <<calling, spent>>

Next == \E h \in Handlers : Open(h) \/ Begin(h) \/ End(h) \/ Close(h) \/ Gone(h)

Spec == Init /\ [][Next]_vars
=============================================================================
