--------------------------------- MODULE RAM --------------------------------
(***************************************************************************)
(* What the interface core::RAM promises its caller: calls take effect one *)
(* at a time, a read gives the value of the last write, and a call either  *)
(* returns or throws.  After a call has thrown nothing is promised but     *)
(* that no later call pretends to have worked.                             *)
(***************************************************************************)
CONSTANTS Addr, Data, Calls, NoCall, NoResult

VARIABLES mem,       \* the contents, by address
          call,      \* the call in progress
          result,    \* what it will return, once it has taken effect
          failed     \* some call has thrown

ramVars == <<mem, call, result, failed>>

RAMInit ==
    /\ mem \in [Addr -> Data]
    /\ call = NoCall
    /\ result = NoResult
    /\ failed = FALSE

RAMInvoke(c) ==
    /\ call = NoCall
    /\ call' = c
    /\ UNCHANGED <<mem, result, failed>>

RAMPerform ==
    /\ call # NoCall
    /\ result = NoResult
    /\ ~ failed
    /\ \/ call.op = "READ" /\ result' = mem[call.addr] /\ UNCHANGED mem
       \/ call.op = "WRITE" /\ result' = call.data /\ mem' = [mem EXCEPT ![call.addr] = call.data]
    /\ UNCHANGED <<call, failed>>

RAMReturn ==
    /\ result # NoResult
    /\ call' = NoCall
    /\ result' = NoResult
    /\ UNCHANGED <<mem, failed>>

RAMThrow ==
    /\ call # NoCall
    /\ call' = NoCall
    /\ result' = NoResult
    /\ failed' = TRUE
    /\ UNCHANGED mem

RAMNext == (\E c \in Calls : RAMInvoke(c)) \/ RAMPerform \/ RAMReturn \/ RAMThrow

RAMSpec == RAMInit /\ [][RAMNext]_ramVars
=============================================================================
