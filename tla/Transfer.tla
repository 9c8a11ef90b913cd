------------------------------ MODULE Transfer ------------------------------
(***************************************************************************)
(* What SendVec and RecvVec promise together: vectors arrive whole, in the *)
(* order they were sent and once, until the receiver throws.               *)
(***************************************************************************)
EXTENDS Sequences

VARIABLES pending,     \* vectors to be received
          received,    \* vectors received
          broken       \* the receiver has thrown

transferVars == <<pending, received, broken>>

TransferInit == received = << >> /\ broken = FALSE

Deliver ==
    /\ ~ broken
    /\ pending # << >>
    /\ received' = Append(received, Head(pending))
    /\ pending' = Tail(pending)
    /\ UNCHANGED broken

Break ==
    /\ broken' = TRUE
    /\ UNCHANGED <<pending, received>>

TransferNext == Deliver \/ Break

TransferSpec == TransferInit /\ [][TransferNext]_transferVars
=============================================================================
