-------------------------------- MODULE NetIO -------------------------------
(***************************************************************************)
(* The TCP connection between one client and one server, as the ORAM code  *)
(* uses it: each side sends a whole message and then waits.  A message     *)
(* already delivered can be received after the connection is gone; a       *)
(* message sent into a dead connection may be accepted by the kernel and   *)
(* is then lost, or the send throws.                                       *)
(***************************************************************************)
VARIABLES conn,    \* "up" until either end closes or the network fails
          req,     \* bytes on their way to the server, one request at most
          resp     \* bytes on their way to the client, one reply at most

NoMsg == [cmd |-> "none"]

\* SendDataInternal when it does not throw.
SendRequest(m) == req' = IF conn = "up" THEN m ELSE req
SendReply(m)   == resp' = IF conn = "up" THEN m ELSE resp

\* SendDataInternal and RecvDataInternal throw only when the peer is gone.
MayThrow == conn = "down"

\* A fault of the network, or the end of either process.
ConnectionLost ==
    /\ conn = "up"
    /\ conn' = "down"
    /\ UNCHANGED <<req, resp>>
=============================================================================
