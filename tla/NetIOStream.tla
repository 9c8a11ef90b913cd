---------------------------- MODULE NetIOStream -----------------------------
(***************************************************************************)
(* The connection of NetIO below whole messages: a server that listens, a  *)
(* client that connects, and a stream of bytes into which the client sends *)
(* vectors.  The kernel takes and gives as many bytes at a time as it      *)
(* likes.  A call interrupted by a signal is made again, which changes     *)
(* nothing and is not a step.                                              *)
(***************************************************************************)
EXTENDS Bytes

CONSTANTS Width,       \* bytes of a length, 8 in the code
          Capacity,    \* bytes the kernel holds
          Faults       \* "bind", the port is taken; "network"

ASSUME NetIOStreamAssumption ==
    /\ Width \in Nat \ {0}
    /\ Capacity \in Nat \ {0}
    /\ Faults \subseteq {"bind", "network"}

VARIABLES vectors,     \* what the client is to send
          server,      \* where the server is, the receiver
          client,      \* where the client is, the sender
          link,        \* the connection
          unsent,      \* the vectors not yet given to SendVec
          out,         \* the bytes it has still to send
          wire,        \* the bytes in the kernel
          want,        \* what RecvVec is receiving, the size or the data, and
          need,        \* how many bytes of it
          got,         \* those that have come
          received     \* the vectors received

streamVars == <<vectors, server, client, link, unsent, out, wire, want, need, got, received>>

\* "retry" is the loop of the client's constructor.
ServerPoints == {"start", "accept", "recv", "done", "threw"}
ClientPoints == {"retry", "send", "done", "threw"}
Links        == {"none", "up", "closed", "lost"}

StreamInit(vs) ==
    /\ vectors = vs
    /\ server = "start"
    /\ client = "retry"
    /\ link = "none"
    /\ unsent = vs
    /\ out = << >>
    /\ wire = << >>
    /\ want = "size"
    /\ need = Width
    /\ got = << >>
    /\ received = << >>

-----------------------------------------------------------------------------
\* The server's constructor: bind and listen, or throw.
Listen ==
    /\ server = "start"
    /\ server' \in {"accept"} \cup (IF "bind" \in Faults THEN {"threw"} ELSE {})
    /\ UNCHANGED <<vectors, client, link, unsent, out, wire, want, need, got, received>>

\* Mutant: the client gives up when nobody listens.
ConnectOnce ==
    /\ client = "retry"
    /\ IF server = "accept" THEN client' = "send" /\ link' = "up" ELSE client' = "threw" /\ UNCHANGED link
    /\ UNCHANGED <<vectors, server, unsent, out, wire, want, need, got, received>>

\* The client's: it tries until somebody listens.
Connect ==
    /\ client = "retry"
    /\ server = "accept" /\ link = "none"
    /\ client' = "send"
    /\ link' = "up"
    /\ UNCHANGED <<vectors, server, unsent, out, wire, want, need, got, received>>

\* accept is not checked: when it fails the descriptor is -1 and every later call
\* on it fails.
Accept ==
    /\ server = "accept"
    /\ link # "none"
    /\ server' = "recv"
    /\ link' \in {link} \cup (IF "network" \in Faults THEN {"lost"} ELSE {})
    /\ UNCHANGED <<vectors, client, unsent, out, wire, want, need, got, received>>

-----------------------------------------------------------------------------
\* SendVec: the size, then the data if there is any.
SendVec ==
    /\ client = "send"
    /\ out = << >> /\ unsent # << >>
    /\ out' = SizeBytes(Len(Head(unsent)), Width) \o Head(unsent)
    /\ unsent' = Tail(unsent)
    /\ UNCHANGED <<vectors, server, client, link, wire, want, need, got, received>>

\* One turn of the loop of SendDataInternal: the kernel takes some bytes, or, when
\* the connection is lost, takes them for nothing or refuses.
SendSome ==
    /\ client = "send"
    /\ out # << >>
    /\ \/ /\ link = "up"
          /\ \E k \in 1 .. Len(out) :
                /\ Len(wire) + k <= Capacity
                /\ wire' = wire \o SubSeq(out, 1, k)
                /\ out' = SubSeq(out, k + 1, Len(out))
          /\ UNCHANGED client
       \/ /\ link # "up"
          /\ \/ \E k \in 1 .. Len(out) : out' = SubSeq(out, k + 1, Len(out)) /\ UNCHANGED client
             \/ client' = "threw" /\ UNCHANGED out
          /\ UNCHANGED wire
    /\ UNCHANGED <<vectors, server, link, unsent, want, need, got, received>>

\* The client is destroyed; what the kernel has is still delivered.
CloseClient ==
    /\ client = "send"
    /\ out = << >> /\ unsent = << >>
    /\ client' = "done"
    /\ link' = IF link = "up" THEN "closed" ELSE link
    /\ UNCHANGED <<vectors, server, unsent, out, wire, want, need, got, received>>

-----------------------------------------------------------------------------
\* One turn of the loop of RecvDataInternal.
RecvSome ==
    /\ server = "recv"
    /\ Len(got) < need
    /\ \E k \in 1 .. Len(wire) :
          /\ Len(got) + k <= need
          /\ got' = got \o SubSeq(wire, 1, k)
          /\ wire' = SubSeq(wire, k + 1, Len(wire))
    /\ UNCHANGED <<vectors, server, client, link, unsent, out, want, need, received>>

\* Mutant: whatever the first call of recv brings is enough.
SomethingCame == got # << >> \/ need = 0

RecvDataReturns == Len(got) = need

\* RecvVec goes from the size to the data, and from the data to its end.  The
\* server calls it once for each vector.
RecvVec ==
    /\ server = "recv"
    /\ RecvDataReturns
    /\ got' = << >>
    /\ IF want = "size"
       THEN /\ want' = "data"
            /\ need' = LittleEndian(got)
            /\ UNCHANGED <<server, received>>
       ELSE /\ want' = "size"
            /\ need' = Width
            /\ received' = Append(received, got)
            /\ server' = IF Len(received') = Len(vectors) THEN "done" ELSE "recv"
    /\ UNCHANGED <<vectors, client, link, unsent, out, wire>>

\* recv reports the end of the stream, or the loss of the connection.
RecvThrows ==
    /\ server = "recv"
    /\ Len(got) < need
    /\ (link = "closed" /\ wire = << >>) \/ link = "lost"
    /\ server' = "threw"
    /\ UNCHANGED <<vectors, client, link, unsent, out, wire, want, need, got, received>>

-----------------------------------------------------------------------------
\* Bytes not yet delivered may be lost with the connection.
LinkLost ==
    /\ "network" \in Faults
    /\ link \in {"up", "closed"}
    /\ link' = "lost"
    /\ \E k \in 0 .. Len(wire) : wire' = SubSeq(wire, 1, k)
    /\ UNCHANGED <<vectors, server, client, unsent, out, want, need, got, received>>

ClientStep == Connect \/ SendVec \/ SendSome \/ CloseClient
ServerStep == Listen \/ Accept \/ RecvSome \/ RecvVec \/ RecvThrows

StreamNext == ClientStep \/ ServerStep \/ LinkLost

StreamFairness == WF_streamVars(ClientStep) /\ WF_streamVars(ServerStep)

-----------------------------------------------------------------------------
\* However the kernel cuts the stream, and wherever the connection breaks, what
\* RecvVec has returned is a whole vector, the next of those sent.
Whole == INSTANCE Transfer WITH pending <- SubSeq(vectors, Len(received) + 1, Len(vectors)),
                                broken <- (server = "threw")
VectorsArriveWhole == Whole!TransferSpec

\* Unless the port is taken or the connection lost, the client finds the server,
\* however late that starts to listen, and every vector arrives.
EverythingArrives ==
    [](link # "lost" /\ (server = "threw" => link # "none")) => <>(received = vectors)
=============================================================================
