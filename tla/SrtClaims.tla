----------------------------- MODULE SrtClaims -----------------------------
(***************************************************************************)
(* What the documentation of the client and the server says of them and    *)
(* the code does not do, beside CallsReturn and RecvReturns of SrtLiveness *)
(* for constants under which those fail.                                   *)
(***************************************************************************)
EXTENDS SrtLiveness

(* srt_client.h:133: "If the call is successful the data is queued on the   *)
(* TCB send linked list"; srt_client_send has no other result than 1 once   *)
(* it has begun to queue.                                                   *)
SendQueuesAll == appPc = "idle" => queued = offered

(* Readme:3 promises "retransmission of lost packets": what is sent in a    *)
(* connection, be it not the first one, reaches the reader as long as both  *)
(* ends take themselves to be connected.                                    *)
DeliveredAgain ==
  \A b \in 1 .. MaxBytes :
    (connStart < b /\ b <= queued /\ cState = "CONNECTED" /\ sState = "CONNECTED")
      ~> (IsRead(b) \/ cState # "CONNECTED" \/ sState # "CONNECTED")
=============================================================================
