---------------------------- MODULE ServerConnection ---------------------------
(***************************************************************************)
(* ServerConnection: the object that fetches one answer from an origin, as *)
(* a record and the operations of Connections/ServerConnection.{h,cpp} on  *)
(* it. The socket calls themselves are the steps of module Proxy.          *)
(***************************************************************************)
EXTENDS Messages, PollTable

ServerConnectionStates ==
  {"SENDING_REQUEST", "RECEIVING_ANSWER",
   "CACHING_ANSWER_RECEIVED", "NOT_CACHING_ANSWER_RECEIVED"}

(* request is processedRequestForServer, and its key requestUrl; recvLen is  *)
(* the length of recvBuf, a prefix of what the origin answers.               *)
ServerRecords ==
  [connectionState   : ServerConnectionStates,
   inPollListIdx     : Slots,
   request           : Requests \union {NoRequest},
   sendRequestOffset : 0..ReqLen,
   recvLen           : 0..RespLen]

NewServer(idx, request) ==
  [connectionState   |-> "SENDING_REQUEST",
   inPollListIdx     |-> idx,
   request           |-> request,
   sendRequestOffset |-> 0,
   recvLen           |-> 0]

(* An object nobody points to. *)
NoServer == NewServer(0, NoRequest)

(* Mutant: the terminating NUL is counted as sent. *)
RequestSentWithNul(server, n) ==
  [server EXCEPT
     !.sendRequestOffset = @ + n + 1,
     !.connectionState   = IF server.sendRequestOffset + n = ReqLen
                           THEN "RECEIVING_ANSWER" ELSE "SENDING_REQUEST"]

(* Mutant: what one send() took is compared with the length, not the offset. *)
RequestSentAtOnce(server, n) ==
  [server EXCEPT
     !.sendRequestOffset = @ + n,
     !.connectionState   = IF n = ReqLen THEN "RECEIVING_ANSWER" ELSE "SENDING_REQUEST"]

(* sendRequest() after send() took n pieces. *)
RequestSent(server, n) ==
  [server EXCEPT
     !.sendRequestOffset = @ + n,
     !.connectionState   = IF server.sendRequestOffset + n = ReqLen
                           THEN "RECEIVING_ANSWER" ELSE "SENDING_REQUEST"]

(* receiveAnswer() after recv() returned n pieces. *)
AnswerReceived(server, n) ==
  [server EXCEPT !.connectionState = "RECEIVING_ANSWER", !.recvLen = @ + n]

IsResponseStatusIs200(answer) ==
  ParseResult(answer) = "ParsingCompleted" /\ answer.status = 200

(* The state receiveAnswer() sets when recv() returned 0. *)
EndOfStreamState(answer) ==
  IF IsResponseStatusIs200(answer)
  THEN "CACHING_ANSWER_RECEIVED" ELSE "NOT_CACHING_ANSWER_RECEIVED"

================================================================================
