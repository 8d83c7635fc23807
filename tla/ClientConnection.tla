---------------------------- MODULE ClientConnection ---------------------------
(***************************************************************************)
(* ClientConnection: the object that serves one accepted socket, as a      *)
(* record and the operations of Connections/ClientConnection.{h,cpp} on    *)
(* it. The socket calls themselves are the steps of module Proxy.          *)
(***************************************************************************)
EXTENDS Messages, PollTable

CONSTANT NoBuf  (* a sendAnswerBuf that points to nothing *)

ClientConnectionStates ==
  {"CONNECTION_ERROR", "WRONG_REQUEST", "WAITING_FOR_REQUEST", "RECEIVING_REQUEST",
   "PROCESSING_REQUEST", "WAITING_FOR_RESPONSE", "RECEIVING_ANSWER", "ANSWER_RECEIVED"}

ClientRecords ==
  [connectionState  : ClientConnectionStates,
   inPollListIdx    : Slots,
   request          : Requests \union {NoRequest},
   received         : 0..(ReqLen + 1),
   sendAnswerBuf    : Answers \union {NoBuf},
   sendAnswerOffset : 0..RespLen]

(* The constructor. It leaves sendAnswerBuf empty and sendAnswerOffset        *)
(* unset; the offset is not read before initializeAnswerSending() sets both. *)
NewClient(idx) ==
  [connectionState  |-> "WAITING_FOR_REQUEST",
   inPollListIdx    |-> idx,
   request          |-> NoRequest,
   received         |-> 0,
   sendAnswerBuf    |-> NoBuf,
   sendAnswerOffset |-> 0]

(* An object nobody points to. *)
NoClient == NewClient(0)

(* receiveRequest() after recv() returned n pieces and recvBuf does not end in  *)
(* an empty line: the request is not complete, or something follows it.         *)
PartOfRequest(client, n) ==
  [client EXCEPT !.connectionState = "RECEIVING_REQUEST", !.received = @ + n]

(* receiveRequest() after recv() returned what was missing of the request:      *)
(* recvBuf ends in an empty line, and parseRequestAndCheckValidity() has judged *)
(* it.                                                                          *)
WholeRequest(client, request) ==
  [client EXCEPT
     !.connectionState = IF request.verdict = "WITHOUT_ERRORS"
                         THEN "PROCESSING_REQUEST" ELSE "WRONG_REQUEST",
     !.received        = ReqLen,
     !.request         = request]

(* Mutant: the new state is not set. *)
InitializeWithoutState(client, answer) ==
  [client EXCEPT !.sendAnswerBuf = answer, !.sendAnswerOffset = 0]

(* initializeAnswerSending(), and the state initializeResponseTransmitting() *)
(* sets after it, for each of the three sources an answer comes from.        *)
InitializeAnswerSending(client, answer) ==
  [client EXCEPT !.connectionState  = "RECEIVING_ANSWER",
                 !.sendAnswerBuf    = answer,
                 !.sendAnswerOffset = 0]

(* What sendAnswer() asks send() to take. *)
LeftToSend(client) == client.sendAnswerBuf.len - client.sendAnswerOffset

(* sendAnswer() after send() took n pieces and some are left. *)
AnswerPartSent(client, n) == [client EXCEPT !.sendAnswerOffset = @ + n]

================================================================================
