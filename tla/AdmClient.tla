------------------------------ MODULE AdmClient ------------------------------
(***************************************************************************)
(* qdcadm/: the program qdcadm, that is main and ExecuteCommand            *)
(* (qdcadm.cpp) on the session CAdmClient, the packets of CMsgRW           *)
(* (CAdmMsg.cpp) and the socket functions of SimpleSocketFunc.cpp.         *)
(*                                                                         *)
(* main runs a command of the admin server nLoop times.  Each attempt has  *)
(* a connection of its own: connect, log in, send the command, read the    *)
(* answer.  The server and TCP are external: an answer is a header and a   *)
(* body, which may be late, be cut off or never come, and a server may go  *)
(* on with a request after the client has given up on it.                  *)
(***************************************************************************)
EXTENDS Integers, Sequences

CONSTANTS
  Commands,     \* the commands the user may give
  MaxLoops,     \* bound: the loop times of get_perf
  MaxFaults     \* bound: failures of the server and the network

ASSUME AdmAssumption == MaxLoops \in Nat \ {0} /\ MaxFaults \in Nat

Attempts == 1..MaxLoops

\* The server, for the connection of each attempt.
VARIABLES
  up,           \* is the connection open at the server's end
  req,          \* the requests that are on their way
  resp,         \* the halves of the answers that are on their way
  session,      \* has it accepted the password
  executed      \* how often it has executed the command

\* The client.
VARIABLES
  pc,           \* where the program is
  attempt,      \* the attempt main is at, i + 1
  armed,        \* does the socket have a time-out
  len,          \* the length ReadPacket has decoded
  sent,         \* per attempt, the packets sent
  outcome       \* per attempt, what the user was shown

\* The arguments of the program, and the bound.
VARIABLES command, interval, loops, nLoop, faults

serverVars == <<up, req, resp, session, executed>>
socketVars == <<armed, len>>
argVars == <<command, interval, loops, nLoop>>
vars == <<serverVars, pc, attempt, socketVars, sent, outcome, argVars, faults>>

-----------------------------------------------------------------------------
Fault == faults < MaxFaults /\ faults' = faults + 1

\* What an answer says: the rc of a MsgResult, a MsgMetrics, or more bytes than
\* MAX_ADM_PKG.
Answers == {"OK", "error", "metrics", "huge"}
Packet(kind) == <<<<"header", kind>>, <<"body", kind>>>>

Init ==
  /\ up = [k \in Attempts |-> FALSE]
  /\ req = [k \in Attempts |-> <<>>] /\ resp = [k \in Attempts |-> <<>>]
  /\ session = [k \in Attempts |-> FALSE] /\ executed = [k \in Attempts |-> 0]
  /\ pc = "main" /\ attempt = 1 /\ armed = FALSE /\ len = "some"
  /\ sent = [k \in Attempts |-> <<>>] /\ outcome = [k \in Attempts |-> "none"]
  /\ command \in Commands /\ interval \in {"missing", "1~300", "other"}
  /\ loops \in 0..MaxLoops /\ nLoop = 1
  /\ faults = 0

-----------------------------------------------------------------------------
(* The admin server *)

Answer(k, kind) == resp' = [resp EXCEPT ![k] = @ \o Packet(kind)]

Serve(k, request) ==
  /\ up[k] /\ req[k] # <<>> /\ Head(req[k]) = request
  /\ req' = [req EXCEPT ![k] = Tail(@)]
  /\ UNCHANGED <<up, pc, attempt, socketVars, sent, outcome, argVars, faults>>

\* The password is right, or it is not.
ServeLogin(k) ==
  /\ Serve(k, "login")
  /\ \/ session' = [session EXCEPT ![k] = TRUE] /\ Answer(k, "OK")
     \/ UNCHANGED session /\ Answer(k, "error")
  /\ UNCHANGED executed

\* A command is executed and answered, or refused.
ServeCommand(k) ==
  /\ Serve(k, "command")
  /\ \/ /\ session[k]
        /\ executed' = [executed EXCEPT ![k] = @ + 1]
        /\ \E kind \in {"OK", "huge",
                        IF command = "get_metrics" THEN "metrics" ELSE "OK"} :
             Answer(k, kind)
     \/ UNCHANGED executed /\ Answer(k, "error")
  /\ UNCHANGED session

\* The server closes the connection, perhaps in the middle of an answer.
ServerCloses(k) ==
  /\ up[k] /\ Fault
  /\ up' = [up EXCEPT ![k] = FALSE]
  /\ \E n \in 0..Len(resp[k]) : resp' = [resp EXCEPT ![k] = SubSeq(@, 1, n)]
  /\ UNCHANGED <<req, session, executed, pc, attempt, socketVars, sent, outcome, argVars>>

-----------------------------------------------------------------------------
(* main *)

\* Lines 174-206: get_perf needs an interval within 1~300 and may be repeated.
ParseArgs ==
  /\ pc = "main"
  /\ IF command # "get_perf" THEN pc' = "connect" /\ UNCHANGED nLoop
     ELSE IF interval = "1~300"
     THEN pc' = "connect" /\ nLoop' = IF loops > 0 THEN loops ELSE 1
     ELSE pc' = "exited" /\ UNCHANGED nLoop
  /\ UNCHANGED <<serverVars, attempt, socketVars, sent, outcome,
                 command, interval, loops, faults>>

\* Variant: the loop runs once too often.
FinishOneMore(what) ==
  /\ outcome' = [outcome EXCEPT ![attempt] = what]
  /\ attempt' = attempt + 1
  /\ pc' = IF attempt <= nLoop THEN "connect" ELSE "exited"

\* ExecuteCommand returns, whatever it returns, and ~CAdmClient closes the
\* socket: the next attempt, or the end of the program.
Finish(what) ==
  /\ outcome' = [outcome EXCEPT ![attempt] = what]
  /\ attempt' = IF attempt < nLoop THEN attempt + 1 ELSE attempt
  /\ pc' = IF attempt < nLoop THEN "connect" ELSE "exited"

GoTo(next) == pc' = next /\ UNCHANGED <<attempt, outcome>>

-----------------------------------------------------------------------------
(* ExecuteCommand *)

\* Variant: the constructor sets no time-out, nor does SetTimeout.
ConnectNoTimeout ==
  /\ pc = "connect"
  /\ \/ /\ up' = [up EXCEPT ![attempt] = TRUE] /\ armed' = FALSE
        /\ GoTo("login") /\ UNCHANGED faults
     \/ /\ Fault /\ Finish("failed") /\ UNCHANGED <<up, armed>>
  /\ UNCHANGED <<req, resp, session, executed, len, sent, argVars>>

\* The constructor of CAdmClient connects and sets 5 s, SetTimeout then 5 or
\* 300 s; or there is no connection.
Connect ==
  /\ pc = "connect"
  /\ \/ /\ up' = [up EXCEPT ![attempt] = TRUE] /\ armed' = TRUE
        /\ GoTo("login") /\ UNCHANGED faults
     \/ /\ Fault /\ Finish("failed") /\ UNCHANGED <<up, armed>>
  /\ UNCHANGED <<req, resp, session, executed, len, sent, argVars>>

\* SendPacket: header and body.  What is sent after the server has closed is
\* lost; from the second send on it may also fail or, by SIGPIPE, end the
\* program.  A send may time out.
SendPacket(at, request, next) ==
  /\ pc = at
  /\ \/ /\ up[attempt]
        /\ req' = [req EXCEPT ![attempt] = Append(@, request)]
        /\ sent' = [sent EXCEPT ![attempt] = Append(@, request)]
        /\ GoTo(next) /\ UNCHANGED faults
     \/ /\ ~up[attempt]
        /\ \/ GoTo(next) \/ GoTo("killed") \/ Finish("failed")
        /\ UNCHANGED <<req, sent, faults>>
     \/ /\ Fault /\ Finish("failed") /\ UNCHANGED <<req, sent>>
  /\ UNCHANGED <<up, resp, session, executed, socketVars, argVars>>

\* Variant: the answer to the login is not read.
LoginNoReply == SendPacket("login", "login", "send")

\* Login and ExecCmdResult: the password.
Login == SendPacket("login", "login", "loginHeader")

\* SendCommand, once logged in.
SendCommand == SendPacket("send", "command", "replyHeader")

\* recv has failed by its time-out.  The answer may still be on its way.
TimedOut(at) ==
  /\ pc = at /\ armed
  /\ Finish("failed")
  /\ UNCHANGED <<serverVars, socketVars, sent, argVars, faults>>

\* Variant: a time-out is reported, and the answer still waited for and shown.
ReplyTimedOutReadsOn ==
  /\ pc = "replyHeader" /\ armed
  /\ outcome' = [outcome EXCEPT ![attempt] = "failed"]
  /\ UNCHANGED <<serverVars, pc, attempt, socketVars, sent, argVars, faults>>

ReplyTimedOut == TimedOut("replyHeader") \/ TimedOut("replyBody")
LoginTimedOut == TimedOut("loginHeader") \/ TimedOut("loginBody")

EndOfStream == ~up[attempt] /\ resp[attempt] = <<>>

\* ReadPacket, lines 53-72: SocketRead returns 0 at the end of the stream, which
\* is not below 0, and the header it did not fill is used: any length.
ReadHeader(at, next) ==
  /\ pc = at
  /\ \/ /\ resp[attempt] # <<>>
        /\ resp' = [resp EXCEPT ![attempt] = Tail(@)]
        /\ len' = IF Head(resp[attempt])[2] = "huge" THEN "invalid" ELSE "some"
     \/ EndOfStream /\ len' \in {"invalid", "zero", "some"} /\ UNCHANGED resp
  /\ GoTo(next)
  /\ UNCHANGED <<up, req, session, executed, armed, sent, argVars, faults>>

LoginHeader == ReadHeader("loginHeader", "loginBody")
ReplyHeader == ReadHeader("replyHeader", "replyBody")

\* ReadPacket, lines 57-64 and 74-79: no packet, for which every caller gives up.
\* A length of zero needs no bytes and gives 0.
NoPacket(at) ==
  /\ pc = at /\ (len # "some" \/ EndOfStream)
  /\ Finish("failed")
  /\ UNCHANGED <<serverVars, socketVars, sent, argVars, faults>>

LoginNoPacket == NoPacket("loginBody")
ReplyNoPacket == NoPacket("replyBody")

\* The body of an answer, of the given kind.
ReadBody(at, kind) ==
  /\ pc = at /\ len = "some"
  /\ resp[attempt] # <<>> /\ Head(resp[attempt])[2] = kind
  /\ resp' = [resp EXCEPT ![attempt] = Tail(@)]
  /\ UNCHANGED <<up, req, session, executed, socketVars, sent, argVars, faults>>

\* Variant: the rc of the answer is not looked at.
LoginBodyIgnoresRc == \E kind \in Answers : ReadBody("loginBody", kind) /\ GoTo("send")

\* Login: on to the command if the password is accepted.
LoginBody ==
  \E kind \in Answers :
    /\ ReadBody("loginBody", kind)
    /\ IF kind = "OK" THEN GoTo("send") ELSE Finish("failed")

\* ExecuteCommand, from line 93: the answer is shown, as what it is; AdmPackets
\* has the parsing.
ReplyBody ==
  \E kind \in Answers : ReadBody("replyBody", kind) /\ Finish(kind)

-----------------------------------------------------------------------------
Server ==
  \E k \in Attempts : ServeLogin(k) \/ ServeCommand(k) \/ ServerCloses(k)

Program ==
  \/ ParseArgs \/ Connect \/ Login \/ SendCommand
  \/ LoginTimedOut \/ LoginHeader \/ LoginNoPacket \/ LoginBody
  \/ ReplyTimedOut \/ ReplyHeader \/ ReplyNoPacket \/ ReplyBody

Next == Server \/ Program

Spec == Init /\ [][Next]_vars

\* The program runs; the server need not do anything.
FairSpec == Spec /\ WF_vars(Program)

-----------------------------------------------------------------------------
(* Properties *)

\* The variables keep their types, and main is at one of its attempts.
TypeOK ==
  /\ up \in [Attempts -> BOOLEAN]
  /\ req \in [Attempts -> Seq({"login", "command"})]
  /\ resp \in [Attempts -> Seq({"header", "body"} \X Answers)]
  /\ session \in [Attempts -> BOOLEAN] /\ executed \in [Attempts -> Nat]
  /\ pc \in {"main", "connect", "login", "loginHeader", "loginBody", "send",
             "replyHeader", "replyBody", "exited", "killed"}
  /\ nLoop \in Attempts /\ attempt \in 1..nLoop /\ loops \in 0..MaxLoops
  /\ armed \in BOOLEAN /\ len \in {"some", "zero", "invalid"}
  /\ sent \in [Attempts -> Seq({"login", "command"})]
  /\ outcome \in [Attempts -> Answers \cup {"none", "failed"}]
  /\ faults \in 0..MaxFaults

\* The answer the user is shown is the answer to this attempt's command: [OK]
\* and metrics say that the server has executed it, an error that it has not,
\* whatever was late, cut off or left over from the login or another attempt.
AnswerIsTrue ==
  \A k \in Attempts :
    /\ outcome[k] \in {"OK", "metrics"} => executed[k] = 1
    /\ outcome[k] = "error" => executed[k] = 0

\* A command is asked for once per attempt, after the password was accepted on
\* the same connection.
LoginFirst ==
  \A k \in Attempts :
    /\ sent[k] \in {<<>>, <<"login">>, <<"login", "command">>}
    /\ sent[k] = <<"login", "command">> => session[k]

\* A command that changes something is executed at most once per attempt, also
\* when the client gave up on its answer and reports a failure; CallsAtMostOnce says
\* this and more, and is what the run checks.
ExecutedOnce == \A k \in Attempts : executed[k] <= 1 /\ (k > attempt => executed[k] = 0)

\* The attempts are remote calls with a promise: each is asked for and executed
\* at most once, what the user is told of one stays as it is and stays true,
\* and nothing is asked for before the attempts before it have been reported.
Promise ==
  INSTANCE AtMostOnce WITH
    Calls <- Attempts, Verdicts <- Answers \cup {"failed"},
    asked <- {k \in Attempts : sent[k] = <<"login", "command">>},
    done <- executed, said <- outcome

CallsAtMostOnce == Promise!Spec

\* The program ends, whatever the server does or does not do.
Terminates == <>(pc \in {"exited", "killed"})
=============================================================================
