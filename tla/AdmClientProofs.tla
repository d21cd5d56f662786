--------------------------- MODULE AdmClientProofs ---------------------------
(***************************************************************************)
(* What AdmClient promises for every number of attempts, failures and      *)
(* commands: its types, that a command goes out once and after an accepted *)
(* password, and that the answer shown is the answer to that command.      *)
(*                                                                         *)
(* The argument is the conversation on each connection (SessionInv): the   *)
(* login, then the command, each answered at most once and the login's     *)
(* answer read to its end before the command is sent.  One lemma per group *)
(* of actions shows that they keep it.                                     *)
(***************************************************************************)
EXTENDS AdmClient, SequenceTheorems, TLAPS

Requests == {"login", "command"}
Halves == {"header", "body"} \X Answers

\* Where main is, with the argument it has not used yet.
AtStart == pc = "main" => attempt = 1

\* The halves that are on their way, after the first or without the last ones,
\* are halves that were on their way.
LEMMA TailHalves ==
  ASSUME NEW s \in Seq(Halves), s # <<>>
  PROVE  /\ Head(s) \in Halves /\ Head(s) = s[1] /\ Tail(s) \in Seq(Halves)
         /\ Len(s) \in Nat /\ 1 \in 1..Len(s) /\ Len(Tail(s)) = Len(s) - 1
         /\ \A i \in 1..Len(Tail(s)) : i + 1 \in 1..Len(s) /\ Tail(s)[i] = s[i + 1]
  <1>1. Len(s) \in Nat \ {0} BY EmptySeq
  <1>2. /\ Head(s) \in Halves /\ Tail(s) \in Seq(Halves) /\ Len(Tail(s)) = Len(s) - 1
        /\ \A i \in 1..Len(Tail(s)) : Tail(s)[i] = s[i + 1]
    BY HeadTailProperties
  <1> QED BY <1>1, <1>2

LEMMA CutHalves ==
  ASSUME NEW s \in Seq(Halves), NEW n \in 0..Len(s)
  PROVE  /\ SubSeq(s, 1, n) \in Seq(Halves)
         /\ Len(SubSeq(s, 1, n)) = n /\ n <= Len(s) /\ Len(s) \in Nat
         /\ \A i \in 1..n : i \in 1..Len(s) /\ SubSeq(s, 1, n)[i] = s[i]
  <1>1. Len(s) \in Nat BY LenProperties
  <1>2. \A i \in 1..n : s[i] \in Halves BY <1>1, ElementOfSeq
  <1>3. /\ SubSeq(s, 1, n) \in Seq(Halves)
        /\ Len(SubSeq(s, 1, n)) = IF 1 <= n THEN n - 1 + 1 ELSE 0
        /\ \A i \in 1..(n - 1 + 1) : SubSeq(s, 1, n)[i] = s[1 + i - 1]
    BY <1>1, <1>2, SubSeqProperties
  <1> QED BY <1>1, <1>3

\* An answer that is sent when nothing is on its way has two halves of its kind.
LEMMA WholeAnswer ==
  ASSUME NEW kind \in Answers
  PROVE  /\ <<>> \o Packet(kind) = Packet(kind)
         /\ Packet(kind) \in Seq(Halves) /\ Len(Packet(kind)) = 2
         /\ \A i \in 1..2 : Packet(kind)[i][2] = kind
  <1>1. Packet(kind) \in Seq(Halves) /\ Len(Packet(kind)) = 2
        /\ \A i \in 1..2 : Packet(kind)[i][2] = kind
    BY DEF Packet, Halves
  <1> QED BY <1>1, ConcatEmptySeq

LEMMA WhichAnswer ==
  ASSUME NEW a \in Answers, NEW b \in Answers, Packet(a) = Packet(b)
  PROVE  a = b
  <1>1. Packet(a)[1][2] = a /\ Packet(b)[1][2] = b BY WholeAnswer
  <1> QED BY <1>1

\* Every step of main, the session and the server keeps the types.
LEMMA TypeStep == TypeOK /\ AtStart /\ [Next]_vars => TypeOK' /\ AtStart'
  <1> SUFFICES ASSUME TypeOK, AtStart, [Next]_vars PROVE TypeOK' /\ AtStart'
    OBVIOUS
  <1> USE AdmAssumption DEF Attempts
  <1>20. /\ nLoop \in Attempts /\ attempt \in 1..nLoop /\ faults \in 0..MaxFaults
         /\ outcome \in [Attempts -> Answers \cup {"none", "failed"}]
    BY DEF TypeOK
  <1>1. /\ attempt \in Attempts /\ attempt \in Nat /\ nLoop \in Nat
        /\ \A k \in Attempts : resp[k] \in Seq(Halves) /\ req[k] \in Seq(Requests)
                               /\ sent[k] \in Seq(Requests)
    <2>1. attempt \in Attempts /\ attempt \in Nat /\ nLoop \in Nat BY <1>20
    <2> QED BY <2>1 DEF TypeOK, Halves, Requests
  <1>19. Fault \/ UNCHANGED faults => faults' \in 0..MaxFaults
    BY <1>20 DEF Fault
  <1>2. ASSUME NEW what \in Answers \cup {"failed"}, Finish(what), UNCHANGED nLoop
        PROVE  /\ attempt' \in 1..nLoop
               /\ outcome' \in [Attempts -> Answers \cup {"none", "failed"}]
               /\ pc' \in {"connect", "exited"}
    BY <1>2, <1>20 DEF Finish
  <1>3. ASSUME NEW k \in Attempts, ServeLogin(k) PROVE TypeOK' /\ AtStart'
    <2>1. /\ req' = [req EXCEPT ![k] = Tail(@)] /\ req[k] # <<>>
          /\ UNCHANGED <<up, pc, attempt, socketVars, sent, outcome, argVars, faults, executed>>
          /\ session' = [session EXCEPT ![k] = TRUE] \/ UNCHANGED session
      BY <1>3 DEF ServeLogin, Serve
    <2>2. PICK kind \in Answers : resp' = [resp EXCEPT ![k] = @ \o Packet(kind)]
      BY <1>3 DEF ServeLogin, Answer, Answers
    <2>3. resp[k] \o Packet(kind) \in Seq(Halves) BY <1>1, WholeAnswer, ConcatProperties
    <2>4. Tail(req[k]) \in Seq(Requests) BY <1>1, <2>1, HeadTailProperties
    <2> QED BY <2>1, <2>2, <2>3, <2>4 DEF TypeOK, AtStart, Halves, Requests, socketVars, argVars
  <1>4. ASSUME NEW k \in Attempts, ServeCommand(k) PROVE TypeOK' /\ AtStart'
    <2>1. /\ req' = [req EXCEPT ![k] = Tail(@)] /\ req[k] # <<>>
          /\ UNCHANGED <<up, pc, attempt, socketVars, sent, outcome, argVars, faults, session>>
          /\ executed' = [executed EXCEPT ![k] = @ + 1] \/ UNCHANGED executed
      BY <1>4 DEF ServeCommand, Serve
    <2>2. PICK kind \in Answers : resp' = [resp EXCEPT ![k] = @ \o Packet(kind)]
      BY <1>4 DEF ServeCommand, Answer, Answers
    <2>3. resp[k] \o Packet(kind) \in Seq(Halves) BY <1>1, WholeAnswer, ConcatProperties
    <2>4. Tail(req[k]) \in Seq(Requests) BY <1>1, <2>1, HeadTailProperties
    <2>5. executed' \in [Attempts -> Nat]
      <3>1. executed \in [Attempts -> Nat] BY DEF TypeOK
      <3>2. executed[k] \in Nat BY <3>1
      <3>3. executed[k] + 1 \in Nat BY <3>2
      <3> QED BY <2>1, <3>1, <3>3
    <2>6. /\ resp' \in [Attempts -> Seq(Halves)] /\ req' \in [Attempts -> Seq(Requests)]
      BY <1>1, <2>1, <2>2, <2>3, <2>4 DEF TypeOK
    <2> QED BY <2>1, <2>5, <2>6 DEF TypeOK, AtStart, Halves, Requests, socketVars, argVars
  <1>5. ASSUME NEW k \in Attempts, ServerCloses(k) PROVE TypeOK' /\ AtStart'
    <2>1. PICK n \in 0..Len(resp[k]) : resp' = [resp EXCEPT ![k] = SubSeq(@, 1, n)]
      BY <1>5 DEF ServerCloses
    <2>2. SubSeq(resp[k], 1, n) \in Seq(Halves) BY <1>1, CutHalves
    <2>3. resp' \in [Attempts -> Seq(Halves)] /\ up' \in [Attempts -> BOOLEAN]
      BY <1>1, <1>5, <2>1, <2>2 DEF ServerCloses, TypeOK
    <2> QED BY <1>5, <1>19, <2>3 DEF ServerCloses, TypeOK, AtStart, Halves, socketVars, argVars
  <1>6. CASE ParseArgs
    <2>1. nLoop' \in Attempts /\ attempt' \in 1..nLoop'
      <3>1. nLoop \in Attempts /\ attempt \in 1..nLoop /\ loops \in 0..MaxLoops
            /\ attempt = 1
        BY <1>6 DEF ParseArgs, TypeOK, AtStart
      <3>2. attempt' = attempt /\ nLoop' \in {nLoop, IF loops > 0 THEN loops ELSE 1}
        BY <1>6 DEF ParseArgs
      <3> QED BY <3>1, <3>2
    <2> QED BY <1>6, <2>1 DEF ParseArgs, TypeOK, AtStart, serverVars, socketVars
  <1>7. CASE Connect
    <2>1. /\ attempt' \in 1..nLoop /\ pc' \in {"connect", "exited", "login"}
          /\ outcome' \in [Attempts -> Answers \cup {"none", "failed"}]
      BY <1>2, <1>7 DEF Connect, GoTo, TypeOK, argVars
    <2>2. faults' \in 0..MaxFaults BY <1>7, <1>19 DEF Connect
    <2>3. up' \in [Attempts -> BOOLEAN] /\ armed' \in BOOLEAN BY <1>7 DEF Connect, TypeOK
    <2> QED BY <1>7, <2>1, <2>2, <2>3 DEF Connect, TypeOK, AtStart, argVars
  <1>8. ASSUME NEW at, NEW request \in Requests, NEW next \in {"loginHeader", "replyHeader"},
               SendPacket(at, request, next)
        PROVE  TypeOK' /\ AtStart'
    <2>1. \/ UNCHANGED <<req, sent>>
          \/ /\ req' = [req EXCEPT ![attempt] = Append(@, request)]
             /\ sent' = [sent EXCEPT ![attempt] = Append(@, request)]
      BY <1>8 DEF SendPacket
    <2>2. req' \in [Attempts -> Seq(Requests)] /\ sent' \in [Attempts -> Seq(Requests)]
      <3>1. /\ Append(req[attempt], request) \in Seq(Requests)
            /\ Append(sent[attempt], request) \in Seq(Requests)
        BY <1>1, AppendProperties
      <3>2. req \in [Attempts -> Seq(Requests)] /\ sent \in [Attempts -> Seq(Requests)]
        BY DEF TypeOK, Requests
      <3> QED BY <2>1, <3>1, <3>2
    <2>3. nLoop' = nLoop BY <1>8 DEF SendPacket, argVars
    <2>4. /\ attempt' \in 1..nLoop /\ outcome' \in [Attempts -> Answers \cup {"none", "failed"}]
          /\ pc' \in {"connect", "exited", "killed", next}
      BY <1>2, <1>8, <2>3 DEF SendPacket, GoTo, TypeOK
    <2>5. faults' \in 0..MaxFaults BY <1>8, <1>19 DEF SendPacket
    <2> QED BY <1>8, <2>2, <2>3, <2>4, <2>5
         DEF SendPacket, TypeOK, AtStart, Requests, socketVars, argVars
  <1>9. CASE Login BY <1>8, <1>9 DEF Login, Requests
  <1>10. CASE SendCommand BY <1>8, <1>10 DEF SendCommand, Requests
  <1>11. ASSUME NEW at, TimedOut(at) \/ NoPacket(at) PROVE TypeOK' /\ AtStart'
    BY <1>2, <1>11 DEF TimedOut, NoPacket, TypeOK, AtStart, serverVars, socketVars, argVars
  <1>12. ASSUME NEW at, NEW next \in {"loginBody", "replyBody"}, ReadHeader(at, next)
         PROVE  TypeOK' /\ AtStart'
    <2>1. resp' \in [Attempts -> Seq(Halves)]
      <3>1. CASE UNCHANGED resp BY <1>1, <3>1 DEF TypeOK, Halves
      <3>2. CASE resp[attempt] # <<>> /\ resp' = [resp EXCEPT ![attempt] = Tail(@)]
        BY <1>1, <3>2, TailHalves DEF TypeOK
      <3> QED BY <1>12, <3>1, <3>2 DEF ReadHeader
    <2> QED BY <1>12, <2>1 DEF ReadHeader, GoTo, TypeOK, AtStart, Halves, argVars
  <1>13. ASSUME NEW at, NEW kind \in Answers, ReadBody(at, kind),
                GoTo("send") \/ Finish("failed") \/ Finish(kind)
         PROVE  TypeOK' /\ AtStart'
    <2>1. resp' \in [Attempts -> Seq(Halves)]
      BY <1>1, <1>13, TailHalves DEF ReadBody, TypeOK
    <2>2. nLoop' = nLoop BY <1>13 DEF ReadBody, argVars
    <2>3. /\ attempt' \in 1..nLoop /\ outcome' \in [Attempts -> Answers \cup {"none", "failed"}]
          /\ pc' \in {"connect", "exited", "send"}
      BY <1>2, <1>13, <2>2 DEF GoTo, TypeOK
    <2> QED BY <1>13, <2>1, <2>2, <2>3 DEF ReadBody, TypeOK, AtStart, Halves, socketVars, argVars
  <1>14. CASE LoginBody BY <1>13, <1>14 DEF LoginBody
  <1>15. CASE ReplyBody BY <1>13, <1>15 DEF ReplyBody
  <1>16. CASE LoginHeader \/ ReplyHeader BY <1>12, <1>16 DEF LoginHeader, ReplyHeader
  <1>17. CASE LoginTimedOut \/ ReplyTimedOut \/ LoginNoPacket \/ ReplyNoPacket
    BY <1>11, <1>17 DEF LoginTimedOut, ReplyTimedOut, LoginNoPacket, ReplyNoPacket
  <1>18. CASE UNCHANGED vars
    BY <1>18 DEF vars, TypeOK, AtStart, serverVars, socketVars, argVars
  <1> QED
    BY <1>3, <1>4, <1>5, <1>6, <1>7, <1>9, <1>10, <1>14, <1>15, <1>16, <1>17, <1>18
    DEF Next, Server, Program

LEMMA InitTypes == Init => TypeOK /\ AtStart
  <1> SUFFICES ASSUME Init PROVE TypeOK /\ AtStart
    OBVIOUS
  <1>1. /\ req \in [Attempts -> Seq(Requests)] /\ sent \in [Attempts -> Seq(Requests)]
        /\ resp \in [Attempts -> Seq(Halves)]
    BY EmptySeq DEF Init
  <1>2. /\ up \in [Attempts -> BOOLEAN] /\ session \in [Attempts -> BOOLEAN]
        /\ executed \in [Attempts -> Nat]
        /\ outcome \in [Attempts -> Answers \cup {"none", "failed"}]
    BY DEF Init
  <1>3. nLoop \in Attempts /\ attempt \in 1..nLoop /\ faults \in 0..MaxFaults
        /\ loops \in 0..MaxLoops
    BY AdmAssumption DEF Init, Attempts
  <1> QED BY <1>1, <1>2, <1>3 DEF Init, TypeOK, AtStart, Requests, Halves

\* The types hold in every state.
THEOREM TypeCorrect == Spec => []TypeOK
  BY InitTypes, TypeStep, PTL DEF Spec
-----------------------------------------------------------------------------
(* The conversation on each connection *)

Kind(k, i) == resp[k][i][2]

\* What of the answer to the login is on its way: [OK] only if it was accepted.
LoginAnswered(k) == \A i \in 1..Len(resp[k]) : Kind(k, i) = "OK" => session[k]

\* What of the answer to the command is on its way tells whether it was executed.
CommandAnswered(k) ==
  \A i \in 1..Len(resp[k]) :
    IF Kind(k, i) = "error" THEN executed[k] = 0 ELSE executed[k] = 1

\* Nothing was sent; or the login, which is on its way or answered; or also the
\* command, which needs that the login was accepted and its answer read.
Silent(k) == sent[k] = <<>> /\ req[k] = <<>> /\ resp[k] = <<>> /\ executed[k] = 0

LoginSent(k) ==
  /\ sent[k] = <<"login">> /\ executed[k] = 0
  /\ \/ req[k] = <<"login">> /\ resp[k] = <<>>
     \/ req[k] = <<>> /\ LoginAnswered(k)

CommandSent(k) ==
  /\ sent[k] = <<"login", "command">> /\ session[k]
  /\ \/ req[k] = <<"command">> /\ resp[k] = <<>> /\ executed[k] = 0
     \/ req[k] = <<>> /\ executed[k] \in {0, 1} /\ CommandAnswered(k)

\* What the user was shown of an attempt.
ShownTrue(k) ==
  outcome[k] \in Answers =>
    /\ sent[k] = <<"login", "command">> /\ req[k] = <<>>
    /\ executed[k] = IF outcome[k] = "error" THEN 0 ELSE 1

Conversation(k) ==
  /\ Silent(k) \/ LoginSent(k) \/ CommandSent(k)
  /\ Len(resp[k]) <= 2
  /\ k > attempt => Silent(k)
  /\ ShownTrue(k)

\* How far the client is in it.  Before it sends the command, the answer to the
\* login has been read to its end, or the server is gone.
Progress ==
  /\ pc \in {"main", "connect", "login"} => Silent(attempt)
  /\ pc \in {"loginHeader", "loginBody"} => Silent(attempt) \/ LoginSent(attempt)
  /\ pc = "loginBody" => /\ Len(resp[attempt]) <= 1
                         /\ req[attempt] = <<>> \/ ~up[attempt]
  /\ pc = "send" => /\ LoginSent(attempt) /\ session[attempt]
                    /\ req[attempt] = <<>> /\ resp[attempt] = <<>>
  /\ pc \in {"replyHeader", "replyBody"} =>
       \/ LoginSent(attempt) /\ req[attempt] = <<>> /\ resp[attempt] = <<>>
       \/ CommandSent(attempt)

SessionInv == (\A k \in Attempts : Conversation(k)) /\ Progress

\* What the server and the client do to the conversation of one attempt leaves
\* the other conversations as they are.
Same(k) ==
  /\ sent'[k] = sent[k] /\ req'[k] = req[k] /\ resp'[k] = resp[k]
  /\ executed'[k] = executed[k] /\ session'[k] = session[k]

LEMMA SameConversation ==
  ASSUME NEW k \in Attempts, Same(k)
  PROVE  /\ Silent(k)' <=> Silent(k)
         /\ LoginSent(k)' <=> LoginSent(k)
         /\ CommandSent(k)' <=> CommandSent(k)
         /\ outcome'[k] = outcome[k] => (ShownTrue(k)' <=> ShownTrue(k))
  BY DEF Same, Silent, LoginSent, CommandSent, LoginAnswered, CommandAnswered, Kind, ShownTrue

\* One request, sent or taken.
LEMMA OneRequest ==
  /\ \A r \in Requests : Tail(<<r>>) = <<>> /\ <<r>> # <<>> /\ Head(<<r>>) = r
                         /\ Append(<<>>, r) = <<r>>
  /\ Append(<<"login">>, "command") = <<"login", "command">>
  <1>1. ASSUME NEW r \in Requests
        PROVE  /\ Tail(<<r>>) = <<>> /\ <<r>> # <<>> /\ Head(<<r>>) = r
               /\ Append(<<>>, r) = <<r>>
    <2>1. <<r>> # <<>> /\ Head(<<r>>) = r OBVIOUS
    <2>2. Tail(<<r>>) = <<>>
      <3>1. <<r>> \in Seq(Requests) /\ Len(<<r>>) = 1 BY <1>1
      <3>2. Tail(<<r>>) \in Seq(Requests) /\ Len(Tail(<<r>>)) = 0
        BY <2>1, <3>1, HeadTailProperties
      <3> QED BY <3>2, EmptySeq
    <2>3. Append(<<>>, r) = <<r>> OBVIOUS
    <2> QED BY <2>1, <2>2, <2>3
  <1>2. Append(<<"login">>, "command") = <<"login", "command">>
    <2>1. <<"login">> \in Seq(Requests) /\ <<"login", "command">> \in Seq(Requests)
      BY DEF Requests
    <2>2. ASSUME NEW s \in Seq(Requests), Len(s) = 1, s[1] = "login"
          PROVE  Append(s, "command") = <<"login", "command">>
      <3>1. "command" \in Requests BY DEF Requests
      <3>2. /\ Append(s, "command") \in Seq(Requests) /\ Len(Append(s, "command")) = Len(s) + 1
            /\ \A i \in 1..Len(s) : Append(s, "command")[i] = s[i]
            /\ Append(s, "command")[Len(s) + 1] = "command"
        BY <3>1, AppendProperties
      <3>3. /\ Len(Append(s, "command")) = Len(<<"login", "command">>)
            /\ \A i \in 1..Len(Append(s, "command")) :
                 Append(s, "command")[i] = <<"login", "command">>[i]
        BY <2>2, <3>2
      <3> QED BY <2>1, <3>2, <3>3, SeqEqual
    <2>3. Len(<<"login">>) = 1 /\ <<"login">>[1] = "login" OBVIOUS
    <2> QED BY <2>1, <2>2, <2>3
  <1> QED BY <1>1, <1>2

\* Halves of its answer are read or cut off: what is left is from that answer.
Shorter(k) ==
  /\ sent'[k] = sent[k] /\ req'[k] = req[k]
  /\ executed'[k] = executed[k] /\ session'[k] = session[k]
  /\ Len(resp'[k]) \in Nat /\ Len(resp[k]) \in Nat /\ Len(resp'[k]) <= Len(resp[k])
  /\ \A i \in 1..Len(resp'[k]) : \E j \in 1..Len(resp[k]) : resp'[k][i] = resp[k][j]
  /\ resp[k] = <<>> => resp'[k] = <<>>

LEMMA ShorterConversation ==
  ASSUME NEW k \in Attempts, Shorter(k)
  PROVE  /\ Silent(k) => Silent(k)'
         /\ LoginSent(k) => LoginSent(k)'
         /\ CommandSent(k) => CommandSent(k)'
         /\ outcome'[k] = outcome[k] => (ShownTrue(k) => ShownTrue(k)')
         /\ Len(resp[k]) <= 2 => Len(resp'[k]) <= 2
  <1>1. LoginAnswered(k) => LoginAnswered(k)' BY DEF Shorter, LoginAnswered, Kind
  <1>2. CommandAnswered(k) => CommandAnswered(k)' BY DEF Shorter, CommandAnswered, Kind
  <1>3. Silent(k) => Silent(k)' BY DEF Shorter, Silent
  <1>4. LoginSent(k) => LoginSent(k)' BY <1>1 DEF Shorter, LoginSent
  <1>5. CommandSent(k) => CommandSent(k)' BY <1>2 DEF Shorter, CommandSent
  <1>6. outcome'[k] = outcome[k] => (ShownTrue(k) => ShownTrue(k)') BY DEF Shorter, ShownTrue
  <1>7. Len(resp[k]) <= 2 => Len(resp'[k]) <= 2 BY DEF Shorter
  <1> QED BY <1>3, <1>4, <1>5, <1>6, <1>7

LEMMA TailShorter ==
  ASSUME NEW k \in Attempts, TypeOK, resp[k] # <<>>, resp' = [resp EXCEPT ![k] = Tail(@)],
         UNCHANGED <<req, session, executed, sent>>
  PROVE  /\ \A j \in Attempts : IF j = k THEN Shorter(j) ELSE Same(j)
         /\ resp'[k] = Tail(resp[k]) /\ Len(resp'[k]) = Len(resp[k]) - 1
         /\ Len(resp[k]) = 1 => resp'[k] = <<>>
  <1>1. resp \in [Attempts -> Seq(Halves)] BY DEF TypeOK, Halves
  <1>2. resp[k] \in Seq(Halves) BY <1>1
  <1>3. /\ Tail(resp[k]) \in Seq(Halves) /\ Len(resp[k]) \in Nat
        /\ Len(Tail(resp[k])) = Len(resp[k]) - 1 /\ 1 \in 1..Len(resp[k])
        /\ \A i \in 1..Len(Tail(resp[k])) :
             i + 1 \in 1..Len(resp[k]) /\ Tail(resp[k])[i] = resp[k][i + 1]
    BY <1>2, TailHalves
  <1>4. resp'[k] = Tail(resp[k]) BY <1>1
  <1>5. Len(resp[k]) = 1 => resp'[k] = <<>>
    <2>1. Len(resp[k]) = 1 => Len(Tail(resp[k])) = 0 BY <1>3
    <2>2. Len(Tail(resp[k])) = 0 => Tail(resp[k]) = <<>> BY <1>3, EmptySeq
    <2> QED BY <1>4, <2>1, <2>2
  <1>6. Shorter(k) BY <1>3, <1>4 DEF Shorter
  <1>7. \A j \in Attempts \ {k} : Same(j) BY <1>1 DEF Same
  <1> QED BY <1>3, <1>4, <1>5, <1>6, <1>7

\* main is done with an attempt: the next one has nothing on its way.
LEMMA FinishStep ==
  ASSUME TypeOK, SessionInv, NEW what, Finish(what), UNCHANGED nLoop,
         \A k \in Attempts :
           /\ Silent(k)' \/ LoginSent(k)' \/ CommandSent(k)'
           /\ Len(resp[k])' <= 2
           /\ k > attempt => Silent(k)'
           /\ ShownTrue(k)'
  PROVE  SessionInv'
  <1>1. /\ attempt \in Nat /\ attempt' \in Nat /\ attempt \in Attempts
        /\ \/ attempt' = attempt + 1 /\ attempt' \in Attempts /\ pc' = "connect"
           \/ attempt' = attempt /\ pc' = "exited"
    BY AdmAssumption DEF TypeOK, Finish, Attempts
  <1>2. \A k \in Attempts : k \in Nat BY DEF Attempts
  <1>3. \A k \in Attempts : (k > attempt' => Silent(k)') BY <1>1, <1>2
  <1>4. \A k \in Attempts : Conversation(k)' BY <1>3 DEF Conversation
  <1>5. pc' = "connect" => Silent(attempt)'
    <2>1. ASSUME pc' = "connect" PROVE attempt' \in Attempts /\ attempt' > attempt
      BY <1>1, <2>1
    <2> QED BY <2>1 DEF Silent
  <1>6. Progress' BY <1>1, <1>5 DEF Progress
  <1> QED BY <1>4, <1>6 DEF SessionInv

\* The server takes a request: it has not answered any of them yet.
LEMMA ServeStep ==
  ASSUME TypeOK, SessionInv, NEW k \in Attempts, ServeLogin(k) \/ ServeCommand(k)
  PROVE  SessionInv'
  <1>1. PICK request \in Requests : Serve(k, request)
    BY DEF ServeLogin, ServeCommand, Requests
  <1>2. /\ req \in [Attempts -> Seq(Requests)] /\ resp \in [Attempts -> Seq(Halves)]
        /\ executed \in [Attempts -> Nat] /\ session \in [Attempts -> BOOLEAN]
    BY DEF TypeOK, Requests, Halves
  <1>3. /\ up[k] /\ req[k] # <<>> /\ Head(req[k]) = request
        /\ req' = [req EXCEPT ![k] = Tail(@)]
        /\ UNCHANGED <<up, pc, attempt, sent, outcome>>
    BY <1>1 DEF Serve
  <1>4. PICK kind \in Answers : resp' = [resp EXCEPT ![k] = @ \o Packet(kind)]
    BY DEF ServeLogin, ServeCommand, Answer, Answers
  <1>5. Conversation(k) BY DEF SessionInv
  <1>6. /\ resp[k] = <<>> /\ executed[k] = 0
        /\ \/ LoginSent(k) /\ req[k] = <<"login">> /\ request = "login"
           \/ CommandSent(k) /\ req[k] = <<"command">> /\ request = "command"
    BY <1>3, <1>5, OneRequest DEF Conversation, Silent, LoginSent, CommandSent, Requests
  <1>7. req'[k] = <<>> BY <1>2, <1>3, <1>6, OneRequest DEF Requests
  <1>8. resp'[k] = Packet(kind) BY <1>2, <1>4, <1>6, WholeAnswer
  <1>9. Len(resp'[k]) = 2 /\ \A i \in 1..Len(resp'[k]) : resp'[k][i][2] = kind
    BY <1>8, WholeAnswer
  <1>10. \A j \in Attempts \ {k} : Same(j)
    BY <1>2, <1>3, <1>4 DEF ServeLogin, ServeCommand, Same
  <1>11. /\ LoginSent(k)' \/ CommandSent(k)'
         /\ LoginSent(k) => LoginSent(k)'
         /\ CommandSent(k) => CommandSent(k)'
    <2>1. CASE request = "login"
      <3>1. ServeLogin(k) /\ LoginSent(k) BY <1>1, <1>3, <1>6, <2>1 DEF ServeCommand, Serve
      <3>2. kind = "OK" => session'[k]
        <4>1. CASE session' = [session EXCEPT ![k] = TRUE] BY <1>2, <4>1
        <4>2. CASE Answer(k, "error")
          <5>1. resp'[k] = Packet("error")
            BY <1>2, <1>6, <4>2, WholeAnswer DEF Answer, Answers
          <5>2. kind = "error" BY <1>8, <5>1, WhichAnswer DEF Answers
          <5> QED BY <5>2
        <4> QED BY <3>1, <4>1, <4>2 DEF ServeLogin
      <3>3. LoginAnswered(k)' BY <1>9, <3>2 DEF LoginAnswered, Kind
      <3>4. executed' = executed BY <3>1 DEF ServeLogin
      <3>5. ~ CommandSent(k) BY <3>1, OneRequest DEF LoginSent, CommandSent
      <3> QED BY <1>3, <1>6, <1>7, <3>1, <3>3, <3>4, <3>5 DEF LoginSent
    <2>2. CASE request = "command"
      <3>1. ServeCommand(k) /\ CommandSent(k) BY <1>1, <1>3, <1>6, <2>2 DEF ServeLogin, Serve
      <3>2. IF kind = "error" THEN executed'[k] = 0 ELSE executed'[k] = 1
        <4>1. CASE UNCHANGED executed /\ Answer(k, "error")
          <5>1. resp'[k] = Packet("error")
            BY <1>2, <1>6, <4>1, WholeAnswer DEF Answer, Answers
          <5>2. kind = "error" BY <1>8, <5>1, WhichAnswer DEF Answers
          <5> QED BY <1>6, <4>1, <5>2
        <4>2. ASSUME executed' = [executed EXCEPT ![k] = @ + 1],
                     NEW what \in {"OK", "huge", "metrics"}, Answer(k, what)
              PROVE  kind # "error" /\ executed'[k] = 1
          <5>1. resp'[k] = Packet(what)
            BY <1>2, <1>6, <4>2, WholeAnswer DEF Answer, Answers
          <5>2. what \in Answers BY DEF Answers
          <5>3. kind = what BY <1>8, <5>1, <5>2, WhichAnswer
          <5> QED BY <1>2, <1>6, <4>2, <5>3
        <4> QED BY <3>1, <4>1, <4>2 DEF ServeCommand
      <3>3. CommandAnswered(k)' BY <1>9, <3>2 DEF CommandAnswered, Kind
      <3>4. session' = session /\ executed'[k] \in {0, 1} BY <3>1, <3>2 DEF ServeCommand
      <3>5. ~ LoginSent(k) BY <3>1, OneRequest DEF LoginSent, CommandSent
      <3> QED BY <1>3, <1>7, <3>1, <3>3, <3>4, <3>5 DEF CommandSent
    <2> QED BY <2>1, <2>2 DEF Requests
  <1>13. Conversation(k)'
    BY <1>3, <1>5, <1>9, <1>11 DEF Conversation, ShownTrue, Silent
  <1>14. \A j \in Attempts : Conversation(j)'
    BY <1>3, <1>10, <1>13, SameConversation DEF SessionInv, Conversation, Same
  <1>15. Progress'
    <2>1. CASE attempt = k
      <3>1. req[attempt] # <<>> /\ up[attempt] BY <1>3, <2>1
      <3>2. ~ Silent(attempt) /\ pc \notin {"main", "connect", "login", "loginBody", "send"}
        BY <3>1 DEF SessionInv, Progress, Silent
      <3>3. /\ LoginSent(attempt) => LoginSent(attempt)'
            /\ CommandSent(attempt) => CommandSent(attempt)'
        BY <1>3, <1>11, <2>1
        DEF LoginSent, CommandSent, LoginAnswered, CommandAnswered, Kind
      <3> QED BY <1>3, <3>1, <3>2, <3>3 DEF SessionInv, Progress
    <2>2. CASE attempt # k
      <3>1. Same(attempt) /\ attempt \in Attempts
        BY <1>10, <2>2, AdmAssumption DEF TypeOK, Attempts
      <3> QED BY <1>3, <3>1, SameConversation DEF SessionInv, Progress, Same
    <2> QED BY <2>1, <2>2
  <1> QED BY <1>14, <1>15 DEF SessionInv

\* The connection closes, at some place of the answer.
LEMMA CloseStep ==
  ASSUME TypeOK, SessionInv, NEW k \in Attempts, ServerCloses(k)
  PROVE  SessionInv'
  <1>1. PICK n \in 0..Len(resp[k]) : resp' = [resp EXCEPT ![k] = SubSeq(@, 1, n)]
    BY DEF ServerCloses
  <1>2. /\ up' = [up EXCEPT ![k] = FALSE]
        /\ UNCHANGED <<req, session, executed, pc, attempt, sent, outcome>>
    BY DEF ServerCloses
  <1>3. resp \in [Attempts -> Seq(Halves)] /\ up \in [Attempts -> BOOLEAN]
    BY DEF TypeOK, Halves
  <1>4. resp[k] \in Seq(Halves) /\ resp'[k] = SubSeq(resp[k], 1, n) BY <1>1, <1>3
  <1>5. /\ Len(resp'[k]) = n /\ n <= Len(resp[k]) /\ Len(resp[k]) \in Nat
        /\ \A i \in 1..n : i \in 1..Len(resp[k]) /\ resp'[k][i] = resp[k][i]
        /\ resp'[k] \in Seq(Halves)
    BY <1>4, CutHalves
  <1>6. resp[k] = <<>> => resp'[k] = <<>>
    <2>1. (resp[k] = <<>> <=> Len(resp[k]) = 0) /\ (resp'[k] = <<>> <=> Len(resp'[k]) = 0)
      BY <1>4, <1>5, EmptySeq
    <2> QED BY <1>5, <2>1
  <1>7. Shorter(k) BY <1>2, <1>5, <1>6 DEF Shorter
  <1>8. \A j \in Attempts \ {k} : Same(j) BY <1>1, <1>2, <1>3 DEF Same
  <1>9. \A j \in Attempts : Conversation(j)'
    BY <1>2, <1>7, <1>8, SameConversation, ShorterConversation
    DEF SessionInv, Conversation, Same
  <1>10. Progress'
    <2>1. attempt \in Attempts BY AdmAssumption DEF TypeOK, Attempts
    <2>2. /\ Silent(attempt) => Silent(attempt)'
          /\ LoginSent(attempt) => LoginSent(attempt)'
          /\ CommandSent(attempt) => CommandSent(attempt)'
      <3>1. \A j \in Attempts : /\ Silent(j) => Silent(j)'
                                /\ LoginSent(j) => LoginSent(j)'
                                /\ CommandSent(j) => CommandSent(j)'
        BY <1>7, <1>8, SameConversation, ShorterConversation
      <3> QED BY <1>2, <2>1, <3>1
           DEF Silent, LoginSent, CommandSent, LoginAnswered, CommandAnswered, Kind
    <2>3. /\ Len(resp[attempt]) <= 1 => Len(resp'[attempt]) <= 1
          /\ resp[attempt] = <<>> => resp'[attempt] = <<>>
          /\ ~ up[attempt] => ~ up'[attempt]
      <3>1. CASE attempt = k BY <1>2, <1>3, <1>5, <1>6, <3>1
      <3>2. CASE attempt # k BY <1>1, <1>2, <1>3, <2>1, <3>2
      <3> QED BY <3>1, <3>2
    <2> QED BY <1>2, <2>2, <2>3 DEF SessionInv, Progress
  <1> QED BY <1>9, <1>10 DEF SessionInv

\* The program goes on with its attempt: what else is on its way is as it was.
LEMMA GoToStep ==
  ASSUME TypeOK, SessionInv, UNCHANGED <<attempt, outcome>>,
         \A k \in Attempts \ {attempt} : Same(k),
         Silent(attempt)' \/ LoginSent(attempt)' \/ CommandSent(attempt)',
         Len(resp[attempt])' <= 2, ShownTrue(attempt)', Progress'
  PROVE  SessionInv'
  <1>1. attempt \in Attempts /\ attempt \in Nat BY AdmAssumption DEF TypeOK, Attempts
  <1>2. ASSUME NEW k \in Attempts PROVE Conversation(k)'
    <2>1. CASE k # attempt
      <3>1. Conversation(k) /\ Same(k) BY <2>1 DEF SessionInv
      <3>2. Len(resp[k])' <= 2 BY <3>1 DEF Conversation, Same
      <3> QED BY <3>1, <3>2, SameConversation DEF Conversation
    <2>2. CASE k = attempt
      <3>1. ~ (k > attempt)' BY <1>1, <2>2
      <3> QED BY <2>2, <3>1
           DEF Conversation, Silent, LoginSent, CommandSent, ShownTrue,
               LoginAnswered, CommandAnswered, Kind
    <2> QED BY <2>1, <2>2
  <1> QED BY <1>2 DEF SessionInv

\* An attempt fails, with what is on its way left there.
LEMMA FailStep ==
  ASSUME TypeOK, SessionInv, Finish("failed"),
         UNCHANGED <<nLoop, req, resp, session, executed, sent>>
  PROVE  SessionInv'
  <1>1. outcome' = [outcome EXCEPT ![attempt] = "failed"] BY DEF Finish
  <1>2. ASSUME NEW k \in Attempts
        PROVE  /\ Silent(k)' \/ LoginSent(k)' \/ CommandSent(k)'
               /\ Len(resp[k])' <= 2
               /\ k > attempt => Silent(k)'
               /\ ShownTrue(k)'
    <2>1. Same(k) /\ Conversation(k) BY DEF Same, SessionInv
    <2>2. ShownTrue(k)'
      <3>1. CASE k # attempt
        <4>1. outcome'[k] = outcome[k] BY <1>1, <3>1 DEF TypeOK
        <4> QED BY <2>1, <4>1, SameConversation DEF Conversation
      <3>2. CASE k = attempt BY <1>1, <3>2 DEF ShownTrue, TypeOK, Answers
      <3> QED BY <3>1, <3>2
    <2> QED BY <2>1, <2>2, SameConversation DEF Conversation, Same
  <1> QED BY <1>2, FinishStep

\* main starts, and connects.
LEMMA StartStep ==
  ASSUME TypeOK, AtStart, SessionInv, ParseArgs \/ Connect
  PROVE  SessionInv'
  <1>1. UNCHANGED <<req, resp, session, executed, sent>>
    BY DEF ParseArgs, Connect, serverVars
  <1>2. Silent(attempt) BY DEF SessionInv, Progress, ParseArgs, Connect
  <1>3. attempt \in Attempts BY AdmAssumption DEF TypeOK, Attempts
  <1>4. \A k \in Attempts : Same(k) BY <1>1 DEF Same
  <1>5. ASSUME UNCHANGED <<attempt, outcome>>, pc' \in {"connect", "login", "exited"}
        PROVE  SessionInv'
    <2>1. Silent(attempt)' BY <1>1, <1>2, <1>5 DEF Silent
    <2>2. Progress' BY <1>5, <2>1 DEF Progress
    <2>3. Len(resp[attempt])' <= 2 /\ ShownTrue(attempt)'
      BY <1>1, <1>3, <1>5 DEF SessionInv, Conversation, ShownTrue
    <2> QED BY <1>4, <1>5, <2>1, <2>2, <2>3, GoToStep
  <1>6. CASE ParseArgs BY <1>5, <1>6 DEF ParseArgs
  <1>7. CASE Connect
    <2>1. CASE Finish("failed") BY <1>1, <1>7, <2>1, FailStep DEF Connect, argVars
    <2>2. CASE GoTo("login") BY <1>5, <2>2 DEF GoTo
    <2> QED BY <1>7, <2>1, <2>2 DEF Connect
  <1> QED BY <1>6, <1>7

\* A request is sent, or lost.
LEMMA SendStep ==
  ASSUME TypeOK, SessionInv, Login \/ SendCommand
  PROVE  SessionInv'
  <1>1. PICK request \in Requests, next \in {"loginHeader", "replyHeader"} :
          /\ SendPacket(pc, request, next)
          /\ \/ request = "login" /\ next = "loginHeader" /\ pc = "login"
             \/ request = "command" /\ next = "replyHeader" /\ pc = "send"
    BY DEF Login, SendCommand, SendPacket, Requests
  <1>2. UNCHANGED <<up, resp, session, executed, nLoop>> BY <1>1 DEF SendPacket, argVars
  <1>3. attempt \in Attempts BY AdmAssumption DEF TypeOK, Attempts
  <1>4. /\ req[attempt] = <<>> /\ resp[attempt] = <<>> /\ executed[attempt] = 0
        /\ pc = "login" => sent[attempt] = <<>>
        /\ pc = "send" => sent[attempt] = <<"login">> /\ session[attempt]
    BY <1>1 DEF SessionInv, Progress, Silent, LoginSent
  <1>5. Len(resp[attempt]) <= 2 /\ ShownTrue(attempt) BY <1>3 DEF SessionInv, Conversation
  <1>6. outcome[attempt] \notin Answers
    <2>1. sent[attempt] = <<>> \/ sent[attempt] = <<"login">> BY <1>1, <1>4
    <2>2. <<>> # <<"login", "command">> /\ <<"login">> # <<"login", "command">>
      OBVIOUS
    <2> QED BY <1>5, <2>1, <2>2 DEF ShownTrue
  <1>7. CASE /\ req' = [req EXCEPT ![attempt] = Append(@, request)]
             /\ sent' = [sent EXCEPT ![attempt] = Append(@, request)]
             /\ GoTo(next)
    <2>1. req \in [Attempts -> Seq(Requests)] /\ sent \in [Attempts -> Seq(Requests)]
      BY DEF TypeOK, Requests
    <2>2. req'[attempt] = <<request>> BY <1>3, <1>4, <1>7, <2>1, OneRequest
    <2>3. /\ pc = "login" => sent'[attempt] = <<"login">>
          /\ pc = "send" => sent'[attempt] = <<"login", "command">>
      BY <1>1, <1>3, <1>4, <1>7, <2>1, OneRequest DEF Requests
    <2>4. UNCHANGED <<attempt, outcome>> /\ pc' = next BY <1>7 DEF GoTo
    <2>5. \A k \in Attempts \ {attempt} : Same(k) BY <1>2, <1>7, <2>1 DEF Same
    <2>6. /\ pc = "login" => LoginSent(attempt)'
          /\ pc = "send" => CommandSent(attempt)'
      BY <1>1, <1>2, <1>4, <2>2, <2>3, <2>4 DEF LoginSent, CommandSent
    <2>7. Progress' BY <1>1, <2>4, <2>6 DEF Progress
    <2>8. Len(resp[attempt])' <= 2 /\ ShownTrue(attempt)'
      BY <1>2, <1>5, <1>6, <2>4 DEF ShownTrue
    <2> QED BY <1>1, <2>4, <2>5, <2>6, <2>7, <2>8, GoToStep
  <1>8. ASSUME UNCHANGED <<req, sent>>, GoTo(next) \/ GoTo("killed") PROVE SessionInv'
    <2>1. UNCHANGED <<attempt, outcome>> /\ pc' \in {next, "killed"} BY <1>8 DEF GoTo
    <2>2. \A k \in Attempts : Same(k) BY <1>2, <1>8 DEF Same
    <2>3. /\ pc = "login" => Silent(attempt)'
          /\ pc = "send" => LoginSent(attempt)' /\ req'[attempt] = <<>> /\ resp'[attempt] = <<>>
      BY <1>2, <1>4, <1>8, <2>1
      DEF SessionInv, Progress, Silent, LoginSent, LoginAnswered, Kind
    <2>4. Progress' BY <1>1, <2>1, <2>3 DEF Progress
    <2>5. Len(resp[attempt])' <= 2 /\ ShownTrue(attempt)'
      BY <1>2, <1>5, <1>6, <2>1 DEF ShownTrue
    <2> QED BY <1>1, <2>1, <2>2, <2>3, <2>4, <2>5, GoToStep
  <1>9. ASSUME UNCHANGED <<req, sent>>, Finish("failed") PROVE SessionInv'
    BY <1>2, <1>9, FailStep
  <1> QED BY <1>1, <1>7, <1>8, <1>9 DEF SendPacket

\* The header of an answer, or the end of the stream.
LEMMA HeaderStep ==
  ASSUME TypeOK, SessionInv, LoginHeader \/ ReplyHeader
  PROVE  SessionInv'
  <1>1. PICK next \in {"loginBody", "replyBody"} :
          /\ ReadHeader(pc, next)
          /\ \/ next = "loginBody" /\ pc = "loginHeader"
             \/ next = "replyBody" /\ pc = "replyHeader"
    BY DEF LoginHeader, ReplyHeader, ReadHeader
  <1>2. UNCHANGED <<up, req, session, executed, sent, attempt, outcome>> /\ pc' = next
    BY <1>1 DEF ReadHeader, GoTo
  <1>3. attempt \in Attempts BY AdmAssumption DEF TypeOK, Attempts
  <1>4. Conversation(attempt) BY <1>3 DEF SessionInv
  <1>5. /\ Silent(attempt) => Silent(attempt)'
        /\ LoginSent(attempt) => LoginSent(attempt)'
        /\ CommandSent(attempt) => CommandSent(attempt)'
        /\ ShownTrue(attempt) => ShownTrue(attempt)'
        /\ Len(resp[attempt])' <= 2
        /\ resp[attempt] = <<>> => resp'[attempt] = <<>>
        /\ \A k \in Attempts \ {attempt} : Same(k)
        /\ \/ Len(resp'[attempt]) <= 1 /\ resp[attempt] # <<>>
           \/ EndOfStream /\ resp' = resp
    <2>1. CASE EndOfStream /\ UNCHANGED resp
      <3>1. \A k \in Attempts : Same(k) BY <1>2, <2>1 DEF Same
      <3> QED BY <1>2, <1>3, <1>4, <2>1, <3>1, SameConversation
           DEF Conversation, Silent, LoginSent, CommandSent, ShownTrue,
               LoginAnswered, CommandAnswered, Kind
    <2>2. CASE resp[attempt] # <<>> /\ resp' = [resp EXCEPT ![attempt] = Tail(@)]
      <3>1. /\ \A k \in Attempts : IF k = attempt THEN Shorter(k) ELSE Same(k)
            /\ Len(resp'[attempt]) = Len(resp[attempt]) - 1
        BY <1>2, <1>3, <2>2, TailShorter
      <3>2. Len(resp'[attempt]) <= 1 /\ Len(resp'[attempt]) <= 2
        <4>1. Len(resp[attempt]) <= 2 /\ Len(resp[attempt]) \in Nat
          BY <1>3, <1>4, <3>1 DEF Conversation, Shorter
        <4> QED BY <3>1, <4>1
      <3>3. Silent(attempt) => Silent(attempt)'
        BY <1>2, <1>3, <3>1, ShorterConversation DEF Silent
      <3>4. LoginSent(attempt) => LoginSent(attempt)'
        BY <1>2, <1>3, <3>1, ShorterConversation DEF LoginSent
      <3>5. CommandSent(attempt) => CommandSent(attempt)'
        BY <1>2, <1>3, <3>1, ShorterConversation DEF CommandSent
      <3>6. ShownTrue(attempt) => ShownTrue(attempt)'
        BY <1>2 DEF ShownTrue
      <3> QED BY <1>2, <2>2, <3>1, <3>2, <3>3, <3>4, <3>5, <3>6
    <2> QED BY <1>1, <2>1, <2>2 DEF ReadHeader
  <1>6. Progress'
    <2>1. CASE next = "loginBody"
      <3>1. Silent(attempt) \/ LoginSent(attempt) BY <1>1, <2>1 DEF SessionInv, Progress
      <3>2. Len(resp'[attempt]) <= 1 /\ (req[attempt] = <<>> \/ ~ up[attempt])
        <4>1. CASE EndOfStream /\ resp' = resp
          <5>1. Len(resp'[attempt]) = 0 BY <4>1, EmptySeq DEF EndOfStream
          <5> QED BY <4>1, <5>1 DEF EndOfStream
        <4>2. CASE Len(resp'[attempt]) <= 1 /\ resp[attempt] # <<>>
          BY <3>1, <4>2 DEF Silent, LoginSent
        <4> QED BY <1>5, <4>1, <4>2
      <3> QED BY <1>2, <1>5, <2>1, <3>1, <3>2 DEF Progress
    <2>2. CASE next = "replyBody"
      BY <1>1, <1>2, <1>5, <2>2 DEF SessionInv, Progress
    <2> QED BY <2>1, <2>2
  <1> QED BY <1>2, <1>4, <1>5, <1>6, GoToStep DEF Conversation

\* The body of an answer: [OK] to the login, or the answer to the command.
LEMMA BodyStep ==
  ASSUME TypeOK, SessionInv, LoginBody \/ ReplyBody
  PROVE  SessionInv'
  <1>1. attempt \in Attempts /\ Conversation(attempt)
    BY AdmAssumption DEF TypeOK, Attempts, SessionInv
  <1>2. PICK kind \in Answers :
          /\ ReadBody(pc, kind)
          /\ \/ pc = "loginBody" /\ IF kind = "OK" THEN GoTo("send") ELSE Finish("failed")
             \/ pc = "replyBody" /\ Finish(kind)
    BY DEF LoginBody, ReplyBody, ReadBody
  <1>3. /\ resp[attempt] # <<>> /\ Head(resp[attempt])[2] = kind
        /\ resp' = [resp EXCEPT ![attempt] = Tail(@)]
        /\ UNCHANGED <<up, req, session, executed, sent, nLoop>>
    BY <1>2 DEF ReadBody, argVars
  <1>4. /\ \A k \in Attempts : IF k = attempt THEN Shorter(k) ELSE Same(k)
        /\ Len(resp[attempt]) = 1 => resp'[attempt] = <<>>
    BY <1>1, <1>3, TailShorter
  <1>5. 1 \in 1..Len(resp[attempt]) /\ Kind(attempt, 1) = kind
        /\ Len(resp[attempt]) \in Nat
    <2>1. resp[attempt] \in Seq(Halves) BY <1>1 DEF TypeOK, Halves
    <2> QED BY <1>3, <2>1, TailHalves DEF Kind
  <1>6. \A k \in Attempts : /\ Silent(k)' \/ LoginSent(k)' \/ CommandSent(k)'
                            /\ Len(resp[k])' <= 2
                            /\ k > attempt => Silent(k)'
    <2>1. ASSUME NEW k \in Attempts
          PROVE  /\ Silent(k)' \/ LoginSent(k)' \/ CommandSent(k)'
                 /\ Len(resp[k])' <= 2
                 /\ k > attempt => Silent(k)'
      <3>1. Conversation(k) BY DEF SessionInv
      <3>2. CASE Shorter(k) BY <3>1, <3>2, ShorterConversation DEF Conversation
      <3>3. CASE Same(k) BY <3>1, <3>3, SameConversation DEF Conversation, Same
      <3> QED BY <1>4, <3>2, <3>3
    <2> QED BY <2>1
  <1>7. CASE pc = "loginBody" /\ kind = "OK"
    <2>1. GoTo("send") BY <1>2, <1>7
    <2>2. /\ LoginSent(attempt) /\ Len(resp[attempt]) <= 1 /\ req[attempt] = <<>>
          /\ session[attempt]
      BY <1>3, <1>5, <1>7 DEF SessionInv, Progress, Silent, LoginSent, LoginAnswered
    <2>3. resp'[attempt] = <<>>
      <3>1. \A n \in Nat : n <= 1 /\ 1 \in 1..n => n = 1 OBVIOUS
      <3>2. Len(resp[attempt]) = 1 BY <1>5, <2>2, <3>1
      <3> QED BY <1>4, <3>2
    <2>4. LoginSent(attempt)'
      BY <1>1, <1>3, <1>4, <2>1, <2>2, ShorterConversation
      DEF GoTo, LoginSent, LoginAnswered, Kind
    <2>5. Progress' BY <1>3, <2>1, <2>2, <2>3, <2>4 DEF Progress, GoTo
    <2>6. ShownTrue(attempt)'
      BY <1>1, <1>3, <2>1 DEF Conversation, ShownTrue, GoTo
    <2>7. Len(resp[attempt])' <= 2 BY <1>1, <1>6, <2>1 DEF GoTo
    <2>8. \A k \in Attempts \ {attempt} : Same(k) BY <1>4
    <2> QED BY <2>1, <2>4, <2>5, <2>6, <2>7, <2>8, GoToStep DEF GoTo
  <1>8. ASSUME NEW what, Finish(what),
               what \in Answers => what = kind /\ pc = "replyBody"
        PROVE  SessionInv'
    <2>1. outcome' = [outcome EXCEPT ![attempt] = what] BY <1>8 DEF Finish
    <2>2. ASSUME NEW k \in Attempts PROVE ShownTrue(k)'
      <3>1. CASE k # attempt
        <4>1. outcome'[k] = outcome[k] BY <2>1, <3>1 DEF TypeOK
        <4>2. Same(k) /\ Conversation(k) BY <1>4, <3>1 DEF SessionInv
        <4> QED BY <4>1, <4>2, SameConversation DEF Conversation
      <3>2. CASE k = attempt /\ what \in Answers
        <4>1. CommandSent(k) /\ req[k] = <<>> /\ resp[k] # <<>>
          BY <1>3, <1>8, <3>2, OneRequest DEF SessionInv, Progress, CommandSent
        <4>2. IF kind = "error" THEN executed[k] = 0 ELSE executed[k] = 1
          BY <1>3, <1>5, <3>2, <4>1 DEF CommandSent, CommandAnswered
        <4>3. outcome'[k] = kind BY <1>8, <2>1, <3>2 DEF TypeOK
        <4> QED BY <1>3, <4>1, <4>2, <4>3 DEF ShownTrue, CommandSent
      <3>3. CASE k = attempt /\ what \notin Answers
        <4>1. outcome'[k] = what BY <2>1, <3>3 DEF TypeOK
        <4> QED BY <3>3, <4>1 DEF ShownTrue
      <3> QED BY <3>1, <3>2, <3>3
    <2> QED BY <1>3, <1>6, <1>8, <2>2, FinishStep
  <1>9. "failed" \notin Answers BY DEF Answers
  <1> QED BY <1>2, <1>7, <1>8, <1>9

\* Every step keeps each conversation, and how far the client is in its own.
LEMMA SessionStep == TypeOK /\ AtStart /\ SessionInv /\ [Next]_vars => SessionInv'
  <1> SUFFICES ASSUME TypeOK, AtStart, SessionInv, [Next]_vars PROVE SessionInv'
    OBVIOUS
  <1>1. CASE Server BY <1>1, ServeStep, CloseStep DEF Server
  <1>2. ASSUME NEW at, TimedOut(at) \/ NoPacket(at) PROVE SessionInv'
    BY <1>2, FailStep DEF TimedOut, NoPacket, serverVars, argVars
  <1>3. CASE Program
    BY <1>2, <1>3, StartStep, SendStep, HeaderStep, BodyStep
    DEF Program, LoginTimedOut, ReplyTimedOut, LoginNoPacket, ReplyNoPacket
  <1>4. CASE UNCHANGED vars
    <2>1. \A k \in Attempts : Same(k) BY <1>4 DEF vars, serverVars, Same
    <2>2. attempt \in Attempts /\ UNCHANGED <<pc, attempt, outcome, up, resp, req, session>>
      BY <1>4, AdmAssumption DEF vars, serverVars, TypeOK, Attempts
    <2>3. \A k \in Attempts : Conversation(k)'
      BY <2>1, <2>2, SameConversation DEF SessionInv, Conversation, Same
    <2>4. /\ Silent(attempt) => Silent(attempt)'
          /\ LoginSent(attempt) => LoginSent(attempt)'
          /\ CommandSent(attempt) => CommandSent(attempt)'
      BY <2>1, <2>2
      DEF Same, Silent, LoginSent, CommandSent, LoginAnswered, CommandAnswered, Kind
    <2> QED BY <2>2, <2>3, <2>4 DEF SessionInv, Progress
  <1> QED BY <1>1, <1>3, <1>4 DEF Next

\* The types and the conversations, of every state.
LEMMA Conversations == Spec => [](TypeOK /\ AtStart /\ SessionInv)
  <1>1. Init => AtStart /\ SessionInv
    <2> SUFFICES ASSUME Init PROVE AtStart /\ SessionInv
      OBVIOUS
    <2>1. AtStart /\ attempt \in Attempts BY AdmAssumption DEF Init, AtStart, Attempts
    <2>2. \A k \in Attempts : Conversation(k)
      BY DEF Init, Conversation, Silent, ShownTrue, Answers
    <2>3. Progress BY <2>1 DEF Init, Progress, Silent
    <2> QED BY <2>1, <2>2, <2>3 DEF SessionInv
  <1>2. Init => TypeOK BY InitTypes
  <1> QED BY <1>1, <1>2, TypeStep, SessionStep, PTL DEF Spec

\* A command is asked for once per attempt, and only after the password was
\* accepted on the same connection (Login before SendCommand in ExecuteCommand).
THEOREM LoginIsFirst == Spec => []LoginFirst
  <1>1. <<>> # <<"login", "command">> /\ <<"login">> # <<"login", "command">>
    OBVIOUS
  <1>2. SessionInv => LoginFirst
    BY <1>1 DEF SessionInv, Conversation, Silent, LoginSent, CommandSent, LoginFirst
  <1> QED BY <1>2, Conversations, PTL

\* A command is executed at most once per attempt, whatever was lost or late: the
\* program never sends it again (ExecuteCommand gives up at the first failure).
THEOREM OnceAtMost == Spec => []ExecutedOnce
  <1>1. SessionInv => ExecutedOnce
    BY DEF SessionInv, Conversation, Silent, LoginSent, CommandSent, ExecutedOnce
  <1> QED BY <1>1, Conversations, PTL

\* What the user is shown as the answer is the answer to the command of that
\* attempt, never what is left of the login (ReadPacket takes the next halves).
THEOREM ShownIsTrue == Spec => []AnswerIsTrue
  <1>1. SessionInv => AnswerIsTrue
    BY DEF SessionInv, Conversation, ShownTrue, AnswerIsTrue, Answers
  <1> QED BY <1>1, Conversations, PTL

-----------------------------------------------------------------------------
(* AdmClient implements AtMostOnce *)

\* The attempts before the one main is at have been reported, the ones after it
\* have not, and the program is still running only if this one has not either.
Reports ==
  /\ \A k \in Attempts : /\ k < attempt => outcome[k] # "none"
                         /\ k > attempt => outcome[k] = "none"
  /\ pc \notin {"exited", "killed"} => outcome[attempt] = "none"

Unreported == pc \notin {"exited", "killed"}

\* An attempt is reported, or none is: the program goes on, or has ended.
LEMMA ReportStep ==
  ASSUME TypeOK, Reports, Unreported,
         \/ \E what \in Answers \cup {"failed"} : Finish(what)
         \/ UNCHANGED <<attempt, outcome>>
  PROVE  Reports'
  <1>1. /\ attempt \in Attempts /\ attempt \in Nat /\ \A k \in Attempts : k \in Nat
        /\ outcome \in [Attempts -> Answers \cup {"none", "failed"}]
    BY AdmAssumption DEF TypeOK, Attempts
  <1>2. CASE UNCHANGED <<attempt, outcome>>
    BY <1>2 DEF Reports, Unreported
  <1>3. ASSUME NEW what \in Answers \cup {"failed"}, Finish(what) PROVE Reports'
    <2>1. outcome' = [outcome EXCEPT ![attempt] = what] /\ what # "none"
      BY <1>3 DEF Finish, Answers
    <2>2. \A k \in Attempts : outcome'[k] = IF k = attempt THEN what ELSE outcome[k]
      BY <1>1, <2>1
    <2>3. \/ attempt' = attempt + 1 /\ attempt' \in Attempts
          \/ attempt' = attempt /\ pc' = "exited"
      BY <1>1, <1>3, AdmAssumption DEF Finish, TypeOK, Attempts
    <2>4. \A k \in Attempts : /\ k < attempt' => outcome'[k] # "none"
                              /\ k > attempt' => outcome'[k] = "none"
      BY <1>1, <2>1, <2>2, <2>3 DEF Reports
    <2>5. pc' \notin {"exited", "killed"} => outcome'[attempt'] = "none"
      BY <1>1, <2>2, <2>3 DEF Reports
    <2> QED BY <2>4, <2>5 DEF Reports
  <1> QED BY <1>2, <1>3

\* Whatever the program does, it was running, and at most reports its attempt.
ReportsOnce ==
  /\ Unreported
  /\ \/ \E what \in Answers \cup {"failed"} : Finish(what)
     \/ UNCHANGED <<attempt, outcome>>

LEMMA ProgramReports == Program => ReportsOnce
  <1>1. ASSUME ParseArgs \/ Connect PROVE ReportsOnce
    BY <1>1 DEF ParseArgs, Connect, GoTo, Unreported, ReportsOnce
  <1>2. ASSUME Login \/ SendCommand PROVE ReportsOnce
    BY <1>2 DEF Login, SendCommand, SendPacket, GoTo, Unreported, ReportsOnce
  <1>3. ASSUME LoginHeader \/ ReplyHeader PROVE ReportsOnce
    BY <1>3 DEF LoginHeader, ReplyHeader, ReadHeader, GoTo, Unreported, ReportsOnce
  <1>4. ASSUME LoginBody \/ ReplyBody PROVE ReportsOnce
    BY <1>4 DEF LoginBody, ReplyBody, ReadBody, GoTo, Unreported, ReportsOnce
  <1>5. ASSUME LoginTimedOut \/ ReplyTimedOut \/ LoginNoPacket \/ ReplyNoPacket
        PROVE  ReportsOnce
    BY <1>5 DEF LoginTimedOut, ReplyTimedOut, LoginNoPacket, ReplyNoPacket,
                TimedOut, NoPacket, Unreported, ReportsOnce
  <1> QED BY <1>1, <1>2, <1>3, <1>4, <1>5 DEF Program

LEMMA ReportsKept == TypeOK /\ Reports /\ [Next]_vars => Reports'
  <1> SUFFICES ASSUME TypeOK, Reports, [Next]_vars PROVE Reports'
    OBVIOUS
  <1>1. CASE Program BY <1>1, ProgramReports, ReportStep DEF ReportsOnce
  <1>2. CASE Server \/ UNCHANGED vars
    <2>1. UNCHANGED <<pc, attempt, outcome>>
      BY <1>2 DEF Server, ServeLogin, ServeCommand, Serve, ServerCloses, vars
    <2> QED BY <2>1 DEF Reports
  <1> QED BY <1>1, <1>2 DEF Next

\* What the promise sees of a step.
Asked == {k \in Attempts : sent[k] = <<"login", "command">>}

\* A report is a verdict of the attempt main is at, and a true one.
LEMMA SayStep ==
  ASSUME TypeOK, SessionInv, SessionInv', Reports, Unreported,
         NEW what \in Answers \cup {"failed"}, Finish(what), UNCHANGED <<sent, executed>>
  PROVE  Promise!Next
  <1>1. attempt \in Attempts /\ attempt \in Nat /\ \A k \in Attempts : k \in Nat
    BY AdmAssumption DEF TypeOK, Attempts
  <1>2. outcome' = [outcome EXCEPT ![attempt] = what] BY DEF Finish
  <1>3. what # "failed" => /\ sent[attempt] = <<"login", "command">>
                           /\ executed[attempt] = IF what = "error" THEN 0 ELSE 1
    <2>1. outcome'[attempt] = what BY <1>1, <1>2 DEF TypeOK
    <2>2. \A k \in Attempts : outcome'[k] \in Answers =>
            /\ sent'[k] = <<"login", "command">>
            /\ executed'[k] = IF outcome'[k] = "error" THEN 0 ELSE 1
      BY DEF SessionInv, Conversation, ShownTrue
    <2> QED BY <1>1, <2>1, <2>2
  <1>4. Promise!Current(attempt) BY <1>1 DEF Promise!Current, Reports, Unreported
  <1>5. Promise!Say(attempt, what) BY <1>1, <1>2, <1>3, <1>4 DEF Promise!Say
  <1> QED BY <1>1, <1>5 DEF Promise!Next

\* A request that is sent asks for the call, unless it is the login.
LEMMA AskStep ==
  ASSUME TypeOK, SessionInv, SessionInv', Reports, Login \/ SendCommand
  PROVE  Promise!Next \/ UNCHANGED Promise!vars
  <1>1. attempt \in Attempts /\ attempt \in Nat /\ \A k \in Attempts : k \in Nat
    BY AdmAssumption DEF TypeOK, Attempts
  <1>2. PICK request \in Requests, next \in {"loginHeader", "replyHeader"} :
          /\ SendPacket(pc, request, next)
          /\ \/ request = "login" /\ pc = "login"
             \/ request = "command" /\ pc = "send"
    BY DEF Login, SendCommand, SendPacket, Requests
  <1>3. UNCHANGED executed /\ Unreported BY <1>2 DEF SendPacket, Unreported
  <1>4. ASSUME UNCHANGED sent, Finish("failed") PROVE Promise!Next
    BY <1>3, <1>4, SayStep
  <1>5. ASSUME UNCHANGED <<sent, outcome>> PROVE UNCHANGED Promise!vars
    BY <1>3, <1>5 DEF Promise!vars
  <1>6. ASSUME sent' = [sent EXCEPT ![attempt] = Append(@, request)], UNCHANGED outcome
        PROVE  Promise!Next \/ UNCHANGED Promise!vars
    <2>1. \A k \in Attempts \ {attempt} : sent'[k] = sent[k]
      BY <1>6 DEF TypeOK
    <2>2. /\ pc = "login" => sent[attempt] = <<>>
          /\ pc = "send" => sent[attempt] = <<"login">>
      BY DEF SessionInv, Progress, Silent, LoginSent
    <2>3. CASE pc = "login"
      <3>1. sent'[attempt] = <<"login">>
        BY <1>1, <1>2, <1>6, <2>2, <2>3, OneRequest DEF TypeOK, Requests
      <3>2. \A k \in Attempts : sent[k] = <<"login", "command">>
                                  <=> sent'[k] = <<"login", "command">>
        BY <2>1, <2>2, <2>3, <3>1, OneRequest
      <3>3. Asked' = Asked BY <3>2 DEF Asked
      <3> QED BY <1>3, <1>6, <3>3 DEF Promise!vars, Asked
    <2>4. CASE pc = "send"
      <3>1. sent'[attempt] = <<"login", "command">>
        BY <1>1, <1>2, <1>6, <2>2, <2>4, OneRequest DEF TypeOK, Requests
      <3>2. attempt \notin Asked /\ Asked' = Asked \cup {attempt}
        <4>1. <<"login">> # <<"login", "command">> OBVIOUS
        <4> QED BY <1>1, <2>1, <2>2, <2>4, <3>1, <4>1 DEF Asked
      <3>3. PICK k \in Attempts : k = attempt BY <1>1
      <3>4. Promise!Current(k)
        BY <1>1, <1>3, <3>3 DEF Promise!Current, Reports, Unreported
      <3>5. Promise!Ask(k) BY <1>3, <1>6, <3>2, <3>3, <3>4 DEF Promise!Ask, Asked
      <3> QED BY <3>5 DEF Promise!Next
    <2>5. pc = "login" \/ pc = "send" BY <1>2
    <2> QED BY <2>3, <2>4, <2>5
  <1> QED
    <2>1. \/ sent' = [sent EXCEPT ![attempt] = Append(@, request)] /\ UNCHANGED outcome
          \/ UNCHANGED <<sent, outcome>>
          \/ UNCHANGED sent /\ Finish("failed")
      BY <1>2 DEF SendPacket, GoTo
    <2> QED BY <1>4, <1>5, <1>6, <2>1

\* The server executes what was asked for, and has not been answered for.
LEMMA ExecuteStep ==
  ASSUME TypeOK, SessionInv, NEW k \in Attempts, ServeCommand(k)
  PROVE  Promise!Next \/ UNCHANGED Promise!vars
  <1>1. UNCHANGED <<sent, outcome>> BY DEF ServeCommand, Serve
  <1>2. CASE UNCHANGED executed BY <1>1, <1>2 DEF Promise!vars
  <1>3. CASE executed' = [executed EXCEPT ![k] = @ + 1]
    <2>1. Conversation(k) /\ req[k] # <<>> /\ Head(req[k]) = "command"
      BY DEF SessionInv, ServeCommand, Serve
    <2>2. CommandSent(k) /\ executed[k] = 0
      BY <2>1, OneRequest DEF Conversation, Silent, LoginSent, CommandSent, Requests
    <2>3. k \in Asked BY <2>2 DEF CommandSent, Asked
    <2>4. outcome[k] \in {"none", "failed"}
      BY <2>1 DEF Conversation, ShownTrue, TypeOK
    <2>5. executed' = [executed EXCEPT ![k] = 1] BY <1>3, <2>2
    <2>6. Promise!Execute(k) BY <1>1, <2>2, <2>3, <2>4, <2>5 DEF Promise!Execute, Asked
    <2> QED BY <2>6 DEF Promise!Next
  <1> QED BY <1>2, <1>3 DEF ServeCommand

LEMMA PromiseStep ==
  TypeOK /\ SessionInv /\ SessionInv' /\ Reports /\ [Next]_vars
    => [Promise!Next]_(Promise!vars)
  <1> SUFFICES ASSUME TypeOK, SessionInv, SessionInv', Reports, [Next]_vars
               PROVE  Promise!Next \/ UNCHANGED Promise!vars
    OBVIOUS
  <1>1. ASSUME UNCHANGED <<sent, executed, outcome>> PROVE UNCHANGED Promise!vars
    BY <1>1 DEF Promise!vars
  <1>2. ASSUME Unreported, NEW what \in Answers \cup {"failed"}, Finish(what),
               UNCHANGED <<sent, executed>>
        PROVE  Promise!Next
    BY <1>2, SayStep
  <1>3. CASE ParseArgs BY <1>1, <1>3 DEF ParseArgs, serverVars
  <1>4. CASE Connect BY <1>1, <1>2, <1>4 DEF Connect, GoTo, Unreported
  <1>5. CASE Login \/ SendCommand BY <1>5, AskStep
  <1>6. CASE LoginHeader \/ ReplyHeader
    BY <1>1, <1>6 DEF LoginHeader, ReplyHeader, ReadHeader, GoTo
  <1>7. CASE LoginBody \/ ReplyBody
    BY <1>1, <1>2, <1>7 DEF LoginBody, ReplyBody, ReadBody, GoTo, Unreported
  <1>8. CASE LoginTimedOut \/ ReplyTimedOut \/ LoginNoPacket \/ ReplyNoPacket
    BY <1>2, <1>8
    DEF LoginTimedOut, ReplyTimedOut, LoginNoPacket, ReplyNoPacket, TimedOut, NoPacket,
        Unreported, serverVars
  <1>9. ASSUME NEW k \in Attempts, ServeLogin(k) \/ ServerCloses(k)
        PROVE  UNCHANGED Promise!vars
    BY <1>1, <1>9 DEF ServeLogin, Serve, ServerCloses
  <1>10. CASE UNCHANGED vars BY <1>1, <1>10 DEF vars, serverVars
  <1> QED
    BY <1>3, <1>4, <1>5, <1>6, <1>7, <1>8, <1>9, <1>10, ExecuteStep
    DEF Next, Program, Server

\* The loop of main over ExecuteCommand is a sequence of calls at most once each,
\* with true and final verdicts, whatever the server and the network do.
THEOREM RefinesAtMostOnce == Spec => CallsAtMostOnce
  <1>1. Init => Reports /\ Promise!Init
    <2> SUFFICES ASSUME Init PROVE Reports /\ Promise!Init
      OBVIOUS
    <2>1. Asked = {} BY OneRequest DEF Init, Asked
    <2>2. attempt \in Attempts BY AdmAssumption DEF Init, Attempts
    <2>3. Reports BY <2>2 DEF Init, Reports, Attempts
    <2>4. Promise!Init BY <2>1 DEF Init, Promise!Init, Asked
    <2> QED BY <2>3, <2>4
  <1>2. TypeOK /\ Reports /\ [Next]_vars => Reports' BY ReportsKept
  <1>3. TypeOK /\ SessionInv /\ SessionInv' /\ Reports /\ [Next]_vars
          => [Promise!Next]_(Promise!vars)
    BY PromiseStep
  <1> QED BY <1>1, <1>2, <1>3, Conversations, PTL DEF Spec, CallsAtMostOnce, Promise!Spec
=============================================================================
