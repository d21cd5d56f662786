------------------------- MODULE JBinlogClientProofs -------------------------
(***************************************************************************)
(* What JBinlogClient promises for every kind of entry and every number of *)
(* packets and failures: its types, that the client speaks the protocol,   *)
(* that the report of the shutdown hook is honest, and that the entries    *)
(* are printed in order and, before a heartbeat ends the run, completely.  *)
(***************************************************************************)
EXTENDS JBinlogClient, SequenceTheorems, FiniteSetTheorems, TLAPS

Replies == {"CLIENTAUTHENTICATION", "DUMP"}

Places == {"main", "open", "handshake", "auth", "ack", "dump", "recv", "handle", "count",
           "countKind", "body", "close", "ended", "usage", "halted"}

\* A MESSAGES packet carries an entry; the packet in hand is one the server sent.
Carries(pkt) == pkt \in Packets /\ (pkt.type = "MESSAGES" => pkt.body \in Entries)

TypeInv ==
  /\ TypeOK /\ pc \in Places
  /\ \A i \in 1..Len(stream) : Carries(stream[i])
  /\ packet = {} \/ \E pkt : packet = {pkt} /\ Carries(pkt)

\* The packet that Receive looks at is one the server has sent.
LEMMA PacketIndex ==
  ASSUME NEW t \in Nat, NEW n \in Nat, t + 1 <= 2 * n
  PROVE  (t \div 2) + 1 \in 1..n
  OBVIOUS

\* The packet in hand, or none, is a set of at most one.
LEMMA AtMostOne ==
  /\ Cardinality({}) <= 1
  /\ \A pkt : Cardinality({pkt}) <= 1
  BY FS_EmptySet, FS_Singleton

LEMMA SendTypes ==
  ASSUME TypeInv, NEW pkt, Carries(pkt), Send(pkt)
  PROVE  /\ stream' \in Seq(Packets) /\ arrived \in 0..(2 * Len(stream'))
         /\ \A i \in 1..Len(stream') : Carries(stream'[i])
         /\ Len(stream') = Len(stream) + 1 /\ Len(stream) \in Nat
         /\ \A i \in 1..Len(stream) : stream'[i] = stream[i]
  <1>1. stream \in Seq(Packets) /\ pkt \in Packets BY DEF TypeInv, TypeOK, Carries
  <1>2. /\ Append(stream, pkt) \in Seq(Packets) /\ Len(Append(stream, pkt)) = Len(stream) + 1
        /\ \A i \in 1..Len(stream) : Append(stream, pkt)[i] = stream[i]
        /\ Append(stream, pkt)[Len(stream) + 1] = pkt
    BY <1>1, AppendProperties
  <1>3. Len(stream) \in Nat BY <1>1, LenProperties
  <1>4. stream' = Append(stream, pkt) BY DEF Send
  <1>5. ASSUME NEW i \in 1..Len(stream') PROVE Carries(stream'[i])
    <2>1. CASE i \in 1..Len(stream) BY <1>2, <1>4, <2>1 DEF TypeInv
    <2>2. CASE i = Len(stream) + 1 BY <1>2, <1>4, <2>2
    <2> QED BY <1>2, <1>3, <1>4, <2>1, <2>2
  <1>6. arrived \in 0..(2 * Len(stream)) BY DEF TypeInv, TypeOK
  <1> QED BY <1>2, <1>3, <1>4, <1>5, <1>6

LEMMA ReceiveTypes ==
  ASSUME TypeInv, NEW at, NEW type, NEW next \in Places, NEW expected,
         Receive(at, type, next, expected)
  PROVE  TypeInv'
  <1>1. /\ arrived \in Nat /\ taken \in Nat /\ taken <= arrived
        /\ Len(stream) \in Nat /\ arrived <= 2 * Len(stream)
    BY LenProperties DEF TypeInv, TypeOK
  <1>2. UNCHANGED <<netVars, outVars, hookVars, argVars, faults>> BY DEF Receive
  <1>3. /\ taken' \in 0..arrived /\ pc' \in Places
        /\ packet' = {} \/ \E pkt : packet' = {pkt} /\ Carries(pkt)
    <2>1. CASE Whole
      <3>1. (taken \div 2) + 1 \in 1..Len(stream) BY <1>1, <2>1, PacketIndex DEF Whole
      <3>2. Carries(stream[(taken \div 2) + 1]) BY <3>1 DEF TypeInv
      <3>3. CASE taken' = taken + 2
        <4>1. taken' \in 0..arrived BY <1>1, <2>1, <3>3 DEF Whole
        <4> QED BY <2>1, <3>2, <4>1, <1>1 DEF Receive, Whole, Short, EndOfStream, Places
      <3> QED BY <1>1, <2>1, <3>3 DEF Receive, Whole, Short, EndOfStream
    <2>2. CASE ~ Whole
      BY <1>1, <2>2 DEF Receive, Whole, Short, EndOfStream, Places
    <2> QED BY <2>1, <2>2
  <1>4. packet' \subseteq Packets /\ Cardinality(packet') <= 1
    BY <1>3, AtMostOne DEF Carries
  <1> QED BY <1>2, <1>3, <1>4 DEF TypeInv, TypeOK, netVars, outVars, hookVars, argVars

LEMMA SendToServerTypes ==
  ASSUME TypeInv, NEW at, NEW type \in Replies, NEW next \in Places,
         SendToServer(at, type, next)
  PROVE  TypeInv'
  <1>1. toServer' \in Seq(Replies)
    <2>1. toServer \in Seq(Replies) BY DEF TypeInv, TypeOK, Replies
    <2>2. Append(toServer, type) \in Seq(Replies) BY <2>1, AppendProperties
    <2> QED BY <2>1, <2>2 DEF SendToServer
  <1>2. pc' \in Places /\ packet' = {} BY DEF SendToServer, Places
  <1>3. UNCHANGED <<srv, stream, arrived, taken, outVars, hookVars, argVars, faults>>
    BY DEF SendToServer
  <1> QED BY <1>1, <1>2, <1>3, AtMostOne
       DEF TypeInv, TypeOK, Replies, outVars, hookVars, argVars

\* Every step of the server, of main and of the hook keeps the types.
LEMMA TypeStep == TypeInv /\ [Next]_vars => TypeInv'
  <1> SUFFICES ASSUME TypeInv, [Next]_vars PROVE TypeInv'
    OBVIOUS
  <1> USE DEF TypeInv
  <1>1. Fault \/ UNCHANGED faults => faults' \in 0..MaxFaults
    BY ClientAssumption DEF Fault, TypeOK
  <1>2. CASE Greet \/ SendAck \/ SendBinlog
    <2>1. PICK pkt : Carries(pkt) /\ Send(pkt)
      BY <1>2 DEF Greet, SendAck, SendBinlog, Carries, Packets
    <2>2. /\ stream' \in Seq(Packets) /\ arrived \in 0..(2 * Len(stream'))
          /\ \A i \in 1..Len(stream') : Carries(stream'[i])
      BY <2>1, SendTypes
    <2>3. srv' \in {"listen", "greeted", "acked", "dumping", "closed"}
      BY <1>2 DEF Greet, SendAck, SendBinlog
    <2>4. UNCHANGED <<arrived, toServer, mainVars, outVars, hookVars, argVars, faults>>
      BY <1>2 DEF Greet, SendAck, SendBinlog
    <2> QED BY <2>2, <2>3, <2>4 DEF TypeOK, mainVars, outVars, hookVars, argVars
  <1>3. CASE ServerFails
    <2>1. UNCHANGED <<arrived, toServer, mainVars, outVars, hookVars, argVars>>
      BY <1>3 DEF ServerFails
    <2>2. faults' \in 0..MaxFaults BY <1>1, <1>3 DEF ServerFails
    <2>3. CASE UNCHANGED stream
      BY <1>3, <2>1, <2>2, <2>3 DEF ServerFails, TypeOK, mainVars, outVars, hookVars, argVars
    <2>4. CASE Send([type |-> "SHUTDOWN", body |-> "none"]) /\ UNCHANGED srv
      <3>1. Carries([type |-> "SHUTDOWN", body |-> "none"]) BY DEF Carries, Packets
      <3>2. /\ stream' \in Seq(Packets) /\ arrived \in 0..(2 * Len(stream'))
            /\ \A i \in 1..Len(stream') : Carries(stream'[i])
        BY <2>4, <3>1, SendTypes
      <3> QED BY <2>1, <2>2, <2>4, <3>2 DEF TypeOK, mainVars, outVars, hookVars, argVars
    <2> QED BY <1>3, <2>3, <2>4 DEF ServerFails
  <1>4. CASE Arrive
    <2>1. Len(stream) \in Nat BY LenProperties DEF TypeOK
    <2> QED BY <1>4, <2>1 DEF Arrive, TypeOK, mainVars, outVars, hookVars, argVars
  <1>5. CASE ParseArgs \/ Open \/ Close
    BY <1>1, <1>5
    DEF ParseArgs, Open, Close, TypeOK, Places, netVars, mainVars, outVars, hookVars, argVars
  <1>6. CASE RecvHandshake BY <1>6, ReceiveTypes DEF RecvHandshake, Places
  <1>7. CASE RecvAck BY <1>7, ReceiveTypes DEF RecvAck, Places
  <1>8. CASE RecvBinlog BY <1>8, ReceiveTypes DEF RecvBinlog, Places
  <1>9. CASE SendAuth BY <1>9, SendToServerTypes DEF SendAuth, Replies, Places
  <1>10. CASE SendDump BY <1>10, SendToServerTypes DEF SendDump, Replies, Places
  <1>11. CASE HandleHeartbeat \/ PrintBody
    BY <1>11, AtMostOne
    DEF HandleHeartbeat, PrintBody, TypeOK, Places, netVars, outVars, hookVars, argVars
  <1>12. CASE PrintEntry
    <2>1. PICK m \in packet : m.type = "MESSAGES" /\ printed' = Append(printed, m.body)
      BY <1>12 DEF PrintEntry
    <2>2. m.body \in Entries BY <2>1 DEF Carries
    <2>3. printed' \in Seq(Entries) BY <2>1, <2>2, AppendProperties DEF TypeOK
    <2>4. pc' \in Places BY <1>12 DEF PrintEntry, Places
    <2> QED BY <1>12, <2>3, <2>4 DEF PrintEntry, TypeOK, netVars, hookVars, argVars
  <1>13. CASE CountTotal \/ CountKind
    <2>1. stat' \in [Counted -> Nat]
      <3>1. stat \in [Counted -> Nat] BY DEF TypeOK
      <3>2. \A c \in Counted : stat[c] + 1 \in Nat BY <3>1
      <3>3. CASE CountTotal BY <3>1, <3>2, <3>3 DEF CountTotal
      <3>4. CASE CountKind
        <4>1. /\ stat' = [c \in Counted |-> stat'[c]]
              /\ \A c \in Counted : stat'[c] \in {stat[c], stat[c] + 1}
          BY <3>4 DEF CountKind
        <4>2. \A c \in Counted : stat[c] \in Nat BY <3>1
        <4> QED BY <3>2, <4>1, <4>2
      <3> QED BY <1>13, <3>3, <3>4
    <2>2. pc' \in Places BY <1>13 DEF CountTotal, CountKind, Places
    <2> QED BY <1>13, <2>2, <2>1 DEF CountTotal, CountKind, TypeOK, netVars, hookVars, argVars
  <1>14. CASE StartHook \/ Interrupt
    <2>1. faults' \in 0..MaxFaults /\ seen' \in [Counted -> Nat] /\ interrupted' \in BOOLEAN
      BY <1>1, <1>14 DEF StartHook, Interrupt, TypeOK
    <2>2. hookPc' \in 0..5 BY <1>14 DEF StartHook, Interrupt
    <2>3. UNCHANGED <<netVars, mainVars, outVars, report, argVars>>
      BY <1>14 DEF StartHook, Interrupt
    <2> QED BY <2>1, <2>2, <2>3 DEF TypeOK, netVars, mainVars, outVars, argVars
  <1>15. CASE HookLine
    <2>1. PICK v \in Nat, c \in Counted : report' = [report EXCEPT ![c] = v]
      <3>1. hookPc \in 1..4 /\ Counters[hookPc] \in Counted
        BY <1>15 DEF HookLine, Counters, Counted
      <3>2. \A v \in seen[Counters[hookPc]]..stat[Counters[hookPc]] : v \in Nat
        BY <3>1 DEF TypeOK
      <3> QED BY <1>15, <3>1, <3>2 DEF HookLine
    <2>2. report' \in [Counted -> Nat] BY <2>1 DEF TypeOK
    <2>3. hookPc' \in 0..5 BY <1>15 DEF HookLine
    <2>4. seen' \in [Counted -> Nat]
      <3>1. flushed \in [Counted -> Nat] /\ seen \in [Counted -> Nat] BY DEF TypeOK
      <3>2. seen' \in {seen, flushed} BY <1>15 DEF HookLine
      <3> QED BY <3>1, <3>2
    <2> QED BY <1>15, <2>2, <2>3, <2>4 DEF HookLine, TypeOK, netVars, mainVars, outVars, argVars
  <1>16. CASE Halt
    BY <1>16 DEF Halt, TypeOK, Places, netVars, outVars, hookVars, argVars
  <1>17. CASE UNCHANGED vars
    BY <1>17 DEF vars, TypeOK, netVars, mainVars, outVars, hookVars, argVars
  <1> QED
    BY <1>2, <1>3, <1>4, <1>5, <1>6, <1>7, <1>8, <1>9, <1>10, <1>11, <1>12, <1>13, <1>14,
       <1>15, <1>16, <1>17 DEF Next, Environment, Main, Hook

LEMMA InitTypes == Init => TypeInv
  <1> SUFFICES ASSUME Init PROVE TypeInv
    OBVIOUS
  <1>1. stream \in Seq(Packets) /\ toServer \in Seq({"CLIENTAUTHENTICATION", "DUMP"})
        /\ printed \in Seq(Entries) /\ Len(stream) = 0
    BY EmptySeq DEF Init
  <1>2. Zero \in [Counted -> Nat] BY DEF Zero
  <1>3. packet \subseteq Packets /\ Cardinality(packet) <= 1 BY AtMostOne DEF Init
  <1>4. arrived \in 0..(2 * Len(stream)) /\ taken \in 0..arrived /\ faults \in 0..MaxFaults
    BY <1>1, ClientAssumption DEF Init
  <1>5. \A i \in 1..Len(stream) : Carries(stream[i]) BY <1>1
  <1>6. /\ stat \in [Counted -> Nat] /\ flushed \in [Counted -> Nat]
        /\ seen \in [Counted -> Nat] /\ report \in [Counted -> Nat]
    BY <1>2 DEF Init
  <1>7. /\ srv \in {"listen", "greeted", "acked", "dumping", "closed"} /\ pc \in Places
    BY DEF Init, Places
  <1>8. hookPc = 0 /\ packet = {} BY DEF Init
  <1>9. interrupted \in BOOLEAN BY DEF Init
  <1>10. hookPc \in 0..5 BY <1>8
  <1> QED BY <1>1, <1>3, <1>4, <1>5, <1>6, <1>7, <1>8, <1>9, <1>10 DEF TypeInv, TypeOK

\* The types hold in every state.
THEOREM TypeCorrect == Spec => []TypeOK
  <1>1. TypeInv => TypeOK BY DEF TypeInv
  <1> QED BY <1>1, InitTypes, TypeStep, PTL DEF Spec
-----------------------------------------------------------------------------
(* The protocol *)

Greeted == taken >= 2 /\ stream # <<>> /\ stream[1].type = "HANDSHAKE"
Acked == taken >= 4 /\ Len(stream) >= 2 /\ stream[2].type = "ACK"
AuthSent == toServer = <<"CLIENTAUTHENTICATION">>
DumpSent == toServer = <<"CLIENTAUTHENTICATION", "DUMP">>

\* What the client has sent, and what it has read before it did.
SentInTurn ==
  \/ toServer = <<>>
  \/ AuthSent /\ Greeted
  \/ DumpSent /\ Greeted /\ Acked

\* How far main is in the handshake.
Turn ==
  /\ SentInTurn
  /\ pc \in {"main", "open", "handshake"} => taken = 0 /\ toServer = <<>>
  /\ pc = "auth" => taken = 2 /\ toServer = <<>> /\ Greeted
  /\ pc = "ack" => taken = 2 /\ AuthSent
  /\ pc = "dump" => AuthSent /\ Greeted /\ Acked

LEMMA ReplySequences ==
  /\ Append(<<>>, "CLIENTAUTHENTICATION") = <<"CLIENTAUTHENTICATION">>
  /\ Append(<<"CLIENTAUTHENTICATION">>, "DUMP") = <<"CLIENTAUTHENTICATION", "DUMP">>
  <1>1. Append(<<>>, "CLIENTAUTHENTICATION") = <<"CLIENTAUTHENTICATION">> OBVIOUS
  <1>2. ASSUME NEW s \in Seq(Replies), Len(s) = 1, s[1] = "CLIENTAUTHENTICATION"
        PROVE  Append(s, "DUMP") = <<"CLIENTAUTHENTICATION", "DUMP">>
    <2>1. "DUMP" \in Replies /\ <<"CLIENTAUTHENTICATION", "DUMP">> \in Seq(Replies)
      BY DEF Replies
    <2>2. /\ Append(s, "DUMP") \in Seq(Replies) /\ Len(Append(s, "DUMP")) = Len(s) + 1
          /\ \A i \in 1..Len(s) : Append(s, "DUMP")[i] = s[i]
          /\ Append(s, "DUMP")[Len(s) + 1] = "DUMP"
      BY <2>1, AppendProperties
    <2>3. /\ Len(Append(s, "DUMP")) = Len(<<"CLIENTAUTHENTICATION", "DUMP">>)
          /\ \A i \in 1..Len(Append(s, "DUMP")) :
               Append(s, "DUMP")[i] = <<"CLIENTAUTHENTICATION", "DUMP">>[i]
      BY <1>2, <2>2
    <2> QED BY <2>1, <2>2, <2>3, SeqEqual
  <1>3. /\ <<"CLIENTAUTHENTICATION">> \in Seq(Replies)
        /\ Len(<<"CLIENTAUTHENTICATION">>) = 1
        /\ <<"CLIENTAUTHENTICATION">>[1] = "CLIENTAUTHENTICATION"
    BY DEF Replies
  <1> QED BY <1>1, <1>2, <1>3

LEMMA ReplyDiffer ==
  /\ <<>> # <<"CLIENTAUTHENTICATION">>
  /\ <<"CLIENTAUTHENTICATION">> # <<"CLIENTAUTHENTICATION", "DUMP">>
  OBVIOUS

\* What has been read stays read, and what was sent stays sent.
LEMMA Advance ==
  ASSUME TypeInv, SentInTurn, UNCHANGED toServer, taken' \in Nat, taken' >= taken,
         stream' = stream \/ \E pkt : Carries(pkt) /\ Send(pkt)
  PROVE  SentInTurn' /\ (Greeted => Greeted') /\ (Acked => Acked')
  <1>1. taken \in Nat /\ Len(stream) \in Nat /\ (stream # <<>> => 1 \in 1..Len(stream))
    BY LenProperties, EmptySeq DEF TypeInv, TypeOK
  <1>2. /\ Len(stream') \in Nat /\ Len(stream') >= Len(stream)
        /\ \A i \in 1..Len(stream) : stream'[i] = stream[i]
        /\ stream # <<>> => stream' # <<>>
    <2>1. CASE stream' = stream BY <1>1, <2>1
    <2>2. ASSUME NEW pkt, Carries(pkt), Send(pkt)
          PROVE  /\ Len(stream') \in Nat /\ Len(stream') >= Len(stream)
                 /\ \A i \in 1..Len(stream) : stream'[i] = stream[i]
                 /\ stream' # <<>>
      <3>1. /\ Len(stream') = Len(stream) + 1 /\ stream' \in Seq(Packets)
            /\ \A i \in 1..Len(stream) : stream'[i] = stream[i]
        BY <2>2, SendTypes
      <3> QED BY <1>1, <3>1, EmptySeq
    <2> QED BY <2>1, <2>2
  <1>3. Greeted => Greeted' BY <1>1, <1>2 DEF Greeted
  <1>4. Acked => Acked' BY <1>1, <1>2 DEF Acked
  <1> QED BY <1>3, <1>4 DEF SentInTurn, AuthSent, DumpSent

\* RecvHandshake, RecvAck and RecvBinlog, each at its turn.
LEMMA ReceiveTurn ==
  ASSUME TypeInv, Turn, RecvHandshake \/ RecvAck \/ RecvBinlog
  PROVE  Turn'
  <1>1. /\ arrived \in Nat /\ taken \in Nat /\ taken <= arrived /\ arrived <= 2 * Len(stream)
        /\ stream \in Seq(Packets) /\ Len(stream) \in Nat
    BY LenProperties DEF TypeInv, TypeOK
  <1>2. UNCHANGED <<stream, toServer>> /\ taken' \in Nat /\ taken' >= taken
    BY <1>1 DEF RecvHandshake, RecvAck, RecvBinlog, Receive, Whole, Short, netVars
  <1>3. SentInTurn' /\ (Greeted => Greeted') /\ (Acked => Acked')
    BY <1>2, Advance DEF Turn
  <1>4. CASE pc' = "close" BY <1>3, <1>4 DEF Turn
  <1>5. CASE pc' # "close" /\ RecvHandshake
    <2>1. /\ pc' = "auth" /\ taken = 0 /\ taken' = 2 /\ toServer = <<>>
          /\ stream[(taken \div 2) + 1].type = "HANDSHAKE" /\ Whole
      BY <1>1, <1>5 DEF RecvHandshake, Receive, Turn
    <2>2. (taken \div 2) + 1 = 1 BY <2>1
    <2>3. stream # <<>> BY <1>1, <2>1 DEF Whole
    <2>4. Greeted' BY <1>2, <2>1, <2>2, <2>3 DEF Greeted
    <2> QED BY <1>2, <1>3, <2>1, <2>4 DEF Turn
  <1>6. CASE pc' # "close" /\ RecvAck
    <2>1. /\ pc' = "dump" /\ taken = 2 /\ taken' = 4 /\ AuthSent
          /\ stream[(taken \div 2) + 1].type = "ACK" /\ Whole
      BY <1>1, <1>6 DEF RecvAck, Receive, Turn
    <2>2. (taken \div 2) + 1 = 2 BY <2>1
    <2>3. Len(stream) >= 2 BY <1>1, <2>1 DEF Whole
    <2>4. Acked' BY <1>2, <2>1, <2>2, <2>3 DEF Acked
    <2>5. Greeted' BY <1>3, <2>1, ReplyDiffer DEF Turn, SentInTurn, AuthSent, DumpSent
    <2> QED BY <1>2, <1>3, <2>1, <2>4, <2>5 DEF Turn, AuthSent
  <1>7. CASE pc' # "close" /\ RecvBinlog
    <2>1. pc' = "handle" BY <1>7 DEF RecvBinlog, Receive
    <2> QED BY <1>3, <2>1 DEF Turn
  <1> QED BY <1>4, <1>5, <1>6, <1>7

\* SendAuth and SendDump, each at its turn.
LEMMA SendTurn ==
  ASSUME TypeInv, Turn, SendAuth \/ SendDump
  PROVE  Turn'
  <1>1. UNCHANGED <<stream, taken>> BY DEF SendAuth, SendDump, SendToServer
  <1>2. (Greeted <=> Greeted') /\ (Acked <=> Acked') BY <1>1 DEF Greeted, Acked
  <1>3. CASE UNCHANGED toServer /\ pc' = "close"
    BY <1>2, <1>3 DEF Turn, SentInTurn, AuthSent, DumpSent
  <1>4. CASE SendAuth /\ toServer' = Append(toServer, "CLIENTAUTHENTICATION") /\ pc' = "ack"
    <2>1. taken = 2 /\ toServer = <<>> /\ Greeted
      BY <1>4 DEF Turn, SendAuth, SendToServer
    <2> QED BY <1>1, <1>2, <1>4, <2>1, ReplySequences DEF Turn, SentInTurn, AuthSent
  <1>5. CASE SendDump /\ toServer' = Append(toServer, "DUMP") /\ pc' = "recv"
    <2>1. AuthSent /\ Greeted /\ Acked BY <1>5 DEF Turn, SendDump, SendToServer
    <2> QED BY <1>1, <1>2, <1>5, <2>1, ReplySequences DEF Turn, SentInTurn, AuthSent, DumpSent
  <1> QED BY <1>3, <1>4, <1>5 DEF SendAuth, SendDump, SendToServer

LEMMA TurnStep == TypeInv /\ Turn /\ [Next]_vars => Turn'
  <1> SUFFICES ASSUME TypeInv, Turn, [Next]_vars PROVE Turn'
    OBVIOUS
  <1>1. taken \in Nat BY DEF TypeInv, TypeOK
  <1>2. CASE Environment
    <2>1. UNCHANGED <<pc, taken>>
      BY <1>2 DEF Environment, Greet, SendAck, SendBinlog, ServerFails, Arrive, mainVars
    <2>2. UNCHANGED toServer
      BY <1>2 DEF Environment, Greet, SendAck, SendBinlog, ServerFails, Arrive
    <2>3. stream' = stream \/ \E pkt : Carries(pkt) /\ Send(pkt)
      BY <1>2 DEF Environment, Greet, SendAck, SendBinlog, ServerFails, Arrive, Carries, Packets
    <2>4. SentInTurn' /\ (Greeted => Greeted') /\ (Acked => Acked')
      BY <1>1, <2>1, <2>2, <2>3, Advance DEF Turn
    <2> QED BY <2>1, <2>2, <2>4 DEF Turn, AuthSent
  <1>3. CASE RecvHandshake \/ RecvAck \/ RecvBinlog BY <1>3, ReceiveTurn
  <1>4. CASE SendAuth \/ SendDump BY <1>4, SendTurn
  <1>5. ASSUME UNCHANGED <<stream, taken, toServer>>,
               \/ pc' = pc
               \/ pc' \notin {"main", "open", "handshake", "auth", "ack", "dump"}
               \/ pc = "main" /\ pc' = "open"
               \/ pc = "open" /\ pc' = "handshake"
        PROVE  Turn'
    BY <1>5 DEF Turn, SentInTurn, AuthSent, DumpSent, Greeted, Acked
  <1>6. CASE \/ ParseArgs \/ Open \/ HandleHeartbeat \/ PrintEntry \/ CountTotal \/ CountKind
             \/ PrintBody \/ Close
    <2>1. UNCHANGED <<stream, taken, toServer>>
      BY <1>6
      DEF ParseArgs, Open, HandleHeartbeat, PrintEntry, CountTotal, CountKind, PrintBody, Close,
          netVars
    <2> QED BY <1>5, <1>6, <2>1
         DEF ParseArgs, Open, HandleHeartbeat, PrintEntry, CountTotal, CountKind, PrintBody, Close
  <1>7. CASE Hook \/ Interrupt \/ UNCHANGED vars
    BY <1>5, <1>7 DEF Hook, StartHook, HookLine, Halt, Interrupt, vars, netVars, mainVars
  <1> QED BY <1>2, <1>3, <1>4, <1>6, <1>7 DEF Next, Main

\* The client authenticates after the HANDSHAKE and asks for the dump after the
\* ACK, once (HandShake and DumpBinlog).
THEOREM ProtocolSpoken == Spec => []SpeaksProtocol
  <1>1. Init => Turn
    BY DEF Init, Turn, SentInTurn
  <1>2. Turn => SpeaksProtocol
    BY DEF Turn, SentInTurn, AuthSent, DumpSent, Greeted, Acked, SpeaksProtocol
  <1> QED BY <1>1, <1>2, InitTypes, TypeStep, TurnStep, PTL DEF Spec
-----------------------------------------------------------------------------
(* The report of the shutdown hook *)

Reported == {"total", "insert", "update", "delete"}

\* Does the counter stand for such an entry, and is its turn still to come?
CountedAs(c, entry) == IF c = "total" THEN entry \in RowEntries ELSE entry = c

Pending(c) ==
  IF \/ c = "total" /\ pc = "count"
     \/ c # "total" /\ pc \in {"count", "countKind"} /\ \E m \in packet : m.body = c
  THEN 1 ELSE 0

\* The entry in hand when main counts is one with rows.
InCount ==
  pc \in {"count", "countKind"} => \E m \in packet : packet = {m} /\ m.body \in RowEntries

\* The counters stand for what was printed, but for the entry in hand; main may
\* be halted before it has counted that one.
Booked ==
  \A c \in Reported :
    /\ stat[c] <= CountOf(c)
    /\ pc # "halted" => stat[c] + Pending(c) = CountOf(c)

\* What the hook sees and prints is not more; after the end of main it is all.
ReadBack ==
  /\ \A c \in Reported :
       seen[c] <= stat[c] /\ flushed[c] <= stat[c] /\ report[c] <= stat[c]
  /\ hookPc # 0 /\ ~interrupted =>
       /\ pc \in {"ended", "halted"} /\ seen = stat
       /\ \A c \in Reported : stat[c] = CountOf(c)
       /\ \A i \in 1..4 : i < hookPc => report[Counters[i]] = stat[Counters[i]]

ReportInv == InCount /\ Booked /\ ReadBack

Numbers ==
  /\ stat \in [Counted -> Nat] /\ flushed \in [Counted -> Nat]
  /\ seen \in [Counted -> Nat] /\ report \in [Counted -> Nat]
  /\ Reported \subseteq Counted
  /\ \A c \in Reported : CountOf(c) \in Nat

LEMMA CountIsNat == TypeInv => Numbers
  <1> SUFFICES ASSUME TypeInv PROVE Numbers
    OBVIOUS
  <1>1. ASSUME NEW c PROVE CountOf(c) \in Nat
    <2> DEFINE S == {i \in 1..Len(printed) :
                      IF c = "total" THEN printed[i] \in RowEntries ELSE printed[i] = c}
    <2>1. Len(printed) \in Nat BY LenProperties DEF TypeInv, TypeOK
    <2>2. IsFiniteSet(1..Len(printed)) BY <2>1, FS_Interval
    <2>3. S \in SUBSET (1..Len(printed)) OBVIOUS
    <2>4. IsFiniteSet(S) BY <2>2, <2>3, FS_Subset
    <2>5. Cardinality(S) \in Nat BY <2>4, FS_CardinalityType
    <2> QED BY <2>5 DEF CountOf
  <1>2. /\ stat \in [Counted -> Nat] /\ flushed \in [Counted -> Nat]
        /\ seen \in [Counted -> Nat] /\ report \in [Counted -> Nat]
    BY DEF TypeInv, TypeOK
  <1>3. Reported \subseteq Counted BY DEF Reported, Counted
  <1> QED BY <1>1, <1>2, <1>3 DEF Numbers

\* One more entry is printed: the counters that stand for it are due one more.
LEMMA CountAppend ==
  ASSUME TypeInv, NEW entry \in Entries, printed' = Append(printed, entry), NEW c
  PROVE  CountOf(c)' = CountOf(c) + (IF CountedAs(c, entry) THEN 1 ELSE 0)
  <1> DEFINE n == Len(printed)
             S == {i \in 1..n : CountedAs(c, printed[i])}
             T == {i \in 1..Len(printed') : CountedAs(c, printed'[i])}
  <1>1. n \in Nat BY LenProperties DEF TypeInv, TypeOK
  <1>2. /\ Len(printed') = n + 1 /\ printed'[n + 1] = entry
        /\ \A i \in 1..n : printed'[i] = printed[i]
    BY AppendProperties DEF TypeInv, TypeOK
  <1>3. CountOf(c) = Cardinality(S) /\ CountOf(c)' = Cardinality(T)
    BY DEF CountOf, CountedAs
  <1>4. IsFiniteSet(S) /\ Cardinality(S) \in Nat /\ n + 1 \notin S
    <2>1. IsFiniteSet(1..n) BY <1>1, FS_Interval
    <2>2. S \in SUBSET (1..n) OBVIOUS
    <2>3. IsFiniteSet(S) BY <2>1, <2>2, FS_Subset
    <2> QED BY <1>1, <2>2, <2>3, FS_CardinalityType
  <1>5. T = IF CountedAs(c, entry) THEN S \cup {n + 1} ELSE S
    <2>1. \A i \in 1..(n + 1) : i \in 1..n \/ i = n + 1 BY <1>1
    <2>2. \A i \in 1..n : i \in 1..(n + 1) /\ i # n + 1 BY <1>1
    <2>3. n + 1 \in 1..(n + 1) BY <1>1
    <2>4. \A i \in 1..n : CountedAs(c, printed'[i]) <=> CountedAs(c, printed[i])
      BY <1>2 DEF CountedAs
    <2>5. CountedAs(c, printed'[n + 1]) <=> CountedAs(c, entry) BY <1>2 DEF CountedAs
    <2>6. ASSUME NEW i PROVE i \in T <=> i \in (IF CountedAs(c, entry) THEN S \cup {n + 1} ELSE S)
      BY <1>2, <2>1, <2>2, <2>3, <2>4, <2>5
    <2> QED BY <2>6
  <1>6. Cardinality(S \cup {n + 1}) = Cardinality(S) + 1 BY <1>4, FS_AddElement
  <1> HIDE DEF S, T, n
  <1> QED BY <1>3, <1>4, <1>5, <1>6

\* Steps that neither print nor count nor start the hook.
LEMMA IdleStep ==
  ASSUME TypeInv, ReportInv,
         UNCHANGED <<printed, stat, seen, report, hookPc, interrupted>>,
         flushed' = flushed \/ flushed' = stat,
         pc \notin {"count", "countKind"}, pc' \notin {"count", "countKind"},
         pc = "halted" => pc' = "halted",
         pc \in {"ended", "halted"} => pc' \in {"ended", "halted"}
  PROVE  ReportInv'
  <1>1. \A c : CountOf(c)' = CountOf(c) BY DEF CountOf
  <1>2. \A c \in Reported : Pending(c) = 0 /\ Pending(c)' = 0 BY DEF Pending
  <1>3. Booked' BY <1>1, <1>2 DEF ReportInv, Booked
  <1>4. InCount' BY DEF InCount
  <1>5. \A c \in Reported :
          seen'[c] <= stat'[c] /\ flushed'[c] <= stat'[c] /\ report'[c] <= stat'[c]
    BY CountIsNat DEF ReportInv, ReadBack, Numbers
  <1>6. ReadBack' BY <1>1, <1>5 DEF ReportInv, ReadBack
  <1> QED BY <1>3, <1>4, <1>6 DEF ReportInv

LEMMA SameReport ==
  ASSUME ReportInv, UNCHANGED <<mainVars, outVars, hookVars>>
  PROVE  ReportInv'
  BY DEF mainVars, outVars, hookVars, ReportInv, InCount, Booked, ReadBack, Pending, CountOf

\* PrintBinlog prints an entry, and then counts it, if it has rows, in two steps.
LEMMA PrintStep ==
  ASSUME TypeInv, ReportInv, PrintEntry
  PROVE  ReportInv'
  <1>1. PICK m \in packet :
          /\ m.type = "MESSAGES" /\ printed' = Append(printed, m.body)
          /\ pc' = IF m.body \in RowEntries THEN "count" ELSE "body"
    BY DEF PrintEntry
  <1>2. packet = {m} /\ packet' = {m} /\ m.body \in Entries
    BY <1>1 DEF TypeInv, Carries, PrintEntry
  <1>3. pc = "handle" /\ UNCHANGED <<stat, flushed, seen, report, hookPc, interrupted>>
    BY DEF PrintEntry, hookVars
  <1>4. ASSUME NEW c \in Reported
        PROVE  stat'[c] <= CountOf(c)' /\ stat'[c] + Pending(c)' = CountOf(c)'
    <2>1. CountOf(c)' = CountOf(c) + (IF CountedAs(c, m.body) THEN 1 ELSE 0)
      BY <1>1, <1>2, CountAppend
    <2>2. stat[c] + 0 = CountOf(c)
      <3>1. Pending(c) = 0 BY <1>3 DEF Pending
      <3> QED BY <1>3, <3>1 DEF ReportInv, Booked
    <2>3. Pending(c)' = IF CountedAs(c, m.body) THEN 1 ELSE 0
      <3>1. c # "total" /\ m.body = c => m.body \in RowEntries BY DEF Reported, RowEntries
      <3> QED BY <1>1, <1>2, <3>1 DEF Pending, CountedAs
    <2>4. stat[c] \in Nat /\ CountOf(c) \in Nat BY CountIsNat DEF Numbers
    <2> QED BY <1>3, <2>1, <2>2, <2>3, <2>4
  <1>5. Booked' BY <1>4 DEF Booked
  <1>6. InCount' BY <1>1, <1>2 DEF InCount
  <1>7. hookPc = 0 \/ interrupted BY <1>3 DEF ReportInv, ReadBack
  <1>8. ReadBack' BY <1>3, <1>7 DEF ReportInv, ReadBack
  <1> QED BY <1>5, <1>6, <1>8 DEF ReportInv

LEMMA CountStep ==
  ASSUME TypeInv, ReportInv, CountTotal \/ CountKind
  PROVE  ReportInv'
  <1>1. PICK m \in packet : packet = {m} /\ m.body \in RowEntries
    BY DEF ReportInv, InCount, CountTotal, CountKind
  <1>2. /\ UNCHANGED <<printed, flushed, seen, report, hookPc, interrupted, packet>>
        /\ pc \in {"count", "countKind"}
        /\ pc' \in {"countKind", "body"}
        /\ \A c : CountOf(c)' = CountOf(c)
    BY DEF CountTotal, CountKind, hookVars, CountOf
  <1>3. ASSUME NEW c \in Reported
        PROVE  stat'[c] = stat[c] + Pending(c) - Pending(c)' /\ stat[c] <= stat'[c]
    <2>1. c \in Counted /\ stat[c] \in Nat BY CountIsNat DEF Numbers
    <2>2. CASE CountTotal
      <3>1. pc = "count" /\ pc' = "countKind" BY <2>2 DEF CountTotal
      <3>2. stat' = [stat EXCEPT !["total"] = @ + 1] BY <2>2 DEF CountTotal
      <3>3. stat'[c] = IF c = "total" THEN stat[c] + 1 ELSE stat[c]
        BY <2>1, <3>2, CountIsNat DEF Numbers
      <3>4. CASE c = "total"
        <4>1. Pending(c) = 1 /\ Pending(c)' = 0 BY <3>1, <3>4 DEF Pending
        <4> QED BY <2>1, <3>3, <3>4, <4>1
      <3>5. CASE c # "total"
        <4>1. Pending(c) = Pending(c)' /\ Pending(c) \in Nat BY <1>2, <3>1, <3>5 DEF Pending
        <4> QED BY <2>1, <3>3, <3>5, <4>1
      <3> QED BY <3>4, <3>5
    <2>3. CASE CountKind
      <3>1. pc = "countKind" /\ pc' = "body" BY <2>3 DEF CountKind
      <3>2. stat' = [d \in Counted |->
                       IF d \in {m.body, IF m.body = "ddl" THEN "ddl" ELSE "dml"}
                       THEN stat[d] + 1 ELSE stat[d]]
        BY <1>1, <2>3 DEF CountKind
      <3>3. c \notin {"ddl", "dml"} BY DEF Reported
      <3>4. stat'[c] = IF c = m.body THEN stat[c] + 1 ELSE stat[c] BY <2>1, <3>2, <3>3
      <3>5. m.body # "total" BY <1>1 DEF RowEntries
      <3>6. Pending(c) = (IF c = m.body THEN 1 ELSE 0) /\ Pending(c)' = 0
        BY <1>1, <3>1, <3>5 DEF Pending
      <3> QED BY <2>1, <3>4, <3>6
    <2> QED BY <2>2, <2>3
  <1>4. ASSUME NEW c \in Reported
        PROVE  stat'[c] <= CountOf(c)' /\ stat'[c] + Pending(c)' = CountOf(c)'
    <2>1. stat[c] + Pending(c) = CountOf(c) BY <1>2 DEF ReportInv, Booked
    <2>2. /\ stat[c] \in Nat /\ CountOf(c) \in Nat
          /\ Pending(c) \in {0, 1} /\ Pending(c)' \in {0, 1}
      BY CountIsNat DEF Numbers, Pending
    <2> QED BY <1>2, <1>3, <2>1, <2>2
  <1>5. Booked' BY <1>4 DEF Booked
  <1>6. InCount' BY <1>1, <1>2 DEF InCount
  <1>7. \A c \in Reported :
          seen'[c] <= stat'[c] /\ flushed'[c] <= stat'[c] /\ report'[c] <= stat'[c]
    <2>1. ASSUME NEW c \in Reported
          PROVE  seen'[c] <= stat'[c] /\ flushed'[c] <= stat'[c] /\ report'[c] <= stat'[c]
      <3>1. /\ seen[c] \in Nat /\ flushed[c] \in Nat /\ report[c] \in Nat /\ stat[c] \in Nat
            /\ seen[c] <= stat[c] /\ flushed[c] <= stat[c] /\ report[c] <= stat[c]
        BY CountIsNat DEF Numbers, ReportInv, ReadBack
      <3>2. stat'[c] \in Int /\ stat[c] <= stat'[c]
        <4>1. Pending(c) \in Int /\ Pending(c)' \in Int BY DEF Pending
        <4> QED BY <1>3, <3>1, <4>1
      <3> QED BY <1>2, <3>1, <3>2
    <2> QED BY <2>1
  <1>8. hookPc = 0 \/ interrupted BY <1>2 DEF ReportInv, ReadBack
  <1>9. ReadBack' BY <1>2, <1>7, <1>8 DEF ReadBack
  <1> QED BY <1>5, <1>6, <1>9 DEF ReportInv

\* The hook starts and prints its lines; then the JVM halts.
LEMMA HookStep ==
  ASSUME TypeInv, ReportInv, Hook \/ Interrupt
  PROVE  ReportInv'
  <1>1. /\ UNCHANGED <<printed, stat, flushed, packet>>
        /\ pc' = pc \/ pc' = "halted"
        /\ \A c : CountOf(c)' = CountOf(c)
    BY DEF Hook, StartHook, HookLine, Halt, Interrupt, outVars, mainVars, CountOf
  <1>2. Booked'
    <2>1. pc' # "halted" => pc' = pc /\ \A c : Pending(c)' = Pending(c) BY <1>1 DEF Pending
    <2> QED BY <1>1, <2>1 DEF ReportInv, Booked
  <1>3. InCount' BY <1>1 DEF ReportInv, InCount
  <1>4. CASE StartHook
    <2>1. pc = "ended" /\ seen' = stat /\ hookPc' = 1 /\ UNCHANGED <<report, pc>>
      BY <1>4 DEF StartHook, mainVars
    <2>2. \A c \in Reported : stat[c] = CountOf(c)
      <3>1. \A c \in Reported : Pending(c) = 0 BY <2>1 DEF Pending
      <3>2. \A c \in Reported : stat[c] \in Nat BY CountIsNat DEF Numbers
      <3> QED BY <2>1, <3>1, <3>2 DEF ReportInv, Booked
    <2>3. \A c \in Reported : stat[c] \in Nat BY CountIsNat DEF Numbers
    <2>4. ReadBack' BY <1>1, <2>1, <2>2, <2>3 DEF ReportInv, ReadBack
    <2> QED BY <1>2, <1>3, <2>4 DEF ReportInv
  <1>5. CASE Interrupt
    <2>1. seen' = flushed /\ interrupted' = TRUE /\ UNCHANGED <<report, pc>>
      BY <1>5 DEF Interrupt, mainVars
    <2>2. ReadBack' BY <1>1, <2>1 DEF ReportInv, ReadBack
    <2> QED BY <1>2, <1>3, <2>2 DEF ReportInv
  <1>6. CASE HookLine
    <2> DEFINE c == Counters[hookPc]
    <2>1. /\ hookPc \in 1..4 /\ hookPc' = hookPc + 1 /\ UNCHANGED <<pc, interrupted>>
          /\ seen' = IF interrupted THEN flushed ELSE seen
      BY <1>6 DEF HookLine, mainVars
    <2>2. PICK v \in seen[c]..stat[c] : report' = [report EXCEPT ![c] = v]
      BY <1>6 DEF HookLine
    <2>3. c \in Reported BY <2>1 DEF Counters, Reported
    <2>4. stat[c] \in Nat /\ seen[c] \in Nat BY <2>3, CountIsNat DEF Numbers
    <2>5. v <= stat[c] /\ (seen[c] = stat[c] => v = stat[c]) BY <2>2, <2>4
    <2>6. report'[c] = v /\ \A d \in Counted \ {c} : report'[d] = report[d]
      BY <2>2, <2>3, CountIsNat DEF Numbers
    <2> HIDE DEF c
    <2>7. \A d \in Reported :
            seen'[d] <= stat'[d] /\ flushed'[d] <= stat'[d] /\ report'[d] <= stat'[d]
      BY <1>1, <2>1, <2>3, <2>5, <2>6, CountIsNat DEF ReportInv, ReadBack, Numbers
    <2>8. ASSUME ~ interrupted, NEW i \in 1..4, i < hookPc'
          PROVE  report'[Counters[i]] = stat'[Counters[i]]
      <3>1. Counters[i] \in Counted BY DEF Counters, Counted
      <3>2. CASE Counters[i] = c BY <1>1, <2>1, <2>5, <2>6, <2>8, <3>2 DEF ReportInv, ReadBack
      <3>3. CASE Counters[i] # c
        <4>1. i < hookPc
          <5>1. i # hookPc BY <3>3 DEF c
          <5> QED BY <2>1, <2>8, <5>1
        <4> QED BY <1>1, <2>1, <2>6, <2>8, <3>1, <3>3, <4>1 DEF ReportInv, ReadBack
      <3> QED BY <3>2, <3>3
    <2>9. ReadBack' BY <1>1, <2>1, <2>7, <2>8 DEF ReportInv, ReadBack
    <2> QED BY <1>2, <1>3, <2>9 DEF ReportInv
  <1>7. CASE Halt
    <2>1. pc' = "halted" /\ UNCHANGED <<seen, report, hookPc, interrupted>>
      BY <1>7 DEF Halt, hookVars
    <2>2. ReadBack' BY <1>1, <2>1 DEF ReportInv, ReadBack
    <2> QED BY <1>2, <1>3, <2>2 DEF ReportInv
  <1> QED BY <1>4, <1>5, <1>6, <1>7 DEF Hook

LEMMA ReportStep == TypeInv /\ ReportInv /\ [Next]_vars => ReportInv'
  <1> SUFFICES ASSUME TypeInv, ReportInv, [Next]_vars PROVE ReportInv'
    OBVIOUS
  <1>1. CASE Environment
    <2>1. UNCHANGED <<mainVars, outVars, hookVars>>
      BY <1>1 DEF Environment, Greet, SendAck, SendBinlog, ServerFails, Arrive
    <2> QED BY <2>1, SameReport
  <1>2. CASE RecvHandshake \/ RecvAck \/ RecvBinlog
    <2>1. /\ UNCHANGED <<outVars, hookVars>> /\ pc \in {"handshake", "ack", "recv"}
          /\ pc' \in {"auth", "dump", "handle", "close"}
      BY <1>2 DEF RecvHandshake, RecvAck, RecvBinlog, Receive
    <2> QED BY <2>1, IdleStep DEF outVars, hookVars
  <1>3. CASE SendAuth \/ SendDump
    <2>1. /\ UNCHANGED <<outVars, hookVars>> /\ pc \in {"auth", "dump"}
          /\ pc' \in {"ack", "recv", "close"}
      BY <1>3 DEF SendAuth, SendDump, SendToServer
    <2> QED BY <2>1, IdleStep DEF outVars, hookVars
  <1>4. CASE ParseArgs \/ Open \/ HandleHeartbeat \/ Close
    <2>1. /\ UNCHANGED <<outVars, hookVars>> /\ pc \in {"main", "open", "handle", "close"}
          /\ pc' \in {"open", "usage", "handshake", "recv", "close", "ended"}
      BY <1>4 DEF ParseArgs, Open, HandleHeartbeat, Close
    <2> QED BY <2>1, IdleStep DEF outVars, hookVars
  <1>5. CASE PrintBody
    <2>1. /\ UNCHANGED <<printed, stat, hookVars>> /\ flushed' = stat
          /\ pc = "body" /\ pc' = "recv"
      BY <1>5 DEF PrintBody
    <2> QED BY <2>1, IdleStep DEF hookVars
  <1>6. CASE UNCHANGED vars BY <1>6, SameReport DEF vars
  <1> QED
    BY <1>1, <1>2, <1>3, <1>4, <1>5, <1>6, PrintStep, CountStep, HookStep DEF Next, Main

\* The statistics never count more than was printed, and are exact when main ran to
\* its end: shutdownHook reads plain fields that main may be changing.
THEOREM ReportIsHonest == Spec => []ReportHonest
  <1>1. Init => ReportInv
    <2> SUFFICES ASSUME Init PROVE ReportInv
      OBVIOUS
    <2>1. \A c \in Reported : CountOf(c) = 0
      <3>1. ASSUME NEW c \in Reported PROVE CountOf(c) = 0
        <4>1. {i \in 1..Len(printed) :
                IF c = "total" THEN printed[i] \in RowEntries ELSE printed[i] = c} = {}
          BY DEF Init
        <4> QED BY <4>1, FS_EmptySet DEF CountOf
      <3> QED BY <3>1
    <2>2. \A c \in Reported : Zero[c] = 0 BY DEF Zero, Reported, Counted
    <2>3. \A c \in Reported : Pending(c) = 0 BY DEF Init, Pending
    <2> QED BY <2>1, <2>2, <2>3 DEF Init, ReportInv, InCount, Booked, ReadBack
  <1>2. TypeInv /\ ReportInv => ReportHonest
    <2> SUFFICES ASSUME TypeInv, ReportInv PROVE ReportHonest
      OBVIOUS
    <2>1. ASSUME NEW i \in 1..4
          PROVE  /\ report[Counters[i]] <= CountOf(Counters[i])
                 /\ hookPc = 5 /\ ~interrupted => report[Counters[i]] = CountOf(Counters[i])
      <3>1. Counters[i] \in Reported BY DEF Counters, Reported
      <3>2. /\ report[Counters[i]] \in Nat /\ stat[Counters[i]] \in Nat
            /\ CountOf(Counters[i]) \in Nat
        BY <3>1, CountIsNat DEF Numbers
      <3> QED BY <3>1, <3>2 DEF ReportInv, Booked, ReadBack
    <2> QED BY <2>1 DEF ReportHonest
  <1> QED BY <1>1, <1>2, InitTypes, TypeStep, ReportStep, PTL DEF Spec
-----------------------------------------------------------------------------
(* The order of the entries *)

Gone == {"close", "ended", "usage", "halted"}

\* The packets main is done with: those it has read, but for the one it handles.
Done == IF pc = "handle" THEN (taken \div 2) - 1 ELSE taken \div 2

\* While main goes on it has printed the entries of the packets it is done with,
\* each read as a whole.
InStep ==
  /\ pc \notin Gone => taken % 2 = 0 /\ Len(printed) = EntriesIn(Done)
  /\ pc = "handle" => taken >= 2 /\ packet = {stream[taken \div 2]}

\* A run that does not wait has passed no heartbeat.
NoHeartbeatPassed ==
  ~fgWait /\ pc \notin Gone => \A i \in 1..Done : stream[i].type # "HEARTBEAT"

OrderInv ==
  /\ PrintedInOrder /\ InStep /\ NoHeartbeatPassed /\ HeartbeatEndIsComplete
  /\ why = "heartbeat" => pc \in Gone

\* The entries among the first n packets of s, and how many they are.
EntriesAt(s, n) == {i \in 1..n : s[i].type = "MESSAGES"}

\* The number of entries grows by one where there is one.
LEMMA EntriesAtNext ==
  ASSUME NEW s, NEW n \in Nat
  PROVE  /\ Cardinality(EntriesAt(s, n)) \in Nat
         /\ Cardinality(EntriesAt(s, n + 1))
              = Cardinality(EntriesAt(s, n)) + (IF s[n + 1].type = "MESSAGES" THEN 1 ELSE 0)
  <1>1. IsFiniteSet(EntriesAt(s, n)) /\ Cardinality(EntriesAt(s, n)) \in Nat
        /\ n + 1 \notin EntriesAt(s, n)
    <2>1. IsFiniteSet(1..n) BY FS_Interval
    <2>2. EntriesAt(s, n) \in SUBSET (1..n) BY DEF EntriesAt
    <2>3. IsFiniteSet(EntriesAt(s, n)) BY <2>1, <2>2, FS_Subset
    <2> QED BY <2>2, <2>3, FS_CardinalityType
  <1>2. EntriesAt(s, n + 1)
          = IF s[n + 1].type = "MESSAGES" THEN EntriesAt(s, n) \cup {n + 1} ELSE EntriesAt(s, n)
    <2>1. \A i : i \in 1..(n + 1) <=> i \in 1..n \/ i = n + 1 OBVIOUS
    <2> QED BY <2>1 DEF EntriesAt
  <1>3. Cardinality(EntriesAt(s, n) \cup {n + 1}) = Cardinality(EntriesAt(s, n)) + 1
    BY <1>1, FS_AddElement
  <1> QED BY <1>1, <1>2, <1>3

LEMMA EntriesInNext ==
  ASSUME NEW n \in Nat
  PROVE  /\ EntriesIn(n) \in Nat
         /\ EntriesIn(n + 1) = EntriesIn(n) + (IF stream[n + 1].type = "MESSAGES" THEN 1 ELSE 0)
  BY EntriesAtNext DEF EntriesIn, EntriesAt

LEMMA EntriesInMonotone ==
  ASSUME NEW n \in Nat, NEW m \in Nat, m <= n
  PROVE  EntriesIn(m) <= EntriesIn(n)
  <1> DEFINE S == {i \in 1..m : stream[i].type = "MESSAGES"}
             T == {i \in 1..n : stream[i].type = "MESSAGES"}
  <1>1. IsFiniteSet(1..n) BY FS_Interval
  <1>2. T \in SUBSET (1..n) /\ S \in SUBSET T OBVIOUS
  <1>3. IsFiniteSet(T) BY <1>1, <1>2, FS_Subset
  <1>4. Cardinality(S) <= Cardinality(T) BY <1>2, <1>3, FS_Subset
  <1> QED BY <1>4 DEF EntriesIn

LEMMA EntriesInSame ==
  ASSUME NEW n \in Nat, \A i \in 1..n : stream'[i] = stream[i]
  PROVE  EntriesIn(n)' = EntriesIn(n)
  <1>1. {i \in 1..n : stream'[i].type = "MESSAGES"} = {i \in 1..n : stream[i].type = "MESSAGES"}
    OBVIOUS
  <1> QED BY <1>1 DEF EntriesIn

\* The numbers that the lemmas below calculate with.
LEMMA Places2 ==
  ASSUME TypeInv
  PROVE  /\ Len(stream) \in Nat /\ Len(printed) \in Nat /\ taken \in Nat
         /\ taken \div 2 \in 0..Len(stream)
  <1>1. Len(stream) \in Nat /\ Len(printed) \in Nat BY LenProperties DEF TypeInv, TypeOK
  <1>2. taken \in Nat /\ taken <= 2 * Len(stream) BY <1>1 DEF TypeInv, TypeOK
  <1> QED BY <1>1, <1>2

\* The server sends, or the network delivers: what was sent before stays the same,
\* and a new entry is one more than what was printed.
LEMMA OrderSent ==
  ASSUME TypeInv, OrderInv, UNCHANGED <<mainVars, printed, fgWait>>,
         stream' = stream \/ \E pkt : Carries(pkt) /\ Send(pkt)
  PROVE  OrderInv'
  <1>n. PICK n \in Nat : n = Len(stream) BY Places2
  <1>1. /\ n \in Nat /\ Len(printed) \in Nat /\ taken \in Nat
        /\ n = Len(stream) /\ taken \div 2 \in 0..n
    BY <1>n, Places2
  <1>2. CASE stream' = stream
    BY <1>2
    DEF OrderInv, PrintedInOrder, InStep, NoHeartbeatPassed, HeartbeatEndIsComplete,
        EntriesIn, Done, mainVars
  <1>3. ASSUME NEW pkt, Carries(pkt), Send(pkt)
        PROVE  OrderInv'
    <2>1. Len(stream') = n + 1 /\ \A i \in 1..n : stream'[i] = stream[i]
      BY <1>1, <1>3, SendTypes
    <2>2. \A k \in 0..n : EntriesIn(k)' = EntriesIn(k)
      BY <1>1, <2>1, EntriesInSame
    <2>3. /\ Len(printed) <= EntriesIn(n) /\ EntriesIn(n) \in Nat
          /\ \A i \in 1..n : stream[i].type = "MESSAGES" /\ EntriesIn(i) <= Len(printed)
                               => printed[EntriesIn(i)] = stream[i].body
      BY <1>1, EntriesInNext DEF OrderInv, PrintedInOrder
    <2>4. EntriesIn(n + 1)' = EntriesIn(n) + (IF stream'[n + 1].type = "MESSAGES" THEN 1 ELSE 0)
      <3>1. /\ EntriesIn(n)' = Cardinality(EntriesAt(stream', n))
            /\ EntriesIn(n + 1)' = Cardinality(EntriesAt(stream', n + 1))
        BY DEF EntriesIn, EntriesAt
      <3> QED BY <1>1, <2>2, <3>1, EntriesAtNext
    <2>5. PrintedInOrder'
      <3> SUFFICES ASSUME NEW i \in 1..(n + 1), stream'[i].type = "MESSAGES",
                          EntriesIn(i)' <= Len(printed)
                   PROVE  printed[EntriesIn(i)'] = stream'[i].body
        BY <1>1, <2>1, <2>3, <2>4 DEF PrintedInOrder, mainVars
      <3>1. i # n + 1
        <4> SUFFICES ASSUME i = n + 1 PROVE FALSE
          OBVIOUS
        <4>1. EntriesIn(n + 1)' = EntriesIn(i)' OBVIOUS
        <4>2. EntriesIn(n + 1)' = EntriesIn(n) + 1 BY <2>4
        <4>3. EntriesIn(n + 1)' <= Len(printed) BY <4>1
        <4>4. Len(printed) \in Nat BY <1>1
        <4> QED BY <2>3, <4>2, <4>3, <4>4
      <3>2. i \in 1..n /\ EntriesIn(i)' = EntriesIn(i) BY <1>1, <2>2, <3>1
      <3> QED BY <2>1, <2>3, <3>2
    <2>6. InStep' /\ NoHeartbeatPassed'
      BY <1>1, <2>1, <2>2 DEF OrderInv, InStep, NoHeartbeatPassed, Done, mainVars
    <2>7. HeartbeatEndIsComplete'
      <3> SUFFICES ASSUME why = "heartbeat" PROVE HeartbeatEndIsComplete'
        BY DEF HeartbeatEndIsComplete, mainVars
      <3>1. PICK h \in 1..n : /\ stream[h].type = "HEARTBEAT"
                              /\ \A i \in 1..(h - 1) : stream[i].type # "HEARTBEAT"
                              /\ Len(printed) = EntriesIn(h - 1)
        BY <1>1 DEF OrderInv, HeartbeatEndIsComplete
      <3>2. h - 1 \in 0..n /\ h \in 1..Len(stream') BY <1>1, <2>1
      <3>3. EntriesIn(h - 1)' = EntriesIn(h - 1) BY <2>2, <3>2
      <3>4. stream'[h].type = "HEARTBEAT" BY <2>1, <3>1
      <3>5. ASSUME NEW i \in 1..(h - 1) PROVE stream'[i].type # "HEARTBEAT"
        <4>1. i \in 1..n BY <1>1
        <4>2. stream'[i] = stream[i] BY <2>1, <4>1
        <4> QED BY <3>1, <4>2
      <3> QED BY <3>1, <3>2, <3>3, <3>4, <3>5 DEF HeartbeatEndIsComplete
    <2> QED BY <2>5, <2>6, <2>7 DEF OrderInv, mainVars
  <1> QED BY <1>2, <1>3

\* A step of main that is not about packets, or the end of main.
LEMMA OrderIdle ==
  ASSUME OrderInv, UNCHANGED <<stream, printed, fgWait>>,
         \/ pc' \in Gone /\ why' # "heartbeat"
         \/ pc' \in Gone /\ why' = why
         \/ /\ UNCHANGED <<taken, why>>
            /\ \/ pc' = pc /\ UNCHANGED packet
               \/ pc # "handle" /\ pc' # "handle" /\ pc \notin Gone
  PROVE  OrderInv'
  BY DEF OrderInv, PrintedInOrder, InStep, NoHeartbeatPassed, HeartbeatEndIsComplete,
         EntriesIn, Done, Gone

\* recvPkg took a packet as a whole: of the handshake, or the next of the dump.
LEMMA OrderReceived ==
  ASSUME TypeInv, OrderInv, RecvHandshake \/ RecvAck \/ RecvBinlog
  PROVE  OrderInv'
  <1> DEFINE t == taken \div 2
  <1>1. UNCHANGED <<stream, printed, fgWait>>
    BY DEF RecvHandshake, RecvAck, RecvBinlog, Receive, netVars, outVars, argVars
  <1>2. CASE pc' = "close"
    <2>1. why' # "heartbeat"
      BY <1>2 DEF RecvHandshake, RecvAck, RecvBinlog, Receive
    <2> QED BY <1>1, <1>2, <2>1, OrderIdle DEF Gone
  <1>3. CASE pc' # "close"
    <2>1. /\ Whole /\ taken' = taken + 2 /\ UNCHANGED why
          /\ packet' = {stream[t + 1]} /\ pc \in {"handshake", "ack", "recv"}
          /\ IF pc = "recv" THEN pc' = "handle"
             ELSE pc' \in {"auth", "dump"} /\ stream[t + 1].type \in {"HANDSHAKE", "ACK"}
      BY <1>3 DEF RecvHandshake, RecvAck, RecvBinlog, Receive
    <2>2. taken \in Nat /\ t \in Nat BY Places2
    <2>3. taken % 2 = 0 /\ Len(printed) = EntriesIn(t) BY <2>1 DEF OrderInv, InStep, Done, Gone
    <2>4. taken' \div 2 = t + 1 /\ taken' % 2 = 0 /\ taken' >= 2 BY <2>1, <2>2, <2>3
    <2>5. \A k : EntriesIn(k)' = EntriesIn(k) BY <1>1 DEF EntriesIn
    <2>6. Done = t /\ Done' = IF pc = "recv" THEN t ELSE t + 1
      BY <2>1, <2>2, <2>4 DEF Done
    <2>7. EntriesIn(t + 1) = EntriesIn(t) + (IF stream[t + 1].type = "MESSAGES" THEN 1 ELSE 0)
          /\ EntriesIn(t) \in Nat
      BY <2>2, EntriesInNext
    <2>8. Len(printed') = EntriesIn(Done)'
      <3> DEFINE d == IF pc = "recv" THEN t ELSE t + 1
      <3>1. EntriesIn(d) = EntriesIn(t) BY <2>1, <2>7
      <3>2. EntriesIn(Done)' = EntriesIn(d) BY <1>1, <2>6 DEF EntriesIn
      <3> QED BY <1>1, <2>3, <3>1, <3>2
    <2>9. InStep' BY <1>1, <2>1, <2>4, <2>8 DEF InStep
    <2>10. NoHeartbeatPassed'
      <3> SUFFICES ASSUME ~fgWait, NEW i \in 1..Done' PROVE stream[i].type # "HEARTBEAT"
        BY <1>1 DEF NoHeartbeatPassed
      <3>1. \A j \in 1..t : stream[j].type # "HEARTBEAT"
        BY <2>1, <2>6 DEF OrderInv, NoHeartbeatPassed, Gone
      <3> QED BY <2>1, <2>2, <2>6, <3>1
    <2>11. PrintedInOrder' /\ HeartbeatEndIsComplete'
      BY <1>1, <2>1 DEF OrderInv, PrintedInOrder, HeartbeatEndIsComplete, EntriesIn
    <2>12. why' # "heartbeat" BY <2>1 DEF OrderInv, Gone
    <2> QED BY <2>9, <2>10, <2>11, <2>12 DEF OrderInv
  <1> QED BY <1>2, <1>3

\* A heartbeat is passed by, or ends the run with the entries before it printed.
LEMMA OrderHeartbeat ==
  ASSUME TypeInv, OrderInv, HandleHeartbeat
  PROVE  OrderInv'
  <1> DEFINE t == taken \div 2
  <1>1. UNCHANGED <<stream, printed, fgWait, taken>> /\ pc = "handle"
    BY DEF HandleHeartbeat, netVars, outVars, argVars
  <1>2. /\ t \in 1..Len(stream) /\ stream[t].type = "HEARTBEAT" /\ taken % 2 = 0
        /\ Len(printed) = EntriesIn(t - 1) /\ t - 1 \in Nat /\ Done = t - 1
    <2>1. packet = {stream[t]} /\ taken >= 2 /\ taken % 2 = 0
          /\ Len(printed) = EntriesIn(Done)
      BY <1>1 DEF OrderInv, InStep, Gone
    <2>2. t \in 1..Len(stream) BY <2>1, Places2
    <2> QED BY <1>1, <2>1, <2>2, Places2 DEF HandleHeartbeat, Done
  <1>3. CASE fgWait
    <2>1. pc' = "recv" /\ UNCHANGED why BY <1>3 DEF HandleHeartbeat
    <2>2. EntriesIn((t - 1) + 1)
            = EntriesIn(t - 1) + (IF stream[(t - 1) + 1].type = "MESSAGES" THEN 1 ELSE 0)
          /\ EntriesIn(t - 1) \in Nat
      BY <1>2, EntriesInNext
    <2>3. EntriesIn(t) = Len(printed) BY <1>2, <2>2
    <2>4. InStep' BY <1>1, <1>2, <2>1, <2>3 DEF InStep, Done, EntriesIn
    <2>5. PrintedInOrder' /\ HeartbeatEndIsComplete' /\ NoHeartbeatPassed'
          /\ why' # "heartbeat"
      BY <1>1, <1>3, <2>1
      DEF OrderInv, PrintedInOrder, HeartbeatEndIsComplete, NoHeartbeatPassed, EntriesIn, Gone
    <2> QED BY <2>4, <2>5 DEF OrderInv
  <1>4. CASE ~fgWait
    <2>1. pc' = "close" BY <1>4 DEF HandleHeartbeat
    <2>2. \A i \in 1..(t - 1) : stream[i].type # "HEARTBEAT"
      BY <1>1, <1>2, <1>4 DEF OrderInv, NoHeartbeatPassed, Gone
    <2>3. HeartbeatEndIsComplete'
      BY <1>1, <1>2, <2>2 DEF HeartbeatEndIsComplete, EntriesIn
    <2>4. PrintedInOrder' BY <1>1 DEF OrderInv, PrintedInOrder, EntriesIn
    <2> QED BY <2>1, <2>3, <2>4 DEF OrderInv, InStep, NoHeartbeatPassed, Gone
  <1> QED BY <1>3, <1>4

\* PrintBinlog prints the entry of the packet after those main is done with.
LEMMA OrderPrinted ==
  ASSUME TypeInv, OrderInv, PrintEntry
  PROVE  OrderInv'
  <1> DEFINE t == taken \div 2
             n == Len(printed)
  <1>1. PICK m \in packet :
          /\ m.type = "MESSAGES" /\ printed' = Append(printed, m.body)
          /\ pc' = IF m.body \in RowEntries THEN "count" ELSE "body"
    BY DEF PrintEntry
  <1>2. UNCHANGED <<stream, fgWait, taken, why>> /\ pc = "handle"
    BY DEF PrintEntry, netVars, argVars
  <1>3. /\ m = stream[t] /\ taken % 2 = 0 /\ n = EntriesIn(t - 1) /\ Done = t - 1
        /\ t \in 1..Len(stream) /\ t - 1 \in Nat
    <2>1. packet = {stream[t]} /\ taken >= 2 /\ taken % 2 = 0 /\ n = EntriesIn(Done)
      BY <1>2 DEF OrderInv, InStep, Gone
    <2>2. t \in 1..Len(stream) BY <2>1, Places2
    <2> QED BY <1>1, <1>2, <2>1, <2>2, Places2 DEF Done
  <1>4. m.body \in Entries BY <1>1, <1>3 DEF TypeInv, Carries
  <1>5. /\ Len(printed') = n + 1 /\ printed'[n + 1] = m.body /\ n \in Nat
        /\ \A k \in 1..n : printed'[k] = printed[k]
    BY <1>1, <1>4, AppendProperties, LenProperties DEF TypeInv, TypeOK
  <1>6. ASSUME NEW i \in 1..Len(stream), stream[i].type = "MESSAGES"
        PROVE  EntriesIn(i - 1) \in Nat /\ EntriesIn(i) = EntriesIn(i - 1) + 1
    <2>1. i - 1 \in Nat /\ (i - 1) + 1 = i BY Places2
    <2>2. EntriesIn(i - 1) \in Nat
          /\ EntriesIn((i - 1) + 1)
               = EntriesIn(i - 1) + (IF stream[(i - 1) + 1].type = "MESSAGES" THEN 1 ELSE 0)
      BY <2>1, EntriesInNext
    <2> QED BY <1>6, <2>1, <2>2
  <1>7. EntriesIn(t) = n + 1 BY <1>1, <1>3, <1>6
  <1>8. \A k : EntriesIn(k)' = EntriesIn(k) BY <1>2 DEF EntriesIn
  <1>9. PrintedInOrder'
    <2>1. n + 1 <= EntriesIn(Len(stream)) BY <1>3, <1>7, EntriesInMonotone, Places2
    <2>2. ASSUME NEW i \in 1..Len(stream), stream[i].type = "MESSAGES", EntriesIn(i) <= n + 1
          PROVE  printed'[EntriesIn(i)] = stream[i].body
      <3>1. EntriesIn(i - 1) \in Nat /\ EntriesIn(i) = EntriesIn(i - 1) + 1 BY <1>6, <2>2
      <3>2. CASE EntriesIn(i) <= n
        <4>1. printed[EntriesIn(i)] = stream[i].body
          BY <2>2, <3>2 DEF OrderInv, PrintedInOrder
        <4> QED BY <1>5, <3>1, <3>2, <4>1
      <3>3. CASE EntriesIn(i) = n + 1
        <4>1. ~(i < t)
          <5> SUFFICES ASSUME i < t PROVE FALSE
            OBVIOUS
          <5>1. EntriesIn(i) <= EntriesIn(t - 1) BY <1>3, EntriesInMonotone, Places2
          <5> QED BY <1>3, <1>5, <3>3, <5>1
        <4>2. ~(t < i)
          <5> SUFFICES ASSUME t < i PROVE FALSE
            OBVIOUS
          <5>1. EntriesIn(t) <= EntriesIn(i - 1) BY <1>3, EntriesInMonotone, Places2
          <5> QED BY <1>5, <1>7, <3>1, <3>3, <5>1
        <4>3. i = t BY <1>3, <4>1, <4>2, Places2
        <4> QED BY <1>3, <1>5, <3>3, <4>3
      <3> QED BY <1>5, <2>2, <3>1, <3>2, <3>3
    <2> QED BY <1>2, <1>5, <1>8, <2>1, <2>2 DEF PrintedInOrder
  <1>10. pc' \in {"count", "body"} BY <1>1
  <1>11. Done' = t BY <1>2, <1>10 DEF Done
  <1>12. InStep'
    <2>1. EntriesIn(Done)' = EntriesIn(t)
      BY <1>2, <1>11 DEF EntriesIn
    <2> QED BY <1>2, <1>3, <1>5, <1>7, <1>10, <2>1 DEF InStep
  <1>13. NoHeartbeatPassed'
    <2> SUFFICES ASSUME ~fgWait, NEW i \in 1..t PROVE stream[i].type # "HEARTBEAT"
      BY <1>2, <1>11 DEF NoHeartbeatPassed
    <2>1. \A j \in 1..(t - 1) : stream[j].type # "HEARTBEAT"
      BY <1>2, <1>3 DEF OrderInv, NoHeartbeatPassed, Gone
    <2> QED BY <1>1, <1>3, <2>1
  <1>14. why' # "heartbeat" BY <1>2 DEF OrderInv, Gone
  <1> QED BY <1>9, <1>12, <1>13, <1>14 DEF OrderInv, HeartbeatEndIsComplete

LEMMA OrderStep == TypeInv /\ OrderInv /\ [Next]_vars => OrderInv'
  <1> SUFFICES ASSUME TypeInv, OrderInv, [Next]_vars PROVE OrderInv'
    OBVIOUS
  <1>1. CASE Environment
    <2>1. UNCHANGED <<mainVars, printed, fgWait>>
      BY <1>1
      DEF Environment, Greet, SendAck, SendBinlog, ServerFails, Arrive, outVars, argVars
    <2>2. stream' = stream \/ \E pkt : Carries(pkt) /\ Send(pkt)
      BY <1>1 DEF Environment, Greet, SendAck, SendBinlog, ServerFails, Arrive, Carries, Packets
    <2> QED BY <2>1, <2>2, OrderSent
  <1>2. CASE RecvHandshake \/ RecvAck \/ RecvBinlog BY <1>2, OrderReceived
  <1>3. CASE SendAuth \/ SendDump
    <2>1. /\ UNCHANGED <<stream, printed, fgWait, taken>> /\ pc \in {"auth", "dump"}
          /\ \/ pc' \in {"ack", "recv"} /\ UNCHANGED why
             \/ pc' = "close" /\ why' = "send_failed"
      BY <1>3 DEF SendAuth, SendDump, SendToServer, outVars, argVars
    <2> QED BY <2>1, OrderIdle DEF Gone
  <1>4. CASE ParseArgs \/ Open \/ Close
    <2>1. /\ UNCHANGED <<stream, printed, fgWait, taken>> /\ pc \in {"main", "open", "close"}
          /\ \/ pc' \in {"open", "handshake"} /\ UNCHANGED why /\ pc # "close"
             \/ pc' \in {"usage", "ended"} /\ UNCHANGED why
             \/ pc' = "close" /\ why' = "no_connection"
      BY <1>4 DEF ParseArgs, Open, Close, netVars, outVars, argVars
    <2> QED BY <2>1, OrderIdle DEF Gone
  <1>5. CASE CountTotal \/ CountKind \/ PrintBody
    <2>1. /\ UNCHANGED <<stream, printed, fgWait, taken, why>>
          /\ pc \in {"count", "countKind", "body"} /\ pc' \in {"countKind", "body", "recv"}
      BY <1>5 DEF CountTotal, CountKind, PrintBody, netVars, outVars, argVars
    <2> QED BY <2>1, OrderIdle DEF Gone
  <1>6. CASE Hook \/ Interrupt \/ UNCHANGED vars
    <2>1. /\ UNCHANGED <<stream, printed, fgWait, taken, why, packet>>
          /\ pc' \in {pc, "halted"}
      BY <1>6
      DEF Hook, StartHook, HookLine, Halt, Interrupt, vars, netVars, mainVars, outVars, argVars
    <2> QED BY <2>1, OrderIdle DEF Gone
  <1> QED BY <1>1, <1>2, <1>3, <1>4, <1>5, <1>6, OrderHeartbeat, OrderPrinted DEF Next, Main

LEMMA OrderInit == Init => OrderInv
  <1> SUFFICES ASSUME Init PROVE OrderInv
    OBVIOUS
  <1>1. Len(stream) = 0 /\ Len(printed) = 0 /\ taken = 0 /\ pc = "main" /\ why = "none"
    BY EmptySeq DEF Init
  <1>2. Done = 0 BY <1>1 DEF Done
  <1>3. EntriesIn(0) = 0
    <2>1. {i \in 1..0 : stream[i].type = "MESSAGES"} = {} OBVIOUS
    <2> QED BY <2>1, FS_EmptySet DEF EntriesIn
  <1> QED
    BY <1>1, <1>2, <1>3
    DEF OrderInv, PrintedInOrder, InStep, NoHeartbeatPassed, HeartbeatEndIsComplete, Gone

\* What the program prints is what the server sent, in its order, with nothing left
\* out or repeated, wherever TCP cuts the packets.
THEOREM PrintsInOrder == Spec => []PrintedInOrder
  <1>1. OrderInv => PrintedInOrder BY DEF OrderInv
  <1> QED BY <1>1, OrderInit, OrderStep, InitTypes, TypeStep, PTL DEF Spec

\* A run ended by a heartbeat has printed what was sent before the heartbeat.
THEOREM EndsComplete == Spec => []HeartbeatEndIsComplete
  <1>1. OrderInv => HeartbeatEndIsComplete BY DEF OrderInv
  <1> QED BY <1>1, OrderInit, OrderStep, InitTypes, TypeStep, PTL DEF Spec
=============================================================================
