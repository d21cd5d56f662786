---------------------------- MODULE JBinlogClient ----------------------------
(***************************************************************************)
(* JBinlogDump/: the program JBinlogDumpS, that is main and the class      *)
(* JBinlogClient (JBinlogDumpS.java) with the printer JBinlogOut.          *)
(*                                                                         *)
(* The client connects to the binlog server, shakes hands, asks for a dump *)
(* and prints what it receives until something ends it; a shutdown hook    *)
(* prints the statistics, on another thread.  The server and TCP are       *)
(* external: a packet travels as a length and a body, and its last bytes   *)
(* may arrive later than its first.                                        *)
(***************************************************************************)
EXTENDS Integers, Sequences, FiniteSets

CONSTANTS
  Entries,      \* the kinds of binlog entry the server sends
  MaxPackets,   \* bound: packets the server sends after the handshake
  MaxFaults     \* bound: failures of the server, the network and the user

ASSUME ClientAssumption == MaxPackets \in Nat /\ MaxFaults \in Nat

\* The server and the connection.
VARIABLES
  srv,          \* "listen", "greeted", "acked", "dumping" or "closed"
  stream,       \* the packets the server has sent
  arrived,      \* the half packets that have reached the client
  toServer      \* the packets the client has sent

\* The client.
VARIABLES
  pc,           \* where the main thread is
  taken,        \* the half packets read from the socket
  packet,       \* the packet in hand, a set of at most one
  why           \* why DumpBinlog ended

\* The printer, and the shutdown hook that reads its statistics.
VARIABLES
  printed,      \* the entries passed to PrintBinlog, in order
  stat,         \* JBinlogOut.Stat
  flushed,      \* its value at the main thread's last println
  interrupted,  \* did a signal start the hook
  hookPc,       \* the hook: 0 not started, else the next line it prints, 5 done
  seen,         \* what the hook is sure to see of the statistics
  report        \* the four numbers the hook has printed

\* The arguments, and the bound.
VARIABLES fgWait, optS, faults

netVars == <<srv, stream, arrived, toServer>>
mainVars == <<pc, taken, packet, why>>
outVars == <<printed, stat, flushed>>
hookVars == <<interrupted, hookPc, seen, report>>
argVars == <<fgWait, optS>>
vars == <<netVars, mainVars, outVars, hookVars, argVars, faults>>

-----------------------------------------------------------------------------
Counters == <<"total", "insert", "update", "delete">>
Counted == {"total", "insert", "update", "delete", "dml", "ddl"}
Zero == [c \in Counted |-> 0]

\* The entries that carry rows (entry type ROWDATA), and the rest.
RowEntries == {"insert", "update", "delete", "query", "ddl"}

Fault == faults < MaxFaults /\ faults' = faults + 1

Connected == pc \notin {"main", "open", "close", "ended", "usage", "halted"}

Init ==
  /\ srv = "listen" /\ stream = <<>> /\ arrived = 0 /\ toServer = <<>>
  /\ pc = "main" /\ taken = 0 /\ packet = {} /\ why = "none"
  /\ printed = <<>> /\ stat = Zero /\ flushed = Zero
  /\ interrupted = FALSE /\ hookPc = 0 /\ seen = Zero /\ report = Zero
  /\ fgWait \in BOOLEAN /\ optS \in {"none", "number", "other"}
  /\ faults = 0

-----------------------------------------------------------------------------
(* The server and the network *)

Send(pkt) == stream' = Append(stream, pkt)

\* A client has connected: HANDSHAKE.
Greet ==
  /\ srv = "listen" /\ Connected
  /\ Send([type |-> "HANDSHAKE", body |-> "none"])
  /\ srv' = "greeted"
  /\ UNCHANGED <<arrived, toServer, mainVars, outVars, hookVars, argVars, faults>>

\* The client's authentication is answered.
SendAck ==
  /\ srv = "greeted" /\ "CLIENTAUTHENTICATION" \in {toServer[i] : i \in 1..Len(toServer)}
  /\ Send([type |-> "ACK", body |-> "none"])
  /\ srv' = "acked"
  /\ UNCHANGED <<arrived, toServer, mainVars, outVars, hookVars, argVars, faults>>

\* After DUMP: binlog entries, and heartbeats while there is nothing to send.
SendBinlog ==
  /\ srv \in {"acked", "dumping"} /\ "DUMP" \in {toServer[i] : i \in 1..Len(toServer)}
  /\ Len(stream) < MaxPackets + 2
  /\ \/ \E e \in Entries : Send([type |-> "MESSAGES", body |-> e])
     \/ Send([type |-> "HEARTBEAT", body |-> "none"])
  /\ srv' = "dumping"
  /\ UNCHANGED <<arrived, toServer, mainVars, outVars, hookVars, argVars, faults>>

\* The server sends something else than the client expects, or closes.
ServerFails ==
  /\ srv # "closed" /\ Fault
  /\ \/ Send([type |-> "SHUTDOWN", body |-> "none"]) /\ UNCHANGED srv
     \/ srv' = "closed" /\ UNCHANGED stream
  /\ UNCHANGED <<arrived, toServer, mainVars, outVars, hookVars, argVars>>

\* The network delivers the next half packet.
Arrive ==
  /\ arrived < 2 * Len(stream)
  /\ arrived' = arrived + 1
  /\ UNCHANGED <<srv, stream, toServer, mainVars, outVars, hookVars, argVars, faults>>

-----------------------------------------------------------------------------
(* main and DumpBinlog *)

\* main parses its options: the value of -S is read from the option "g", which
\* does not exist, so Long.valueOf(null) throws and usage ends the program.
ParseArgs ==
  /\ pc = "main"
  /\ pc' = IF optS = "none" THEN "open" ELSE "usage"
  /\ UNCHANGED <<netVars, taken, packet, why, outVars, hookVars, argVars, faults>>

\* Open: connect.
Open ==
  /\ pc = "open"
  /\ \/ pc' = "handshake" /\ UNCHANGED <<why, faults>>
     \/ pc' = "close" /\ why' = "no_connection" /\ Fault
  /\ UNCHANGED <<netVars, taken, packet, outVars, hookVars, argVars>>

\* recvPkg: readInt waits for the length; read(data) returns the bytes that are
\* there, and fewer than the length is an error, as is the end of the stream.
Whole == arrived - taken >= 2
Short == arrived - taken = 1
EndOfStream == srv = "closed" /\ arrived = 2 * Len(stream) /\ taken = arrived

\* Variant: a packet that is not there in full is skipped, with its rest.
ReceiveDropsShort(at, type, next, expected) ==
  /\ pc = at
  /\ \/ /\ Whole
        /\ LET pkt == stream[(taken \div 2) + 1] IN
             /\ taken' = taken + 2
             /\ \/ /\ pkt.type \in type
                   /\ pc' = next /\ packet' = {pkt} /\ UNCHANGED why
                \/ /\ pkt.type \notin type
                   /\ pc' = "close" /\ packet' = {} /\ why' = expected
        /\ UNCHANGED arrived
     \/ /\ Short /\ taken' = taken + 2 /\ arrived' = taken + 2
        /\ UNCHANGED <<pc, why, packet>>
     \/ /\ EndOfStream /\ UNCHANGED <<taken, arrived>>
        /\ pc' = "close" /\ why' = "end_of_stream" /\ packet' = {}
  /\ UNCHANGED <<srv, stream, toServer, outVars, hookVars, argVars, faults>>

\* Variant: the count read returns is not compared with the length.
ReceiveTrustsLength(at, type, next, expected) ==
  /\ pc = at
  /\ \/ /\ Whole \/ Short
        /\ LET pkt == stream[(taken \div 2) + 1] IN
             /\ taken' = taken + 2
             /\ \/ /\ pkt.type \in type
                   /\ pc' = next /\ packet' = {pkt} /\ UNCHANGED why
                \/ /\ pkt.type \notin type
                   /\ pc' = "close" /\ packet' = {} /\ why' = expected
     \/ /\ EndOfStream /\ UNCHANGED taken
        /\ pc' = "close" /\ why' = "end_of_stream" /\ packet' = {}
  /\ UNCHANGED <<netVars, outVars, hookVars, argVars, faults>>

\* RecvProtobufMsg where a packet of the given types leads to next; another type
\* ends the dump, as does an error.
Receive(at, type, next, expected) ==
  /\ pc = at
  /\ \/ /\ Whole
        /\ LET pkt == stream[(taken \div 2) + 1] IN
             /\ taken' = taken + 2
             /\ \/ /\ pkt.type \in type
                   /\ pc' = next /\ packet' = {pkt} /\ UNCHANGED why
                \/ /\ pkt.type \notin type
                   /\ pc' = "close" /\ packet' = {} /\ why' = expected
     \/ /\ Short /\ taken' = taken + 1
        /\ pc' = "close" /\ why' = "short_read" /\ packet' = {}
     \/ /\ EndOfStream /\ UNCHANGED taken
        /\ pc' = "close" /\ why' = "end_of_stream" /\ packet' = {}
  /\ UNCHANGED <<netVars, outVars, hookVars, argVars, faults>>

\* SendProtobufMsg: fails once the server has closed.
SendToServer(at, type, next) ==
  /\ pc = at
  /\ \/ /\ toServer' = Append(toServer, type)
        /\ pc' = next /\ UNCHANGED why
     \/ /\ srv = "closed" /\ UNCHANGED toServer
        /\ pc' = "close" /\ why' = "send_failed"
  /\ packet' = {}
  /\ UNCHANGED <<srv, stream, arrived, taken, outVars, hookVars, argVars, faults>>

\* Variant: AUTH is not answered before DUMP is sent.
SendAuthNoAck == SendToServer("auth", "CLIENTAUTHENTICATION", "dump")

\* HandShake, lines 135-155; the error code of the ACK is not looked at.
RecvHandshake == Receive("handshake", {"HANDSHAKE"}, "auth", "refused")
SendAuth == SendToServer("auth", "CLIENTAUTHENTICATION", "ack")
RecvAck == Receive("ack", {"ACK"}, "dump", "refused")
SendDump == SendToServer("dump", "DUMP", "recv")

\* Variant: the loop skips a packet that is not there in full.
RecvBinlogDropsShort ==
  ReceiveDropsShort("recv", {"MESSAGES", "HEARTBEAT"}, "handle", "invalid_type")

\* The loop of lines 176-185 and the handler of main: an entry is printed, a
\* heartbeat ends a run that does not wait, and any other type ends every run.
RecvBinlog ==
  Receive("recv", {"MESSAGES", "HEARTBEAT"}, "handle", "invalid_type")

\* Variant: a heartbeat never ends the run.
HandleHeartbeatStays ==
  /\ pc = "handle" /\ \E m \in packet : m.type = "HEARTBEAT"
  /\ packet' = {} /\ pc' = "recv"
  /\ UNCHANGED <<netVars, taken, why, outVars, hookVars, argVars, faults>>

HandleHeartbeat ==
  /\ pc = "handle" /\ \E m \in packet : m.type = "HEARTBEAT"
  /\ packet' = {}
  /\ IF fgWait THEN pc' = "recv" /\ UNCHANGED why
               ELSE pc' = "close" /\ why' = "heartbeat"
  /\ UNCHANGED <<netVars, taken, outVars, hookVars, argVars, faults>>

\* PrintBinlog, lines 37-60: the header is printed; an entry without rows, or one
\* that does not parse, is not counted.
PrintEntry ==
  /\ pc = "handle"
  /\ \E m \in packet :
       /\ m.type = "MESSAGES"
       /\ printed' = Append(printed, m.body)
       /\ pc' = IF m.body \in RowEntries THEN "count" ELSE "body"
  /\ UNCHANGED <<netVars, taken, packet, why, stat, flushed, hookVars, argVars, faults>>

\* Line 61: the total first.
CountTotal ==
  /\ pc = "count"
  /\ stat' = [stat EXCEPT !["total"] = @ + 1]
  /\ pc' = "countKind"
  /\ UNCHANGED <<netVars, taken, packet, why, printed, flushed, hookVars, argVars, faults>>

\* Variant: the UPDATE case lacks its break.
CountKindFallsThrough ==
  /\ pc = "countKind"
  /\ \E m \in packet :
       stat' = [c \in Counted |->
                  IF \/ c \in {m.body, IF m.body = "ddl" THEN "ddl" ELSE "dml"}
                     \/ m.body = "update" /\ c = "delete"
                  THEN stat[c] + 1 ELSE stat[c]]
  /\ pc' = "body"
  /\ UNCHANGED <<netVars, taken, packet, why, printed, flushed, hookVars, argVars, faults>>

\* Lines 62-79: DDL, or DML and its kind.
CountKind ==
  /\ pc = "countKind"
  /\ \E m \in packet :
       stat' = [c \in Counted |->
                  IF c \in {m.body, IF m.body = "ddl" THEN "ddl" ELSE "dml"}
                  THEN stat[c] + 1 ELSE stat[c]]
  /\ pc' = "body"
  /\ UNCHANGED <<netVars, taken, packet, why, printed, flushed, hookVars, argVars, faults>>

\* Line 86: the body is printed, under the lock of System.out.
PrintBody ==
  /\ pc = "body"
  /\ flushed' = stat
  /\ pc' = "recv" /\ packet' = {}
  /\ UNCHANGED <<netVars, taken, why, printed, stat, hookVars, argVars, faults>>

\* The finally block, and the end of main.
Close ==
  /\ pc = "close"
  /\ pc' = "ended"
  /\ UNCHANGED <<netVars, taken, packet, why, outVars, hookVars, argVars, faults>>

-----------------------------------------------------------------------------
(* The shutdown hook *)

\* The JVM shuts down once main has ended; the hook sees all that main did.
StartHook ==
  /\ hookPc = 0 /\ pc = "ended"
  /\ hookPc' = 1 /\ seen' = stat
  /\ UNCHANGED <<netVars, mainVars, outVars, interrupted, report, argVars, faults>>

\* The JVM shuts down on a signal: main goes on beside the hook.  Line 280 takes
\* the lock of System.out, so the hook sees what main had counted at its last
\* println; the counters are plain fields, later values may or may not be seen.
Interrupt ==
  /\ hookPc = 0 /\ pc \notin {"main", "usage", "ended", "halted"} /\ Fault
  /\ hookPc' = 1 /\ seen' = flushed /\ interrupted' = TRUE
  /\ UNCHANGED <<netVars, mainVars, outVars, report, argVars>>

\* The next line of the report, which takes the lock again.
HookLine ==
  /\ hookPc \in 1..4
  /\ LET c == Counters[hookPc] IN
       \E v \in seen[c]..stat[c] : report' = [report EXCEPT ![c] = v]
  /\ hookPc' = hookPc + 1
  /\ seen' = IF interrupted THEN flushed ELSE seen
  /\ UNCHANGED <<netVars, mainVars, outVars, interrupted, argVars, faults>>

\* The hook is done: the JVM halts, whatever main is doing.
Halt ==
  /\ hookPc = 5 /\ pc # "halted"
  /\ pc' = "halted"
  /\ UNCHANGED <<netVars, taken, packet, why, outVars, hookVars, argVars, faults>>

-----------------------------------------------------------------------------
Environment == Greet \/ SendAck \/ SendBinlog \/ ServerFails \/ Arrive

Main ==
  \/ ParseArgs \/ Open \/ RecvHandshake \/ SendAuth \/ RecvAck \/ SendDump
  \/ RecvBinlog \/ HandleHeartbeat \/ PrintEntry \/ CountTotal \/ CountKind
  \/ PrintBody \/ Close

Hook == StartHook \/ HookLine \/ Halt

Next == Environment \/ Main \/ Hook \/ Interrupt

Spec == Init /\ [][Next]_vars

\* Every thread runs, the network delivers what was sent, and the server greets
\* and answers.
Fairness ==
  /\ WF_vars(Main) /\ WF_vars(Hook) /\ WF_vars(Arrive)
  /\ WF_vars(Greet) /\ WF_vars(SendAck)

FairSpec == Spec /\ Fairness

-----------------------------------------------------------------------------
(* Properties *)

Packets == [type : {"HANDSHAKE", "ACK", "MESSAGES", "HEARTBEAT", "SHUTDOWN"},
            body : Entries \cup {"none"}]

\* The variables keep their types.
TypeOK ==
  /\ srv \in {"listen", "greeted", "acked", "dumping", "closed"}
  /\ stream \in Seq(Packets)
  /\ arrived \in 0..(2 * Len(stream)) /\ taken \in 0..arrived
  /\ toServer \in Seq({"CLIENTAUTHENTICATION", "DUMP"})
  /\ packet \subseteq Packets /\ Cardinality(packet) <= 1
  /\ printed \in Seq(Entries)
  /\ stat \in [Counted -> Nat] /\ flushed \in [Counted -> Nat]
  /\ interrupted \in BOOLEAN /\ hookPc \in 0..5
  /\ seen \in [Counted -> Nat] /\ report \in [Counted -> Nat]
  /\ faults \in 0..MaxFaults

\* How many of the first n packets of the server carry an entry.
EntriesIn(n) == Cardinality({i \in 1..n : stream[i].type = "MESSAGES"})

\* What the program prints is what the server sent, in its order, with nothing
\* left out or repeated, however the packets are cut on the way: the k-th entry
\* sent is the k-th printed, if that many are.
PrintedInOrder ==
  /\ Len(printed) <= EntriesIn(Len(stream))
  /\ \A i \in 1..Len(stream) :
       stream[i].type = "MESSAGES" /\ EntriesIn(i) <= Len(printed)
         => printed[EntriesIn(i)] = stream[i].body

\* A run that does not wait (-w 0) and is ended by a heartbeat has printed every
\* entry the server had sent before its first heartbeat, and none after it.
HeartbeatEndIsComplete ==
  why = "heartbeat" =>
    \E h \in 1..Len(stream) :
      /\ stream[h].type = "HEARTBEAT"
      /\ \A i \in 1..(h - 1) : stream[i].type # "HEARTBEAT"
      /\ Len(printed) = EntriesIn(h - 1)

\* The client speaks the protocol: it authenticates after the HANDSHAKE and asks
\* for the dump after the ACK, once.
SpeaksProtocol ==
  \/ toServer = <<>>
  \/ /\ toServer = <<"CLIENTAUTHENTICATION">>
     /\ taken >= 2 /\ stream[1].type = "HANDSHAKE"
  \/ /\ toServer = <<"CLIENTAUTHENTICATION", "DUMP">>
     /\ taken >= 4 /\ stream[1].type = "HANDSHAKE" /\ stream[2].type = "ACK"

\* How many of the printed entries the counter stands for.
CountOf(c) ==
  Cardinality({i \in 1..Len(printed) :
                 IF c = "total" THEN printed[i] \in RowEntries ELSE printed[i] = c})

\* The statistics never count more than was printed, and are exact when main ran
\* to its end, although the hook reads plain fields that main may be changing.
ReportHonest ==
  /\ \A i \in 1..4 : report[Counters[i]] <= CountOf(Counters[i])
  /\ hookPc = 5 /\ ~interrupted => \A i \in 1..4 : report[Counters[i]] = CountOf(Counters[i])

\* A run that does not wait ends once the server has sent a heartbeat.
HeartbeatEnds ==
  (~fgWait /\ \E i \in 1..Len(stream) : stream[i].type = "HEARTBEAT") ~> (pc = "halted")

-----------------------------------------------------------------------------
(* What the help texts say, and the code does not do *)

\* JBinlogDumpS.java:224, "-w": 1 waits for new binlog when all has been read.  So
\* while the server streams, the client does not end by itself.
WaitsForMore ==
  fgWait /\ srv = "dumping" /\ ~interrupted
    /\ (\A i \in 3..Len(stream) : stream[i].type \in {"MESSAGES", "HEARTBEAT"})
  => pc \notin {"close", "ended", "halted"}
=============================================================================
