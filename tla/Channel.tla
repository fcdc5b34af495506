------------------------------ MODULE Channel ------------------------------
(***************************************************************************)
(* A connection in one direction: the Channel (lib/network/channel.cpp) of *)
(* the process that sends, with its TCPPacketSender, the network, and the  *)
(* Channel of the process that receives, with its TCPPacketReceiver and    *)
(* PacketReader.  Each process has one thread, which polls its sockets,    *)
(* runs its handlers and, 50 times a second, processes what its channels   *)
(* have received.  The network delivers bytes in order and may cut the     *)
(* stream anywhere.                                                        *)
(***************************************************************************)
EXTENDS PacketReader, SequencesExt

CONSTANTS
    Messages,        \* what is sent: an id and the bytes of a body
    PacketSize,      \* PACKET_MAX_SIZE_TCP: a packet receives at most that much
    ReceiveWindow,   \* g_extReceiveWindowMessagesOverflow
    SendWindow,      \* g_extSendWindowMessagesOverflow
    MaxSent,         \* bound: messages on one connection
    MaxConnections   \* bound: connections made one after the other

\* Where a packet can end, and what a byte is: its value, and for the properties the
\* message it belongs to and where in it a packet ends that ends behind it.
Cuts == {"id", "between", "length", "front", "body"}
Bytes == [value : Byte, msg : 1 .. MaxSent, cut : Cuts \cup {"end"}]

ASSUME ChannelAssumption ==
    /\ Messages \subseteq [id : Handlers, body : Seq(Byte)]
    /\ \A m \in Messages : Len(m.body) < 256 * 256
    /\ {PacketSize, ReceiveWindow, SendWindow, MaxSent, MaxConnections} \subseteq Nat \ {0}
    /\ NULL \notin Seq(Bytes)

VARIABLES
    bundles,      \* the sender's bundles_
    sentSize,     \* how much of the first one has been sent
    sending,      \* FLAG_SENDING: the poller goes on with them
    broken,       \* the sender's channel is condemned
    wire,         \* the bytes in the network
    buffered,     \* the receiver's bufferedReceives_
    handshaken,   \* FLAG_HANDSHAKE
    condemned,    \* FLAG_CONDEMN of the receiver's channel
    connection,   \* how many connections there have been
    sent,         \* history: the messages of this connection
    cuts,         \* history: the messages cut by the ends of packets, and where
    complete      \* history: the messages received to their last byte

sendVars == <<bundles, sentSize, sending, broken>>
receiveVars == <<buffered, handshaken, condemned>>
history == <<sent, cuts, complete>>
vars == <<readerVars, sendVars, wire, receiveVars, connection, history>>

\* Where a cut behind the k-th byte of a message with n bytes of body falls.  If the
\* body is empty, a cut between the id and the length counts as one in the length: the
\* reader takes the length it then puts together, 0, for one it does not know yet.
Place(k, n) ==
    IF k = ID_SIZE + LENGTH_SIZE + n THEN "end"
    ELSE IF k < ID_SIZE THEN "id"
    ELSE IF k = ID_SIZE /\ n > 0 THEN "between"
    ELSE IF k < ID_SIZE + LENGTH_SIZE THEN "length"
    ELSE IF k = ID_SIZE + LENGTH_SIZE THEN "front"
    ELSE "body"

\* The bytes of the i-th message: newMessage writes the id, appendBlob the rest.
Encode(m, i) ==
    LET n == Len(m.body)
        values == m.id \o <<n % 256, n \div 256>> \o m.body
    IN  [k \in DOMAIN values |-> [value |-> values[k], msg |-> i, cut |-> Place(k, n)]]

Unsent == Behind(FlattenSeq(bundles), sentSize)

ChannelTypeOK ==
    /\ bundles \in Seq(Seq(Bytes)) /\ sentSize \in 0 .. Len(FlattenSeq(bundles))
    /\ {sending, broken, handshaken, condemned} \subseteq BOOLEAN
    /\ wire \in Seq(Bytes) /\ buffered \in Seq(Seq(Bytes))
    /\ connection \in 1 .. MaxConnections
    /\ sent \in Seq(Messages) /\ Len(sent) <= MaxSent
    /\ cuts \subseteq (1 .. MaxSent) \X Cuts
    /\ complete \in 0 .. Len(sent)
    /\ {packet, fragmentStream} \subseteq Seq(Bytes) \cup {NULL}
    /\ rpos \in Nat /\ currId \in Byte \X Byte /\ currMsgLen \in Nat
    /\ fragmentFlag \in {"unknown", "id", "length", "body"}
    /\ fragmentDatas \in Seq(Bytes) /\ fragmentRemain \in Nat
    /\ fragmentFlag = "unknown" <=> fragmentRemain = 0
    /\ handled \in Seq([id : Handlers, body : Seq(Byte)])

Init ==
    /\ ReaderInit
    /\ bundles = <<>> /\ sentSize = 0 /\ sending = FALSE /\ broken = FALSE
    /\ wire = <<>> /\ buffered = <<>> /\ handshaken = FALSE /\ condemned = FALSE
    /\ connection = 1
    /\ sent = <<>> /\ cuts = {} /\ complete = 0

-----------------------------------------------------------------------------

\* mutant: a packet sent in part is sent again from its start
ProcessSendResends(queue, n) ==
    LET gone == sentSize + n
        before(j) == FlattenSeq(SubSeq(queue, 1, j))
    IN  /\ wire' = wire \o SubSeq(FlattenSeq(queue), sentSize + 1, gone)
        /\ sentSize' = 0
        /\ IF gone = Len(FlattenSeq(queue)) THEN bundles' = <<>>
           ELSE \E j \in DOMAIN queue :
                   /\ Len(before(j - 1)) <= gone /\ gone < Len(before(j))
                   /\ bundles' = Behind(queue, j - 1)

\* processSend with the bundles queued: the socket takes the first n bytes they still
\* have, a bundle that has been sent is dropped, the one sent in part stays in front.
ProcessSend(queue, n) ==
    LET gone == sentSize + n
        before(j) == FlattenSeq(SubSeq(queue, 1, j))
    IN  /\ wire' = wire \o SubSeq(FlattenSeq(queue), sentSize + 1, gone)
        /\ IF gone = Len(FlattenSeq(queue)) THEN bundles' = <<>> /\ sentSize' = 0
           ELSE \E j \in DOMAIN queue :
                   /\ Len(before(j - 1)) <= gone /\ gone < Len(before(j))
                   /\ bundles' = Behind(queue, j - 1)
                   /\ sentSize' = gone - Len(before(j - 1))

\* mutant: the poller is not told
SendOutcomeNoPoller(queue, n) ==
    broken' = FALSE /\ UNCHANGED sending

\* What is left is handed to the poller; but the socket's error may be another than
\* that it has no room, and then the channel is condemned.
SendOutcome(queue, n) ==
    LET all == n = Len(FlattenSeq(queue)) - sentSize
    IN  \/ broken' = FALSE /\ sending' = ~all
        \/ ~all /\ broken' = TRUE /\ UNCHANGED sending

\* Channel::send with a bundle of one message when nothing is waiting to be sent.
SendNow(m) ==
    /\ Len(sent) < MaxSent /\ ~broken /\ ~sending
    /\ sent' = Append(sent, m)
    /\ LET queue == Append(bundles, Encode(m, Len(sent) + 1))
       IN  \E n \in 0 .. Len(FlattenSeq(queue)) - sentSize :
               ProcessSend(queue, n) /\ SendOutcome(queue, n)
    /\ UNCHANGED <<readerVars, receiveVars, connection, cuts, complete>>

\* Channel::send while the poller is at it: the bundle joins the queue, which may not
\* get too long.
SendLater(m) ==
    /\ Len(sent) < MaxSent /\ ~broken /\ sending
    /\ sent' = Append(sent, m)
    /\ bundles' = Append(bundles, Encode(m, Len(sent) + 1))
    /\ broken' = (Len(bundles') > SendWindow)
    /\ UNCHANGED <<readerVars, sentSize, sending, wire, receiveVars, connection, cuts,
                   complete>>

\* TCPPacketSender::handleOutputNotification: the socket has room again.
PollerSend ==
    /\ sending /\ ~broken
    /\ \E n \in 0 .. Len(Unsent) : ProcessSend(bundles, n) /\ SendOutcome(bundles, n)
    /\ UNCHANGED <<readerVars, receiveVars, connection, history>>

-----------------------------------------------------------------------------

\* The receiver's thread polls its sockets while it does not process packets.
Polling == packet = NULL /\ ~condemned

\* TCPPacketReceiver::processRecv fills a packet; too many of them condemn the channel.
Receive ==
    /\ Polling /\ wire # <<>>
    /\ \E n \in 1 .. Len(wire) :
          /\ n <= PacketSize
          /\ LET last == wire[n]
             IN  /\ cuts' = IF last.cut \in Cuts THEN cuts \cup {<<last.msg, last.cut>>}
                            ELSE cuts
                 /\ complete' = IF last.cut = "end" THEN last.msg ELSE last.msg - 1
          /\ buffered' = Append(buffered, SubSeq(wire, 1, n))
          /\ wire' = Behind(wire, n)
    /\ condemned' = (Len(buffered') > ReceiveWindow)
    /\ UNCHANGED <<readerVars, sendVars, handshaken, connection, sent>>

\* The other side has closed the connection, reset it, or been silent for too long.
ConnectionLost ==
    /\ Polling
    /\ condemned' = TRUE
    /\ UNCHANGED <<readerVars, sendVars, wire, buffered, handshaken, connection, history>>

\* The loop of processPackets goes on to the first packet buffered, or ends.
TakePacket(bs) ==
    IF bs = <<>> THEN packet' = NULL /\ buffered' = <<>>
    ELSE packet' = Head(bs) /\ buffered' = Tail(bs)

\* The tick: processPackets begins, with handshake() when this is the first time.
ProcessPackets ==
    /\ Polling /\ buffered # <<>>
    /\ TakePacket(buffered) /\ rpos' = 0
    /\ handshaken' = TRUE
    /\ IF handshaken THEN UNCHANGED <<currId, currMsgLen, fragmentVars, fragmentStream>>
       ELSE Reset
    /\ UNCHANGED <<handled, sendVars, wire, condemned, connection, history>>

NextPacket ==
    /\ packet # NULL /\ ~Looping
    /\ TakePacket(buffered) /\ rpos' = 0
    /\ UNCHANGED <<currId, currMsgLen, fragmentVars, fragmentStream, handled, sendVars,
                   wire, handshaken, condemned, connection, history>>

ProcessMessages ==
    \/ /\ ReaderStep
       /\ UNCHANGED <<sendVars, wire, receiveVars, connection, history>>
    \/ /\ ReaderFails
       /\ condemned' = TRUE /\ buffered' = <<>>
       /\ UNCHANGED <<sendVars, wire, handshaken, connection, history>>

\* The tick after a channel is condemned: it is deregistered, destroyed and put back
\* into the pool, from which the next connection takes it with its PacketReader.
Reconnect ==
    /\ condemned /\ connection < MaxConnections
    /\ connection' = connection + 1
    /\ buffered' = <<>> /\ handshaken' = FALSE /\ condemned' = FALSE
    /\ bundles' = <<>> /\ sentSize' = 0 /\ sending' = FALSE /\ broken' = FALSE
    /\ wire' = <<>>
    /\ sent' = <<>> /\ cuts' = {} /\ complete' = 0 /\ handled' = <<>>
    /\ UNCHANGED <<packet, rpos, currId, currMsgLen, fragmentVars, fragmentStream>>

Next ==
    \/ \E m \in Messages : SendNow(m) \/ SendLater(m)
    \/ PollerSend
    \/ Receive \/ ConnectionLost
    \/ ProcessPackets \/ NextPacket \/ ProcessMessages
    \/ Reconnect

Spec == Init /\ [][Next]_vars

\* The sockets are polled, the tick comes and the loops end.
Fairness ==
    /\ WF_vars(PollerSend)
    /\ WF_vars(Receive)
    /\ WF_vars(ProcessPackets)
    /\ WF_vars(NextPacket \/ ProcessMessages)

FairSpec == Spec /\ Fairness

-----------------------------------------------------------------------------

\* The messages up to the n-th have kept the reader in step: no packet ended inside an
\* id or a length, and the packets did not end both in front of a length and behind it.
\* (After those, the reader would have the length but not its bytes to go back to.)
InStep(n) ==
    \A i \in 1 .. n :
        /\ <<i, "id">> \notin cuts /\ <<i, "length">> \notin cuts
        /\ <<i, "between">> \notin cuts \/ <<i, "front">> \notin cuts

WholeBody(i) == <<i, "front">> \notin cuts /\ <<i, "body">> \notin cuts

\* However sends are cut short, taken up again and queued behind each other, the bytes
\* still to be processed are the last of what was sent, each once and in order.
BytesInOrder ==
    IsSuffix(FlattenSeq(buffered) \o wire \o Unsent,
             FlattenSeq([i \in DOMAIN sent |-> Encode(sent[i], i)]))

\* As long as the packets keep ids and lengths whole, the handlers are called for the
\* messages that were sent, in their order, and with their bodies unless those were cut;
\* also on a channel whose reader was left in the middle of a message of an earlier
\* connection.
HandledInStep ==
    \A i \in DOMAIN handled :
        InStep(i) =>
            /\ i <= complete
            /\ handled[i].id = sent[i].id
            /\ WholeBody(i) => handled[i].body = sent[i].body

\* And none is held back: whenever the packets received have been processed, so have
\* the messages that are complete.
HandledWhenComplete ==
    packet = NULL /\ buffered = <<>> /\ ~condemned /\ InStep(complete)
        => Len(handled) = complete

\* Every message sent is handled: again and again there is none left to handle, unless
\* the connection ends, or a cut in the next one puts the reader out of step.
SentIsHandled ==
    []<>(\/ Len(handled) >= Len(sent)
         \/ condemned \/ broken
         \/ ~InStep(Len(handled) + 1))

\* A message whose body comes in several packets is handled with that body
\* (packet_reader.cpp:194-198 and 290-293 put its bytes by until they are all there).
CutBodyIsWhole ==
    \A i \in DOMAIN handled : InStep(i) => handled[i].body = sent[i].body

=============================================================================
