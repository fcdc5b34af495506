---------------------------- MODULE PacketReader ----------------------------
(***************************************************************************)
(* PacketReader (lib/network/packet_reader.cpp): cuts the packets of a     *)
(* channel into messages and calls their handlers.  On the wire a message  *)
(* is its id, one byte main command and one byte sub command, and a blob,  *)
(* its length and its body: the length belongs to the blob, and the        *)
(* handlers read it again.                                                 *)
(*                                                                         *)
(* An action is one turn of the loop of processMessages.  A byte carries,  *)
(* besides its value, what it is in the stream that was sent; the reader   *)
(* looks at values only.                                                   *)
(***************************************************************************)
EXTENDS Integers, Sequences

CONSTANTS
    Handlers,   \* the ids that have a handler, pairs <<main, sub>>
    Stale,      \* the values a recycled packet may hold behind its data
    NULL

Byte == 0 .. 255

\* The main command of an id is never 0: that stands for no id.
ASSUME ReaderAssumption ==
    /\ Handlers \subseteq (Byte \ {0}) \X Byte
    /\ Stale \subseteq Byte

ID_SIZE == 2
LENGTH_SIZE == 2    \* NETWORK_MESSAGE_LENGTH1_SIZE, which is 4: enough to be cut inside

NoId == <<0, 0>>

VARIABLES
    packet,         \* the packet being processed, NULL when there is none
    rpos,           \* its read position
    currId,         \* currMainCmd and currSubCmd; main is 0 when no id is known
    currMsgLen,
    fragmentFlag,   \* fragmentDatasFlag_
    fragmentDatas,  \* what writeFragmentMessage and mergeFragmentMessage put by
    fragmentRemain, \* pFragmentDatasRemain_
    fragmentStream, \* a body put together again, NULL when there is none
    handled         \* the calls of handlers: id and what the handler read

fragmentVars == <<fragmentFlag, fragmentDatas, fragmentRemain>>
readerVars == <<packet, rpos, currId, currMsgLen, fragmentVars, fragmentStream, handled>>

ReaderInit ==
    /\ packet = NULL /\ rpos = 0
    /\ currId = NoId /\ currMsgLen = 0
    /\ fragmentFlag = "unknown" /\ fragmentDatas = <<>> /\ fragmentRemain = 0
    /\ fragmentStream = NULL
    /\ handled = <<>>

Values(bytes) == [i \in DOMAIN bytes |-> bytes[i].value]
Number(values) == values[1] + 256 * values[2]
Behind(seq, n) == SubSeq(seq, n + 1, Len(seq))

\* What readBlob finds in a stream: the length, then as many bytes, or nothing when
\* the stream is shorter than that.
Blob(values) ==
    LET size == Number(values)
        rest == Behind(values, LENGTH_SIZE)
    IN  IF size <= Len(rest) THEN SubSeq(rest, 1, size) ELSE <<>>

-----------------------------------------------------------------------------

Looping == packet # NULL /\ (rpos < Len(packet) \/ fragmentStream # NULL)
Reading == Looping /\ fragmentFlag = "unknown"

Left(position) == Len(packet) - position
IdKnown == currId[1] # 0

\* The id the turn works with, and where the packet goes on behind it.
MsgId == IF IdKnown THEN currId ELSE <<packet[rpos + 1].value, packet[rpos + 2].value>>
BehindId == IF IdKnown THEN rpos ELSE rpos + ID_SIZE

HasId == Reading /\ (IdKnown \/ Left(rpos) >= ID_SIZE)
HasHandler == HasId /\ MsgId \in Handlers
HasLength == HasHandler /\ (currMsgLen # 0 \/ Left(BehindId) >= LENGTH_SIZE)

\* The length of the message and where its body starts.
MsgLen ==
    IF currMsgLen # 0 THEN currMsgLen
    ELSE Number(Values(SubSeq(packet, BehindId + 1, BehindId + LENGTH_SIZE)))
BehindLength == IF currMsgLen # 0 THEN BehindId ELSE BehindId + LENGTH_SIZE

\* The rest of the packet is put by until size bytes are there.
WriteFragment(flag, from, size) ==
    /\ fragmentFlag' = flag
    /\ fragmentDatas' = Behind(packet, from)
    /\ fragmentRemain' = size - Left(from)
    /\ rpos' = Len(packet)

CutInId ==
    /\ Reading /\ ~HasId
    /\ WriteFragment("id", rpos, ID_SIZE)
    /\ UNCHANGED <<packet, currId, currMsgLen, fragmentStream, handled>>

\* The loop ends and the channel is condemned; processPackets goes on with the next
\* packet, for which the id is still known and still has no handler.
NoHandler ==
    /\ HasId /\ ~HasHandler
    /\ currId' = MsgId /\ currMsgLen' = 0
    /\ packet' = NULL /\ rpos' = 0
    /\ UNCHANGED <<fragmentVars, fragmentStream, handled>>

CutInLength ==
    /\ HasHandler /\ ~HasLength
    /\ currId' = MsgId
    /\ WriteFragment("length", BehindId, LENGTH_SIZE)
    /\ UNCHANGED <<packet, currMsgLen, fragmentStream, handled>>

CutInBody ==
    /\ HasLength /\ fragmentStream = NULL
    /\ Left(BehindLength) < MsgLen
    /\ currId' = MsgId /\ currMsgLen' = MsgLen
    /\ WriteFragment("body", BehindLength, MsgLen)
    /\ UNCHANGED <<packet, fragmentStream, handled>>

\* mutant: currMsgLen_ is not reset
CallHandlerKeepsLength(values) ==
    /\ handled' = Append(handled, [id |-> MsgId, body |-> Blob(values)])
    /\ currId' = NoId /\ currMsgLen' = MsgLen

\* A handler is called with the blob it finds; PARSEBUNDLE then skips to the end.
CallHandler(values) ==
    /\ handled' = Append(handled, [id |-> MsgId, body |-> Blob(values)])
    /\ currId' = NoId /\ currMsgLen' = 0

\* The read position goes back to the length, which the handler reads again, and never
\* below 0: if part of the length came in an earlier packet, the handler starts at the
\* first byte of this one, and may read and skip bytes behind the message or the packet.
Handle ==
    /\ HasLength /\ fragmentStream = NULL
    /\ Left(BehindLength) >= MsgLen
    /\ LET start == IF BehindLength < LENGTH_SIZE THEN 0 ELSE BehindLength - LENGTH_SIZE
           end == start + LENGTH_SIZE + MsgLen
       IN  /\ \E stale \in Stale :
                 LET memory == Values(packet) \o [i \in 1 .. LENGTH_SIZE |-> stale]
                 IN  CallHandler(SubSeq(memory, start + 1, end))
           /\ rpos' = end
    /\ UNCHANGED <<packet, fragmentVars, fragmentStream>>

\* A body that has been put together again is handed over without its length.
HandleFragment ==
    /\ HasLength /\ fragmentStream # NULL
    /\ Len(fragmentStream) >= LENGTH_SIZE
    /\ CallHandler(Values(fragmentStream))
    /\ fragmentStream' = NULL
    /\ UNCHANGED <<packet, rpos, fragmentVars>>

\* readBlob throws MemoryStreamException on a stream too short for a length;
\* processPackets forgets the message and condemns the channel.
FragmentTooShort ==
    /\ HasLength /\ fragmentStream # NULL
    /\ Len(fragmentStream) < LENGTH_SIZE
    /\ currId' = NoId /\ currMsgLen' = 0
    /\ packet' = NULL /\ rpos' = 0
    /\ UNCHANGED <<fragmentVars, fragmentStream, handled>>

\* mutant: pFragmentDatasRemain_ is not reset
MergeFragmentKeepsRemain ==
    /\ Looping /\ fragmentFlag # "unknown"
    /\ Left(rpos) >= fragmentRemain
    /\ rpos' = rpos + fragmentRemain
    /\ fragmentFlag' = "unknown" /\ fragmentDatas' = <<>>
    /\ UNCHANGED <<packet, currId, currMsgLen, fragmentRemain, fragmentStream, handled>>

\* mergeFragmentMessage with enough bytes.  The first byte of the id is copied to the
\* main and to the sub command.
MergeFragment ==
    /\ Looping /\ fragmentFlag # "unknown"
    /\ Left(rpos) >= fragmentRemain
    /\ LET datas == fragmentDatas \o SubSeq(packet, rpos + 1, rpos + fragmentRemain)
       IN  /\ currId' = IF fragmentFlag = "id" THEN <<datas[1].value, datas[1].value>>
                        ELSE currId
           /\ currMsgLen' = IF fragmentFlag = "length" THEN Number(Values(datas))
                            ELSE currMsgLen
           /\ fragmentStream' = IF fragmentFlag = "body" THEN datas ELSE NULL
    /\ rpos' = rpos + fragmentRemain
    /\ fragmentFlag' = "unknown" /\ fragmentDatas' = <<>> /\ fragmentRemain' = 0
    /\ UNCHANGED <<packet, handled>>

\* mergeFragmentMessage with a packet that is still not enough.
ExtendFragment ==
    /\ Looping /\ fragmentFlag # "unknown"
    /\ Left(rpos) < fragmentRemain
    /\ fragmentDatas' = fragmentDatas \o Behind(packet, rpos)
    /\ fragmentRemain' = fragmentRemain - Left(rpos)
    /\ rpos' = Len(packet)
    /\ UNCHANGED <<packet, currId, currMsgLen, fragmentFlag, fragmentStream, handled>>

\* mutant: what is put by of a message is kept
ResetKeepsFragment ==
    /\ currId' = NoId /\ currMsgLen' = 0
    /\ UNCHANGED <<fragmentVars, fragmentStream>>

\* reset, which a channel calls when its first packet comes.
Reset ==
    /\ currId' = NoId /\ currMsgLen' = 0
    /\ fragmentFlag' = "unknown" /\ fragmentDatas' = <<>> /\ fragmentRemain' = 0
    /\ fragmentStream' = NULL

\* The turns after which the channel goes on.
ReaderStep ==
    \/ CutInId \/ CutInLength \/ CutInBody
    \/ Handle \/ HandleFragment
    \/ MergeFragment \/ ExtendFragment

\* The turns that condemn it.
ReaderFails == NoHandler \/ FragmentTooShort

=============================================================================
