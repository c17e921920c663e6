---------------------------- MODULE SocketFifo ----------------------------
(***************************************************************************)
(* The buffers of common/socket.c, for what one process writes to another: *)
(* wdata at the writer, the kernel between them, rdata at the reader.      *)
(* Packets are written whole or not at all, sent and received piece by     *)
(* piece, and parsed one per call of func_parse; so a reader that once     *)
(* starts a packet in the wrong place misreads everything after it.        *)
(*                                                                         *)
(* A unit stands for some bytes; a packet is as many copies of its number  *)
(* as it has units, and its length is in its first one.                    *)
(***************************************************************************)
EXTENDS Naturals, Sequences, SequencesExt

CONSTANTS
  wfifo_size,   \* what a wdata starts with and grows by
  rfifo_size,   \* what a rdata starts with
  ServerSize,   \* FIFOSIZE_SERVER, the rdata between servers
  Reserve,      \* 4096: what WFIFOSET asks for beyond its buffer
  KernelRoom,   \* bound: units the kernel holds
  MaxLen,       \* bound: units of a packet
  MaxPackets    \* bound: packets written

ASSUME FifoAssumption ==
  /\ wfifo_size \in Nat \ {0} /\ rfifo_size \in Nat \ {0}
  /\ ServerSize \in Nat /\ ServerSize >= rfifo_size
  /\ Reserve \in Nat /\ KernelRoom \in Nat /\ MaxLen \in Nat
  /\ MaxPackets \in Nat

VARIABLES
  writer,    \* session at the writer: wdata, max_wdata, eof, open
  kernel,    \* sent and not received
  reader,    \* session at the reader: rdata, rdata_pos, max_rdata, eof, open
  lens,      \* length of each packet written so far
  parsed,    \* the packet parsed last
  torn,      \* history: a packet was read from its middle
  dropped,   \* history: packets that WFIFOSET left out as its buffer was full
             \* to the last unit, or as the session was marked eof
  beyond     \* history: WFIFOB wrote past the end of wdata

fifoVars == <<writer, kernel, reader, lens, parsed, torn, dropped, beyond>>

FifoInit ==
  /\ writer = [wdata |-> <<>>, max_wdata |-> wfifo_size,
               eof |-> FALSE, open |-> TRUE]
  /\ kernel = <<>>
  /\ \E size \in {rfifo_size, ServerSize} :    \* realloc_rfifo
       reader = [rdata |-> <<>>, rdata_pos |-> 0, max_rdata |-> size,
                 eof |-> FALSE, open |-> TRUE]
  /\ lens = <<>> /\ parsed = 0
  /\ torn = FALSE /\ dropped = {} /\ beyond = FALSE

----------------------------------------------------------------------------
(* The writer.                                                             *)

Needs(w, n) == Len(w.wdata) + n

\* The least multiple of wfifo_size that holds n more units.
realloc_fifo(w, n) ==
  IF w.eof \/ Needs(w, n) <= w.max_wdata THEN w
  ELSE [w EXCEPT !.max_wdata =
          ((Needs(w, n) + wfifo_size - 1) \div wfifo_size) * wfifo_size]

Fits(w, n) == Needs(w, n) < w.max_wdata

\* The packet is in, or gone; what fills the buffer to the last unit is gone.
WFIFOSET(w, pkt) ==
  IF Fits(w, Len(pkt)) THEN [w EXCEPT !.wdata = @ \o pkt]
  ELSE realloc_fifo(w, w.max_wdata + Reserve)

\* WFIFOHEAD, the bytes, WFIFOSET.  A handler may still do this to a session
\* that is marked eof, whose buffer does not grow.
WritePacket(len) ==
  LET n == Len(lens) + 1
      w == realloc_fifo(writer, len)
  IN  /\ writer.open /\ Len(lens) < MaxPackets
      /\ lens' = Append(lens, len)
      /\ writer' = WFIFOSET(w, [i \in 1..len |-> n])
      /\ beyond' = (beyond \/ Needs(w, len) > w.max_wdata)
      /\ dropped' = IF Needs(w, len) = w.max_wdata
                       \/ (writer.eof /\ Needs(w, len) > w.max_wdata)
                    THEN dropped \cup {n} ELSE dropped
      /\ UNCHANGED <<kernel, reader, parsed, torn>>

\* What the kernel took is shifted out of the buffer.
Unsent_NotShifted(wdata, k) == SubSeq(wdata, 1, Len(wdata) - k)
Unsent(wdata, k) == SubSeq(wdata, k + 1, Len(wdata))

send_from_fifo ==
  /\ writer.open /\ ~writer.eof /\ writer.wdata # <<>>
  /\ \/ /\ reader.open
        /\ \E k \in 1..Len(writer.wdata) :
             /\ Len(kernel) + k <= KernelRoom
             /\ kernel' = kernel \o SubSeq(writer.wdata, 1, k)
             /\ writer' = [writer EXCEPT !.wdata = Unsent(@, k)]
     \/ /\ ~reader.open
        /\ writer' = [writer EXCEPT !.wdata = <<>>, !.eof = TRUE]
        /\ UNCHANGED kernel
  /\ UNCHANGED <<reader, lens, parsed, torn, dropped, beyond>>

\* recv_to_fifo at the writer, when the reader has closed; or a handler that
\* wants the session closed.
MarkEof ==
  /\ writer.open /\ ~writer.eof
  /\ writer' = [writer EXCEPT !.eof = TRUE]
  /\ UNCHANGED <<kernel, reader, lens, parsed, torn, dropped, beyond>>

\* session_eof flushes first, and send_from_fifo does nothing for a session
\* that is marked: what is unsent is gone.
writer_eof ==
  /\ writer.open /\ writer.eof
  /\ writer' = [writer EXCEPT !.open = FALSE, !.wdata = <<>>]
  /\ UNCHANGED <<kernel, reader, lens, parsed, torn, dropped, beyond>>

----------------------------------------------------------------------------
(* The reader.                                                             *)

RFIFOSPACE(r) == r.max_rdata - Len(r.rdata)

\* recv returns 0 at the end of the connection, and also when it is asked for
\* no bytes.
recv_to_fifo ==
  /\ reader.open /\ ~reader.eof
  /\ \/ /\ kernel # <<>> /\ RFIFOSPACE(reader) > 0
        /\ \E k \in 1..Len(kernel) :
             /\ k <= RFIFOSPACE(reader)
             /\ reader' = [reader EXCEPT !.rdata = @ \o SubSeq(kernel, 1, k)]
             /\ kernel' = SubSeq(kernel, k + 1, Len(kernel))
     \/ /\ IF kernel = <<>> THEN ~writer.open ELSE RFIFOSPACE(reader) = 0
        /\ reader' = [reader EXCEPT !.eof = TRUE]
        /\ UNCHANGED kernel
  /\ UNCHANGED <<writer, lens, parsed, torn, dropped, beyond>>

Rest(r) == SubSeq(r.rdata, r.rdata_pos + 1, Len(r.rdata))

RFIFOFLUSH_KeepsPos(r) == [r EXCEPT !.rdata = Rest(r)]
RFIFOFLUSH(r) == [r EXCEPT !.rdata = Rest(r), !.rdata_pos = 0]

\* The packet at rdata_pos, if it is there whole.
Whole(r) == Rest(r) # <<>> /\ lens[Head(Rest(r))] <= Len(Rest(r))

\* RFIFOSKIP.
Skip(r) == [r EXCEPT !.rdata_pos = @ + lens[Head(Rest(r))]]

\* A buffer of the first size that was full before this packet was parsed
\* closes the session, even when nothing of it is left.
AfterParse(r) ==
  IF Len(r.rdata) = rfifo_size /\ r.max_rdata = rfifo_size
  THEN [r EXCEPT !.eof = TRUE] ELSE RFIFOFLUSH(r)

\* One visit of do_parsepacket.
do_parsepacket ==
  /\ reader.open
  /\ \/ /\ reader.eof
        /\ reader' = [reader EXCEPT !.open = FALSE, !.rdata = <<>>,
                                    !.rdata_pos = 0]
        /\ kernel' = <<>>
        /\ UNCHANGED <<parsed, torn>>
     \/ /\ ~reader.eof /\ Whole(reader)
        /\ reader' = AfterParse(Skip(reader))
        /\ parsed' = Head(Rest(reader))
        /\ torn' = (torn \/ \E i \in 1..lens[parsed'] :
                              Rest(reader)[i] # parsed')
        /\ UNCHANGED kernel
     \/ /\ ~reader.eof /\ ~Whole(reader)
        /\ reader' = AfterParse(reader)
        /\ UNCHANGED <<kernel, parsed, torn>>
  /\ UNCHANGED <<writer, lens, dropped, beyond>>

FifoNext ==
  \/ \E len \in 1..MaxLen : WritePacket(len)
  \/ send_from_fifo \/ MarkEof \/ writer_eof
  \/ recv_to_fifo \/ do_parsepacket

FifoSpec == FifoInit /\ [][FifoNext]_fifoVars

----------------------------------------------------------------------------
FifoTypeOK ==
  LET Units == 1..MaxPackets
  IN  /\ writer.wdata \in Seq(Units) /\ writer.max_wdata \in Nat
      /\ writer.eof \in BOOLEAN /\ writer.open \in BOOLEAN
      /\ Len(writer.wdata) < writer.max_wdata
      /\ kernel \in Seq(Units) /\ Len(kernel) <= KernelRoom
      /\ reader.rdata \in Seq(Units)
      /\ reader.rdata_pos \in 0..Len(reader.rdata)
      /\ reader.max_rdata \in {rfifo_size, ServerSize}
      /\ Len(reader.rdata) <= reader.max_rdata
      /\ reader.eof \in BOOLEAN /\ reader.open \in BOOLEAN
      /\ lens \in Seq(1..MaxLen) /\ parsed \in 0..Len(lens)
      /\ torn \in BOOLEAN /\ beyond \in BOOLEAN /\ dropped \subseteq Units

\* The units of the packets after the one parsed last, without the dropped.
Expected ==
  FlattenSeq([i \in 1..Len(lens) |->
                IF i <= parsed \/ i \in dropped THEN <<>>
                ELSE [j \in 1..lens[i] |-> i]])

\* What waits in the two buffers and the kernel is what was written after the
\* packet parsed last, in order and with no unit missing or twice, however it
\* was cut up on its way and however the buffers filled and grew; closing a
\* session loses the end of it only.  So a packet is never read from its
\* middle.  WFIFOSET drops a packet only when it fills the buffer to the last
\* unit or its session is marked eof, and nothing is written past the end of a
\* buffer but in that second case.
StreamInOrder ==
  LET waiting == Rest(reader) \o kernel \o writer.wdata
  IN  /\ ~torn
      /\ reader.open => IsPrefix(waiting, Expected)
      /\ reader.open /\ writer.open => waiting = Expected
      /\ beyond => writer.eof
=============================================================================
