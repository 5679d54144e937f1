------------------------------ MODULE Protocol ------------------------------
(***************************************************************************)
(* The X Protocol layer of CDK: Protocol_impl turns messages into frames   *)
(* and sends them, alone or collected in a pipeline, compressed or not;    *)
(* Protocol_impl at the other end reads frames from the byte stream and    *)
(* the receive operation Op_rcv hands their messages to a processor.       *)
(*                                                                         *)
(* The writing half of one object is connected to the reading half of      *)
(* another, as in the tests of the protocol library; the halves of one     *)
(* object share no state.  The writing end may also be a server that puts  *)
(* several messages of one type in a compressed frame (the session asks    *)
(* for server_combine_mixed_messages = false).                             *)
(*                                                                         *)
(* Bytes are cells: the 4 bytes of a frame's length are one cell, the byte *)
(* of its type is one, a payload of n units is n cells, and compressed     *)
(* data is one cell with the compressed content followed by filler.        *)
(* Memory allocation succeeds.                                             *)
(***************************************************************************)
EXTENDS Naturals, FiniteSets, Sequences, SequencesExt

CONSTANTS
  Algorithms,     \* the compression types that can be negotiated
  Pipelined,      \* those under which pipelines are used
  Sizes,          \* payload sizes of the messages of each type
  InitSize,       \* initial size of the I/O buffers (1024 bytes)
  Threshold,      \* messages above this size are compressed (1000 bytes)
  MaxCombine,     \* most messages the peer puts in a compressed frame
  MaxMsgs         \* bound: messages written in a behaviour

\* Each type of message has a payload in all of its messages or in none.
ASSUME ProtocolAssumption ==
  /\ \A t \in DOMAIN Sizes : 0 \in Sizes[t] => Sizes[t] = {0}
  /\ {InitSize, Threshold, MaxCombine, MaxMsgs} \subseteq Nat
  /\ Pipelined \subseteq Algorithms

VARIABLES
  alg,      \* m_compressor.m_compression_type
  w,        \* writing half: m_wr_buf, m_wr_size, m_pipeline, m_wr_op
  stream,   \* bytes on the way
  r,        \* reading half: m_msg_state, m_rd_op, m_rd_buf, m_msg_size, ...
  op,       \* the receive operation (Op_rcv)
  pending,  \* history: messages in the pipeline
  sent,     \* history: messages whose bytes were given to the stream
  got       \* history: messages read completely

vars == <<alg, w, stream, r, op, pending, sent, got>>
rvars == <<r, op, got>>
wvars == <<w, pending, sent>>

header_length == 2
Margin == 2       \* the 128 bytes added for the Compression message

Types == DOMAIN Sizes
Fill(c, n) == [i \in 1..n |-> c]
Frame(t, payload) == <<<<"len", Len(payload) + 1>>, <<"type", t>>>> \o payload
Payload(id, n) == [i \in 1..n |-> <<"pay", id, i>>]
Count == Len(pending) + Len(sent)

----------------------------------------------------------------------------
\* Writing.

\* Mutant: the buffer is not extended for a few more bytes.
resize_buf_tight(size, requested) ==
  IF requested =< size + Margin THEN size ELSE requested

\* resize_buf(): the size of the buffer after a request.
resize_buf(size, requested) ==
  IF requested < size THEN size ELSE size + requested

\* The compressed size of n cells, and the fields and payload of the
\* Compression message with that content.
CompressedSize(n) == (n + 1) \div 2
Compression(content) ==
  <<<<"fields">>, <<"z", content>>>>
    \o Fill(<<"zz">>, CompressedSize(Len(content)) - 1)

\* write(): the buffer goes to the stream, the pipeline is cleared.
write(v) == [v EXCEPT !.op = v.buf, !.buf = <<>>, !.pipeline = FALSE]

\* write_msg() from the point where the message is serialized at wr_buffer():
\* do_compress() is given the start of the write buffer and ArrayStream the
\* space behind the pipeline.
Appended(v, frame) ==
  IF alg # "NONE" /\ Len(frame) - header_length + 1 > Threshold
  THEN LET body == Compression(SubSeq(v.buf \o frame, 1, Len(frame)))
           size == resize_buf(v.size, Len(body) - 1 + Margin)
           room == size - Len(v.buf)
           out  == SubSeq(body, 1, IF room < Len(body) THEN room ELSE Len(body))
       IN [v EXCEPT !.size = size, !.buf = @ \o Frame("Compression", out)]
  ELSE [v EXCEPT !.buf = @ \o frame]

\* start_Pipeline()
StartPipeline ==
  /\ alg \in Pipelined
  /\ ~w.pipeline /\ w.op = <<>>
  /\ w' = [w EXCEPT !.pipeline = TRUE]
  /\ UNCHANGED <<alg, stream, pending, sent>> /\ UNCHANGED rvars

\* snd_start() with a message that fits the buffer.
SndStart(t, n) ==
  LET msg  == <<t, Payload(Count + 1, n)>>
      size == resize_buf(w.size, header_length + n + 1)
      v    == Appended([w EXCEPT !.size = size], Frame(t, msg[2]))
  IN /\ w.op = <<>>
     /\ Count < MaxMsgs
     /\ n + header_length =< size - Len(w.buf)
     /\ IF w.pipeline
          THEN /\ w' = v
               /\ pending' = Append(pending, msg)
               /\ UNCHANGED sent
          ELSE /\ w' = write(v)
               /\ sent' = Append(sent, msg)
               /\ UNCHANGED pending
     /\ UNCHANGED <<alg, stream>> /\ UNCHANGED rvars

\* snd_start() when SerializeToArray() finds no room behind the pipeline.
SndFails(n) ==
  LET size == resize_buf(w.size, header_length + n + 1)
  IN /\ w.op = <<>>
     /\ Count < MaxMsgs
     /\ n + header_length > size - Len(w.buf)
     /\ w' = [w EXCEPT !.size = size, !.buf = <<>>, !.pipeline = FALSE]
     /\ pending' = <<>>
     /\ UNCHANGED <<alg, stream, sent>> /\ UNCHANGED rvars

\* snd_Pipeline()
SndPipeline ==
  /\ w.pipeline /\ pending # <<>>
  /\ w' = write(w)
  /\ sent' = sent \o pending
  /\ pending' = <<>>
  /\ UNCHANGED <<alg, stream>> /\ UNCHANGED rvars

\* Mutant: the last byte is not written.
WrCont_short ==
  /\ w.op # <<>>
  /\ \E k \in 1..(Len(w.op) - 1) :
       /\ stream' = stream \o SubSeq(w.op, 1, k)
       /\ w' = [w EXCEPT !.op = SubSeq(@, k + 1, Len(@))]
  /\ UNCHANGED <<alg, pending, sent>> /\ UNCHANGED rvars

\* wr_cont(), wr_wait(): the stream takes some more bytes.
WrCont ==
  /\ w.op # <<>>
  /\ \E k \in 1..Len(w.op) :
       /\ stream' = stream \o SubSeq(w.op, 1, k)
       /\ w' = [w EXCEPT !.op = SubSeq(@, k + 1, Len(@))]
  /\ UNCHANGED <<alg, pending, sent>> /\ UNCHANGED rvars

\* A server compresses several messages of one type into one frame.
Combine(t, ns) ==
  LET ms == [i \in DOMAIN ns |-> <<t, Payload(Count + i, ns[i])>>]
      content == FlattenSeq([i \in DOMAIN ms |-> Frame(t, ms[i][2])])
  IN /\ alg # "NONE"
     /\ ~w.pipeline /\ w.op = <<>>
     /\ Count + Len(ns) =< MaxMsgs
     /\ w' = [w EXCEPT !.op = Frame("Compression", Compression(content))]
     /\ sent' = sent \o ms
     /\ UNCHANGED <<alg, stream, pending>> /\ UNCHANGED rvars

----------------------------------------------------------------------------
\* Reading.

\* A read operation for n bytes is set up.
StartRead(v, n) == [v EXCEPT !.buf = <<>>, !.need = n]

\* Protocol_compression::uncompress() of n bytes of the frame; it does not
\* return if the frame has fewer.
uncompress(v, n) ==
  IF n =< Len(v.inp)
  THEN [v EXCEPT !.buf = SubSeq(v.inp, 1, n),
                 !.inp = SubSeq(v.inp, n + 1, Len(v.inp))]
  ELSE [v EXCEPT !.err = TRUE]

\* Mutant: the rest of a compressed frame is forgotten.
read_header_raw(v) ==
  IF v.state = "HEADER" THEN v
  ELSE StartRead([v EXCEPT !.state = "HEADER", !.compressed = FALSE],
                 header_length)

read_header(v) ==
  IF v.state = "HEADER" THEN v
  ELSE LET h == [v EXCEPT !.state = "HEADER"] IN
       IF v.compressed /\ v.inp # <<>>
       THEN uncompress(h, header_length)
       ELSE StartRead([h EXCEPT !.compressed = FALSE], header_length)

read_payload(v) ==
  LET p == [v EXCEPT !.state = "PAYLOAD"]
      q == [p EXCEPT !.size = resize_buf(@, v.msize)]
  IN IF v.state = "PAYLOAD" THEN v
     ELSE IF v.msize = 0 THEN p
     ELSE IF v.compressed THEN uncompress(q, v.msize)
     ELSE StartRead(q, v.msize)

\* The size and the type of the header in the buffer.
Parsed(v) ==
  IF v.err THEN v
  ELSE [v EXCEPT !.msize = v.buf[1][2] - 1, !.type = v.buf[2][2]]

\* The content of the Compression message in the buffer is uncompressed up
\* to the first header.
Preamble(v) ==
  LET whole == /\ Len(v.buf) > 1
               /\ Len(v.buf) = CompressedSize(Len(v.buf[2][2])) + 1
  IN IF whole
     THEN Parsed(uncompress([v EXCEPT !.inp = v.buf[2][2], !.preamble = FALSE],
                            header_length))
     ELSE [v EXCEPT !.err = TRUE, !.preamble = FALSE]

\* Mutant: the size of a further message of a frame is not read.
rd_process_stale(v) ==
  IF v.state # "HEADER" THEN v
  ELSE IF ~v.compressed
       THEN LET h == Parsed(v) IN
            IF h.type # "Compression" THEN h
            ELSE StartRead([h EXCEPT !.compressed = TRUE, !.preamble = TRUE,
                                     !.size = resize_buf(@, h.msize)],
                           h.msize)
       ELSE IF v.preamble THEN Preamble(v)
       ELSE v

\* rd_process()
rd_process(v) ==
  IF v.state # "HEADER" THEN v
  ELSE IF ~v.compressed
       THEN LET h == Parsed(v) IN
            IF h.type # "Compression" THEN h
            ELSE StartRead([h EXCEPT !.compressed = TRUE, !.preamble = TRUE,
                                     !.size = resize_buf(@, h.msize)],
                           h.msize)
       ELSE IF v.preamble THEN Preamble(v)
       ELSE IF v.inp = <<>> THEN v
       ELSE [v EXCEPT !.msize = v.buf[1][2] - 1]

\* rd_cont() when the bytes that complete the read operation have arrived.
Completed(v) ==
  rd_process([v EXCEPT !.buf = @ \o SubSeq(stream, 1, v.need), !.need = 0])

\* rd_cont(): some of the bytes have arrived.
RdSome ==
  /\ ~op.completed /\ ~r.err
  /\ \E k \in 1..Len(stream) :
       /\ k < r.need
       /\ r' = [r EXCEPT !.buf = @ \o SubSeq(stream, 1, k), !.need = @ - k]
       /\ stream' = SubSeq(stream, k + 1, Len(stream))
  /\ UNCHANGED <<alg, op, got>> /\ UNCHANGED wvars

Arrived == ~op.completed /\ ~r.err /\ r.need =< Len(stream)
Consume == stream' = SubSeq(stream, r.need + 1, Len(stream))

----------------------------------------------------------------------------
\* The receive operation.

\* next_msg(): a reply operation takes the closing message only, an
\* operation for a stage of a result leaves it to the next operation.
next_msg(kind, t) ==
  CASE t \in {"Error", "Notice"}      -> "EXPECTED"
    [] kind = "reply" /\ t # "Done"    -> "UNEXPECTED"
    [] kind = "stage" /\ t = "Done"    -> "STOP"
    [] OTHER                           -> "EXPECTED"

process_next(kind, t) == t = "Notice" \/ (t # "Error" /\ kind = "stage")

\* rcv_start(): a new operation begins to read a message.
RcvStart(kind) ==
  /\ op.completed /\ ~r.err
  /\ op' = [kind |-> kind, stage |-> "HEADER", completed |-> FALSE,
            error |-> FALSE, begun |-> FALSE]
  /\ r' = read_header(r)
  /\ UNCHANGED <<alg, stream, got>> /\ UNCHANGED wvars

\* do_read_msg(): the bytes that were asked for have arrived but the header
\* is not complete: they are the first header of a compressed frame.
MoreHeader ==
  /\ Arrived /\ op.stage = "HEADER"
  /\ LET v == Completed(r) IN
       /\ v.need > 0 \/ v.err
       /\ r' = v
  /\ Consume
  /\ UNCHANGED <<alg, op, got>> /\ UNCHANGED wvars

\* do_read_msg(): the header is complete and the operation stops before it.
StopHere ==
  /\ Arrived /\ op.stage = "HEADER"
  /\ LET v == Completed(r) IN
       /\ v.need = 0 /\ ~v.err
       /\ next_msg(op.kind, v.type) = "STOP"
       /\ r' = v
  /\ op' = [op EXCEPT !.completed = TRUE]
  /\ Consume
  /\ UNCHANGED <<alg, got>> /\ UNCHANGED wvars

\* do_read_msg(): the header is complete, message_begin() is called (which
\* may change the flag or throw) and the payload is asked for, unless the
\* message was not expected.
Header(answer) ==
  /\ Arrived /\ op.stage = "HEADER"
  /\ op.error => answer = "agree"
  /\ LET v    == Completed(r)
         next == next_msg(op.kind, v.type)
         flag == (next = "EXPECTED") # (answer = "change")
     IN /\ v.need = 0 /\ ~v.err
        /\ next # "STOP"
        /\ IF next = "UNEXPECTED" /\ ~flag
             THEN /\ r' = v
                  /\ op' = [op EXCEPT !.completed = TRUE]
             ELSE /\ r' = read_payload(v)
                  /\ op' = [op EXCEPT !.stage = "PAYLOAD",
                               !.error = @ \/ answer = "throw",
                               !.begun = IF op.error THEN @
                                         ELSE answer # "throw"]
  /\ Consume
  /\ UNCHANGED <<alg, got>> /\ UNCHANGED wvars

\* do_read_msg(): the payload is complete and is passed to the processor,
\* message_end() is called and the operation ends or reads another message.
PayloadRead(throws, stop) ==
  /\ Arrived /\ op.stage = "PAYLOAD"
  /\ op.error => ~throws
  /\ LET v == Completed(r)
         e == [op EXCEPT !.error = @ \/ throws, !.stage = "DONE"]
     IN /\ got' = Append(got, <<v.type, SubSeq(v.buf, 1, v.msize)>>)
        /\ IF process_next(op.kind, v.type) /\ ~(stop /\ op.begun)
             THEN /\ r' = read_header(v)
                  /\ op' = [e EXCEPT !.stage = "HEADER"]
             ELSE /\ r' = v
                  /\ op' = [e EXCEPT !.completed = TRUE]
  /\ Consume
  /\ UNCHANGED alg /\ UNCHANGED wvars

----------------------------------------------------------------------------
Init ==
  /\ alg \in Algorithms
  /\ w = [buf |-> <<>>, size |-> InitSize, pipeline |-> FALSE, op |-> <<>>]
  /\ stream = <<>>
  /\ r = [state |-> "PAYLOAD", need |-> 0, buf |-> <<>>, size |-> InitSize,
          type |-> "none", msize |-> 0, compressed |-> FALSE,
          preamble |-> FALSE, inp |-> <<>>, err |-> FALSE]
  /\ op = [kind |-> "reply", stage |-> "DONE", completed |-> TRUE,
           error |-> FALSE, begun |-> FALSE]
  /\ pending = <<>> /\ sent = <<>> /\ got = <<>>

Next ==
  \/ StartPipeline
  \/ \E t \in Types : \E n \in Sizes[t] : SndStart(t, n)
  \/ \E n \in UNION {Sizes[t] : t \in Types} : SndFails(n)
  \/ SndPipeline
  \/ WrCont
  \/ \E t \in Types : \E c \in 2..MaxCombine : \E ns \in [1..c -> Sizes[t]] :
       Combine(t, ns)
  \/ RdSome
  \/ \E kind \in {"reply", "stage"} : RcvStart(kind)
  \/ MoreHeader
  \/ StopHere
  \/ \E answer \in {"agree", "change", "throw"} : Header(answer)
  \/ \E throws, stop \in BOOLEAN : PayloadRead(throws, stop)

Reading ==
  \/ RdSome \/ MoreHeader \/ StopHere
  \/ \E answer \in {"agree", "change", "throw"} : Header(answer)
  \/ \E throws, stop \in BOOLEAN : PayloadRead(throws, stop)

Spec == Init /\ [][Next]_vars /\ WF_vars(WrCont) /\ WF_vars(Reading)
----------------------------------------------------------------------------
\* Properties.

Stream == INSTANCE MessageStream

\* Refinement: the two Protocol_impl objects implement a stream of messages.
\* Whatever the sizes of the pieces in which Write_op and Read_op move the
\* bytes, whether messages are pipelined, compressed or combined by the
\* server, and wherever a receive operation stops before a message that the
\* next one picks up (read_header(), read_payload() and rd_process() may run
\* again for the same header), each message is read once, complete and in
\* the order in which it was written.
Implements == Stream!Spec

\* What is read fits the read buffer, and so does the payload that is being
\* read or was read (process_payload() asserts it): read_payload() and
\* rd_process() asked resize_buf() for the sizes of the message, of the
\* compressed frame around it and of the messages in it.
PayloadFits ==
  Len(r.buf) =< r.size /\ (r.state = "PAYLOAD" => r.msize =< r.size)

\* Protocol_compression::uncompress() is never asked for more than what is
\* left of the frame (its loop would not end), and a Compression message is
\* never cut: the sizes in the headers and the boundaries of frames agree.
FrameHolds == ~r.err

\* A receive operation that was started gets every message that was sent, or
\* completes before it: no bytes remain in the stream, in the write buffer or
\* in the compressor while the operation waits for them.
Arrives ==
  \A n \in 1..MaxMsgs :
    (n =< Len(sent) /\ n > Len(got) /\ ~op.completed)
      ~> (n =< Len(got) \/ op.completed)

\* "Method write_msg() serializes and appends message to the write buffer":
\* what the other side reads is what was passed to write_msg().
AppendsMessage == IsPrefix(got, sent)
=============================================================================
