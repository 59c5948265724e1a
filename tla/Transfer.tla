------------------------------- MODULE Transfer -------------------------------
(***************************************************************************)
(* One request over one connection, from both ends: the provider's stream  *)
(* handler with its events (provider.rs, provider/events.rs), the client's *)
(* get state machine and request execution (get.rs, api/remote.rs), the    *)
(* import into the receiving store, and the QUIC stream between them.      *)
(*                                                                         *)
(* For get and get_many the provider sends and the client receives, for    *)
(* push it is the other way round.  The two ends walk the blobs of the     *)
(* request separately: no item on the stream says which blob it is of.     *)
(* A get either fills a store, or only looks at the answer                 *)
(* (get/request.rs).                                                       *)
(* Observe requests are in module Observe.                                 *)
(***************************************************************************)
EXTENDS Content

CONSTANTS Requests,   \* records [kind, op, ranges, hashes, max, big]
          Sources,    \* the stores a sender may have
          Targets,    \* what the receiver's store may have before
          Modes,      \* RequestModes of the provider
          WireCap,    \* items the stream holds (flow control)
          BufferCap,  \* items the import channel holds
          Faults      \* what may go wrong

VARIABLES req, src, mode,  \* fixed at the start
          walk,            \* the blobs each end loops over, fixed as well
          conn,            \* the connection, as the provider sees it
          asked,           \* the request was sent
          wire, stopped,   \* the data stream; the receiver asked to stop it
          s,               \* the sender
          r,               \* the receiver
          import,          \* the store's import task of the current blob
          dst,             \* the chunks the receiver's store has
          log, watched     \* updates of the request; somebody listens to them

vars == <<req, src, mode, walk, conn, asked, wire, stopped, s, r, import, dst, log, watched>>
fixed == <<req, src, mode, walk>>

IsPush == req.kind = "push"

\* What the client does with the answer, req.op: keep it in its store, read it
\* and throw it away ("drain"), read the first size only ("header"), or ask for
\* the hash sequence and the sizes of its children ("sizes").
Stores == req.op = "store"
-------------------------------------------------------------------------------
(* Requests that do not fill a store: get/request.rs *)

Probing(op, ranges) ==
  [kind |-> "get", op |-> op, ranges |-> ranges, hashes |-> <<>>, max |-> 0, big |-> FALSE]

\* get_blob
GetBlob == Probing("drain", RootSeq)

\* get_unverified_size: the size header, then finish.
GetUnverifiedSize == Probing("header", FromRanges(<<LastChunk>>))

\* get_verified_size: the last chunk proves the size.
GetVerifiedSize == Probing("drain", FromRanges(<<LastChunk>>))

\* get_chunk_probe
GetChunkProbe(chunk) == Probing("drain", FromRanges(<<{chunk}>>))

\* get_hash_seq_and_sizes: the root, unless it is too large, and the last
\* chunk of every child.
GetHashSeqAndSizes(max) ==
  [Probing("sizes", FromRangesInfinite(<<AllRanges, LastChunk>>)) EXCEPT !.max = max]

\* random_hash_seq_ranges: one chunk of one child, out of their full chunks;
\* the results for every random number.  Without a full chunk there is none,
\* and gen_range panics.
RandomHashSeqRanges(sizes) ==
  LET full == [i \in DOMAIN sizes |-> sizes[i] \div ChunkSize] IN
  UNION {{FromRanges([j \in 1 .. i + 1 |-> IF j = i + 1 THEN {c} ELSE {}])
            : c \in 0 .. full[i] - 1}
         : i \in DOMAIN sizes}
-------------------------------------------------------------------------------
(* The blobs of a request *)

\* zip of hashes, or of root and children, with the infinite iterator.
Zipped(n) ==
  LET ranges == TakeInfinite(req.ranges, StartIter, n)
      all == [i \in 1..n |-> [offset |-> i - 1, ranges |-> ranges[i]]]
  IN SelectSeq(all, LAMBDA item : item.ranges # {})

PushWalk ==
  IF IsBlob(req.ranges) THEN Zipped(1) ELSE Zipped(NumChildren + 1)

\* What handle_get, handle_get_many and execute_push_sink loop over.
SenderWalk ==
  CASE req.kind = "get"      -> Items(req.ranges)
    [] req.kind = "get_many" -> Zipped(Len(req.hashes))
    [] req.kind = "push"     -> PushWalk

\* The state machine's RangesIter; what handle_push loops over.
ReceiverWalk == IF IsPush THEN PushWalk ELSE Items(req.ranges)

\* The hash at an offset, if there is one.
HashAt(offset) ==
  IF req.kind = "get_many"
    THEN {req.hashes[i] : i \in {offset + 1} \cap DOMAIN req.hashes}
  ELSE IF offset = 0 THEN {Root}
  ELSE {ChildHash(i) : i \in {offset - 1} \cap 0 .. NumChildren - 1}

\* The hash sequence is read from the end's own store before the first child;
\* for push also when no child follows.
NeedsSeq(items, side) ==
  /\ req.kind # "get_many" /\ ~side.seq
  /\ Stores \/ side.end = "sender"
  /\ IF side.k <= Len(items) THEN items[side.k].offset > 0
     ELSE IsPush /\ ~IsBlob(req.ranges)

HasAll(chunks, h) == ChunksOf(h) \subseteq chunks

Sorted(chunks) == SetToSortSeq(chunks, <)

-------------------------------------------------------------------------------

NoImport == [on |-> FALSE, queue |-> <<>>, closed |-> FALSE, failed |-> FALSE]
Side(end) == [end |-> end, pc |-> "initial", k |-> 1, left |-> <<>>, seq |-> FALSE]

Init ==
  /\ req \in Requests /\ src \in Sources /\ mode \in Modes
  /\ walk = [s |-> SenderWalk, r |-> ReceiverWalk]
  /\ conn = "new" /\ asked = FALSE
  /\ wire = <<>> /\ stopped = FALSE
  /\ s = Side("sender")
  /\ r = Side("receiver") @@ [why |-> "none", check |-> TRUE, sizes |-> <<>>]
  /\ import = NoImport
  /\ dst \in Targets
  /\ log = <<>> /\ watched = TRUE

-------------------------------------------------------------------------------
(* Events of the provider: RequestTracker *)

Tracks == mode \in {"NotifyLog", "InterceptLog"}

\* Updates that were sent, if somebody listens.
Logged(updates) == IF Tracks /\ watched THEN log \o updates ELSE log

\* transfer_started, before the size is written.
TransferStarted == log' = Logged(<<"started">>)

\* transfer_progress, after a chunk was written: the update may be dropped
\* when the channel is full; a gone listener, or the throttle, is an error.
TransferProgress(ok) ==
  /\ \/ log' = Logged(<<"progress">>)
     \/ Tracks /\ watched /\ log' = log
  /\ ok => ~(Tracks /\ ~watched)
  /\ ~ok => (Tracks /\ ~watched) \/ "throttle" \in Faults

\* transfer_completed or transfer_aborted at the end of handle_stream.
Terminal(ok) == IF ok THEN "completed" ELSE "aborted"

\* The listener goes away.
StopWatching ==
  /\ "events" \in Faults /\ watched /\ Tracks
  /\ watched' = FALSE
  /\ UNCHANGED <<fixed, conn, asked, wire, stopped, s, r, import, dst, log>>

-------------------------------------------------------------------------------
(* The connection: handle_connection *)

Lost == conn \in {"lost", "closed", "refused"}

\* client_connected: the connection may be refused.
ClientConnected ==
  /\ conn = "new"
  /\ conn' \in {"open"} \cup (IF "refuse" \in Faults THEN {"refused"} ELSE {})
  /\ UNCHANGED <<fixed, asked, wire, stopped, s, r, import, dst, log, watched>>

Lose ==
  /\ "lose" \in Faults /\ conn = "open"
  /\ conn' = "lost"
  /\ UNCHANGED <<fixed, asked, wire, stopped, s, r, import, dst, log, watched>>

\* accept_bi fails, the loop ends, connection_closed is sent.
ConnectionClosed ==
  /\ conn = "lost"
  /\ conn' = "closed"
  /\ UNCHANGED <<fixed, asked, wire, stopped, s, r, import, dst, log, watched>>

-------------------------------------------------------------------------------
(* Failures, as the client classifies them: get/error.rs *)

GetErrors ==
  {"NotFound", "RemoteReset", "NoncompliantNode", "Io", "BadRequest", "LocalFailure"}

\* From<ConnectionError>
ConnectionError(e) ==
  CASE e \in {"VersionMismatch", "TransportError"} -> "NoncompliantNode"
    [] e = "Reset" -> "RemoteReset"
    [] e \in {"ConnectionClosed", "ApplicationClosed", "TimedOut", "LocallyClosed",
              "CidsExhausted"} -> "Io"

\* From<ReadError>: the stream was reset, or the connection is lost.
ReadError(e) == IF e = "StreamReset" THEN "RemoteReset" ELSE ConnectionError(e)

\* From<ConnectedNextError>
ConnectedNextError(e) == IF e = "RequestTooBig" THEN "BadRequest" ELSE ConnectionError(e)

\* From<AtBlobHeaderNextError>: the end of the stream where a size should be.
HeaderError(e) == IF e = "Eof" THEN "NotFound" ELSE ReadError(e)

\* From<DecodeError>: the end of the stream where an item should be, or an
\* item that does not match its hash.
DecodeError(e) ==
  CASE e = "Eof" -> "NotFound"
    [] e = "HashMismatch" -> "NoncompliantNode"
    [] OTHER -> ReadError(e)

\* How a connection may be lost here: closed by a provider that refuses it,
\* or by a restart or the network.
LossErrors == IF conn = "refused" THEN {"ApplicationClosed"} ELSE {"Reset", "TimedOut"}

\* What a read finds instead of data.
ReadErrors ==
  (IF Lost THEN LossErrors ELSE {}) \cup
  (IF wire = <<>> THEN {}
   ELSE CASE Head(wire).item = "eof" -> {"Eof"}
          [] Head(wire).item = "reset" -> {"StreamReset"}
          [] OTHER -> {})

-------------------------------------------------------------------------------
(* How an end ends *)

\* Faulty SenderEnds: a transfer that failed is reported as completed.
FaultyAlwaysCompleted(ok) ==
  /\ s' = [s EXCEPT !.pc = IF ok THEN "ok" ELSE "failed"]
  /\ wire' = Append(wire, [item |-> "eof"])
  /\ log' = IF IsPush THEN log ELSE Logged(<<Terminal(TRUE)>>)
  /\ UNCHANGED <<fixed, conn, asked, stopped, r, import, dst, watched>>

\* Faulty SenderEnds: the stream is left open.
FaultyNoFinish(ok) ==
  /\ s' = [s EXCEPT !.pc = IF ok THEN "ok" ELSE "failed"]
  /\ log' = IF IsPush THEN log ELSE Logged(<<Terminal(ok)>>)
  /\ UNCHANGED <<fixed, conn, asked, wire, stopped, r, import, dst, watched>>

\* Dropping the send stream finishes it.
SenderEnds(ok) ==
  /\ s' = [s EXCEPT !.pc = IF ok THEN "ok" ELSE "failed"]
  /\ wire' = Append(wire, [item |-> "eof"])
  /\ log' = IF IsPush THEN log ELSE Logged(<<Terminal(ok)>>)
  /\ UNCHANGED <<fixed, conn, asked, stopped, r, import, dst, watched>>

\* Dropping the receive stream stops it; dropping the import channel ends it.
ReceiverFails(why) ==
  /\ r' = [r EXCEPT !.pc = "failed", !.why = why]
  /\ stopped' = TRUE
  /\ import' = [import EXCEPT !.closed = TRUE]
  /\ log' = IF IsPush THEN Logged(<<Terminal(FALSE)>>) ELSE log
  /\ UNCHANGED <<fixed, conn, asked, wire, s, dst, watched>>

ReceiverSucceeds(stop) ==
  /\ r' = [r EXCEPT !.pc = "ok"]
  /\ stopped' = (stopped \/ stop)
  /\ log' = IF IsPush THEN Logged(<<Terminal(TRUE)>>) ELSE log
  /\ UNCHANGED <<fixed, conn, asked, wire, s, import, dst, watched>>

-------------------------------------------------------------------------------
(* Opening the stream and accepting the request *)

\* AtConnected::next looks at the length of a request before it sends it;
\* start_get_many and write_push_request do not.
TooBigToSend == req.big /\ req.kind = "get"

\* AtInitial::next and AtConnected::next; execute_push_sink likewise.
Ask ==
  /\ ~asked /\ conn \in {"new", "open"} /\ ~TooBigToSend
  /\ asked' = TRUE
  /\ IF IsPush THEN s' = [s EXCEPT !.pc = "next"] /\ r' = r
     ELSE r' = [r EXCEPT !.pc = "next"] /\ s' = s
  /\ UNCHANGED <<fixed, conn, wire, stopped, import, dst, log, watched>>

\* open_bi or the write fails, or the request is too big.
AskFails ==
  /\ ~asked
  /\ \E e \in IF Lost THEN LossErrors ELSE IF TooBigToSend THEN {"RequestTooBig"} ELSE {} :
       IF IsPush THEN s' = [s EXCEPT !.pc = "failed"] /\ r' = r
       ELSE r' = [r EXCEPT !.pc = "failed", !.why = ConnectedNextError(e)] /\ s' = s
  /\ asked' = TRUE
  /\ UNCHANGED <<fixed, conn, wire, stopped, import, dst, log, watched>>

HandlerPc == IF IsPush THEN r.pc ELSE s.pc

\* EventSender::request: what the mode, and an interceptor, say.
Verdicts ==
  CASE mode = "Disabled" -> {FALSE}
    [] mode \in {"Intercept", "InterceptLog"} -> {TRUE, FALSE}
    [] OTHER -> {TRUE}

\* A stream has been accepted whose handler has not started.
Arrived == asked /\ conn = "open" /\ HandlerPc = "initial"

\* Request::read_async: a request that is too long is not read.
ReadAsync == ~req.big

\* handle_stream: the request cannot be read, both streams are dropped and
\* no event is sent.
Unread ==
  /\ Arrived /\ ~ReadAsync
  /\ IF IsPush
       THEN /\ r' = [r EXCEPT !.pc = "failed", !.why = "refused"]
            /\ stopped' = TRUE
            /\ UNCHANGED <<s, wire>>
       ELSE /\ s' = [s EXCEPT !.pc = "failed"]
            /\ wire' = <<[item |-> "eof"]>>
            /\ UNCHANGED <<r, stopped>>
  /\ UNCHANGED <<fixed, conn, asked, import, dst, log, watched>>

\* handle_stream: read the request, ask for permission, go on to the
\* handler, or reset the send stream and drop the other.
Accept ==
  /\ Arrived /\ ReadAsync
  /\ \E ok \in Verdicts :
       IF IsPush
         THEN /\ r' = [r EXCEPT !.pc = IF ok THEN "next" ELSE "failed",
                                !.why = IF ok THEN @ ELSE "refused"]
              /\ stopped' = ~ok
              /\ UNCHANGED <<s, wire>>
         ELSE /\ s' = [s EXCEPT !.pc = IF ok THEN "next" ELSE "failed"]
              /\ wire' = IF ok THEN wire ELSE <<[item |-> "reset"]>>
              /\ UNCHANGED <<r, stopped>>
  /\ UNCHANGED <<fixed, conn, asked, import, dst, log, watched>>

-------------------------------------------------------------------------------
(* The sender: handle_get, handle_get_many, execute_push_sink *)

CanWrite == ~Lost /\ ~stopped

\* get_bytes of the root, from the sender's store.
SenderLoadsSeq ==
  /\ s.pc = "next" /\ NeedsSeq(walk.s, s)
  /\ IF src[Root].entry /\ HasAll(src[Root].chunks, Root)
       THEN /\ s' = [s EXCEPT !.seq = TRUE]
            /\ UNCHANGED <<fixed, conn, asked, wire, stopped, r, import, dst, log, watched>>
       ELSE SenderEnds(FALSE)

\* The walk is over, or past the last hash.
SenderFinishes ==
  /\ s.pc = "next" /\ ~NeedsSeq(walk.s, s)
  /\ s.k <= Len(walk.s) => HashAt(walk.s[s.k].offset) = {}
  /\ SenderEnds(TRUE)

\* Faulty SendSize: a blob the store does not have is passed over.
FaultySkipsMissing ==
  /\ s.pc = "next" /\ s.k <= Len(walk.s) /\ ~NeedsSeq(walk.s, s)
  /\ \E h \in HashAt(walk.s[s.k].offset) :
       IF ~src[h].entry /\ BlobSizeOf(h) # 0
         THEN /\ s' = [s EXCEPT !.k = @ + 1]
              /\ UNCHANGED <<fixed, conn, asked, wire, stopped, r, import, dst, log, watched>>
         ELSE /\ CanWrite /\ Len(wire) < WireCap
              /\ wire' = Append(wire, [item |-> "size", blob |-> h])
              /\ s' = [s EXCEPT !.pc = "send",
                                !.left = Sorted(Selected(h, walk.s[s.k].ranges))]
              /\ TransferStarted
              /\ UNCHANGED <<fixed, conn, asked, stopped, r, import, dst, watched>>

\* export_bao of the sender's store begins with an error if there is no
\* entry, with nothing at all, and ends well, if the entry has no size yet
\* (export_bao_impl of the file store), with the size otherwise.
ExportBao(h) ==
  IF BlobSizeOf(h) # 0 /\ ~src[h].entry THEN "error"
  ELSE IF BlobSizeOf(h) # 0 /\ ~src[h].sized THEN "nothing"
  ELSE "size"

\* The next blob, as far as its size.
SendSize ==
  /\ s.pc = "next" /\ s.k <= Len(walk.s) /\ ~NeedsSeq(walk.s, s)
  /\ \E h \in HashAt(walk.s[s.k].offset) :
       IF ExportBao(h) = "error" THEN SenderEnds(FALSE)
       ELSE IF ExportBao(h) = "nothing"
         THEN /\ s' = [s EXCEPT !.k = @ + 1]
              /\ UNCHANGED <<fixed, conn, asked, wire, stopped, r, import, dst, log, watched>>
         ELSE /\ CanWrite /\ Len(wire) < WireCap
              /\ wire' = Append(wire, [item |-> "size", blob |-> h])
              /\ s' = [s EXCEPT !.pc = "send",
                                !.left = IF BlobSizeOf(h) = 0 THEN <<>>
                                         ELSE Sorted(Selected(h, walk.s[s.k].ranges))]
              /\ IF IsPush THEN log' = log ELSE TransferStarted
              /\ UNCHANGED <<fixed, conn, asked, stopped, r, import, dst, watched>>

\* A chunk, then progress; an error if the store does not have it, or if the
\* progress is refused (push: nobody takes it any more).
SendLeaf ==
  /\ s.pc = "send" /\ s.left # <<>>
  /\ \E h \in HashAt(walk.s[s.k].offset) :
       IF Head(s.left) \notin src[h].chunks THEN SenderEnds(FALSE)
       ELSE /\ CanWrite /\ Len(wire) < WireCap
            /\ \E ok \in BOOLEAN :
                 /\ IF IsPush THEN log' = log /\ (~ok => "cancel" \in Faults)
                    ELSE IF ok THEN TransferProgress(TRUE)
                    ELSE /\ TransferProgress(FALSE)
                 /\ s' = [s EXCEPT !.left = Tail(@), !.pc = IF ok THEN @ ELSE "ending"]
            /\ wire' = Append(wire, [item |-> "leaf", blob |-> h, chunk |-> Head(s.left)])
            /\ UNCHANGED <<fixed, conn, asked, stopped, r, import, dst, watched>>

SendDone ==
  /\ s.pc = "send" /\ s.left = <<>>
  /\ s' = [s EXCEPT !.pc = "next", !.k = @ + 1]
  /\ UNCHANGED <<fixed, conn, asked, wire, stopped, r, import, dst, log, watched>>

\* The progress was refused, or a write failed.
SenderAborts ==
  /\ \/ s.pc = "ending"
     \/ s.pc \in {"next", "send"} /\ ~CanWrite
  /\ SenderEnds(FALSE)

-------------------------------------------------------------------------------
(* The receiver: the get state machine and its driver, or handle_push *)

AtItem == walk.r[r.k]

ReceiverLoadsSeq ==
  /\ r.pc = "next" /\ NeedsSeq(walk.r, r)
  /\ IF HasAll(dst[Root], Root)
       THEN /\ r' = [r EXCEPT !.seq = TRUE]
            /\ UNCHANGED <<fixed, conn, asked, wire, stopped, s, import, dst, log, watched>>
       ELSE ReceiverFails("LocalFailure")

\* AtStartRoot and AtStartChild::next, with the hash of the blob.
StartBlob ==
  /\ r.pc = "next" /\ ~NeedsSeq(walk.r, r)
  /\ r.k <= Len(walk.r) /\ HashAt(AtItem.offset) # {}
  /\ r' = [r EXCEPT !.pc = "header"]
  /\ UNCHANGED <<fixed, conn, asked, wire, stopped, s, import, dst, log, watched>>

\* No more children: AtEndBlob::next; or past the last hash: finish.  For
\* push the handler is done.
NoMoreBlobs ==
  /\ r.pc = "next" /\ ~NeedsSeq(walk.r, r)
  /\ r.k <= Len(walk.r) => HashAt(AtItem.offset) = {}
  /\ IF IsPush THEN ReceiverSucceeds(TRUE)
     ELSE /\ r' = [r EXCEPT !.pc = "closing", !.check = r.k > Len(walk.r)]
          /\ UNCHANGED <<fixed, conn, asked, wire, stopped, s, import, dst, log, watched>>

\* AtBlobHeader::next, and what follows for the client: an import, unless
\* the blob is empty; a look at the size; or nothing more.
ReadHeader ==
  /\ r.pc = "header" /\ wire # <<>> /\ Head(wire).item \in {"size", "leaf"}
  /\ \E h \in HashAt(AtItem.offset) :
       IF Head(wire).item = "leaf" \/ (BlobSizeOf(Head(wire).blob) = 0 /\ BlobSizeOf(h) # 0)
         THEN ReceiverFails(DecodeError("HashMismatch"))
       ELSE LET size == BlobSizeOf(Head(wire).blob) IN
       IF req.op = "sizes" /\ AtItem.offset = 0 /\ size > req.max
         THEN ReceiverFails("BadRequest")
         ELSE /\ wire' = Tail(wire)
              /\ r' = [r EXCEPT !.pc = IF req.op = "header" THEN "closing"
                                       ELSE IF size = 0 THEN "end" ELSE "content",
                                !.check = req.op # "header",
                                !.left = IF size = 0 \/ req.op = "header" THEN <<>>
                                         ELSE Sorted(Selected(Head(wire).blob, AtItem.ranges)),
                                !.sizes = IF Stores THEN @ ELSE Append(@, size)]
              /\ import' = [NoImport EXCEPT !.on = Stores /\ size # 0,
                                           !.failed = import.failed]
              /\ UNCHANGED <<fixed, conn, asked, stopped, s, dst, log, watched>>

\* AtBlobContent::next: an item that does not match the hash is an error.
\* Then, with a store, progress, an error when nobody takes it any more, and
\* the import channel, an error when the import is gone.
ReadLeaf ==
  /\ r.pc = "content" /\ r.left # <<>> /\ wire # <<>> /\ Head(wire).item \in {"size", "leaf"}
  /\ \E h \in HashAt(AtItem.offset) :
       IF Head(wire) # [item |-> "leaf", blob |-> h, chunk |-> Head(r.left)]
         THEN ReceiverFails(DecodeError("HashMismatch"))
         ELSE \/ /\ Stores => import.on /\ Len(import.queue) < BufferCap
                 /\ import' = IF Stores THEN [import EXCEPT !.queue = Append(@, Head(r.left))]
                              ELSE import
                 /\ wire' = Tail(wire)
                 /\ r' = [r EXCEPT !.left = Tail(@)]
                 /\ UNCHANGED <<fixed, conn, asked, stopped, s, dst, log, watched>>
              \/ /\ Stores
                 /\ ~import.on \/ (~IsPush /\ "cancel" \in Faults)
                 /\ ReceiverFails("LocalFailure")

\* The stream ended or was reset, or the connection is gone: where a size,
\* an item or nothing more should be.
ReadFails ==
  \E e \in ReadErrors :
    \/ r.pc = "header" /\ ReceiverFails(HeaderError(e))
    \/ r.pc = "content" /\ r.left # <<>> /\ ReceiverFails(DecodeError(e))
    \/ r.pc = "closing" /\ r.check /\ e # "Eof" /\ ReceiverFails(ReadError(e))

\* Every item was read: the import channel is closed.
ContentDone ==
  /\ r.pc = "content" /\ r.left = <<>>
  /\ r' = [r EXCEPT !.pc = IF Stores THEN "join" ELSE "end"]
  /\ import' = [import EXCEPT !.closed = TRUE]
  /\ UNCHANGED <<fixed, conn, asked, wire, stopped, s, dst, log, watched>>

\* Faulty Join: the blob ends without waiting for the import.
FaultyNoJoin ==
  /\ r.pc = "join"
  /\ IF IsPush /\ import.failed THEN ReceiverFails("LocalFailure")
     ELSE /\ r' = [r EXCEPT !.pc = "end"]
          /\ UNCHANGED <<fixed, conn, asked, wire, stopped, s, import, dst, log, watched>>

\* The import has answered.  For push an error is an error; the get driver
\* only asks whether there was an answer.
Join ==
  /\ r.pc = "join" /\ ~import.on
  /\ IF IsPush /\ import.failed THEN ReceiverFails("LocalFailure")
     ELSE /\ r' = [r EXCEPT !.pc = "end"]
          /\ UNCHANGED <<fixed, conn, asked, wire, stopped, s, import, dst, log, watched>>

EndBlob ==
  /\ r.pc = "end"
  /\ r' = [r EXCEPT !.pc = "next", !.k = @ + 1]
  /\ UNCHANGED <<fixed, conn, asked, wire, stopped, s, import, dst, log, watched>>

\* AtClosing::next: look for extra data, or just stop.
Close ==
  /\ r.pc = "closing"
  /\ r.check => wire # <<>> /\ Head(wire).item # "reset"
  /\ ReceiverSucceeds(~r.check \/ Head(wire).item # "eof")

-------------------------------------------------------------------------------
(* The store's import task: import_bao *)

ImportWrite ==
  /\ import.on /\ import.queue # <<>>
  /\ \E h \in HashAt(AtItem.offset) :
       dst' = [dst EXCEPT ![h] = @ \cup {Head(import.queue)}]
  /\ import' = [import EXCEPT !.queue = Tail(@)]
  /\ UNCHANGED <<fixed, conn, asked, wire, stopped, s, r, log, watched>>

\* A write failed: the error is the answer, the rest of the queue is dropped.
ImportFails ==
  /\ "import" \in Faults /\ import.on /\ import.queue # <<>>
  /\ import' = [import EXCEPT !.on = FALSE, !.queue = <<>>, !.failed = TRUE]
  /\ UNCHANGED <<fixed, conn, asked, wire, stopped, s, r, dst, log, watched>>

ImportEnds ==
  /\ import.on /\ import.closed /\ import.queue = <<>>
  /\ import' = [import EXCEPT !.on = FALSE]
  /\ UNCHANGED <<fixed, conn, asked, wire, stopped, s, r, dst, log, watched>>

-------------------------------------------------------------------------------

SenderStep ==
  \/ SenderLoadsSeq \/ SenderFinishes \/ SendSize \/ SendLeaf \/ SendDone \/ SenderAborts

ReceiverStep ==
  \/ ReceiverLoadsSeq \/ StartBlob \/ NoMoreBlobs \/ ReadHeader \/ ReadLeaf \/ ReadFails
  \/ ContentDone \/ Join \/ EndBlob \/ Close

Next ==
  \/ ClientConnected
  \/ Lose
  \/ ConnectionClosed
  \/ StopWatching
  \/ Ask
  \/ AskFails
  \/ Unread
  \/ Accept
  \/ SenderLoadsSeq
  \/ SenderFinishes
  \/ SendSize
  \/ SendLeaf
  \/ SendDone
  \/ SenderAborts
  \/ ReceiverLoadsSeq
  \/ StartBlob
  \/ NoMoreBlobs
  \/ ReadHeader
  \/ ReadLeaf
  \/ ReadFails
  \/ ContentDone
  \/ Join
  \/ EndBlob
  \/ Close
  \/ ImportWrite
  \/ ImportFails
  \/ ImportEnds

Spec == Init /\ [][Next]_vars

\* Every task is scheduled, and the provider accepts connections and streams.
LiveSpec ==
  /\ Spec
  /\ WF_vars(ClientConnected) /\ WF_vars(Ask \/ AskFails) /\ WF_vars(Accept \/ Unread)
  /\ WF_vars(SenderStep) /\ WF_vars(ReceiverStep)
  /\ WF_vars(ImportWrite \/ ImportEnds) /\ WF_vars(ConnectionClosed)

(***************************************************************************)
(* Properties                                                              *)
(***************************************************************************)

Ended == {"ok", "failed"}

TypeOK ==
  /\ req \in Requests /\ src \in Sources /\ mode \in Modes
  /\ conn \in {"new", "open", "refused", "lost", "closed"}
  /\ {asked, stopped, watched, import.on, import.closed, import.failed,
      s.seq, r.seq, r.check} \subseteq BOOLEAN
  /\ r.why \in GetErrors \cup {"none", "refused"}
  /\ Len(wire) <= WireCap + 1 /\ Len(import.queue) <= BufferCap
  /\ s.pc \in {"initial", "next", "send", "ending"} \cup Ended
  /\ r.pc \in {"initial", "next", "header", "content", "join", "end", "closing"} \cup Ended
  /\ \A h \in Blobs : dst[h] \subseteq ChunksOf(h)
  /\ Range(log) \subseteq {"started", "progress", "completed", "aborted"}

\* The blobs the request selects something of, with what it selects.
Wanted ==
  UNION {{[blob |-> h, chunks |-> IF BlobSizeOf(h) = 0 THEN {}
                                  ELSE Selected(h, walk.s[k].ranges)]
            : h \in HashAt(walk.s[k].offset)}
         : k \in DOMAIN walk.s}

\* A request that ended well on the receiving side has what it asked for.
\* With a store that is everything, in the store: execute_get_sink,
\* execute_get_many_sink and handle_push return Ok only after the last chunk
\* was imported.  (The get driver does not look at the answer of an import,
\* so for it this needs that no import failed.)  Without one it is the true
\* sizes of the blobs it read, and, unless it read a size only, proof that
\* the provider has the chunks it named (get_verified_size, get_chunk_probe,
\* get_hash_seq_and_sizes).
OkMeansDelivered ==
  r.pc = "ok" =>
    IF Stores
      THEN IsPush \/ ~import.failed => \A w \in Wanted : w.chunks \subseteq dst[w.blob]
      ELSE /\ r.sizes = [i \in DOMAIN r.sizes |-> BlobSizeOf(CHOOSE h \in HashAt(i - 1) : TRUE)]
           /\ req.op = "sizes" => Len(r.sizes) = NumChildren + 1
           /\ req.op # "header" => \A w \in Wanted : w.chunks \subseteq src[w.blob].chunks

\* The two ends stay at the same blob, and the client blames a provider
\* running this code for nothing it has not done: it never takes it for
\* noncompliant, as the comment on DecodeError says of a well-behaved
\* provider, and says that data was not found only when the provider gave up.
BlamesRightly ==
  /\ r.why # "NoncompliantNode"
  /\ r.why = "NotFound" => s.pc = "failed"

IsTerminal(update) == update \in {"completed", "aborted"}

\* The updates of a request: nothing before the handler starts, one terminal
\* update and nothing after it, and it is there when the handler has ended
\* and somebody listens; "completed" comes only after everything the request
\* asked for was written (get, get_many) or stored (push).
UpdatesExact ==
  LET denied == req.big \/ r.why = "refused" \/ \E i \in DOMAIN wire : wire[i].item = "reset" IN
  /\ log # <<>> => Tracks /\ HandlerPc # "initial"
  /\ \A i \in DOMAIN log : IsTerminal(log[i]) => i = Len(log) /\ HandlerPc \in Ended
  /\ HandlerPc \in Ended /\ ~denied /\ Tracks /\ watched =>
       log # <<>> /\ Last(log) = Terminal(HandlerPc = "ok")
  /\ Contains(log, "completed") =>
       \A w \in Wanted :
         IF IsPush THEN w.chunks \subseteq dst[w.blob]
         ELSE BlobSizeOf(w.blob) # 0 =>
                src[w.blob].entry /\ w.chunks \subseteq src[w.blob].chunks

\* Both ends and the import come to an end, whatever is lost, refused or
\* throttled: no end waits for the other forever.  A listener to events that
\* stays must go on reading them.
TransferEnds ==
  <>[]( /\ (IF IsPush THEN s.pc ELSE r.pc) \in Ended
        /\ HandlerPc \in Ended \cup {"initial"}
        /\ ~import.on )

===============================================================================
