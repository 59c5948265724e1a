------------------------------ MODULE Downloader ------------------------------
(***************************************************************************)
(* One download (api/downloader.rs): a request is executed against one     *)
(* provider after the other until it is complete, or it is split into      *)
(* parts that do this at the same time.  Parts report progress through     *)
(* bounded channels, which the handler forwards one after the other to the *)
(* user's channel; parts and forwarding run in one task.                   *)
(*                                                                         *)
(* A transfer is taken at the level of blobs and chunks; the stream and    *)
(* the import below it are in module Transfer, connecting in module        *)
(* ConnectionPool.                                                         *)
(***************************************************************************)
EXTENDS LocalInfo

CONSTANTS Downloads,   \* records [ranges, hashes, split]; hashes of get_many
          Provider,    \* the providers
          Offers,      \* what they may have: functions from providers to the
                       \* chunks of every blob
          ChanCap,     \* items a part's progress channel holds (16)
          OutCap,      \* items the user's channel holds (32)
          MaxParallel, \* parts at the same time (32)
          ReceiverCap, \* progress channels waiting to be read (32)
          Faults

VARIABLES serves,      \* the chunks each provider has of every blob
          download,    \* the DownloadRequest
          phase,       \* "new", "single", "first", "parts", "done" or "aborted"
          part,        \* the requests executed, with their state
          chan, order, \* progress channels of the parts; those not yet read
          busy,        \* the item the handler is sending to the user
          out,         \* the user's channel
          user,        \* "reading" or "gone"
          result,      \* what the download returned to the user
          faults       \* the faults so far: their kind and the provider

vars == <<store, serves, download, phase, part, chan, order, busy, out, user, result, faults>>
handler == <<serves, download, phase, chan, order, busy, out, user, result>>

NoUnits == <<>>

\* execute_get of one request, about to start: all providers, in any order.
NewPart(h, ranges, providers, pc) ==
  [hash |-> h, ranges |-> ranges, pc |-> pc, providers |-> providers,
   units |-> NoUnits, collected |-> FALSE]

Orders == {f \in [1..Cardinality(Provider) -> Provider] : Range(f) = Provider}

Init ==
  /\ store = [h \in Blobs |-> EmptyBitfield]
  /\ serves \in Offers
  /\ download \in Downloads
  /\ phase = "new"
  /\ part = <<>> /\ chan = <<>> /\ order = <<>>
  /\ busy = <<>> /\ out = <<>> /\ user = "reading"
  /\ result = "none" /\ faults = {}

IsMany == download.hashes # <<>>

-------------------------------------------------------------------------------
(* split_request *)

\* After the root is there: a request for every child asked for.
ChildParts ==
  LET n == Observed(Root).size \div HashSize
      ranges == TakeInfinite(download.ranges, StartIter, n + 1)
      wanted == SelectSeq([i \in 1..n |-> i], LAMBDA i : ranges[i + 1] # {})
  IN [k \in DOMAIN wanted |->
        [hash |-> Root,
         ranges |-> BuilderBuild(AtOffset(EmptyBuilder, wanted[k], ranges[wanted[k] + 1]))]]

\* For a GetMany request: a blob request per hash.
BlobParts ==
  [i \in DOMAIN download.hashes |->
     [hash |-> download.hashes[i],
      ranges |-> FromRanges(<<At(download.ranges, i - 1)>>)]]

StartParts(requests) ==
  /\ \E providers \in [DOMAIN requests -> Orders] :
       part' = [i \in DOMAIN requests |->
                  NewPart(requests[i].hash, requests[i].ranges, providers[i], "queued")]
  /\ chan' = [i \in DOMAIN requests |-> <<>>]
  /\ phase' = "parts"

\* handle_download_impl: a GetMany request is always split; a split Get
\* request starts with the root, whose progress goes nowhere.
Start ==
  /\ phase = "new"
  /\ IF IsMany THEN StartParts(BlobParts)
     ELSE /\ \E providers \in Orders :
               part' = << NewPart(Root, IF download.split THEN RootSeq ELSE download.ranges,
                                  providers, "next") >>
          /\ phase' = IF download.split THEN "first" ELSE "single"
          /\ chan' = chan
  /\ UNCHANGED <<store, serves, download, order, busy, out, user, result, faults>>

\* The root is there; its size must be a multiple of the size of a hash.
Split ==
  /\ phase = "first" /\ part[1].pc = "ok"
  /\ IF Observed(Root).size % HashSize = 0
       THEN StartParts(ChildParts) /\ busy' = busy
       ELSE phase' = "done" /\ busy' = <<"error">> /\ UNCHANGED <<part, chan>>
  /\ UNCHANGED <<store, serves, download, order, out, user, result, faults>>

-------------------------------------------------------------------------------
(* execute_get, for part i *)

Running(i) ==
  /\ phase \in {"single", "first", "parts"} /\ busy = <<>>
  /\ part[i].pc \notin {"queued", "ok", "err"}

\* The progress sink: the user's channel, nothing, or the part's channel.
CanEmit(i) ==
  CASE phase = "single" -> Len(out) < OutCap \/ user = "gone"
    [] phase = "first"  -> TRUE
    [] phase = "parts"  -> Len(chan[i]) < ChanCap

\* Report an item and go on; without anybody to take it that is an error.
Emit(i, item, next) ==
  /\ CanEmit(i)
  /\ out' = IF phase = "single" /\ user # "gone" THEN Append(out, item) ELSE out
  /\ chan' = IF phase = "parts" THEN [chan EXCEPT ![i] = Append(@, item)] ELSE chan
  /\ part' = [part EXCEPT ![i] = IF phase = "single" /\ user = "gone"
                                   THEN [@ EXCEPT !.pc = "err"] ELSE next]
  /\ UNCHANGED <<serves, download, phase, order, busy, user, result>>

Goto(i, pc) == [part[i] EXCEPT !.pc = pc]

\* TryProvider.
TryProvider(i) ==
  /\ Running(i) /\ part[i].pc = "next" /\ part[i].providers # <<>>
  /\ Emit(i, "try", Goto(i, "check"))
  /\ UNCHANGED <<store, faults>>

\* "Unable to download".
NoProviderLeft(i) ==
  /\ Running(i) /\ part[i].pc = "next" /\ part[i].providers = <<>>
  /\ part' = [part EXCEPT ![i].pc = "err"]
  /\ UNCHANGED <<store, handler, faults>>

InfoOf(i) ==
  IF part[i].hash = Root THEN LocalForRequest(part[i].ranges)
  ELSE LocalForBlob(part[i].hash, part[i].ranges)

\* What a provider sends for a request: a header and the chunks of every
\* blob, up to the end of the hash sequence.
UnitsOf(i, ranges) ==
  LET items == SelectSeq(Items(ranges), LAMBDA item : item.offset <= NumChildren)
      HashOf(item) == IF item.offset = 0 THEN part[i].hash ELSE ChildHash(item.offset - 1)
      Chunk(item, c) == [blob |-> HashOf(item), chunk |-> c, child |-> item.offset > 0]
      Leaves(item) == IF BlobSizeOf(HashOf(item)) = 0 THEN {}
                      ELSE Selected(HashOf(item), item.ranges)
      Blob(item) == << Chunk(item, -1) >> \o
                      [k \in 1..Cardinality(Leaves(item)) |->
                         Chunk(item, SetToSortSeq(Leaves(item), <)[k])]
  IN FlattenSeq([k \in DOMAIN items |-> Blob(items[k])])

\* local_for_request: done if all is here; otherwise what is missing is
\* asked for, once the connection is there.
CheckLocal(i) ==
  /\ Running(i) /\ part[i].pc = "check"
  /\ \E info \in {InfoOf(i)} :
       IF IsLocal(info) THEN part' = [part EXCEPT ![i].pc = "ok"]
       ELSE \E missing \in {Missing(info)} :
              part' = [part EXCEPT ![i].pc = "connect", ![i].units = UnitsOf(i, missing)]
  /\ UNCHANGED <<store, handler, faults>>

Connected(i) ==
  /\ Running(i) /\ part[i].pc = "connect"
  /\ part' = [part EXCEPT ![i].pc = "get"]
  /\ UNCHANGED <<store, handler, faults>>

ConnectFails(i) ==
  /\ "connect" \in Faults /\ Running(i) /\ part[i].pc = "connect"
  /\ part' = [part EXCEPT ![i].pc = "failed"]
  /\ faults' = faults \cup {<<"connect", Head(part[i].providers)>>}
  /\ UNCHANGED <<store, handler>>

\* The provider can send the next unit, and both ends know its hash.
Available(i, unit) ==
  LET has == serves[Head(part[i].providers)] IN
  /\ unit.child => ChunksOf(Root) \subseteq has[Root] /\ IsComplete(Observed(Root))
  /\ unit.chunk = -1 => BlobSizeOf(unit.blob) = 0 \/ has[unit.blob] # {}
  /\ unit.chunk # -1 => unit.chunk \in has[unit.blob]

\* execute_get_sink: a header, or a chunk, which is reported and imported.
Receive(i) ==
  /\ Running(i) /\ part[i].pc = "get" /\ part[i].units # <<>>
  /\ LET unit == Head(part[i].units)
         next == [part[i] EXCEPT !.units = Tail(@)]
     IN /\ Available(i, unit)
        /\ IF unit.chunk = -1
             THEN part' = [part EXCEPT ![i] = next] /\ UNCHANGED <<store, handler>>
             ELSE /\ Emit(i, "progress", next)
                  /\ store' = [store EXCEPT ![unit.blob] =
                       Combine(@, NewBitfield({unit.chunk}, BlobSizeOf(unit.blob)))]
  /\ faults' = faults

\* The import of the last chunk of a blob fails after it was handed over:
\* get_blob_ranges_impl does not look at the answer.
ReceiveUnstored(i) ==
  /\ "import" \in Faults /\ Running(i) /\ part[i].pc = "get" /\ part[i].units # <<>>
  /\ LET unit == Head(part[i].units)
         rest == Tail(part[i].units)
     IN /\ Available(i, unit) /\ unit.chunk # -1
        /\ rest # <<>> => Head(rest).chunk = -1
        /\ Emit(i, "progress", [part[i] EXCEPT !.units = rest])
  /\ faults' = faults \cup {<<"import", Head(part[i].providers)>>}
  /\ store' = store

\* The provider does not have it, or the hash sequence is not here.
TransferFails(i) ==
  /\ Running(i) /\ part[i].pc = "get"
  /\ part[i].units # <<>> /\ ~Available(i, Head(part[i].units))
  /\ part' = [part EXCEPT ![i].pc = "failed"]
  /\ UNCHANGED <<store, handler, faults>>

\* The connection is lost.
ConnectionLost(i) ==
  /\ "lose" \in Faults /\ Running(i) /\ part[i].pc = "get"
  /\ part' = [part EXCEPT ![i].pc = "failed"]
  /\ faults' = faults \cup {<<"lose", Head(part[i].providers)>>}
  /\ UNCHANGED <<store, handler>>

\* Faulty ProviderFailed: the next provider is not tried.
FaultyGivesUp(i) ==
  /\ Running(i) /\ part[i].pc = "failed"
  /\ Emit(i, "failed", Goto(i, "err"))
  /\ UNCHANGED <<store, faults>>

\* ProviderFailed, and on to the next one.
ProviderFailed(i) ==
  /\ Running(i) /\ part[i].pc = "failed"
  /\ Emit(i, "failed", [part[i] EXCEPT !.pc = "next", !.providers = Tail(@), !.units = NoUnits])
  /\ UNCHANGED <<store, faults>>

PartComplete(i) ==
  /\ Running(i) /\ part[i].pc = "get" /\ part[i].units = <<>>
  /\ Emit(i, "complete", Goto(i, "ok"))
  /\ UNCHANGED <<store, faults>>

-------------------------------------------------------------------------------
(* handle_download and the loop of handle_download_split_impl *)

\* The only request, or the first of a split one, has ended.
SingleEnds ==
  /\ \/ phase = "single" /\ part[1].pc \in {"ok", "err"}
     \/ phase = "first" /\ part[1].pc = "err"
  /\ phase' = "done"
  /\ busy' = IF part[1].pc = "err" THEN <<"error">> ELSE <<>>
  /\ UNCHANGED <<store, serves, download, part, chan, order, out, user, result, faults>>

Active == {i \in DOMAIN part : part[i].pc # "queued" /\ ~part[i].collected}

\* buffered_unordered starts the next part, whose channel is queued behind the
\* one that is being read once there is room.
Launch ==
  /\ phase = "parts" /\ busy = <<>> /\ Cardinality(Active) < MaxParallel
  /\ Len(order) <= ReceiverCap
  /\ \E i \in DOMAIN part :
       /\ part[i].pc = "queued" /\ \A j \in 1 .. i - 1 : part[j].pc # "queued"
       /\ part' = [part EXCEPT ![i].pc = "next"]
       /\ order' = Append(order, i)
  /\ UNCHANGED <<store, serves, download, phase, chan, busy, out, user, result, faults>>

\* Faulty ForwardProgress: only the channel of the first part is read.
FaultyStaysOnChannel ==
  /\ phase = "parts" /\ busy = <<>> /\ order # <<>>
  /\ LET i == Head(order) IN
     /\ chan[i] # <<>>
     /\ busy' = <<Head(chan[i])>>
     /\ chan' = [chan EXCEPT ![i] = Tail(@)]
  /\ UNCHANGED <<store, serves, download, phase, part, order, out, user, result, faults>>

\* progress_stream.next: an item of the first channel, or, when its part has
\* ended, on to the next channel.
ForwardProgress ==
  /\ phase = "parts" /\ busy = <<>> /\ order # <<>>
  /\ LET i == Head(order) IN
     \/ /\ chan[i] # <<>>
        /\ busy' = <<Head(chan[i])>>
        /\ chan' = [chan EXCEPT ![i] = Tail(@)]
        /\ order' = order
     \/ /\ chan[i] = <<>> /\ part[i].pc \in {"ok", "err"}
        /\ order' = Tail(order)
        /\ UNCHANGED <<busy, chan>>
  /\ UNCHANGED <<store, serves, download, phase, part, out, user, result, faults>>

\* Faulty CollectPart: a failed part is not reported.
FaultyIgnoresFailure ==
  /\ phase = "parts" /\ busy = <<>>
  /\ \E i \in Active :
       /\ part[i].pc \in {"ok", "err"}
       /\ part' = [part EXCEPT ![i].collected = TRUE]
       /\ busy' = busy
  /\ UNCHANGED <<store, serves, download, phase, chan, order, out, user, result, faults>>

\* futs.next: a part has ended; a failure is reported.
CollectPart ==
  /\ phase = "parts" /\ busy = <<>>
  /\ \E i \in Active :
       /\ part[i].pc \in {"ok", "err"}
       /\ part' = [part EXCEPT ![i].collected = TRUE]
       /\ busy' = IF part[i].pc = "err" THEN <<"error">> ELSE <<>>
  /\ UNCHANGED <<store, serves, download, phase, chan, order, out, user, result, faults>>

\* futs.next is None: what is left in the progress channels is dropped.
AllCollected ==
  /\ phase = "parts" /\ busy = <<>> /\ \A i \in DOMAIN part : part[i].collected
  /\ phase' = "done"
  /\ UNCHANGED <<store, serves, download, part, chan, order, busy, out, user, result, faults>>

\* tx.closed: nobody is interested any more.
UserClosed ==
  /\ phase = "parts" /\ user = "gone"
  /\ phase' = "done" /\ busy' = <<>>
  /\ UNCHANGED <<store, serves, download, part, chan, order, out, user, result, faults>>

\* tx.send of the item at hand; parts do not run meanwhile.
SendItem ==
  /\ busy # <<>> /\ (Len(out) < OutCap \/ user = "gone")
  /\ out' = IF user = "gone" THEN out ELSE out \o busy
  /\ busy' = <<>>
  /\ UNCHANGED <<store, serves, download, phase, part, chan, order, user, result, faults>>

\* The handler's task ends without a word: it panics, or the last Downloader is
\* dropped, whose actor then ends and aborts the tasks it has spawned.
Aborted ==
  /\ "abort" \in Faults
  /\ phase \notin {"done", "aborted"} \/ busy # <<>>
  /\ phase' = "aborted" /\ busy' = <<>>
  /\ part' = <<>> /\ chan' = <<>> /\ order' = <<>>
  /\ UNCHANGED <<store, serves, download, out, user, result, faults>>

-------------------------------------------------------------------------------
(* The user: DownloadProgress::complete *)

ReadItem ==
  /\ user = "reading" /\ out # <<>>
  /\ out' = Tail(out)
  /\ IF Head(out) = "error" THEN result' = "error" /\ user' = "gone"
     ELSE UNCHANGED <<result, user>>
  /\ UNCHANGED <<store, serves, download, phase, part, chan, order, busy, faults>>

\* The channel has no sender any more; that is Ok, whatever the reason.
ReadEnd ==
  /\ user = "reading" /\ out = <<>> /\ busy = <<>> /\ phase \in {"done", "aborted"}
  /\ result' = "ok" /\ user' = "gone"
  /\ UNCHANGED <<store, serves, download, phase, part, chan, order, busy, out, faults>>

\* The user loses interest.
Cancel ==
  /\ "cancel" \in Faults /\ user = "reading"
  /\ user' = "gone" /\ result' = "cancelled" /\ out' = <<>>
  /\ UNCHANGED <<store, serves, download, phase, part, chan, order, busy, faults>>

PartStep(i) ==
  \/ TryProvider(i) \/ NoProviderLeft(i) \/ Connected(i)
  \/ Receive(i) \/ TransferFails(i) \/ ProviderFailed(i) \/ PartComplete(i)

HandlerStep ==
  \/ SingleEnds \/ Launch \/ ForwardProgress \/ CollectPart
  \/ AllCollected \/ UserClosed \/ SendItem

Next ==
  \/ Start
  \/ Split
  \/ SingleEnds
  \/ Launch
  \/ ForwardProgress
  \/ CollectPart
  \/ AllCollected
  \/ UserClosed
  \/ SendItem
  \/ Aborted
  \/ ReadItem
  \/ ReadEnd
  \/ Cancel
  \/ \E i \in DOMAIN part :
       \/ TryProvider(i)
       \/ NoProviderLeft(i)
       \/ CheckLocal(i)
       \/ Connected(i)
       \/ ConnectFails(i)
       \/ Receive(i)
       \/ ReceiveUnstored(i)
       \/ TransferFails(i)
       \/ ConnectionLost(i)
       \/ ProviderFailed(i)
       \/ PartComplete(i)

Spec == Init /\ [][Next]_vars

\* Start, Split and CheckLocal happen as well; weak fairness of these three,
\* spelled out with the states in which they can happen.
Computing ==
  \/ phase = "new"
  \/ phase = "first" /\ part[1].pc = "ok"
  \/ \E i \in DOMAIN part : Running(i) /\ part[i].pc = "check"

ComputingEnds ==
  \/ phase \in {"new", "first"} /\ phase' # phase
  \/ phase' = "aborted"
  \/ \E i \in DOMAIN part : part[i].pc = "check" /\ part'[i].pc # "check"

\* The handler's task is scheduled and its select takes every branch that
\* stays ready; connects and transfers end; the user awaits the result.
LiveSpec ==
  /\ Spec
  /\ WF_vars(HandlerStep) /\ WF_vars(ReadItem \/ ReadEnd)
  /\ WF_vars(\E i \in DOMAIN part : PartStep(i))
  /\ []<>~Computing \/ []<><<ComputingEnds>>_vars

(***************************************************************************)
(* Properties                                                              *)
(***************************************************************************)

\* Everything the download asks for is here.
Complete ==
  IF IsMany
    THEN \A i \in DOMAIN download.hashes :
           IsLocal(LocalForBlob(download.hashes[i],
                                FromRanges(<<At(download.ranges, i - 1)>>)))
    ELSE IsLocal(LocalForRequest(download.ranges))

Happened(kind) == \E p \in Provider : <<kind, p>> \in faults

\* A download that returns Ok is complete, through any mix of providers and
\* parts ("If the request is not complete after trying all providers, it
\* will return an error"), provided no import fails unnoticed and the
\* handler's task was not cut short, which complete() takes for the end.
OkIsComplete ==
  result = "ok" /\ phase # "aborted" /\ ~Happened("import") => Complete

\* The same, whatever happens to an import or to the handler's task.
OkIsAlwaysComplete == result = "ok" => Complete

\* An unsplit get asks for children but not for all of the hash sequence that
\* names them, and a download starts with nothing: execute_get_sink fails when
\* it reads the sequence, whoever the provider is.
WithoutSequence ==
  /\ ~IsMany /\ ~download.split
  /\ \E i \in 1..NumChildren : At(download.ranges, i) # {}
  /\ Selected(Root, At(download.ranges, 0)) # ChunksOf(Root)

\* Unless children are asked for without their sequence, a provider that has
\* everything is enough, wherever it is in the order and whatever the others
\* do: a download ends with an error only if every such provider failed,
\* because each attempt of execute_get asks exactly for what the ones before
\* it left.
FullProviderSuffices ==
  result = "error" /\ ~Happened("import") /\ ~WithoutSequence =>
    \A p \in Provider :
      (\A h \in Blobs : serves[p][h] = ChunksOf(h)) =>
        \E kind \in {"connect", "lose"} : <<kind, p>> \in faults

\* Every download ends, though parts wait for room in progress channels that
\* are read one at a time, and the reader waits for the user.
DownloadEnds == <>(result # "none")

===============================================================================
