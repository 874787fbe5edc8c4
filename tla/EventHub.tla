------------------------------ MODULE EventHub ------------------------------
(***************************************************************************)
(* Change events.  A handler or worker commits a change and then publishes  *)
(* an event; the hub (internal/events/hub.go) numbers it, keeps it in a     *)
(* ring and offers it to every open stream.  A browser                      *)
(* (web/src/App.tsx, useLiveEvents) refetches what an event names.          *)
(*                                                                          *)
(* Streams break loudly or silently, a slow stream is cut off, the service  *)
(* restarts with a new boot id between a commit and its event.              *)
(***************************************************************************)
EXTENDS Integers, Sequences, FiniteSetsExt

CONSTANTS
  Browsers, Topics,  \* open pages; the query families an event may invalidate
  RingCapacity,      \* Hub.capacity
  ChannelCapacity,   \* of a subscriber's channel, 32
  MaxChanges,        \* bound: commits
  MaxDrops,          \* bound: broken streams, refused connections and failed refetches
  MaxBoots           \* bound: starts of the service

ASSUME HubAssumption ==
  /\ {RingCapacity, ChannelCapacity} \subseteq Nat \ {0}
  /\ {MaxChanges, MaxDrops} \subseteq Nat /\ MaxBoots \in Nat \ {0}
  /\ IsFiniteSet(Topics)

VARIABLES
  version,         \* per topic: commits so far, the database
  unpublished,     \* topics whose writer has committed and not yet published
  boot, sequence,  \* Hub.bootID and Hub.sequence
  ring,            \* Hub.events
  stream,          \* per browser: its ServeHTTP, "none", "live" or "closed" (channel closed)
  replay,          \* per browser: events the stream has still to write before its channel
  channel,         \* per browser: its subscriber channel
  source,          \* per browser: the EventSource, "connecting" or "open"
  lastId,          \* per browser: Last-Event-ID, NoId at first
  rebuilt,         \* per browser: the EventSource replaces a dead one
  stale,           \* per browser: topics invalidated and not yet refetched
  view,            \* per browser and topic: the version last fetched
  missed,          \* history, per browser: topics that changed before it subscribed without
                   \* an id, or whose refetch failed, and that it has not refetched since
  changes, drops   \* so far (bounded)

server == <<version, unpublished, boot, sequence, ring, changes>>
streams == <<stream, replay, channel>>
pages == <<source, lastId, rebuilt, stale, view, missed>>
hubVars == <<server, streams, pages, drops>>

NoId == <<0, 0>>
Resync == [id |-> NoId, topic |-> "resync_required"]

HubInit ==
  /\ version = [t \in Topics |-> 0] /\ unpublished = {}
  /\ boot = 1 /\ sequence = 0 /\ ring = <<>>
  /\ stream = [b \in Browsers |-> "none"] /\ replay = [b \in Browsers |-> <<>>]
  /\ channel = [b \in Browsers |-> <<>>] /\ source = [b \in Browsers |-> "connecting"]
  /\ lastId = [b \in Browsers |-> NoId] /\ rebuilt = [b \in Browsers |-> FALSE]
  /\ stale = [b \in Browsers |-> Topics] /\ view = [b \in Browsers |-> [t \in Topics |-> 0]]
  /\ missed = [b \in Browsers |-> {}] /\ changes = 0 /\ drops = 0

-----------------------------------------------------------------------------
(* The service.  At most one writer of a topic stands between its commit    *)
(* and its event here; the bound is the topic's changes in flight.          *)
Commit(t) ==
  /\ t \notin unpublished /\ changes < MaxChanges /\ changes' = changes + 1
  /\ version' = [version EXCEPT ![t] = @ + 1] /\ unpublished' = unpublished \cup {t}
  /\ UNCHANGED <<boot, sequence, ring, streams, pages, drops>>

(* Publish: number it, keep the last RingCapacity, offer it to everyone; a  *)
(* subscriber with a full channel is closed.                                *)
KeepAll(events) == events            \* seeded fault: the ring is never cut
Newest(events) == SubSeq(events, Len(events) - RingCapacity + 1, Len(events))
Kept(events) == IF Len(events) > RingCapacity THEN Newest(events) ELSE events
HasRoom(b) == stream[b] = "live" /\ Len(channel[b]) < ChannelCapacity
Skipped(b) == stream[b]              \* seeded fault: a full channel just misses the event
Offered(b) == IF stream[b] = "live" /\ ~HasRoom(b) THEN "closed" ELSE stream[b]
Publish(t) ==
  LET event == [id |-> <<boot, sequence + 1>>, topic |-> t] IN
  /\ t \in unpublished /\ unpublished' = unpublished \ {t}
  /\ sequence' = sequence + 1 /\ ring' = Kept(Append(ring, event))
  /\ channel' = [b \in Browsers |-> IF HasRoom(b) THEN Append(channel[b], event) ELSE channel[b]]
  /\ stream' = [b \in Browsers |-> Offered(b)]
  /\ UNCHANGED <<version, boot, changes, replay, pages, drops>>

(* replayAfter: what follows the id, if the id is still in the ring.  Ids   *)
(* carry the boot, so an id of another boot is never found.                 *)
FoundByNumber(id) == {i \in DOMAIN ring : ring[i].id[2] = id[2]}  \* seeded fault: boot ignored
Found(id) == {i \in DOMAIN ring : ring[i].id = id}
After(id) == IF Found(id) = {} THEN <<>> ELSE SubSeq(ring, Max(Found(id)) + 1, Len(ring))
NeedsResync(id) == id # NoId /\ Found(id) = {}

(* Subscribe, and the start of ServeHTTP: a resync message has no id.  A    *)
(* page that has no id yet is not told of what happened since its fetch.    *)
Unheard(b) ==
  IF lastId[b] # NoId \/ rebuilt[b] THEN {}
  ELSE {t \in Topics \ (stale[b] \cup unpublished) : view[b][t] # version[t]}
Subscribe(b) ==
  /\ source[b] = "connecting" /\ stream[b] = "none"
  /\ stream' = [stream EXCEPT ![b] = "live"] /\ channel' = [channel EXCEPT ![b] = <<>>]
  /\ replay' = [replay EXCEPT ![b] =
                   IF NeedsResync(lastId[b]) THEN <<Resync>> ELSE After(lastId[b])]
  /\ missed' = [missed EXCEPT ![b] = @ \cup Unheard(b)]
  /\ UNCHANGED <<server, source, lastId, rebuilt, stale, view, drops>>

Unsubscribed(b) ==
  /\ stream' = [stream EXCEPT ![b] = "none"]
  /\ replay' = [replay EXCEPT ![b] = <<>>] /\ channel' = [channel EXCEPT ![b] = <<>>]

-----------------------------------------------------------------------------
(* The browser.  onopen: a rebuilt EventSource has lost its Last-Event-ID,  *)
(* so everything is refetched.                                              *)
OpenedSilently(b) == stale[b]        \* seeded fault: rebuilt is not looked at
Opened(b) == IF rebuilt[b] THEN Topics ELSE stale[b]
Open(b) ==
  /\ source[b] = "connecting" /\ stream[b] # "none"
  /\ source' = [source EXCEPT ![b] = "open"] /\ rebuilt' = [rebuilt EXCEPT ![b] = FALSE]
  /\ stale' = [stale EXCEPT ![b] = Opened(b)]
  /\ UNCHANGED <<server, streams, lastId, view, missed, drops>>

(* The stream writes its next message, replay first, and onmessage handles  *)
(* it.  A closed channel still gives what is in it.                         *)
Pending(b) == replay[b] \o channel[b]
ResyncIgnored(event) == {event.topic} \cap Topics   \* seeded fault: no case for resync_required
Invalidated(event) == IF event = Resync THEN Topics ELSE {event.topic}
Deliver(b) ==
  LET event == Head(Pending(b)) IN
  /\ source[b] = "open" /\ Pending(b) # <<>>
  /\ IF replay[b] # <<>>
     THEN replay' = [replay EXCEPT ![b] = Tail(@)] /\ UNCHANGED channel
     ELSE channel' = [channel EXCEPT ![b] = Tail(@)] /\ UNCHANGED replay
  /\ lastId' = [lastId EXCEPT ![b] = IF event = Resync THEN @ ELSE event.id]
  /\ stale' = [stale EXCEPT ![b] = @ \cup Invalidated(event)]
  /\ UNCHANGED <<server, stream, source, rebuilt, view, missed, drops>>

(* ServeHTTP returns once a closed channel is empty; the browser connects   *)
(* again by itself, with its last id.                                       *)
StreamEnds(b) ==
  /\ stream[b] = "closed" /\ source[b] = "open" /\ Pending(b) = <<>> /\ Unsubscribed(b)
  /\ source' = [source EXCEPT ![b] = "connecting"]
  /\ UNCHANGED <<server, lastId, rebuilt, stale, view, missed, drops>>

(* The refetch an invalidation has started.                                 *)
Fetch(b) ==
  /\ stale[b] # {} /\ stale' = [stale EXCEPT ![b] = {}]
  /\ view' = [view EXCEPT ![b] = [t \in Topics |-> IF t \in stale[b] THEN version[t] ELSE @[t]]]
  /\ missed' = [missed EXCEPT ![b] = @ \ stale[b]]
  /\ UNCHANGED <<server, streams, source, lastId, rebuilt, drops>>

(* The refetch and its one retry fail (main.tsx:12): the page keeps what it *)
(* had, and asks again only when something else invalidates the topic.      *)
FetchFails(b) ==
  /\ stale[b] # {} /\ drops < MaxDrops /\ drops' = drops + 1
  /\ stale' = [stale EXCEPT ![b] = {}] /\ missed' = [missed EXCEPT ![b] = @ \cup stale[b]]
  /\ UNCHANGED <<server, streams, source, lastId, rebuilt, view>>

(* restart: a new EventSource, without the old one's id.                    *)
Rebuild(b) ==
  /\ source' = [source EXCEPT ![b] = "connecting"] /\ lastId' = [lastId EXCEPT ![b] = NoId]
  /\ rebuilt' = [rebuilt EXCEPT ![b] = TRUE]
  /\ UNCHANGED <<stale, view, missed>>

(* Nothing was heard for eventsStaleMs, or CONNECTING never ended.          *)
StaleTimer(b) ==
  /\ stream[b] = "none" /\ source[b] = "open" /\ Rebuild(b)
  /\ UNCHANGED <<server, streams, drops>>

(* A stream breaks: the browser sees it and retries by itself, or does not  *)
(* see it, or its retry is answered with an error and the source closes.    *)
Dropped == drops < MaxDrops /\ drops' = drops + 1
Drop(b) ==
  /\ stream[b] # "none" /\ Dropped /\ Unsubscribed(b)
  /\ \/ source' = [source EXCEPT ![b] = "connecting"]
        /\ UNCHANGED <<lastId, rebuilt, stale, view, missed>>
     \/ source[b] = "open" /\ UNCHANGED pages
  /\ UNCHANGED server
Refused(b) ==
  /\ source[b] = "connecting" /\ stream[b] = "none" /\ Dropped /\ Rebuild(b)
  /\ UNCHANGED <<server, streams>>

(* The service stops and starts: committed changes stay, events do not.  A  *)
(* page behind a proxy or a dead network need not notice its stream's end.  *)
HubRestart ==
  /\ boot < MaxBoots /\ boot' = boot + 1 /\ sequence' = 0 /\ ring' = <<>> /\ unpublished' = {}
  /\ stream' = [b \in Browsers |-> "none"] /\ replay' = [b \in Browsers |-> <<>>]
  /\ channel' = [b \in Browsers |-> <<>>]
  /\ \E aware \in SUBSET Browsers :
       source' = [b \in Browsers |-> IF b \in aware THEN "connecting" ELSE source[b]]
  /\ UNCHANGED <<version, changes, lastId, rebuilt, stale, view, missed, drops>>

Listen(b) == Subscribe(b) \/ Open(b) \/ Deliver(b) \/ StreamEnds(b) \/ Fetch(b) \/ StaleTimer(b)

HubNext ==
  \/ HubRestart
  \/ \E t \in Topics : Commit(t) \/ Publish(t)
  \/ \E b \in Browsers : Listen(b) \/ FetchFails(b) \/ Drop(b) \/ Refused(b)

HubSpec == HubInit /\ [][HubNext]_hubVars

(* Writers go on to publish; browsers retry, read their stream and refetch; *)
(* the watchdog fires on a silent stream.                                   *)
HubFairness ==
  /\ \A t \in Topics : WF_hubVars(Publish(t))
  /\ \A b \in Browsers : WF_hubVars(Listen(b))
HubFairSpec == HubSpec /\ HubFairness

-----------------------------------------------------------------------------
(* Types, and the limits of the ring and of the channels.                   *)
Ids == (0..MaxBoots) \X (0..MaxChanges)
Events == [id : Ids, topic : Topics \cup {"resync_required"}]
HubTypeOK ==
  /\ version \in [Topics -> 0..MaxChanges] /\ unpublished \subseteq Topics
  /\ boot \in 1..MaxBoots /\ {sequence, changes} \subseteq 0..MaxChanges
  /\ ring \in Seq(Events) /\ Len(ring) <= RingCapacity
  /\ \A b \in Browsers :
       /\ stream[b] \in {"none", "live", "closed"} /\ source[b] \in {"connecting", "open"}
       /\ replay[b] \in Seq(Events) /\ Len(replay[b]) <= RingCapacity
       /\ channel[b] \in Seq(Events) /\ Len(channel[b]) <= ChannelCapacity
       /\ lastId[b] \in Ids /\ rebuilt[b] \in BOOLEAN /\ view[b] \in [Topics -> 0..MaxChanges]
       /\ stale[b] \subseteq Topics /\ missed[b] \subseteq Topics
  /\ drops \in 0..MaxDrops

(* A page whose stream is open and drained, with nothing left to refetch    *)
(* and no event about to be published, shows the database: whatever was     *)
(* dropped, cut off or lost in a restart, it was replayed or the page was   *)
(* told to refetch (hub.go:85-95, App.tsx:141-153).  Except for `missed`.   *)
Quiet(b) == source[b] = "open" /\ stream[b] = "live" /\ Pending(b) = <<>> /\ stale[b] = {}
QuietPagesAreCurrent ==
  \A b \in Browsers : Quiet(b) =>
    \A t \in Topics \ (unpublished \cup missed[b]) : view[b][t] = version[t]

(* App.tsx:141-142: only a rebuilt EventSource needs a full refetch, the    *)
(* browser's own reconnects resume.  Not so for a stream that broke before  *)
(* it had carried an event with an id, nor for what was published between   *)
(* the page's first fetch and its first stream.  A refetch that failed      *)
(* leaves the page behind as well.                                          *)
ReconnectsResume == \A b \in Browsers : missed[b] = {}

(* Once the writers pause, every page comes to show the database, or what   *)
(* it `missed`: no break, refusal, cut or restart leaves it behind.  (The   *)
(* model's commits are bounded, so the writers do pause.)                   *)
PagesCatchUp ==
  \A b \in Browsers : []<>(\A t \in Topics : view[b][t] = version[t] \/ t \in missed[b])
=============================================================================
