------------------------ MODULE TaskCommandProjection ------------------------
(***************************************************************************)
(* What one renderer shows of the lease table.  The server numbers every   *)
(* control event, keeps the newest in a replay ring                        *)
(* (electron/remote/ws-transport.ts), queues broadcasts for a millisecond  *)
(* (server/browser-send-queue.ts) while direct messages leave at once, and *)
(* on reconnect replays what the client missed and resends the categories  *)
(* whose version differs (server/browser-control-plane.ts).  The renderer  *)
(* applies events, replies, bootstraps and fetched lists in the order they *)
(* arrive (src/lib/websocket-client.ts,                                    *)
(* src/store/task-command-controllers.ts).                                 *)
(*                                                                         *)
(* Sequence numbers start at 1 here, so that 0 is the client's -1.         *)
(***************************************************************************)
EXTENDS TaskCommandLeaseStore, SequencesExt

CONSTANTS
    Self,           \* the client id of the renderer
    RingSize,       \* controlEventBufferSize
    MaxGrants,      \* bound on the grants of one server instance
    MaxSeq,         \* bound on the control events of one server instance
    MaxInstance,    \* bound on the server instances
    MaxWire,        \* bound on the frames in flight when the renderer sends a request
    MaxFetches      \* bound on the lists requested and not yet delivered

ASSUME ProjectionAssumption ==
    /\ Self \in Clients
    /\ {RingSize, MaxInstance} \subseteq Nat \ {0}
    /\ {MaxGrants, MaxSeq, MaxWire, MaxFetches} \subseteq Nat
    /\ None \notin [action : Actions, controllerId : Clients]

VARIABLES
    store,      \* server: the lease table
    seq,        \* server: the sequence number of the newest control event
    ring,       \* server: the replay ring
    instance,   \* server: serverInstanceId, new at each start
    connected,  \* is the renderer's socket up?
    queued,     \* broadcasts in the renderer's micro-batch
    wire,       \* frames on the socket, in order
    fetches,    \* lists of controllers on their way over HTTP, with the instance they are from
    view,       \* renderer: store.taskCommandControllers
    seen,       \* renderer: taskCommandControllerVersionByTaskId, -1 when absent
    top,        \* renderer: taskCommandControllerVersion
    lastSeq,    \* renderer: the last sequence number it processed
    fresh,      \* renderer: no sequenced message yet on this connection
    known,      \* renderer: the instance of the last bootstrap, 0 before the first
    restore,    \* renderer: the restore that follows a reconnect
    required,   \* renderer: reconnectFullRestoreRequired
    touched,    \* renderer: has that restore seen an update?
    foreign,    \* history: does lastSeq number an event of a dead instance?
    owed,       \* history: the version a list needs to make good the last truncated
                \* replay, 0 if none is needed
    anchored    \* history: no version or sequence number of a dead instance got stuck

server == <<store, seq, ring, instance>>
network == <<connected, queued, wire, fetches>>
projection == <<view, seen, top, touched>>
history == <<foreign, owed, anchored>>
client == <<projection, lastSeq, fresh, known, restore, required, history>>
vars == <<server, network, client>>

\* Control events that are not about leases.  A new presence list takes the place
\* of an old one in the ring, a lifecycle event does not.
Presence == [topic |-> "presence"]
Lifecycle == [topic |-> "lifecycle"]

ControllerEvent(snapshot) == [topic |-> "controller", snapshot |-> snapshot]

Event == [topic : {"controller"}, snapshot : ControllerSnapshot] \cup {Presence, Lifecycle}

Entry == [seq : 1..MaxSeq, event : Event]

Controller == [action : Actions, controllerId : Clients]

List == [version : Nat, snapshots : SUBSET ControllerSnapshot]

Fetch == [instance : 1..MaxInstance, list : List]

Cold == [step |-> "cold"]          \* the page's first connection restores nothing
Idle == [step |-> "idle"]
Awaiting == [step |-> "awaiting"]  \* connected again, nothing received yet

\* Those in which an HTTP request is under way, and the two answers.
Restoring(r) == r.step \in {"status", "version", "snapshot", "list"}

-----------------------------------------------------------------------------
\* Broadcasting: addControlEvent, then the micro-batch of a connected client.  None
\* of the events of Broadcasts supersedes an older one.

\* A full ring loses its oldest entries.
NewestTooMany(entries) ==  \* mutant: the ring keeps one event too many
    SubSeq(entries, IF Len(entries) > RingSize THEN Len(entries) - RingSize ELSE 1, Len(entries))

Newest(entries) ==
    SubSeq(entries, IF Len(entries) > RingSize THEN Len(entries) - RingSize + 1 ELSE 1, Len(entries))

AddPresence(entries, n) ==
    LET superseded == {i \in DOMAIN entries : entries[i].event = Presence}
        kept == IF superseded = {} THEN entries
                ELSE RemoveAt(entries, CHOOSE i \in superseded : TRUE)  \* there is but one
    IN  Newest(Append(kept, [seq |-> n, event |-> Presence]))

EventFrame(n, event) == [kind |-> "event", seq |-> n, event |-> event]

Broadcasts(events) ==
    /\ seq + Len(events) <= MaxSeq
    /\ seq' = seq + Len(events)
    /\ ring' = Newest(ring \o [i \in DOMAIN events |-> [seq |-> seq + i, event |-> events[i]]])
    /\ queued' = IF connected
                 THEN queued \o [i \in DOMAIN events |-> EventFrame(seq + i, events[i])]
                 ELSE queued

Changes(result) == IF result.changed THEN <<ControllerEvent(result.snapshot)>> ELSE <<>>

ReplyFrame(snapshot) == [kind |-> "reply", snapshot |-> snapshot]

\* The lease request of client c; the renderer's own is answered at once on its
\* socket, ahead of the broadcasts still in the micro-batch.
Serve(c, result, events) ==
    /\ c = Self => connected /\ Len(wire) < MaxWire
    /\ store' = result.store
    /\ Broadcasts(events)
    /\ wire' = IF c = Self THEN Append(wire, ReplyFrame(result.snapshot)) ELSE wire
    /\ UNCHANGED <<instance, connected, fetches, client>>

Grants == MapThenSumSet(LAMBDA t : store.generation[t], Tasks)

AcquireTaskCommandLease(t, c, o, a, takeover) ==
    LET result == Acquire(store, t, c, o, a, takeover)
    IN  /\ Grants < MaxGrants
        /\ Serve(c, result, Changes(result))

RenewTaskCommandLease(t, c, o) ==
    Serve(c, Renew(store, t, c, o, None), <<>>)

ReleaseTaskCommandLease(t, c, o) ==
    LET result == Release(store, t, c, o, None)
    IN  Serve(c, result, Changes(result))

\* A release that a pending takeover request of d was waiting for: reconcileTask
\* grants the lease to d, and broadcasts that, before the release is broadcast.
ReleaseToRequester(t, c, o, d, a) ==
    LET released == Release(store, t, c, o, None)
        granted == Acquire(released.store, t, d, o, a, TRUE)
    IN  /\ Grants < MaxGrants
        /\ c # d
        /\ released.changed
        /\ Serve(c, [released EXCEPT !.store = granted.store],
                 <<ControllerEvent(granted.snapshot), ControllerEvent(released.snapshot)>>)

PruneExpiredTaskCommandLeases(order) ==
    LET result == Prune(store, order)
    IN  /\ result.snapshots # {}
        /\ store' = result.store
        /\ \E walk \in [1..Cardinality(result.snapshots) -> result.snapshots] :
              /\ \A i, j \in DOMAIN walk : i < j => walk[i].version < walk[j].version
              /\ Broadcasts([i \in DOMAIN walk |-> ControllerEvent(walk[i])])
        /\ UNCHANGED <<instance, connected, wire, fetches, client>>

\* An admission check: it deletes an expired lease and tells nobody.
ReadTaskCommandLease(t) ==
    /\ Expired(store, t)
    /\ store' = Active(store, t)
    /\ UNCHANGED <<seq, ring, instance, network, client>>

\* Any other control event: agent lifecycle, task events, reviews.
BroadcastOther ==
    /\ Broadcasts(<<Lifecycle>>)
    /\ UNCHANGED <<store, instance, connected, wire, fetches, client>>

Tick ==
    /\ store' = Elapse(store)
    /\ UNCHANGED <<seq, ring, instance, network, client>>

FlushClientBatch ==
    /\ queued # <<>>
    /\ wire' = wire \o queued
    /\ queued' = <<>>
    /\ UNCHANGED <<server, connected, fetches, client>>

\* loadTaskCommandControllers: the server's half.
GetTaskCommandControllers(order) ==
    LET list == Controllers(store, order)
    IN  /\ Cardinality(fetches) < MaxFetches
        /\ store' = list.store
        /\ fetches' = fetches \cup
                {[instance |-> instance,
                  list |-> [version |-> list.version, snapshots |-> list.snapshots]]}
        /\ UNCHANGED <<seq, ring, instance, connected, queued, wire, client>>

-----------------------------------------------------------------------------
\* authenticateConnection: replay, bootstrap, and a presence broadcast.

\* The ring is in the order of the sequence numbers.
Window ==
    LET old == CHOOSE k \in 0..Len(ring) : \A i \in DOMAIN ring : i <= k <=> ring[i].seq <= lastSeq
    IN  SubSeq(ring, old + 1, Len(ring))

ReplayTruncated == ring # <<>> /\ seq > lastSeq /\ lastSeq < ring[1].seq - 1

AlwaysPerEventReplayable == TRUE  \* mutant: a window with holes is replayed per event

WindowPerEventReplayable == seq <= lastSeq \/ Len(Window) = seq - lastSeq

TruncatedFrame == [kind |-> "replay-truncated", latestSeq |-> seq]

BatchFrame == [kind |-> "control-replay-batch", toSeq |-> seq, events |-> Window]

Resync == known = instance  \* only the same instance honours the presented versions

ReplayFrames ==
    LET truncation == IF ReplayTruncated THEN <<TruncatedFrame>> ELSE <<>>
    IN  IF Resync THEN truncation \o <<BatchFrame>>
        ELSE IF WindowPerEventReplayable
        THEN truncation \o [i \in DOMAIN Window |-> EventFrame(Window[i].seq, Window[i].event)]
        ELSE <<TruncatedFrame>>

\* getStaleBootstrapCategories, for the task-command-controller category.
CategoryStale == ~Resync \/ top # store.version

BootstrapFrame(lists) == [kind |-> "state-bootstrap", instance |-> instance, lists |-> lists]

Connect(order) ==
    LET list == Controllers(store, order)
        lists == IF CategoryStale
                 THEN {[version |-> list.version, snapshots |-> list.snapshots]} ELSE {}
    IN  /\ ~connected
        /\ seq < MaxSeq
        /\ connected' = TRUE
        /\ store' = IF CategoryStale THEN list.store ELSE store
        /\ wire' = Append(ReplayFrames, BootstrapFrame(lists))
        /\ seq' = seq + 1
        /\ ring' = AddPresence(ring, seq + 1)
        /\ queued' = <<EventFrame(seq + 1, Presence)>>
        /\ fresh' = TRUE
        /\ restore' = IF restore = Cold THEN Cold ELSE Awaiting
        /\ owed' = IF ReplayTruncated THEN store.version ELSE owed
        /\ anchored' = (anchored /\ ~(Resync /\ foreign))
        /\ UNCHANGED <<instance, fetches, projection, lastSeq, known, required, foreign>>

\* Whatever was queued or in flight is lost.  The other clients see the presence.
Disconnect ==
    /\ connected
    /\ seq < MaxSeq
    /\ connected' = FALSE
    /\ wire' = <<>>
    /\ queued' = <<>>
    /\ seq' = seq + 1
    /\ ring' = AddPresence(ring, seq + 1)
    /\ restore' = Idle
    /\ touched' = FALSE
    /\ UNCHANGED <<store, instance, fetches, view, seen, top, lastSeq, fresh, known,
                   required, history>>

\* The server stops and starts: leases, versions, sequence numbers and the ring
\* live in its memory.  A list it has answered may still be under way.
Restart ==
    /\ instance < MaxInstance
    /\ instance' = instance + 1
    /\ store' = EmptyStore
    /\ seq' = 0
    /\ ring' = <<>>
    /\ connected' = FALSE
    /\ wire' = <<>>
    /\ queued' = <<>>
    /\ restore' = IF connected THEN Idle ELSE restore
    /\ touched' = FALSE
    /\ foreign' = (lastSeq # 0)
    /\ owed' = 0
    /\ anchored' = (anchored /\ (known = 0 => top = 0))
    /\ UNCHANGED <<fetches, view, seen, top, lastSeq, fresh, known, required>>

-----------------------------------------------------------------------------
\* The renderer's projection and its two ways to change; only an event or a reply
\* counts as an update (taskCommandControllerUpdateCount).

Projection == [view |-> view, seen |-> seen, top |-> top, touched |-> touched]

ToController(snapshot) ==
    IF snapshot.controllerId = None THEN None
    ELSE [action |-> snapshot.action, controllerId |-> snapshot.controllerId]

ShouldApplyByMaximum(p, snapshot) ==  \* mutant: one version for all tasks
    snapshot.version >= p.top

ShouldApply(p, snapshot) == snapshot.version >= p.seen[snapshot.taskId]

ApplyChanged(p, snapshot) ==
    IF ShouldApply(p, snapshot)
    THEN [view |-> [p.view EXCEPT ![snapshot.taskId] = ToController(snapshot)],
          seen |-> [p.seen EXCEPT ![snapshot.taskId] = snapshot.version],
          top |-> IF snapshot.version > p.top THEN snapshot.version ELSE p.top,
          touched |-> TRUE]
    ELSE p

Apply(p, event) ==
    IF event.topic = "controller" THEN ApplyChanged(p, event.snapshot) ELSE p

ApplyAll(p, entries) ==
    LET applied[n \in 0..Len(entries)] ==
            IF n = 0 THEN p ELSE Apply(applied[n - 1], entries[n].event)
    IN  applied[Len(entries)]

AlwaysReplaces(p, list) == TRUE  \* mutant: a late list overwrites newer events

Replaces(p, list) == list.version >= p.top

Listed(list, t) == \E s \in list.snapshots : s.taskId = t

ListedSnapshot(list, t) == CHOOSE s \in list.snapshots : s.taskId = t

\* setStore merges the listed controllers into those shown: a task that is not
\* listed keeps its controller, and only its version is brought up to date.
Replace(p, list) ==
    IF Replaces(p, list)
    THEN [view |-> [t \in Tasks |->
                       IF Listed(list, t) THEN ToController(ListedSnapshot(list, t))
                       ELSE p.view[t]],
          seen |-> [t \in Tasks |->
                       IF Listed(list, t) THEN ListedSnapshot(list, t).version
                       ELSE IF p.view[t] # None THEN list.version
                       ELSE p.seen[t]],
          top |-> list.version,
          touched |-> p.touched]
    ELSE p

Show(p) ==
    /\ view' = p.view
    /\ seen' = p.seen
    /\ top' = p.top
    /\ touched' = (p.touched /\ Restoring(restore'))

\* A list as new as the last truncated replay makes it good.
ShowList(p, list) ==
    /\ Show(Replace(p, list))
    /\ owed' = IF Replaces(p, list) /\ list.version >= owed THEN 0 ELSE owed

\* The first message of a new connection starts the restore, before it is applied:
\* a status check if the replay or the message is sequenced, a full restore if not,
\* or if an earlier full restore did not complete.
StartRestore(sequenced) ==
    /\ restore' = IF restore # Awaiting THEN restore
                  ELSE [step |-> IF sequenced /\ ~required THEN "status" ELSE "snapshot"]
    /\ required' = (required \/ restore'.step = "snapshot")

Receive(kind) ==
    /\ wire # <<>>
    /\ Head(wire).kind = kind
    /\ wire' = Tail(wire)
    /\ UNCHANGED <<server, connected, queued, fetches>>

\* A server that counts from the start again is recognised by a first sequenced
\* message that is older than the last one.
LastSeqFor(n) == IF fresh /\ n < lastSeq THEN 0 ELSE lastSeq

\* shouldProcessMessage
DeliverEvent ==
    LET frame == Head(wire)
    IN  /\ Receive("event")
        /\ IF frame.seq <= LastSeqFor(frame.seq)
           THEN UNCHANGED <<projection, lastSeq, fresh, restore, required, foreign>>
           ELSE /\ lastSeq' = frame.seq
                /\ foreign' = FALSE
                /\ fresh' = FALSE
                /\ StartRestore(TRUE)
                /\ Show(Apply(Projection, frame.event))
        /\ UNCHANGED <<known, owed, anchored>>

AdoptSeq(n) ==
    /\ lastSeq' = IF n > lastSeq THEN n ELSE lastSeq
    /\ foreign' = (foreign /\ n <= lastSeq)

\* An empty batch starts nothing yet, but counts as a sequenced replay.
DeliverReplayBatch ==
    /\ Receive("control-replay-batch")
    /\ AdoptSeq(Head(wire).toSeq)
    /\ fresh' = FALSE
    /\ IF Head(wire).events = <<>> THEN UNCHANGED <<restore, required>> ELSE StartRestore(TRUE)
    /\ Show(ApplyAll(Projection, Head(wire).events))
    /\ UNCHANGED <<known, owed, anchored>>

DeliverReplayTruncated ==
    /\ Receive("replay-truncated")
    /\ AdoptSeq(Head(wire).latestSeq)
    /\ StartRestore(FALSE)
    /\ UNCHANGED <<projection, fresh, known, owed, anchored>>

KeepTracking(n) == Projection  \* mutant: the old instance's versions survive a restart

\* noteServerStateBootstrapInstanceId: versions of another instance mean nothing.
Tracking(n) ==
    IF known \notin {0, n}
    THEN [Projection EXCEPT !.seen = [t \in Tasks |-> -1], !.top = 0]
    ELSE Projection

DeliverBootstrap ==
    LET frame == Head(wire)
        p == Tracking(frame.instance)
    IN  /\ Receive("state-bootstrap")
        /\ known' = frame.instance
        /\ StartRestore(~fresh)
        /\ IF frame.lists = {}
           THEN Show(p) /\ UNCHANGED owed
           ELSE \E list \in frame.lists : ShowList(p, list)
        /\ UNCHANGED <<lastSeq, fresh, foreign, anchored>>

DeliverReply ==
    /\ Receive("reply")
    /\ UNCHANGED <<lastSeq, fresh, known, restore, required, history>>
    /\ Show(ApplyChanged(Projection, Head(wire).snapshot))

\* loadTaskCommandControllers: the renderer's half, at any time, connected or not.
\* Nothing tells it that the list is from a dead instance; that is harmless only
\* while the bootstrap that resets the tracking is still to come.
DeliverList(fetch) ==
    LET current == fetch.instance = instance
        replaces == Replaces(Projection, fetch.list)
    IN  /\ fetches' = fetches \ {fetch}
        /\ UNCHANGED <<server, connected, queued, wire, lastSeq, fresh, known, restore,
                       required, foreign>>
        /\ Show(Replace(Projection, fetch.list))
        /\ owed' = IF current /\ replaces /\ fetch.list.version >= owed THEN 0 ELSE owed
        /\ anchored' = (anchored /\ (~current /\ replaces => known \notin {0, instance}))

LoseList(fetch) ==
    /\ fetches' = fetches \ {fetch}
    /\ UNCHANGED <<server, connected, queued, wire, client>>

-----------------------------------------------------------------------------
\* startRestore: requests over HTTP whose answers the websocket overtakes.

AnswerStatus ==
    /\ restore.step = "status"
    /\ restore' = [step |-> "version", version |-> store.version]
    /\ UNCHANGED <<server, network, projection, lastSeq, fresh, known, required, history>>

\* A workspace revision that differs asks for the full restore as well.
CheckStatus ==
    /\ restore.step = "version"
    /\ \/ restore' = [step |-> "snapshot"]
       \/ restore' = Idle /\ restore.version = top
    /\ required' = (restore' # Idle)
    /\ touched' = (touched /\ Restoring(restore'))
    /\ UNCHANGED <<server, network, view, seen, top, lastSeq, fresh, known, history>>

AnswerSnapshot(order) ==
    LET list == Controllers(store, order)
    IN  /\ restore.step = "snapshot"
        /\ store' = list.store
        /\ restore' = [step |-> "list",
                       list |-> [version |-> list.version, snapshots |-> list.snapshots]]
        /\ UNCHANGED <<seq, ring, instance, network, projection, lastSeq, fresh, known,
                       required, history>>

\* What follows in the restore, the reconciliation of the agents, may still fail.
RestoreList ==
    /\ restore.step = "list"
    /\ restore' = Idle
    /\ required' \in BOOLEAN
    /\ IF ~touched
       THEN ShowList(Projection, restore.list)
       ELSE Show(Projection) /\ UNCHANGED owed
    /\ UNCHANGED <<server, network, lastSeq, fresh, known, foreign, anchored>>

\* A status that fails falls back to the full restore, a snapshot that fails ends it.
RestoreFails ==
    /\ Restoring(restore)
    /\ restore' = IF restore.step \in {"status", "version"} THEN [step |-> "snapshot"] ELSE Idle
    /\ required' = TRUE
    /\ touched' = (touched /\ Restoring(restore'))
    /\ UNCHANGED <<server, network, view, seen, top, lastSeq, fresh, known, history>>

-----------------------------------------------------------------------------
Init ==
    /\ store = EmptyStore
    /\ seq = 0
    /\ ring = <<>>
    /\ instance = 1
    /\ connected = FALSE
    /\ queued = <<>>
    /\ wire = <<>>
    /\ fetches = {}
    /\ view = [t \in Tasks |-> None]
    /\ seen = [t \in Tasks |-> -1]
    /\ top = 0
    /\ lastSeq = 0
    /\ fresh = TRUE
    /\ known = 0
    /\ restore = Cold
    /\ required = FALSE
    /\ touched = FALSE
    /\ foreign = FALSE
    /\ owed = 0
    /\ anchored = TRUE

Restore ==
    \/ AnswerStatus
    \/ CheckStatus
    \/ \E order \in KeyOrders : AnswerSnapshot(order)
    \/ RestoreList
    \/ RestoreFails

Deliver ==
    \/ DeliverEvent
    \/ DeliverReplayBatch
    \/ DeliverReplayTruncated
    \/ DeliverBootstrap
    \/ DeliverReply

Next ==
    \/ \E t \in Tasks, c \in Clients, o \in Owners, a \in Actions, takeover \in BOOLEAN :
            AcquireTaskCommandLease(t, c, o, a, takeover)
    \/ \E t \in Tasks, c \in Clients, o \in Owners : RenewTaskCommandLease(t, c, o)
    \/ \E t \in Tasks, c \in Clients, o \in Owners : ReleaseTaskCommandLease(t, c, o)
    \/ \E t \in Tasks, c, d \in Clients, o \in Owners, a \in Actions :
            ReleaseToRequester(t, c, o, d, a)
    \/ \E order \in KeyOrders : PruneExpiredTaskCommandLeases(order)
    \/ \E order \in KeyOrders : GetTaskCommandControllers(order)
    \/ \E order \in KeyOrders : Connect(order)
    \/ \E t \in Tasks : ReadTaskCommandLease(t)
    \/ BroadcastOther
    \/ Tick
    \/ FlushClientBatch
    \/ Disconnect
    \/ Restart
    \/ Deliver
    \/ Restore
    \/ \E fetch \in fetches : DeliverList(fetch) \/ LoseList(fetch)

Spec == Init /\ [][Next]_vars

-----------------------------------------------------------------------------

Frame ==
    [kind : {"event"}, seq : 1..MaxSeq, event : Event]
        \cup [kind : {"reply"}, snapshot : ControllerSnapshot]
        \cup [kind : {"replay-truncated"}, latestSeq : 1..MaxSeq]
        \cup [kind : {"control-replay-batch"}, toSeq : 0..MaxSeq, events : Seq(Entry)]
        \cup [kind : {"state-bootstrap"}, instance : 1..MaxInstance, lists : SUBSET List]

\* Every variable has its type: the ring is full at RingSize events, and a full
\* restore is required for as long as it runs.
TypeOK ==
    /\ store \in Store
    /\ seq \in 0..MaxSeq
    /\ ring \in Seq(Entry) /\ Len(ring) <= RingSize
    /\ instance \in 1..MaxInstance
    /\ connected \in BOOLEAN
    /\ queued \in Seq(Frame)
    /\ wire \in Seq(Frame)
    /\ fetches \subseteq Fetch
    /\ view \in [Tasks -> Controller \cup {None}]
    /\ seen \in [Tasks -> Nat \cup {-1}]
    /\ top \in Nat
    /\ lastSeq \in 0..MaxSeq
    /\ fresh \in BOOLEAN
    /\ known \in 0..MaxInstance
    /\ \/ restore \in {Cold, Idle, Awaiting, [step |-> "status"], [step |-> "snapshot"]}
       \/ restore \in [step : {"version"}, version : Nat]
       \/ restore \in [step : {"list"}, list : List]
    /\ touched \in BOOLEAN /\ (touched => Restoring(restore))
    /\ required \in BOOLEAN /\ (restore.step \in {"snapshot", "list"} => required)
    /\ {foreign, anchored} \subseteq BOOLEAN
    /\ owed \in Nat

\* The renderer has received everything the server sent it.
Quiet ==
    /\ connected
    /\ queued = <<>>
    /\ wire = <<>>
    /\ restore \in {Cold, Idle}

\* The client's gap detection, which forces a full restore, never fires: replayed
\* and live events are always the next ones, also after evictions, compactions
\* and restarts of the server.
NoSequenceGap ==
    (wire # <<>> /\ Head(wire).kind = "event") =>
        LET previous == LastSeqFor(Head(wire).seq)
        IN  previous = 0 \/ Head(wire).seq <= previous + 1

Shows(t) ==
    /\ view[t] # None
    /\ view[t].controllerId = store.lease[t].clientId
    /\ view[t].action = store.lease[t].action

LiveControllersShown == \A t \in Tasks : Held(store, t) => Shows(t)

\* A renderer that has received everything shows the holder of every live lease,
\* whatever was reordered, replayed, lost with a connection or with the server.  Two
\* exceptions: a truncated replay that no list has made good (owed), and a version or
\* sequence number of a dead instance that got stuck (anchored), as when a list of a
\* dead instance arrives after the new one's bootstrap.
LiveControllerKnown == (Quiet /\ owed = 0 /\ anchored) => LiveControllersShown

=============================================================================
