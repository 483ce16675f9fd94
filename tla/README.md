# Zero-Flows in TLA+

Zero-Flows connects services through ZeroMQ and lets them find each other
through ZooKeeper. Each process has one thread: a reactor polls a ZooKeeper
handle, ZeroMQ sockets and file descriptors, and calls their handlers. What is
hard in it is not parallelism inside the process. It is the order in which
answers, watches, losses, signals, peers and pipes interrupt the sequence of
those handlers. That is what these modules are about.

## Inventory

| Part | Code | State | Operations | What makes it correct |
|---|---|---|---|---|
| Discovery | `src/zsock.c`, `zconnect_s` | per type: `list_wanted`, `list_pending`, `get_pending`, `urlv_new`, `urlv_current`; per socket: `connect_real` | `restart_list`, `maybe_relist`, `maybe_reconnect`, `zco_reconnect`, `on_get`, `on_list_completion`, `on_list_change`, `zco_destroy` | no change is forgotten, rounds do not mix, what is adopted was live together, connections match what is adopted |
| Adoption | `_extract_urlv`, `_compute_deltas`, `_merge_deltas`, `_pack_result` | sorted lists of strings that share ownership | the walk and the merge | the delta is exact, no freed string is kept |
| Announcing | `_zsock_bind`, `zsock_register_in_reactor`, `on_bind_create` | `bind_set` | bind, create an ephemeral sequential node | each bound address is announced, what is announced is bound |
| Reactor | `src/zreactor.c` | `items`, `monitors`, `running` | add, stop, run | handlers run in order, a stop is served |
| Service | `src/zservice.c`, `examples/main_service.c` | `socks`, the hook | configure, replicate `in` to `out` | the sockets are those declared; messages stay whole and in order, none is left behind |
| zpush, zpub | `examples/common_pipe_out.c` | `in_evt`, the event mask of the socket, the `FILE` | `on_input`, `_manage_out` | one side is waited for, all the input is sent |
| zpull, zsub | `examples/common_pipe_in.c` | the buffer of stdio | `_manage_in`, `on_output` | what is received is written, a reader that leaves is noticed |
| Environment | `src/zenv.c`, `examples/common.c` | handle, context, reactor | create, close | a process starts, and leaves nothing behind |
| Configuration | `src/zconfig.c`, `src/zutils.c` | none | JSON to structures, names to socket types | a bad member changes nothing of a good document |
| Bootstrap | `examples/zk-bootstrap.py` | nodes of ZooKeeper | validate and declare a type | `/services/<type>`, then `/listen/<type>.<socket>` |

They interact in few ways. The reactor calls `zookeeper_process` at every pass,
which runs completions and watchers of the discovery and of the service. The
reactor calls `zsock_handler`, which calls the hooks of the tool. Handlers add
items to the reactor while it dispatches, and change the event masks it reads
before the next poll. Signal handlers clear `running` at any moment. Processes
meet only in ZooKeeper (documents, announcements, child watches), on the ports
of a host, and in ZeroMQ.

## Modules

| System | Modules | Theorems |
|---|---|---|
| One socket discovers its peers, and is closed | `ZooKeeper`, `ZConnect`, `ZClose`, over the abstract `Discovery` by `ZConnectRefines` | `ZConnectProofs`, `ZDiscoveryProofs` |
| The adoption of a round, string by string | `DeltaWalk`, to the outcome that `Deltas` defines | `DeltaWalkProofs` |
| The tools and the service in their event loop | `ZReactor`, with `PipeOut`, `PipeIn` or `ZService` | `ZReactorProofs`, `PipeOutProofs`, `PipeInProofs`, `ZServiceProofs` |
| The lives of the services of a host | `ZConfig`, `ZLife`, over the abstract `Presence` | `ZLifeProofs` |

The systems meet at steps that one of them takes whole. **`Deltas`** says what
an adoption comes to (`Added`, `Removed`, `Adopted`): `ZConnect` takes it in one
step, and `DeltaWalkProofs` proves that the walk of `DeltaWalk` arrives there.
`PipeOut` takes the adoption of a round in one step (`ProcessZk`). The nodes of
`ZConnect` are the announcements of `ZLife`: what `Presence` says of those,
`Publish` and `Expire` of `ZooKeeper` do one announcement at a time. `Configure`
of `ZService` is that of `ZLife` for a document that is right.

**`ZooKeeper`** is the ensemble and one handle of the single-threaded client, as
`zsock.c` uses them. An announcement is `unborn`, `live` or `gone`. A child
watch is one-shot: the server sets it when it serves a list (`watching`), the
client registers it when it handles the answer (`armed`). `requests` and
`replies` are FIFO. A loss (`LoseConnection`) is one noticed by
`zookeeper_interest`: the session event runs every registered watcher, then all
that is outstanding completes with `ZCONNECTIONLOSS`, before the session can
resume. The handle starts without a connection, and an attempt that fails is a
loss too. The session ends (`EndSession`) only if a connection was lost. A watch
event lost with its connection leaves a `blank` slot, and its watch is set again
on reconnection, since the client still holds it. A loss noticed by
`zookeeper_process` makes it fail, which ends the reactor: that case is `Fail`
in `ZReactor`.

**`ZConnect`** is the discovery of one socket that connects to several types.
`DeliverList`, `DeliverGet`, `DeliverWatch` are whole handlers: `on_get` is
its decrement, the test of the content, `maybe_reconnect`, then `maybe_relist`.
`Disconnect` and `Reconnect` run `on_list_change` for every armed type, since
the code does not look at the kind of the event. `Added` keeps the duplicates
of a list, because the code's walk does. `connect_real` counts references;
`links` is what the ZeroMQ socket is connected to, which the code lets differ.
`g_tree_foreach` walks types in an order that the model leaves open. `Register`
does not wait for the connection, since the tools do not: their lists are sent
once there is one.
`zmq_connect` is taken to succeed.

**`Discovery`** is what a user of the library may rely on: per type, the peers
are looked at together (`Look`), those that go may be left out (`Forget`), what
was seen may be given up (`Abandon`), and a list is replaced as a whole by what
was seen (`Adopt`), never by nothing. **`ZConnectRefines`** maps `ZConnect` to
it: `urls` is `urlv_current`, and `view` is what the round has collected
together with what its answers and gets under way still name, or nothing once a
relist is wanted (`Seen`). So `on_get` is a stutter when the content was got, a
`Forget` when the node had gone, and an `Adopt` when it was the last one.

**`ZClose`** adds to `ZConnect` the end of a tool, at any moment. `damage` is
what `zco_destroy` frees twice and what the completions that `zookeeper_close`
may run find freed. The handle outlives the sockets in the code
(`zclt_env_close`), so a stop with requests outstanding is not clean: the model
has that case, and says exactly when it cannot happen (`IdleCloseIsClean`).

**`DeltaWalk`** is `zco_reconnect` string by string: sort, walk (`Lost`, `New`,
`Same`), merge, free. Each string is an allocation of its own, so that a string
kept can be told from one freed with the same text. URLs are numbers in the
order of `strcmp`.

**`ZReactor`** is the event loop: `Poll`, an item at a time (`NextPlace`),
`Skip`, `Fail`, `Leave`. The number of items of a pass is read at its start;
`NextItemAfterAdding` appends items that the pass does not reach. Poll timeouts
change nothing and are stuttering steps. A poll that a signal interrupts ends
the loop as `running` does.

**`PipeOut`** is zpush and zpub. Text is counted in characters, `taken <=
buffered <= written`: what `fgets` returned, what stdio read, what the writer
wrote. `Fired` is what poll reports, and the hang-up of a pipe is reported
whatever is waited for. `lossy` is a PUB socket, always writable, that drops
what no peer has room for. `InputReady` is a step of its own, because between
`zsock_ready` and the send a connection may finish closing. stdin is a pipe; the
behaviour of `fgets` on `EAGAIN` (it returns the beginning of the line if there
is one and leaves the error flag set) is that of glibc. A round adopted gives
the socket new connections, and `connected` stays set, because `zco_reconnect`
never adopts an empty round (`RefsCoverClaims` says a URL adopted has an
entry). A last line without end is written just before the close (`Close`): with
a pause between the two it is one more case of `pipe_partial`.

**`PipeIn`** is zpull and zsub. Frames have no end; what is counted is how many
wait in the socket, in the buffer of stdio and in the pipe. A write waits for the
reader, and `SIGPIPE` ends the process when there is none. A socket that only
receives is never ready for output, so `on_output` never reaches its test of
the end of the output. zsub is the socket that is not `subscribed`
(`zenv_create_socket` subscribes to nothing): it receives no frame.

**`ZService`** is the loop of zservice: the configuration, its failures, and the
copying, one `Receive` and one `SendFrame` at a time. `Flow[k]` says whether
frame `k` has a successor in its message. `_tick` is registered and never polled
for anything. `expired` is that the server has told the client, which has
reconnected, that its session is over: the next poll reports it, and
`zookeeper_process` fails on reading it (`Word`, `LoseZk`). ZeroMQ hands over
whole messages, never refuses the rest of a message it has begun to take, and a
PUB socket refuses nothing.

**`ZConfig`** is what becomes of a JSON document: what the bootstrap lets
through (`validate_config` looks for members, not at their kinds), what the
library then drops (a socket that is not valid), truncates (a list of URLs, at
the first that is not a string) or dies of (a policy that is not a string). A
string of a document is itself, `"absent"` or `"wrong"`; an array or object is
`[is, of]`. `_parse_service` keeps each socket at its place in the document.

**`ZLife`** is the life of each process (`stage`), from its environment to its
end, one life per element of `Proc`, so that a restart is another process. The
bootstrap declares a document, then the node of each of its sockets
(`DeclareType`, `DeclareSockets`); an exception makes it leave the rest of a
document, or all of it, for the next. A process asks for its configuration once,
gets its sockets (`Configure`), binds them on what ports are free (`_zsock_bind`
does not tell a failure), and asks for one announcement for each entry of
`bind_set`, which remembers one address for each URL configured. Announcements
succeed, fail or are lost (`ServeCreate`, `LoseCreates`), and end with the
session. A process stops, closes (`zenv_close`, after `zmq_ctx_destroy`, which
may wait for ever), aborts, is killed, or is cut off until its session expires.

**`Presence`** is what readers may rely on: what is shown of a process grows
(`Show`) until its session is over, and then goes at once (`Withdraw`), for ever.
`shown` is `nodes`, and `over` the processes whose session is. The code has
nothing that withdraws an announcement: it relies on `ZOO_EPHEMERAL`, and so on
no creation being served once the session is over.

`MCZConnect`, `MCZClose`, `MCPipeOut`, `MCZService` and `MCZLife` hold the small
instances; `DeltaWalk` and `PipeIn` need none.

## Runs

| Run | Instance | Checks |
|---|---|---|
| `zconnect_safety` | 2 types (1 not bootstrapped), 3 announcements, 2 on one URL, 1 loss | `TypeOK`, `PendingMatchesInFlight`, `OneRoundAtATime`, `NoLostWakeup`, `RoundIsolation`, `RefsCoverClaims`, `SettledIsCurrent`, `RefinesDiscovery` |
| `zclose_restart` | 1 type, 2 lives of a peer, another peer, one of no use; 1 loss; a stop | `LinksMatchClaims`, `IdleCloseIsClean`, `MonitoredConverges` |
| `zconnect_shared_url` | 4 announcements, 3 on one URL | `LivePeersConnected`, violated |
| `zconnect_monitor` | 3 announcements, 1 loss | `ContinuouslyMonitored`, violated |
| `delta_walk` | 3 URLs, 2 rounds of up to 3 strings, any order | `TypeOK`, `DeltaIsExact`, `NothingDangles`, `AdoptsTheRound` |
| `pipe_lines` | 3 lines, one longer than the buffer, written whole, and a last one without end; PUSH or PUB | `TypeOK`, `OneSideWaited`, `EofIsReal`, `StopIsServed`, `Drained` |
| `pipe_partial` | the same lines, written anywhere | `EofIsReal`, violated |
| `pipe_in` | queue, buffer and pipe of 2 frames, an endless flow | `TypeOK`, `NothingWithheld`, `StopIsServed`, `TextKeepsFlowing`, `GoneReaderIsNoticed` |
| `service_flow` | messages of 1, 3 and 1 frames, output PUB or PUSH | `TypeOK`, `MessagesStayWhole`, `Replicated`, `StopIsServed`, `ExpiredStops` |
| `service_push` | the same, output PUSH | `SendSucceeds`, violated |
| `zlife_mesh` | 2 processes, 3 ports, a type declared badly, badly again, then rightly | `TypeOK`, `AnnouncedIsBound`, `NothingForgotten`, `ConfiguredAsDeclared`, `OneLivingOwner`, `RefinesPresence`, `Started`, `GhostsGo` |
| `zlife_env` | 1 process, `CELL` set to something allowed | `EnvironmentIsTaken`, violated |

Deadlock is not checked: the world of each instance is finite (announcements
are made once, a text has an end) and the loop really ends, so a state without a
successor is normal.

**Bounds.** `Node` is finite, because sequential names are never used again and
so each announcement of a peer is a node of its own. `MaxDrops = 1` loss reaches
every state of a round, since it may come at any point of it. `LineMax` and
`BufferSize` stand for 4095 and the buffer of stdio; 3 and 4 make a line longer
than one and three lines shorter than the other. `HighWater`, `MaxAdoptions`,
`MaxNew`, `MaxRounds`, `QueueMax`, `PipeMax` and the length of `Text` and `Flow`
are the smallest that make the case happen: a full output, an adoption that
replaces connections, a duplicate beside another URL, a round that follows
another, a message of several frames between two others, a pipe that fills while
frames wait. In `zlife_mesh` the good document asks for two ports anywhere, then
for a fixed one that the first two may have taken: a second process finds some
or all of the three taken, and may follow the first or live beside it. Its `bind`
has the same URL twice, which is the case `bind_set` loses. The bad documents have a socket
listed twice, a URL that is not valid, members of the wrong kind, no output, and
a socket type that does not exist; they may come between the start of a process
and its configuration. The proofs have none of these bounds.

**What the passing runs show.** After any interleaving of changes, answers and
one loss, each list adopted was live together, less what went meanwhile
(`RefinesDiscovery`); a type with nothing under way has adopted what is live
(`SettledIsCurrent`), except that an empty set is never adopted; and if no list
of the type fails and the session stays, it converges (`MonitoredConverges`).
With one life per address at a time, connections are what is adopted
(`LinksMatchClaims`). A writer of whole lines that closes gets all its text sent
(`Drained`). A service replicates what came in (`Replicated`). Processes of one
host that share a document, come, go and crash never announce an address that
they have not bound, nor one that another announces (`OneLivingOwner`); all that
a process shows goes with its session (`RefinesPresence`), and the dead leave no
announcement for ever (`GhostsGo`).

**What the violated runs show.**

* `zconnect_shared_url`: a round that collects two live announcements of one URL
  takes two references for one `zmq_connect` (`zsock.c:126`). When both have gone,
  the URL is removed once: one `zmq_disconnect`, and a reference that stays
  (`zsock.c:143`). A later announcement of that URL is then adopted and counted,
  but never connected. As long as no two live announcements share a URL it does
  not happen (`UnsharedPeersAreConnected`).
* `zconnect_monitor`: a list that fails is not tried again (`zsock.c:562`).
  Nothing else ends the monitoring of a type (`OnlyFailedListsEndMonitoring`).
* `pipe_partial`: a pause in the middle of a line ends zpush, which takes the
  flag of `EAGAIN` for the end (`common_pipe_out.c:64`). Whole lines are read to
  the end (`WholeLinesAreRead`).
* `service_push`: the send of a frame may fail, which the code asserts it does
  not (`main_service.c:66`). With a PUB output it never does
  (`OnlyPushIsRefused`).
* `zlife_env`: the loop over the characters of `CELL` and `UUID` never moves: a
  process whose `CELL` begins with an allowed character does not start
  (`zenv.c:81`).

**Limits of the code that the properties allow for.** The URL of the last peer
is kept for ever, since an empty round is not adopted (`zsock.c:262`). Lines
that arrive together wait in stdio until more is written or the pipe hangs up
(`common_pipe_out.c:70`). Of two addresses got for one URL one is announced
(`zsock.c:363`), and an announcement that fails is not tried again
(`zsock.c:589`). A configuration that cannot be read leaves a service without
sockets for ever, since the watch on it does nothing (`zservice.c:106`, `:135`).
The drain loops of zservice and zpull return to the reactor only when the flow
pauses (`main_service.c:45`, `common_pipe_in.c:46`), hence the hypotheses of
`StopIsServed` and `ExpiredStops`; `Flow` is finite, so it always pauses in
`ZService`. A service whose session has expired runs on, announced nowhere, until
its client has reconnected to be told and its flow pauses (`zreactor.c:171`).

**Fairness.** In `ZConnect`: the server answers, the socket is registered, the
reactor delivers what has come (`zreactor_run` calls `zookeeper_process` at
each pass, with or without events) and the client reconnects. Peers, bootstraps
and losses are free. In `PipeOut`, `PipeIn` and `ZService`: the thread is
scheduled (`WF_vars(Process)`); ZooKeeper's failures, configurations and the
whole environment are free, except that the thread fails on the word that its
session is over when it reads it (`Word /\ LoseZk`); that word itself is free to
come or not. The liveness properties allow for the process
having ended. `Drained` assumes that peers keep taking messages, `TextKeepsFlowing`
that frames keep coming, `MonitoredConverges` that no list of the type fails,
since nothing retries one, and that the session is finally connected. In
`ZLife`: each process goes on with what it has begun (`Thread`) and the server
serves it, and ends the session of one that has ended (`Server`). Nothing makes a
process start, stop, lose its connection, notice that its session is over, or
finish closing.

## Proofs

Every theorem holds for every value of the constants under the named `ASSUME`s
(`ZooKeeperAssumption`, `ZConnectAssumption`, `DeltaWalkAssumption`,
`PipeOutAssumption`, `PipeInAssumption`, `ZServiceAssumption`,
`ZLifeAssumption`), which TLC evaluates in the runs.

* `ZConnectProofs`: `TypeCorrect`, `PendingIsInFlight`, `RoundsNeverOverlap`,
  `WakeupsAreKept`, `RefsAreKept`. The counters being naturals is not inductive
  alone: a decrement is safe because the completion handled was counted. So
  `TypeAndPending` joins the types with `PendingMatchesInFlight`; the module
  begins with lemmas on how many messages of a kind a queue holds after each of
  its operations. `Unregistered` says that nothing is under way before
  the socket is registered; with it `Rounds` (one list, or gets, or
  neither, and a wakeup only while something is pending) is inductive.
  `RefsCoverClaims` is preserved by `zco_reconnect`, because a URL it releases
  was claimed by that type and a URL it adopts is added at least once.
* `ZDiscoveryProofs`: `RoundsLeaveNothing`, `ClosesCleanly`,
  `DiscoveryIsImplemented`, `SettledIsLive`, `RoundsNeverMix`, `LinksAreClaims`,
  `UnsharedPeersAreConnected` and `OnlyFailedListsEndMonitoring`. The invariant
  under all of these, `DiscoveryInv`, adds two parts to those of
  `ZConnectProofs`. `NothingKept` (a collection only while a get is pending):
  the last get of a round either finishes it, which empties the collection, or
  finds a relist wanted, which throws it away; it needs that a list is not
  pending by then, which is `OneRoundAtATime`. `Flight` says what messages
  carry: only lists and gets are asked, about nodes that were announced
  (`Asked`, `Answered`); without a connection nothing but lists is asked and
  every answer has failed (`CutOff`); while gets are outstanding the watcher is
  registered, so that a loss wakes it, unless a relist is wanted already
  (`Watched`). `DiscoveryIsImplemented` is the refinement. `SeenStep` bounds
  what each handler does to `Seen(t)`, the URLs of the round that will be
  adopted if it ends now: kept, given up, looked up anew from the live nodes,
  less one that has gone, or adopted whole. `SeenIsDiscovered` maps these to the
  actions of `Discovery`. Only the last get of a round that no change has
  spoiled adopts, and then nothing is named in flight any more. `SettledIsLive`
  adds `Monitor`: while the server holds the watch of a type, nothing has
  changed since its list was served, so either another look is to come
  (`Asking`), or what is named in flight is live (`LiveNamed`) and what the
  round under way has in sight, or the last one adopted, is all that is live
  (`Fresh`). Without a connection, every such watch is registered with the
  client, which sets it again. `RoundsNeverMix` takes one URL at a time, so that
  it needs no sum: `Collectable(t, u)` is followed through each handler with
  lemmas on how many messages of a queue satisfy a predicate (`Hits`). `on_get`
  takes a get away and collects at most as much; a list that begins a round
  finds nothing collected and nothing asked (`NothingKept`, `OneRoundAtATime`),
  and asks once for each node it names. `LinkInv`, for `LinksAreClaims`, adds
  `NoDouble`: a list names no URL twice, so no round collects one twice, and a
  type adopts only what was announced under it. The two hypotheses are what the
  code needs: with a URL of two types, the first of them to drop it disconnects
  it for both; with two announcements at once, a round leaks a reference.
  `UrlsOfOneType` is about constants; `OneLifeAtATime` is about the peers, and
  is what `AddressesAreExclusive` gives for those that run: only what a process
  that has ended leaves can share a URL with another announcement.
  `zclose_restart`, where a peer restarts, has both as its behaviours'
  condition; `zconnect_shared_url` has the first, not the second.
  `UnsharedPeersAreConnected` joins that to `SettledIsLive`.
  `OnlyFailedListsEndMonitoring` rests on `Kept`: a type whose gets are under
  way has a watcher unless a relist is wanted (`Attended`), so that the last get
  of a round leaves one or the other; a change uses up the watcher and asks
  again.
* `DeltaWalkProofs`: `TypeCorrect`, `TheDeltaIsExact`, `NoStringDangles` and
  `TheRoundIsAdopted`, which are all that the run checks; the second and the last
  are stated with the operators of `Deltas` that `ZConnect` takes its step with.
  `WalkInv` says where
  the walk stands: what is behind it in one list is less than what is before it
  in the other (`SideBySide`, from both lists being in order), each string
  passed went to the one place it belongs (`Shared`), as often as `Counted`
  says; and what is current or freed is older than what the round collected
  (`OfEarlierRounds`), so that a string of the round is never one of those.
  Without the sort `NewInOrder` fails, and `SideBySide` with it.
* `PipeOutProofs`: `TypeCorrect`, `OneSideIsWaited`, and `WholeLinesAreRead`
  (assuming `PausesAtLines`). `PipeInv` adds where the loop stands and that what
  the poll reported of stdin still holds when its handler runs; `Whole` adds
  that what has been written ends a line until the pipe is closed. Together
  they give `fgets` a line to return whenever its handler runs before the close.
* `PipeInProofs`: `TypeCorrect` and `NothingIsWithheld`, with where the loop
  stands (`Loop`).
* `ZServiceProofs`: `TypeCorrect`, `MessagesAreReplicatedWhole` and
  `OnlyPushIsRefused`. The strengthening is `WholeArrivals` (what has arrived
  ends a message): without it the handler could return in the middle of one.
* `ZLifeProofs`: `TypeCorrect`, `AnnouncementsAreTrue`, `AddressesAreAnnounced`,
  `DeclaredIsConfigured`, `AddressesAreExclusive` and `PresenceIsImplemented`,
  for any documents, ports, environments and number of processes. `LifeInv` adds
  that what has been asked for is as sound as what has been served (`AllSound`),
  since a creation is served later; that a process has announcements only from
  when it runs, and never before (`Owned`); and that only a process that runs
  has addresses (`HasAddresses`). `WellDeclaredIsConfigured` carries a document
  through the parser, which needs that the bootstrap validated it. `OwnerInv`,
  for the last two, says who owns what: no port is had twice, by one process or
  by two (`PortsExclusive`, from each bind finding free only what those before
  it left); what a process has asked for or announced is made from an address it
  remembers (`AllMade`); what is announced has an open session (`Sessions`), and
  a session begins only once (`Sessionless`), so that a process withdrawn is not
  shown again.
* `ZReactorProofs` holds the lemmas on the loop and on `Min` that the proofs of
  the tools use.

**Only model-checked:** every invariant and every refinement a passing run
checks is a theorem, of which `LinksAreClaims` and `WholeLinesAreRead` have the
hypotheses their runs have. What only TLC checks is temporal with fairness
(`MonitoredConverges`, `StopIsServed`, `Drained`, `Replicated`,
`TextKeepsFlowing`, `GoneReaderIsNoticed`, `Started`, `GhostsGo`,
`ExpiredStops`), which is out of the prover's reach, as are ENABLED and
inductions over data.

## Not modelled

* `uuid_randomize` and the logging of the tools, which keep no state.
* Text that is not JSON, and the readers of strings and files of `zconfig.c` that
  nothing calls.
* A `zsock_connect` after the registration (`zsock.c:330`), whose `zconnect_s` is
  never listed: no caller does it.
* The configuration watch, which does nothing in the code (`zservice.c:135`).
* Where the ZooKeeper URL comes from: it is there or it is not.
* Memory: apart from the strings of `DeltaWalk` and the end in `ZClose`.

## What is left

1. The safety that the liveness properties rest on, as theorems: that a step of
   the thread remains possible or the process has ended, stated without ENABLED.
2. `ZLife` and `ZConnect` composed. They meet in what `Presence` says, of which the
   steps of `ZooKeeper` are one case; the announcements of several processes as
   the nodes that others discover would make it one specification.
