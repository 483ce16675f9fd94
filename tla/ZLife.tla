------------------------------- MODULE ZLife -------------------------------
(***************************************************************************)
(* The lives of the zservice processes of one type on one host: each reads  *)
(* its environment (src/zenv.c), asks for its configuration once            *)
(* (src/zservice.c), opens, binds and announces its sockets (src/zsock.c),  *)
(* and ends by a signal, an abort or a crash.  A restart is a new process.  *)
(* They meet on the ports of the host and in ZooKeeper, where the bootstrap *)
(* declares the type (examples/zk-bootstrap.py) and may declare it anew.    *)
(***************************************************************************)
EXTENDS ZConfig

CONSTANTS
    Proc,   \* the processes, each with one life
    Docs,   \* the documents the bootstrap writes, one after the other
    Port,   \* the ports of the host
    Reach,  \* the ports each URL may be bound to; none for one not valid
    Envs    \* the environments a process may be started in

Given == {"unset", "empty", "allowed", "forbidden"}

ASSUME ZLifeAssumption ==
    /\ Port \subseteq Nat /\ IsFiniteSet(Port)
    /\ DOMAIN Docs = 1..Len(Docs) /\ Len(Docs) \in Nat
    /\ \A i \in DOMAIN Docs :
          /\ validate_config(Docs[i])
          /\ DOMAIN Docs[i].sockets.of \subseteq Nat \ {0}
          /\ \A s \in Range(Docs[i].sockets.of) : DOMAIN s.bind.of \subseteq Nat \ {0}
    /\ \A url \in DOMAIN Reach : Reach[url] \subseteq Port
    /\ Envs \subseteq [zkurl : BOOLEAN, cell : Given, uuid : Given]

VARIABLES
    declared, \* which document /services/<type> holds; 0: the node is missing
    listens,  \* the sockets that have a /listen/<type>.<name> node
    stage,    \* where each process is in its life
    env,      \* what its environment gives
    answer,   \* the document it has been answered, or 0
    session,  \* its session: "none", "open" or "over"
    socks,    \* its sockets, with what they connect to
    bound,    \* the addresses they have
    bind_set, \* those they remember, one for each URL configured
    creates,  \* the announcements asked for and not yet served
    failed,   \* those it was told, and ignored, that they failed
    faults,   \* a request of it failed, or its session ended
    nodes     \* the announcements in ZooKeeper

bootVars == <<declared, listens>>
sockVars == <<socks, bound, bind_set>>
zkVars == <<creates, failed, nodes>>
vars == <<bootVars, stage, env, answer, session, sockVars, zkVars, faults>>

Alive == {"init", "asking", "answered", "deaf", "running"}
Ended == {"closing", "closed", "aborted", "killed"}
Stage == {"unborn"} \cup Alive \cup Ended

Names(doc) == {s.name : s \in Range(doc.sockets.of)}
Bootstrapped(i) == (IF i = 0 THEN {} ELSE Names(Docs[i])) \subseteq listens

Init ==
    /\ declared = 0
    /\ listens = {}
    /\ stage = [p \in Proc |-> "unborn"]
    /\ env \in [Proc -> Envs]
    /\ answer = [p \in Proc |-> 0]
    /\ session = [p \in Proc |-> "none"]
    /\ socks = [p \in Proc |-> {}]
    /\ bound = [p \in Proc |-> {}]
    /\ bind_set = [p \in Proc |-> {}]
    /\ creates = [p \in Proc |-> {}]
    /\ failed = [p \in Proc |-> {}]
    /\ faults = [p \in Proc |-> FALSE]
    /\ nodes = {}

Go(p, to) == stage' = [stage EXCEPT ![p] = to]

\* on_bind_create, of a process that is still there.
Told(p, C) == failed' = [failed EXCEPT ![p] = IF stage[p] \in Alive THEN @ \cup C ELSE {}]

-----------------------------------------------------------------------------
(* The bootstrap: the type first, then the node of each of its sockets, in order. *)

\* An exception ends the document it comes with, and no other: its sockets, or
\* all of it, may never be declared.
DeclareType ==
    /\ \E i \in (declared + 1)..Len(Docs) : declared' = i
    /\ UNCHANGED <<listens, stage, env, answer, session, sockVars, zkVars, faults>>

DeclareSockets ==
    /\ ~Bootstrapped(declared)
    /\ LET sockets == Docs[declared].sockets.of
           next == Min({i \in DOMAIN sockets : sockets[i].name \notin listens})
       IN  listens' = listens \cup {sockets[next].name}
    /\ UNCHANGED <<declared, stage, env, answer, session, sockVars, zkVars, faults>>

-----------------------------------------------------------------------------
(* The beginning of a process. *)

Start(p) ==
    /\ stage[p] = "unborn"
    /\ Go(p, "init")
    /\ UNCHANGED <<bootVars, env, answer, session, sockVars, zkVars, faults>>

\* The values the function may return: none when its loop, that never moves to
\* the second character, starts on one that is allowed.
_has_forbidden_chars(s) ==
    CASE s \in {"unset", "empty"} -> {FALSE}
      [] s = "forbidden" -> {TRUE}
      [] s = "allowed" -> {}

\* ZooKeeper is not configured, or CELL, then UUID, has a forbidden character.
zenv_init_Aborts(p) ==
    /\ stage[p] = "init"
    /\ \/ ~env[p].zkurl
       \/ TRUE \in _has_forbidden_chars(env[p].cell)
       \/ _has_forbidden_chars(env[p].cell) = {FALSE} /\ TRUE \in _has_forbidden_chars(env[p].uuid)
    /\ Go(p, "aborted")
    /\ UNCHANGED <<bootVars, env, answer, session, sockVars, zkVars, faults>>

\* The handle is created, then the service: its "_tick" socket is, and its
\* configuration is asked for. A new handle refuses nothing.
zsrv_env_init(p) ==
    /\ stage[p] = "init"
    /\ env[p].zkurl
    /\ FALSE \in _has_forbidden_chars(env[p].cell)
    /\ FALSE \in _has_forbidden_chars(env[p].uuid)
    /\ Go(p, "asking")
    /\ session' = [session EXCEPT ![p] = "open"]
    /\ socks' = [socks EXCEPT ![p] = {[name |-> "_tick", ztype |-> "SUB", connect |-> {}]}]
    /\ UNCHANGED <<bootVars, env, answer, bound, bind_set, zkVars, faults>>

\* The server answers with what the bootstrap has written last, if anything.
AnswerConfig(p) ==
    /\ stage[p] = "asking"
    /\ session[p] = "open"
    /\ Go(p, "answered")
    /\ answer' = [answer EXCEPT ![p] = declared]
    /\ UNCHANGED <<bootVars, env, session, sockVars, zkVars, faults>>

-----------------------------------------------------------------------------
(* on_config_completion *)

\* An error: the process is left without sockets and nothing is asked again.
ConfigFails(p) ==
    /\ \/ stage[p] = "answered" /\ answer[p] = 0 /\ UNCHANGED faults
       \/ stage[p] = "asking" /\ faults' = [faults EXCEPT ![p] = TRUE]
    /\ Go(p, "deaf")
    /\ UNCHANGED <<bootVars, env, answer, session, sockVars, zkVars>>

\* What each document is parsed to.
Parse == [i \in DOMAIN Docs |-> _parse_service(Docs[i])]

\* The sockets created: the first of each name, "_tick" existing already.
Created(cfg) ==
    {i \in DOMAIN cfg :
        cfg[i].sockname \notin {"_tick"} \cup {cfg[k].sockname : k \in {j \in DOMAIN cfg : j < i}}}

\* zservice_create_socket: a type that is missing or unknown is fatal.
CreateIsFatal(cfg) == \E i \in Created(cfg) : zsocket_resolve(cfg[i].ztype) = {}

\* One zconnect_s for each type, and the types of a JSON object are distinct.
zsock_connect(connect) == Range(connect)

\* zservice_create_and_register, for each member of the configuration.
zservice_configure(cfg) ==
    {[name |-> cfg[i].sockname, ztype |-> Only(zsocket_resolve(cfg[i].ztype)),
      connect |-> zsock_connect(cfg[i].connect)] : i \in Created(cfg)}

\* The URLs to bind, and the order the code binds them in.
Binds(cfg) == UNION {{i} \X DOMAIN cfg[i].listen : i \in Created(cfg)}
Before(a, b) == a[1] < b[1] \/ (a[1] = b[1] /\ a[2] < b[2])

Taken == UNION {{b.port : b \in bound[p]} : p \in Proc}

\* What _zsock_bind comes to for each URL: a port that is free, or nothing when
\* there is none, which it does not tell.
_zsock_bind(cfg, got) ==
    \A b \in Binds(cfg) :
        LET others == Taken \cup UNION {got[a] : a \in {k \in Binds(cfg) : Before(k, b)}}
            free == Reach[cfg[b[1]].listen[b[2]]] \ others
        IN  got[b] \subseteq free /\ (got[b] = {} => free = {})

\* The address each successful bind got.
Addresses(cfg, got) ==
    {[name |-> cfg[b[1]].sockname, url |-> cfg[b[1]].listen[b[2]], port |-> Only(got[b]), at |-> b[2]] :
        b \in {k \in Binds(cfg) : got[k] # {}}}

\* Mutant of Remembered: the URL configured is remembered for itself.
Remembered_AsConfigured(addresses) ==
    {[a EXCEPT !.port = Min(Reach[a.url])] : a \in addresses}

\* bind_set has one entry for each URL of a socket: the last address.
Remembered(addresses) ==
    {a \in addresses : \A b \in addresses : <<b.name, b.url>> = <<a.name, a.url>> => b.at <= a.at}

\* What on_endpoint announces for an entry of the bind_set of a socket.
Announcement(p, sockets, a) ==
    LET s == Only({k \in sockets : k.name = a.name})
    IN  [life |-> p, body |-> _build_listen(a.name, s.ztype, a.port,
            IF env[p].uuid = "unset" THEN "random" ELSE env[p].uuid,
            IF env[p].cell = "unset" THEN "none" ELSE env[p].cell)]

\* Mutant of Announcements: the walks stop after their first entry.
Announcements_First(p, sockets, entries) ==
    {Announcement(p, sockets, a) :
        a \in {e \in entries : \A f \in entries : f.port >= e.port}}

\* zsock_register_in_reactor, for every socket: one creation for each entry.
Announcements(p, sockets, entries) == {Announcement(p, sockets, a) : a \in entries}

\* The hook asks for two sockets by name: zservice_get_socket ends the process
\* when there is none.
_on_zservice_configured(sockets) == {"in", "out"} \subseteq {s.name : s \in sockets}

\* A document that cannot be made sockets of.
ConfigIsFatal(p) ==
    /\ stage[p] = "answered"
    /\ answer[p] > 0
    /\ ParseIsFatal(Docs[answer[p]]) \/ CreateIsFatal(Parse[answer[p]])
    /\ Go(p, "aborted")
    /\ UNCHANGED <<bootVars, env, answer, session, sockVars, zkVars, faults>>

\* The sockets are created, bound and announced; then the hook is called.
Configure(p) ==
    /\ stage[p] = "answered"
    /\ answer[p] > 0
    /\ ~ParseIsFatal(Docs[answer[p]])
    /\ LET cfg == Parse[answer[p]]
           sockets == socks[p] \cup zservice_configure(cfg)
           complete == _on_zservice_configured(sockets)
       IN  /\ ~CreateIsFatal(cfg)
           /\ Go(p, IF complete THEN "running" ELSE "aborted")
           /\ socks' = [socks EXCEPT ![p] = IF complete THEN sockets ELSE {}]
           /\ \E got \in [Binds(cfg) -> {{q} : q \in Port} \cup {{}}] :
                /\ _zsock_bind(cfg, got)
                /\ LET addresses == Addresses(cfg, got)
                       entries == Remembered(addresses)
                   IN  /\ creates' = [creates EXCEPT ![p] = Announcements(p, sockets, entries)]
                       /\ bound' = [bound EXCEPT ![p] = IF complete THEN addresses ELSE {}]
                       /\ bind_set' = [bind_set EXCEPT ![p] = IF complete THEN entries ELSE {}]
    /\ UNCHANGED <<bootVars, env, answer, session, failed, nodes, faults>>

-----------------------------------------------------------------------------
(* The announcements. *)

\* on_bind_create: the result is ignored. The process may be dead by then.
ServeCreate(p) ==
    /\ session[p] = "open"
    /\ \E c \in creates[p] :
          /\ creates' = [creates EXCEPT ![p] = @ \ {c}]
          /\ IF c.body.type \in listens THEN nodes' = nodes \cup {c} /\ UNCHANGED failed
             ELSE Told(p, {c}) /\ UNCHANGED nodes
    /\ UNCHANGED <<bootVars, stage, env, answer, session, sockVars, faults>>

\* The connection is lost: what is outstanding fails, served or not.
LoseCreates(p) ==
    /\ stage[p] = "running"
    /\ session[p] = "open"
    /\ creates[p] # {}
    /\ creates' = [creates EXCEPT ![p] = {}]
    /\ Told(p, creates[p])
    /\ \E S \in SUBSET {c \in creates[p] : c.body.type \in listens} : nodes' = nodes \cup S
    /\ faults' = [faults EXCEPT ![p] = TRUE]
    /\ UNCHANGED <<bootVars, stage, env, answer, session, sockVars>>

\* Mutant of Left: the announcements are not ephemeral.
Left_Persistent(p) == nodes

\* What is left when the session of a process ends: ZOO_EPHEMERAL.
Left(p) == {c \in nodes : c.life # p}

\* The server ends a session it does not hear of any more.
SessionEnds(p) ==
    /\ session[p] = "open"
    /\ session' = [session EXCEPT ![p] = "over"]
    /\ nodes' = Left(p)
    /\ creates' = [creates EXCEPT ![p] = {}]
    /\ Told(p, creates[p])
    /\ faults' = [faults EXCEPT ![p] = stage[p] \in Alive]
    /\ UNCHANGED <<bootVars, stage, env, answer, sockVars>>

-----------------------------------------------------------------------------
(* The end of a process. *)

\* Its sockets are closed and its memory is given back.
Leaves(p) ==
    /\ answer' = [answer EXCEPT ![p] = 0]
    /\ socks' = [socks EXCEPT ![p] = {}]
    /\ bound' = [bound EXCEPT ![p] = {}]
    /\ bind_set' = [bind_set EXCEPT ![p] = {}]
    /\ failed' = [failed EXCEPT ![p] = {}]
    /\ faults' = [faults EXCEPT ![p] = FALSE]

\* The loop ends, by a signal or an error, such as a session that has expired
\* (ZService); zservice_destroy closes the sockets.
Stop(p) ==
    /\ stage[p] \in {"asking", "answered", "deaf", "running"}
    /\ Go(p, "closing")
    /\ Leaves(p)
    /\ UNCHANGED <<bootVars, env, session, creates, nodes>>

\* zenv_close: once zmq_ctx_destroy has got rid of the messages, which may
\* take for ever, the session is closed, if the server can be told.
zenv_close(p) ==
    /\ stage[p] = "closing"
    /\ Go(p, "closed")
    /\ \/ /\ session' = [session EXCEPT ![p] = "over"]
          /\ nodes' = Left(p)
          /\ creates' = [creates EXCEPT ![p] = {}]
       \/ UNCHANGED <<session, nodes, creates>>
    /\ UNCHANGED <<bootVars, env, answer, sockVars, failed, faults>>

Kill(p) ==
    /\ stage[p] \in Alive \cup {"closing"}
    /\ Go(p, "killed")
    /\ Leaves(p)
    /\ UNCHANGED <<bootVars, env, session, creates, nodes>>

Bootstrap == DeclareType \/ DeclareSockets

Next ==
    \/ Bootstrap
    \/ \E p \in Proc :
        \/ Start(p) \/ zenv_init_Aborts(p) \/ zsrv_env_init(p) \/ AnswerConfig(p)
        \/ ConfigFails(p) \/ ConfigIsFatal(p) \/ Configure(p)
        \/ ServeCreate(p) \/ LoseCreates(p) \/ SessionEnds(p)
        \/ Stop(p) \/ zenv_close(p) \/ Kill(p)

Spec == Init /\ [][Next]_vars

\* What a process does of itself, and what the server does for it.
Thread(p) ==
    \/ zenv_init_Aborts(p) \/ zsrv_env_init(p) \/ ConfigIsFatal(p) \/ Configure(p)
    \/ stage[p] = "answered" /\ ConfigFails(p)

Server(p) == AnswerConfig(p) \/ ServeCreate(p) \/ (stage[p] \in Ended /\ SessionEnds(p))

\* Nothing makes a process start, stop or lose its connection, nor notice that
\* its session is over, and closing may last for ever; the server forgets those
\* it does not hear of any more.
Fairness == \A p \in Proc : WF_vars(Thread(p)) /\ WF_vars(Server(p))

FairSpec == Spec /\ Fairness

-----------------------------------------------------------------------------
TypeOK ==
    /\ declared \in 0..Len(Docs)
    /\ stage \in [Proc -> Stage]
    /\ answer \in [Proc -> 0..Len(Docs)]
    /\ session \in [Proc -> {"none", "open", "over"}]
    /\ \A p \in Proc : bind_set[p] \subseteq bound[p]
    /\ \A c \in nodes : c.life \in Proc /\ c.body.url \in Port

\* The announcements of a process that runs are true: each one is the address
\* of a socket the process has bound, with a type its readers make out.
AnnouncedIsBound ==
    \A c \in nodes : stage[c.life] = "running" =>
        /\ \E b \in bound[c.life] : b.name = c.body.type /\ b.port = c.body.url
        /\ \E s \in socks[c.life], read \in _parse_listen(c.body) :
              s.name = read.type /\ zsocket_resolve(read.ztype) = {s.ztype}

\* Every address of a process that runs, and has its session, is announced, or will be, or could not
\* be; but of the addresses got for a URL listed twice only the last one is.
NothingForgotten ==
    \A p \in Proc : session[p] = "open" => \A b \in bound[p] :
        \/ \E c \in creates[p] \cup failed[p] \cup nodes : c.life = p /\ c.body.url = b.port
        \/ \E d \in bound[p] : d.name = b.name /\ d.url = b.url /\ d.at > b.at

\* A document that says what main_service.c expects, and nothing twice.
WellDeclared(doc) ==
    /\ doc.name # "wrong" /\ doc.sockets.is = "right"
    /\ {"in", "out"} \subseteq Names(doc)
    /\ \A i \in DOMAIN doc.sockets.of :
        LET s == doc.sockets.of[i] IN
        /\ s.name \notin {"wrong", "_tick"} \cup {doc.sockets.of[k].name : k \in 1..(i - 1)}
        /\ zsocket_resolve(s.type) # {}
        /\ "wrong" \notin {s.bind.is, s.connect.is} \cup Range(s.bind.of)
        /\ \A c \in Range(s.connect.of) : c[2] # "wrong"

\* A process that runs has the sockets its document declares, all of them, with
\* their types and peers, and such a document is never fatal.
ConfiguredAsDeclared ==
    \A p \in Proc : answer[p] > 0 /\ WellDeclared(Docs[answer[p]]) =>
        /\ stage[p] # "aborted"
        /\ stage[p] = "running" =>
            \A s \in Range(Docs[answer[p]].sockets.of) : \E k \in socks[p] :
                k.name = s.name /\ s.type \in Spelling[k.ztype] /\ k.connect = Range(s.connect.of)

\* An address that two announcements give is that of one process that runs at
\* most, and of one socket of it: when both processes run it is one announcement.
\* The others are what processes that have ended leave until their session ends.
OneLivingOwner ==
    \A c, d \in nodes :
        c.body.url = d.body.url /\ stage[c.life] = "running" /\ stage[d.life] = "running"
            => c = d

\* A process whose type had been declared when it was answered ends up announced
\* at every address it remembers, unless it ends or loses ZooKeeper.
Started ==
    \A p \in Proc :
        stage[p] = "answered" /\ answer[p] > 0 /\ Bootstrapped(answer[p])
            ~> \/ stage[p] \in Ended \/ faults[p]
               \/ /\ stage[p] = "running"
                  /\ \A a \in bind_set[p] : \E c \in nodes : c.life = p /\ c.body.url = a.port

\* The announcements of a process that has ended, were it killed or stuck in
\* its closing, go in the end, with the session that could bring others.
GhostsGo ==
    \A p \in Proc : stage[p] \in Ended ~>
        session[p] # "open" /\ \A c \in nodes : c.life # p

\* What readers see of the processes is what Presence promises, however they end
\* and whatever is under way when they do: on_endpoint announces with the session
\* of the process (ZOO_EPHEMERAL), and a creation served late dies with it too.
Shown == INSTANCE Presence WITH shown <- nodes, over <- {p \in Proc : session[p] = "over"}
RefinesPresence == Shown!Spec

\* zenv.c:124, "Init the "cell" from the environment if present": a process is
\* not kept from starting by a CELL or a UUID that is allowed.
EnvironmentIsTaken == \A p \in Proc : stage[p] = "init" ~> stage[p] # "init"
=============================================================================
