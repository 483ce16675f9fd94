---------------------------- MODULE ZLifeProofs ----------------------------
(* Theorems on the lives of the services, for any documents and any number of them. *)
EXTENDS ZLife, TLAPS

-----------------------------------------------------------------------------
(* What the documents are parsed to. *)

\* The name of a type that is announced (ztype2str) is resolved to that type.
LEMMA AnnouncedTypeIsResolved ==
    ASSUME NEW z \in Ztype
    PROVE  zsocket_resolve(ztype2str(z)) = {z} /\ ztype2str(z) # "wrong"
<1>1. CASE z = "PUB"
  BY <1>1 DEF zsocket_resolve, ztype2str, Spelling, Ztype
<1>2. CASE z = "SUB"
  BY <1>2 DEF zsocket_resolve, ztype2str, Spelling, Ztype
<1>3. CASE z = "PUSH"
  BY <1>3 DEF zsocket_resolve, ztype2str, Spelling, Ztype
<1>4. CASE z = "PULL"
  BY <1>4 DEF zsocket_resolve, ztype2str, Spelling, Ztype
<1>. QED
  BY <1>1, <1>2, <1>3, <1>4 DEF Ztype

\* A name that is resolved is one of the spellings of the type it stands for.
LEMMA ResolvedIsSpelled ==
    ASSUME NEW zname, zsocket_resolve(zname) # {}
    PROVE  /\ Only(zsocket_resolve(zname)) \in Ztype
           /\ zname \in Spelling[Only(zsocket_resolve(zname))]
<1>1. Only(zsocket_resolve(zname)) \in zsocket_resolve(zname)
  BY DEF Only
<1>. QED
  BY <1>1 DEF zsocket_resolve

\* Each member of a configuration has a name that is a string, and its URLs are
\* in an order (_parse_socket, _get_bindv).
LEMMA ParsedMembers ==
    ASSUME NEW i \in DOMAIN Docs, NEW k \in DOMAIN Parse[i]
    PROVE  /\ Parse[i][k].sockname # "wrong"
           /\ DOMAIN Parse[i][k].listen \subseteq Nat
<1>. DEFINE s == Docs[i].sockets.of[k]
<1>1. Parse[i] = _parse_service(Docs[i])
  BY DEF Parse
<1>2. k \in DOMAIN Docs[i].sockets.of /\ Parsed(s)
  BY <1>1 DEF _parse_service
<1>3. Parse[i][k] = _parse_socket(s)
  BY <1>1 DEF _parse_service
<1>4. DOMAIN s.bind.of \subseteq Nat
  BY <1>2, ZLifeAssumption DEF Range
<1>. HIDE DEF s
<1>5. DOMAIN _get_bindv(s.bind) \subseteq Nat
  BY <1>4 DEF _get_bindv
<1>. QED
  BY <1>2, <1>3, <1>5 DEF _parse_socket, Parsed, JGET

\* Each socket created has a type that exists (zsocket_resolve is not fatal).
LEMMA ConfiguredSockets ==
    ASSUME NEW cfg, ~CreateIsFatal(cfg)
    PROVE  /\ \A s \in zservice_configure(cfg) : s.ztype \in Ztype
           /\ \A i \in Created(cfg) : \E s \in zservice_configure(cfg) :
                 /\ s.name = cfg[i].sockname
                 /\ cfg[i].ztype \in Spelling[s.ztype]
                 /\ s.connect = zsock_connect(cfg[i].connect)
<1>1. \A i \in Created(cfg) : zsocket_resolve(cfg[i].ztype) # {}
  BY DEF CreateIsFatal
<1>2. \A i \in Created(cfg) :
        /\ Only(zsocket_resolve(cfg[i].ztype)) \in Ztype
        /\ cfg[i].ztype \in Spelling[Only(zsocket_resolve(cfg[i].ztype))]
  BY <1>1, ResolvedIsSpelled
<1>. DEFINE made(i) == [name |-> cfg[i].sockname, ztype |-> Only(zsocket_resolve(cfg[i].ztype)),
                        connect |-> zsock_connect(cfg[i].connect)]
<1>3. zservice_configure(cfg) = {made(i) : i \in Created(cfg)}
  BY DEF zservice_configure
<1>4. \A i \in Created(cfg) :
        /\ made(i).name = cfg[i].sockname
        /\ made(i).ztype = Only(zsocket_resolve(cfg[i].ztype))
        /\ made(i).connect = zsock_connect(cfg[i].connect)
  OBVIOUS
<1>. HIDE DEF made
<1>. QED
  BY <1>2, <1>3, <1>4

\* A document that is well declared is not fatal, and all of its sockets are made.
LEMMA WellDeclaredIsConfigured ==
    ASSUME NEW i \in DOMAIN Docs, WellDeclared(Docs[i])
    PROVE  /\ ~ParseIsFatal(Docs[i])
           /\ ~CreateIsFatal(Parse[i])
           /\ \A s \in Range(Docs[i].sockets.of) : \E k \in zservice_configure(Parse[i]) :
                k.name = s.name /\ s.type \in Spelling[k.ztype] /\ k.connect = Range(s.connect.of)
<1>. DEFINE of == Docs[i].sockets.of
            cfg == Parse[i]
<1>1. Parse[i] = _parse_service(Docs[i])
  BY DEF Parse
<1>2. \A k \in DOMAIN of : zsocket_resolve(of[k].type) # {} /\ of[k].type # "wrong"
  BY DEF WellDeclared, zsocket_resolve, Spelling, Ztype
<1>3. \A k \in DOMAIN of : Parsed(of[k])
  <2>. SUFFICES ASSUME NEW k \in DOMAIN of
       PROVE  Parsed(of[k])
    OBVIOUS
  <2>1. of[k].bind.is # "absent" \/ of[k].connect.is # "absent"
    BY ZLifeAssumption DEF validate_config, Range
  <2>2. {of[k].connect.is, of[k].bind.is} # {"absent"}
    BY <2>1
  <2>. QED
    BY <1>2, <2>2 DEF Parsed, JGET, WellDeclared
<1>4. /\ DOMAIN cfg = DOMAIN of
      /\ \A k \in DOMAIN of : cfg[k] = _parse_socket(of[k])
  BY <1>1, <1>3 DEF _parse_service, WellDeclared, JGET
<1>5. ~ParseIsFatal(Docs[i])
  BY DEF ParseIsFatal, _get_connectv_IsFatal, WellDeclared, Range
<1>. HIDE DEF cfg
<1>6. \A k \in DOMAIN of : /\ cfg[k].sockname = of[k].name
                            /\ cfg[k].ztype = of[k].type
                            /\ cfg[k].connect = of[k].connect.of
  <2>. SUFFICES ASSUME NEW k \in DOMAIN of
       PROVE  /\ cfg[k].sockname = of[k].name
              /\ cfg[k].ztype = of[k].type
              /\ cfg[k].connect = of[k].connect.of
    OBVIOUS
  <2>. DEFINE s == of[k]
              listen == _get_bindv(s.bind)
  <2>1. cfg[k] = [sockname |-> s.name, ztype |-> s.type, connect |-> s.connect.of, listen |-> listen]
    BY <1>4 DEF _parse_socket
  <2>. HIDE DEF listen
  <2>. QED
    BY <2>1
<1>7. Created(cfg) = DOMAIN of
  <2>1. \A k \in DOMAIN of : k \in Nat \ {0}
    BY ZLifeAssumption
  <2>2. \A k \in DOMAIN of :
          of[k].name \notin {"_tick"} \cup {of[j].name : j \in 1..(k - 1)}
    BY DEF WellDeclared
  <2>. SUFFICES ASSUME NEW k \in DOMAIN of, NEW j \in DOMAIN of, j < k
       PROVE  of[j].name # of[k].name
    BY <1>4, <1>6, <2>2 DEF Created
  <2>3. j \in 1..(k - 1)
    BY <2>1
  <2>. QED
    BY <2>2, <2>3
<1>8. ~CreateIsFatal(cfg)
  BY <1>2, <1>6, <1>7 DEF CreateIsFatal
<1>9. \A s \in Range(of) : \E k \in zservice_configure(cfg) :
         k.name = s.name /\ s.type \in Spelling[k.ztype] /\ k.connect = Range(s.connect.of)
  <2>. SUFFICES ASSUME NEW s \in Range(of)
       PROVE  \E k \in zservice_configure(cfg) :
                k.name = s.name /\ s.type \in Spelling[k.ztype] /\ k.connect = Range(s.connect.of)
    OBVIOUS
  <2>. HIDE DEF of
  <2>1. PICK n \in DOMAIN of : s = of[n]
    BY DEF Range
  <2>2. PICK k \in zservice_configure(cfg) :
          /\ k.name = cfg[n].sockname
          /\ cfg[n].ztype \in Spelling[k.ztype]
          /\ k.connect = zsock_connect(cfg[n].connect)
    BY <1>7, <1>8, ConfiguredSockets
  <2>. QED
    BY <1>6, <2>1, <2>2 DEF zsock_connect
<1>. QED
  BY <1>5, <1>8, <1>9 DEF cfg

-----------------------------------------------------------------------------
(* What a process announces. *)

\* An address that was got is a port, for a socket created (_zsock_bind).
LEMMA AddressIsOfSocket ==
    ASSUME NEW cfg, NEW got \in [Binds(cfg) -> {{q} : q \in Port} \cup {{}}],
           NEW a \in Addresses(cfg, got)
    PROVE  /\ a.port \in Port
           /\ \E i \in Created(cfg) : a.name = cfg[i].sockname /\ a.at \in DOMAIN cfg[i].listen
<1>1. PICK b \in Binds(cfg) :
        /\ got[b] # {}
        /\ a = [name |-> cfg[b[1]].sockname, url |-> cfg[b[1]].listen[b[2]],
                port |-> Only(got[b]), at |-> b[2]]
  BY DEF Addresses
<1>2. Only(got[b]) \in Port
  BY <1>1 DEF Only
<1>3. b[1] \in Created(cfg) /\ b[2] \in DOMAIN cfg[b[1]].listen
  BY DEF Binds
<1>. QED
  BY <1>1, <1>2, <1>3

\* A reader makes out an announcement and finds the socket of its name and type
\* (on_endpoint, _build_listen, _parse_listen).
LEMMA AnnouncementIsRead ==
    ASSUME env \in [Proc -> Envs], NEW p \in Proc, NEW sockets, NEW a, a.name # "wrong",
           \E s \in sockets : s.name = a.name, \A s \in sockets : s.ztype \in Ztype,
           NEW c, c = Announcement(p, sockets, a)
    PROVE  /\ c.life = p /\ c.body.type = a.name /\ c.body.url = a.port
           /\ \E s \in sockets, read \in _parse_listen(c.body) :
                 s.name = read.type /\ zsocket_resolve(read.ztype) = {s.ztype}
<1>. DEFINE s == Only({k \in sockets : k.name = a.name})
            uuid == IF env[p].uuid = "unset" THEN "random" ELSE env[p].uuid
            cell == IF env[p].cell = "unset" THEN "none" ELSE env[p].cell
<1>1. s \in sockets /\ s.name = a.name
  BY DEF Only
<1>2. zsocket_resolve(ztype2str(s.ztype)) = {s.ztype} /\ ztype2str(s.ztype) # "wrong"
  BY <1>1, AnnouncedTypeIsResolved
<1>3. uuid # "wrong" /\ cell # "wrong"
  BY ZLifeAssumption DEF Given
<1>4. c = [life |-> p, body |-> _build_listen(a.name, s.ztype, a.port, uuid, cell)]
  BY DEF Announcement
<1>. HIDE DEF s, uuid, cell
<1>5. /\ c.life = p /\ c.body.type = a.name /\ c.body.url = a.port
      /\ c.body.ztype = ztype2str(s.ztype) /\ c.body.uuid = uuid /\ c.body.cell = cell
  BY <1>4 DEF _build_listen
<1>6. c.body \in _parse_listen(c.body)
  BY <1>2, <1>3, <1>5 DEF _parse_listen, JGET
<1>. QED
  BY <1>1, <1>2, <1>5, <1>6

-----------------------------------------------------------------------------
(* The inductive invariant. *)

\* The domains of the functions and the values that the steps look at.
Shape ==
    /\ declared \in 0..Len(Docs)
    /\ stage \in [Proc -> Stage]
    /\ env \in [Proc -> Envs]
    /\ answer \in [Proc -> 0..Len(Docs)]
    /\ session \in [Proc -> {"none", "open", "over"}]
    /\ DOMAIN socks = Proc /\ DOMAIN bound = Proc /\ DOMAIN bind_set = Proc
    /\ DOMAIN creates = Proc /\ DOMAIN failed = Proc /\ DOMAIN faults = Proc
    /\ \A p \in Proc : \A s \in socks[p] : s.ztype \in Ztype

\* Only a process that runs has addresses, and it remembers no other.
HasAddresses ==
    \A p \in Proc :
        /\ bound[p] # {} => stage[p] = "running"
        /\ bind_set[p] \subseteq bound[p]

Unannounced == {"unborn", "init", "asking", "answered", "deaf"}

\* An announcement is that of one process, at a port, and no process has any
\* before it runs.
Owned ==
    /\ \A p \in Proc : \A c \in creates[p] : c.life = p /\ c.body.url \in Port
    /\ \A c \in nodes : c.life \in Proc /\ c.body.url \in Port
    /\ \A p \in Proc : stage[p] \in Unannounced =>
          creates[p] = {} /\ \A c \in nodes : c.life # p

\* What a process that runs announces is an address of one of its sockets.
Sound(p, c) ==
    /\ \E b \in bound[p] : b.name = c.body.type /\ b.port = c.body.url
    /\ \E s \in socks[p], read \in _parse_listen(c.body) :
          s.name = read.type /\ zsocket_resolve(read.ztype) = {s.ztype}

\* That holds of what has been asked for as of what has been served.
AllSound ==
    \A p \in Proc : stage[p] = "running" =>
        /\ \A c \in creates[p] : Sound(p, c)
        /\ \A c \in nodes : c.life = p => Sound(p, c)

\* Nothing is answered before it is asked for.
Unasked == \A p \in Proc : stage[p] \in {"unborn", "init", "asking"} => answer[p] = 0

\* Strengthens the invariants of ZLife.
LifeInv ==
    Shape /\ HasAddresses /\ Owned /\ AllSound /\ NothingForgotten /\ Unasked /\ ConfiguredAsDeclared

\* The invariant holds at the start: nothing is there.
LEMMA LifeInit == Init => LifeInv
<1>. SUFFICES ASSUME Init PROVE LifeInv
  OBVIOUS
<1>1. Len(Docs) \in Nat
  BY ZLifeAssumption
<1>2. Shape
  BY <1>1 DEF Init, Shape, Stage
<1>. QED
  BY <1>2 DEF Init, LifeInv, HasAddresses, Owned, AllSound, NothingForgotten, Unasked,
              ConfiguredAsDeclared

-----------------------------------------------------------------------------
(* The steps. *)

\* The bootstrap touches nothing that a process has.
LEMMA BootstrapStep ==
    ASSUME LifeInv, Bootstrap
    PROVE  LifeInv'
<1>. USE DEF LifeInv
<1>1. /\ UNCHANGED <<stage, env, answer, session, sockVars, zkVars, faults>>
      /\ declared' \in 0..Len(Docs)
  BY ZLifeAssumption DEF Bootstrap, DeclareType, DeclareSockets, Shape
<1>2. Shape'
  BY <1>1 DEF Shape, sockVars, zkVars
<1>3. HasAddresses' /\ Unasked'
  BY <1>1 DEF HasAddresses, Unasked, sockVars
<1>4. ConfiguredAsDeclared'
  BY <1>1 DEF ConfiguredAsDeclared, sockVars
<1>5. Owned'
  BY <1>1 DEF Owned, zkVars
<1>6. AllSound'
  BY <1>1 DEF AllSound, Sound, sockVars, zkVars
<1>7. NothingForgotten'
  BY <1>1 DEF NothingForgotten, sockVars, zkVars
<1>. QED
  BY <1>2, <1>3, <1>4, <1>5, <1>6, <1>7

\* The beginning of a process, up to the answer, and the ends it may come to.
LEMMA BeginningStep ==
    ASSUME LifeInv, NEW p \in Proc,
           \/ Start(p) \/ zenv_init_Aborts(p) \/ AnswerConfig(p)
           \/ ConfigFails(p) \/ ConfigIsFatal(p)
    PROVE  LifeInv'
<1>. USE DEF LifeInv
<1>. PICK to \in Unannounced \cup {"aborted"} : Go(p, to)
  BY DEF Start, zenv_init_Aborts, AnswerConfig, ConfigFails, ConfigIsFatal, Unannounced
<1>1. /\ stage[p] \in Unannounced
      /\ UNCHANGED <<declared, env, session, sockVars, zkVars>>
  BY DEF Start, zenv_init_Aborts, AnswerConfig, ConfigFails, ConfigIsFatal, Unannounced, bootVars
<1>2. /\ stage' \in [Proc -> Stage]
      /\ stage'[p] = to
      /\ \A q \in Proc \ {p} : stage'[q] = stage[q]
  BY DEF Go, Shape, Unannounced, Stage, Alive, Ended
<1>3. /\ answer' \in [Proc -> 0..Len(Docs)]
      /\ \A q \in Proc \ {p} : answer'[q] = answer[q]
      /\ DOMAIN faults' = Proc
  BY DEF Start, zenv_init_Aborts, AnswerConfig, ConfigFails, ConfigIsFatal, Shape
<1>4. Shape'
  BY <1>1, <1>2, <1>3 DEF Shape, sockVars, zkVars
<1>5. HasAddresses' /\ Owned' /\ AllSound'
  <2>1. HasAddresses'
    BY <1>1, <1>2 DEF HasAddresses, Unannounced, sockVars
  <2>2. Owned'
    BY <1>1, <1>2 DEF Owned, zkVars
  <2>3. AllSound'
    BY <1>1, <1>2 DEF AllSound, Sound, Unannounced, sockVars, zkVars
  <2>. QED
    BY <2>1, <2>2, <2>3
<1>6. NothingForgotten'
  BY <1>1 DEF NothingForgotten, sockVars, zkVars
<1>7. Unasked'
  <2>1. stage'[p] \in {"unborn", "init", "asking"} => answer'[p] = 0
    BY <1>2 DEF Start, zenv_init_Aborts, AnswerConfig, ConfigFails, ConfigIsFatal, Go, Unasked, Shape
  <2>. QED
    BY <1>2, <1>3, <2>1 DEF Unasked
<1>8. ConfiguredAsDeclared'
  <2>1. stage'[p] # "running"
    BY <1>2 DEF Unannounced
  <2>2. stage'[p] = "aborted" /\ answer'[p] > 0 => ~WellDeclared(Docs[answer'[p]])
    <3>1. CASE zenv_init_Aborts(p)
      BY <3>1 DEF zenv_init_Aborts, Unasked
    <3>2. CASE ConfigIsFatal(p)
      <4>1. answer'[p] = answer[p] /\ answer[p] > 0 /\ answer[p] \in 0..Len(Docs)
        BY <3>2 DEF ConfigIsFatal, Shape
      <4>2. answer[p] \in DOMAIN Docs
        BY <4>1, ZLifeAssumption
      <4>. QED
        BY <3>2, <4>1, <4>2, WellDeclaredIsConfigured DEF ConfigIsFatal
    <3>3. CASE Start(p) \/ AnswerConfig(p) \/ ConfigFails(p)
      BY <1>2, <3>3 DEF Start, AnswerConfig, ConfigFails, Go, Shape
    <3>. QED
      BY <3>1, <3>2, <3>3
  <2>3. \A q \in Proc \ {p} : /\ stage'[q] = stage[q] /\ answer'[q] = answer[q]
                              /\ socks'[q] = socks[q]
    BY <1>1, <1>2, <1>3 DEF sockVars
  <2>. QED
    BY <2>1, <2>2, <2>3 DEF ConfiguredAsDeclared
<1>. QED
  BY <1>4, <1>5, <1>6, <1>7, <1>8

\* The service is created with its "_tick" socket, and asks for its configuration.
LEMMA AskStep ==
    ASSUME LifeInv, NEW p \in Proc, zsrv_env_init(p)
    PROVE  LifeInv'
<1>. USE DEF LifeInv, zsrv_env_init
<1>1. /\ stage[p] = "init" /\ stage'[p] = "asking" /\ stage' \in [Proc -> Stage]
      /\ \A q \in Proc \ {p} : stage'[q] = stage[q]
  BY DEF Go, Shape, Stage, Alive
<1>2. /\ session' \in [Proc -> {"none", "open", "over"}]
      /\ DOMAIN socks' = Proc
      /\ \A q \in Proc \ {p} : session'[q] = session[q] /\ socks'[q] = socks[q]
      /\ socks'[p] = {[name |-> "_tick", ztype |-> "SUB", connect |-> {}]}
  BY DEF Shape
<1>3. \A q \in Proc : \A s \in socks'[q] : s.ztype \in Ztype
  BY <1>2 DEF Shape, Ztype
<1>4. Shape'
  BY <1>1, <1>2, <1>3 DEF Shape, bootVars, zkVars
<1>5. HasAddresses' /\ Owned' /\ AllSound'
  <2>1. HasAddresses'
    BY <1>1, <1>2 DEF HasAddresses
  <2>2. Owned'
    BY <1>1, <1>2 DEF Owned, Unannounced, zkVars
  <2>3. AllSound'
    <3>. SUFFICES ASSUME NEW q \in Proc, stage'[q] = "running"
         PROVE  /\ \A c \in creates'[q] : Sound(q, c)'
                /\ \A c \in nodes' : c.life = q => Sound(q, c)'
      BY DEF AllSound
    <3>1. q # p /\ stage[q] = "running"
      BY <1>1
    <3>2. bound'[q] = bound[q] /\ socks'[q] = socks[q]
      BY <1>2, <3>1
    <3>3. \A c : Sound(q, c)' <=> Sound(q, c)
      BY <3>2 DEF Sound
    <3>. QED
      BY <3>1, <3>3 DEF AllSound, zkVars
  <2>. QED
    BY <2>1, <2>2, <2>3
<1>6. NothingForgotten'
  BY <1>1, <1>2 DEF NothingForgotten, HasAddresses, zkVars
<1>7. Unasked' /\ ConfiguredAsDeclared'
  BY <1>1, <1>2 DEF Unasked, ConfiguredAsDeclared
<1>. QED
  BY <1>4, <1>5, <1>6, <1>7

\* The sockets are made, bound and announced: all of an announcement is true, and
\* an address that is not announced is that of a URL bound again.
LEMMA ConfigureStep ==
    ASSUME LifeInv, NEW p \in Proc, Configure(p)
    PROVE  LifeInv'
<1>. USE DEF LifeInv
<1>. DEFINE i == answer[p]
            cfg == Parse[i]
            made == zservice_configure(cfg)
            sockets == socks[p] \cup made
            complete == _on_zservice_configured(sockets)
<1>1. PICK got \in [Binds(cfg) -> {{q} : q \in Port} \cup {{}}] :
        /\ creates' = [creates EXCEPT ![p] =
                          Announcements(p, sockets, Remembered(Addresses(cfg, got)))]
        /\ bound' = [bound EXCEPT ![p] = IF complete THEN Addresses(cfg, got) ELSE {}]
        /\ bind_set' = [bind_set EXCEPT ![p] =
                          IF complete THEN Remembered(Addresses(cfg, got)) ELSE {}]
  BY DEF Configure
<1>2. /\ stage[p] = "answered" /\ answer[p] > 0 /\ ~CreateIsFatal(cfg)
      /\ stage' = [stage EXCEPT ![p] = IF complete THEN "running" ELSE "aborted"]
      /\ socks' = [socks EXCEPT ![p] = IF complete THEN sockets ELSE {}]
      /\ UNCHANGED <<declared, listens, env, answer, session, failed, nodes, faults>>
  BY DEF Configure, Go, bootVars
<1>. DEFINE addresses == Addresses(cfg, got)
            entries == Remembered(addresses)
            asked == Announcements(p, sockets, entries)
<1>3. i \in DOMAIN Docs
  BY <1>2, ZLifeAssumption DEF Shape
<1>4. /\ \A s \in made : s.ztype \in Ztype
      /\ \A k \in Created(cfg) : \E s \in made : s.name = cfg[k].sockname
  BY <1>2, ConfiguredSockets
<1>5. \A s \in sockets : s.ztype \in Ztype
  BY <1>4 DEF Shape
<1>6. \A a \in addresses :
        /\ a.port \in Port /\ a.at \in Nat /\ a.name # "wrong"
        /\ \E s \in sockets : s.name = a.name
  <2>. SUFFICES ASSUME NEW a \in addresses
       PROVE  /\ a.port \in Port /\ a.at \in Nat /\ a.name # "wrong"
              /\ \E s \in sockets : s.name = a.name
    OBVIOUS
  <2>1. a.port \in Port
    BY AddressIsOfSocket
  <2>2. PICK k \in Created(cfg) : a.name = cfg[k].sockname /\ a.at \in DOMAIN cfg[k].listen
    BY AddressIsOfSocket
  <2>3. k \in DOMAIN Parse[i]
    BY DEF Created
  <2>4. cfg[k].sockname # "wrong" /\ DOMAIN cfg[k].listen \subseteq Nat
    BY <1>3, <2>3, ParsedMembers
  <2>. QED
    BY <1>4, <2>1, <2>2, <2>4
<1>7. entries \subseteq addresses
  BY DEF Remembered
<1>. HIDE DEF made, complete, addresses, entries
<1>. HIDE DEF sockets
<1>8. \A a \in entries : \A c :
        c = Announcement(p, sockets, a) =>
            /\ c.life = p /\ c.body.type = a.name /\ c.body.url = a.port
            /\ \E s \in sockets, read \in _parse_listen(c.body) :
                  s.name = read.type /\ zsocket_resolve(read.ztype) = {s.ztype}
  <2>. SUFFICES ASSUME NEW a \in entries, NEW c, c = Announcement(p, sockets, a)
       PROVE  /\ c.life = p /\ c.body.type = a.name /\ c.body.url = a.port
              /\ \E s \in sockets, read \in _parse_listen(c.body) :
                    s.name = read.type /\ zsocket_resolve(read.ztype) = {s.ztype}
    OBVIOUS
  <2>1. a.name # "wrong" /\ \E s \in sockets : s.name = a.name
    BY <1>6, <1>7
  <2>2. env \in [Proc -> Envs]
    BY DEF Shape
  <2>. QED
    BY <1>5, <2>1, <2>2, AnnouncementIsRead
<1>9. asked = {Announcement(p, sockets, a) : a \in entries}
  BY DEF Announcements
<1>10. \A c \in asked : c.life = p /\ c.body.url \in Port
  BY <1>6, <1>7, <1>8, <1>9
<1>. HIDE DEF asked, cfg, i
<1>11. /\ creates'[p] = asked /\ DOMAIN creates' = Proc
       /\ bound'[p] = (IF complete THEN addresses ELSE {}) /\ DOMAIN bound' = Proc
       /\ bind_set'[p] = (IF complete THEN entries ELSE {}) /\ DOMAIN bind_set' = Proc
       /\ socks'[p] = (IF complete THEN sockets ELSE {}) /\ DOMAIN socks' = Proc
       /\ stage'[p] = (IF complete THEN "running" ELSE "aborted") /\ stage' \in [Proc -> Stage]
  <2>1. creates'[p] = asked /\ DOMAIN creates' = Proc
    BY <1>1 DEF asked, addresses, entries, Shape
  <2>2. bound'[p] = (IF complete THEN addresses ELSE {}) /\ DOMAIN bound' = Proc
    BY <1>1 DEF addresses, Shape
  <2>3. bind_set'[p] = (IF complete THEN entries ELSE {}) /\ DOMAIN bind_set' = Proc
    BY <1>1 DEF addresses, entries, Shape
  <2>4. /\ socks'[p] = (IF complete THEN sockets ELSE {}) /\ DOMAIN socks' = Proc
        /\ stage'[p] = (IF complete THEN "running" ELSE "aborted") /\ stage' \in [Proc -> Stage]
    BY <1>2 DEF Shape, Stage, Alive, Ended
  <2>. QED
    BY <2>1, <2>2, <2>3, <2>4
<1>12. \A q \in Proc \ {p} :
         /\ creates'[q] = creates[q] /\ bound'[q] = bound[q] /\ bind_set'[q] = bind_set[q]
         /\ socks'[q] = socks[q] /\ stage'[q] = stage[q]
  BY <1>1, <1>2 DEF Shape
<1>13. Shape'
  BY <1>2, <1>5, <1>11, <1>12 DEF Shape
<1>14. HasAddresses'
  BY <1>7, <1>11, <1>12 DEF HasAddresses
<1>15. Owned'
  BY <1>2, <1>10, <1>11, <1>12 DEF Owned, Unannounced
<1>16. AllSound'
  <2>1. \A q \in Proc \ {p} : \A c : Sound(q, c)' <=> Sound(q, c)
    BY <1>12 DEF Sound
  <2>2. ASSUME NEW c \in asked, stage'[p] = "running"
        PROVE  Sound(p, c)'
    <3>1. complete /\ bound'[p] = addresses /\ socks'[p] = sockets
      BY <1>11, <2>2
    <3>2. PICK a \in entries : c = Announcement(p, sockets, a)
      BY <1>9
    <3>3. a \in bound'[p] /\ a.name = c.body.type /\ a.port = c.body.url
      BY <1>7, <1>8, <3>1, <3>2
    <3>4. \E s \in sockets, read \in _parse_listen(c.body) :
             s.name = read.type /\ zsocket_resolve(read.ztype) = {s.ztype}
      BY <1>8, <3>2
    <3>. QED
      BY <3>1, <3>3, <3>4 DEF Sound
  <2>3. \A c \in nodes' : c.life # p
    BY <1>2 DEF Owned, Unannounced
  <2>. QED
    BY <1>2, <1>11, <1>12, <2>1, <2>2, <2>3 DEF AllSound
<1>17. NothingForgotten'
  <2>. SUFFICES ASSUME NEW b \in addresses, complete
       PROVE  \/ \E c \in asked : c.life = p /\ c.body.url = b.port
              \/ \E d \in addresses : d.name = b.name /\ d.url = b.url /\ d.at > b.at
    BY <1>2, <1>11, <1>12 DEF NothingForgotten
  <2>1. CASE b \in entries
    BY <1>8, <1>9, <2>1
  <2>2. CASE b \notin entries
    <3>1. PICK d \in addresses : <<d.name, d.url>> = <<b.name, b.url>> /\ ~(d.at <= b.at)
      BY <2>2 DEF entries, Remembered
    <3>. QED
      BY <1>6, <3>1
  <2>. QED
    BY <2>1, <2>2
<1>18. Unasked'
  BY <1>2, <1>11, <1>12 DEF Unasked
<1>19. ConfiguredAsDeclared'
  <2>1. ASSUME WellDeclared(Docs[i])
        PROVE  /\ complete
               /\ \A s \in Range(Docs[i].sockets.of) : \E k \in sockets :
                    k.name = s.name /\ s.type \in Spelling[k.ztype] /\ k.connect = Range(s.connect.of)
    <3>1. \A s \in Range(Docs[i].sockets.of) : \E k \in sockets :
             k.name = s.name /\ s.type \in Spelling[k.ztype] /\ k.connect = Range(s.connect.of)
      BY <1>3, <2>1, WellDeclaredIsConfigured DEF sockets, made, cfg
    <3>2. {"in", "out"} \subseteq {k.name : k \in sockets}
      BY <2>1, <3>1 DEF WellDeclared, Names
    <3>. QED
      BY <3>1, <3>2 DEF complete, _on_zservice_configured
  <2>. QED
    BY <1>2, <1>11, <1>12, <2>1 DEF ConfiguredAsDeclared, i
<1>. QED
  BY <1>13, <1>14, <1>15, <1>16, <1>17, <1>18, <1>19

\* What was asked for is served, lost with the connection, or ended with the
\* session: each announcement asked for becomes a node, or a failure.
LEMMA ServerStep ==
    ASSUME LifeInv, NEW p \in Proc, ServeCreate(p) \/ LoseCreates(p) \/ SessionEnds(p)
    PROVE  LifeInv'
<1>. USE DEF LifeInv
<1>1. /\ session[p] = "open"
      /\ UNCHANGED <<declared, stage, env, answer, socks, bound, bind_set>>
      /\ session' \in [Proc -> {"none", "open", "over"}]
      /\ \A q \in Proc \ {p} : session'[q] = session[q]
      /\ DOMAIN faults' = Proc
  BY DEF ServeCreate, LoseCreates, SessionEnds, bootVars, sockVars, Shape
<1>2. PICK C \in SUBSET creates[p] :
        failed' = [failed EXCEPT ![p] = IF stage[p] \in Alive THEN @ \cup C ELSE {}] \/ failed' = failed
  BY DEF ServeCreate, LoseCreates, SessionEnds, Told
<1>3. /\ DOMAIN creates' = Proc /\ DOMAIN failed' = Proc
      /\ creates'[p] \subseteq creates[p]
      /\ \A q \in Proc \ {p} : creates'[q] = creates[q] /\ failed'[q] = failed[q]
  BY <1>2 DEF ServeCreate, LoseCreates, SessionEnds, Shape
<1>4. /\ nodes' \subseteq nodes \cup creates[p]
      /\ \A c \in nodes : c.life # p => c \in nodes'
  BY DEF ServeCreate, LoseCreates, SessionEnds, Left
<1>5. Shape'
  BY <1>1, <1>3 DEF Shape
<1>6. HasAddresses' /\ Unasked'
  BY <1>1 DEF HasAddresses, Unasked
<1>7. ConfiguredAsDeclared'
  BY <1>1 DEF ConfiguredAsDeclared
<1>8. Owned'
  BY <1>1, <1>3, <1>4 DEF Owned
<1>9. AllSound'
  <2>1. \A q, c : Sound(q, c)' <=> Sound(q, c)
    BY <1>1 DEF Sound
  <2>. QED
    BY <1>1, <1>3, <1>4, <2>1 DEF AllSound, Owned
<1>10. NothingForgotten'
  <2>. SUFFICES ASSUME NEW q \in Proc, session'[q] = "open", NEW b \in bound[q],
                       \A d \in bound[q] : ~(d.name = b.name /\ d.url = b.url /\ d.at > b.at)
       PROVE  \E c \in creates'[q] \cup failed'[q] \cup nodes' : c.life = q /\ c.body.url = b.port
    BY <1>1 DEF NothingForgotten
  <2>1. session[q] = "open" /\ stage[q] = "running"
    BY <1>1 DEF HasAddresses
  <2>2. PICK c \in creates[q] \cup failed[q] \cup nodes : c.life = q /\ c.body.url = b.port
    BY <2>1 DEF NothingForgotten
  <2>3. CASE q # p
    BY <1>3, <1>4, <2>2, <2>3
  <2>4. CASE q = p
    <3>1. ~SessionEnds(p)
      BY <2>4 DEF SessionEnds, Shape
    <3>2. CASE ServeCreate(p)
      <4>1. PICK one \in creates[p] :
              /\ creates' = [creates EXCEPT ![p] = @ \ {one}]
              /\ (nodes' = nodes \cup {one} /\ UNCHANGED failed) \/ (Told(p, {one}) /\ UNCHANGED nodes)
        BY <3>2 DEF ServeCreate
      <4>2. creates'[p] = creates[p] \ {one}
        BY <4>1 DEF Shape
      <4>3. Told(p, {one}) => failed'[p] = failed[p] \cup {one}
        BY <2>1, <2>4 DEF Told, Shape, Alive
      <4>. QED
        BY <2>2, <2>4, <4>1, <4>2, <4>3
    <3>3. CASE LoseCreates(p)
      <4>1. failed'[p] = failed[p] \cup creates[p]
        BY <2>1, <2>4, <3>3 DEF LoseCreates, Told, Shape, Alive
      <4>2. nodes \subseteq nodes'
        BY <3>3 DEF LoseCreates
      <4>. QED
        BY <2>2, <2>4, <4>1, <4>2
    <3>. QED
      BY <3>1, <3>2, <3>3
  <2>. QED
    BY <2>3, <2>4
<1>. QED
  BY <1>5, <1>6, <1>7, <1>8, <1>9, <1>10

\* A process that ends has no address any more; what it had announced goes or stays.
LEMMA EndStep ==
    ASSUME LifeInv, NEW p \in Proc, Stop(p) \/ zenv_close(p) \/ Kill(p)
    PROVE  LifeInv'
<1>. USE DEF LifeInv
<1>1. PICK to \in {"closing", "closed", "killed"} : Go(p, to)
  BY DEF Stop, zenv_close, Kill
<1>2. /\ stage'[p] = to /\ stage' \in [Proc -> Stage]
      /\ \A q \in Proc \ {p} : stage'[q] = stage[q]
  BY <1>1 DEF Go, Shape, Stage, Ended
<1>3. /\ UNCHANGED <<declared, env>>
      /\ session' \in [Proc -> {"none", "open", "over"}]
      /\ answer' \in [Proc -> 0..Len(Docs)]
      /\ \A q \in Proc \ {p} :
            /\ session'[q] = session[q] /\ answer'[q] = answer[q] /\ socks'[q] = socks[q]
            /\ bound'[q] = bound[q] /\ bind_set'[q] = bind_set[q]
            /\ creates'[q] = creates[q] /\ failed'[q] = failed[q]
  BY ZLifeAssumption DEF Stop, zenv_close, Kill, Leaves, Shape, bootVars, sockVars
<1>4. /\ DOMAIN socks' = Proc /\ DOMAIN bound' = Proc /\ DOMAIN bind_set' = Proc
      /\ DOMAIN creates' = Proc /\ DOMAIN failed' = Proc /\ DOMAIN faults' = Proc
      /\ socks'[p] \subseteq socks[p] /\ creates'[p] \subseteq creates[p]
  BY DEF Stop, zenv_close, Kill, Leaves, Shape, sockVars
<1>5. /\ nodes' \subseteq nodes
      /\ \A c \in nodes : c.life # p => c \in nodes'
  BY DEF Stop, zenv_close, Kill, Left
<1>6. bound'[p] = {} /\ bind_set'[p] = {}
  <2>1. CASE zenv_close(p)
    BY <2>1 DEF zenv_close, HasAddresses, sockVars
  <2>2. CASE Stop(p) \/ Kill(p)
    BY <2>2 DEF Stop, Kill, Leaves, Shape
  <2>. QED
    BY <2>1, <2>2
<1>7. Shape'
  BY <1>2, <1>3, <1>4 DEF Shape
<1>8. HasAddresses'
  BY <1>2, <1>3, <1>6 DEF HasAddresses
<1>9. Owned'
  BY <1>2, <1>3, <1>4, <1>5 DEF Owned, Unannounced
<1>10. AllSound'
  <2>1. \A q \in Proc \ {p} : \A c : Sound(q, c)' <=> Sound(q, c)
    BY <1>3 DEF Sound
  <2>. QED
    BY <1>2, <1>3, <1>5, <2>1 DEF AllSound
<1>11. NothingForgotten'
  <2>. SUFFICES ASSUME NEW q \in Proc \ {p}, session[q] = "open", NEW b \in bound[q],
                       \A d \in bound[q] : ~(d.name = b.name /\ d.url = b.url /\ d.at > b.at)
       PROVE  \E c \in creates[q] \cup failed[q] \cup nodes' : c.life = q /\ c.body.url = b.port
    BY <1>3, <1>6 DEF NothingForgotten
  <2>. QED
    BY <1>5 DEF NothingForgotten
<1>12. Unasked' /\ ConfiguredAsDeclared'
  BY <1>2, <1>3 DEF Unasked, ConfiguredAsDeclared
<1>. QED
  BY <1>7, <1>8, <1>9, <1>10, <1>11, <1>12

\* The invariant is kept by every step.
LEMMA LifeNext == LifeInv /\ [Next]_vars => LifeInv'
<1>. SUFFICES ASSUME LifeInv, [Next]_vars
     PROVE  LifeInv'
  OBVIOUS
<1>1. CASE Bootstrap
  BY <1>1, BootstrapStep
<1>2. ASSUME NEW p \in Proc, Start(p) \/ zenv_init_Aborts(p) \/ AnswerConfig(p)
                                \/ ConfigFails(p) \/ ConfigIsFatal(p)
      PROVE  LifeInv'
  BY <1>2, BeginningStep
<1>3. ASSUME NEW p \in Proc, zsrv_env_init(p)
      PROVE  LifeInv'
  BY <1>3, AskStep
<1>4. ASSUME NEW p \in Proc, Configure(p)
      PROVE  LifeInv'
  BY <1>4, ConfigureStep
<1>5. ASSUME NEW p \in Proc, ServeCreate(p) \/ LoseCreates(p) \/ SessionEnds(p)
      PROVE  LifeInv'
  BY <1>5, ServerStep
<1>6. ASSUME NEW p \in Proc, Stop(p) \/ zenv_close(p) \/ Kill(p)
      PROVE  LifeInv'
  BY <1>6, EndStep
<1>7. CASE UNCHANGED vars
  <2>1. /\ UNCHANGED <<declared, stage, env, answer, session, socks, bound, bind_set>>
        /\ UNCHANGED <<creates, failed, nodes, faults>>
    BY <1>7 DEF vars, bootVars, sockVars, zkVars
  <2>2. Shape' /\ HasAddresses' /\ Owned' /\ Unasked'
    BY <2>1 DEF LifeInv, Shape, HasAddresses, Owned, Unasked
  <2>3. AllSound' /\ NothingForgotten'
    BY <2>1 DEF LifeInv, AllSound, Sound, NothingForgotten
  <2>4. ConfiguredAsDeclared'
    BY <2>1 DEF LifeInv, ConfiguredAsDeclared
  <2>. QED
    BY <2>2, <2>3, <2>4 DEF LifeInv
<1>. QED
  BY <1>1, <1>2, <1>3, <1>4, <1>5, <1>6, <1>7 DEF Next

\* The invariant holds always.
LEMMA LifeAlways == Spec => []LifeInv
<1>. QED
  BY LifeInit, LifeNext, PTL DEF Spec

\* The processes, their sessions and announcements are as TypeOK says.
THEOREM TypeCorrect == Spec => []TypeOK
<1>1. LifeInv => TypeOK
  BY DEF LifeInv, Shape, HasAddresses, Owned, TypeOK
<1>. QED
  BY <1>1, LifeAlways, PTL

\* However processes start, end, crash and share the ports of the host, what a
\* process that runs announces is an address of its own, of a type that can be read.
THEOREM AnnouncementsAreTrue == Spec => []AnnouncedIsBound
<1>1. LifeInv => AnnouncedIsBound
  <2>. SUFFICES ASSUME LifeInv, NEW c \in nodes, stage[c.life] = "running"
       PROVE  Sound(c.life, c)
    BY DEF AnnouncedIsBound, Sound
  <2>. QED
    BY DEF LifeInv, Owned, AllSound
<1>. QED
  BY <1>1, LifeAlways, PTL

\* No address of a process that runs is forgotten, but those bound again for the
\* same URL (bind_set is keyed by the URL configured).
THEOREM AddressesAreAnnounced == Spec => []NothingForgotten
<1>1. LifeInv => NothingForgotten
  BY DEF LifeInv
<1>. QED
  BY <1>1, LifeAlways, PTL

\* A process gets the sockets its document declares, whatever other documents say.
THEOREM DeclaredIsConfigured == Spec => []ConfiguredAsDeclared
<1>1. LifeInv => ConfiguredAsDeclared
  BY DEF LifeInv
<1>. QED
  BY <1>1, LifeAlways, PTL

-----------------------------------------------------------------------------
(* Who owns an address. *)

\* An address that is got is on a port that no one has, and on one of its own:
\* the binds of a process come one after the other (Before).
LEMMA FreshAddresses ==
    ASSUME NEW i \in DOMAIN Docs, NEW cfg, cfg = Parse[i],
           NEW got \in [Binds(cfg) -> {{q} : q \in Port} \cup {{}}], _zsock_bind(cfg, got)
    PROVE  /\ \A a \in Addresses(cfg, got) : a.port \notin Taken
           /\ \A a, b \in Addresses(cfg, got) : a.port = b.port => a = b
<1>. DEFINE at(k) == [name |-> cfg[k[1]].sockname, url |-> cfg[k[1]].listen[k[2]],
                      port |-> Only(got[k]), at |-> k[2]]
<1>1. \A k \in Binds(cfg) :
        got[k] # {} => /\ at(k).port \in got[k] /\ got[k] = {at(k).port}
                       /\ at(k).port \notin Taken
  <2>. SUFFICES ASSUME NEW k \in Binds(cfg), got[k] # {}
       PROVE  Only(got[k]) \in got[k] /\ got[k] = {Only(got[k])} /\ Only(got[k]) \notin Taken
    OBVIOUS
  <2>1. PICK q : got[k] = {q}
    OBVIOUS
  <2>2. Only(got[k]) = q
    BY <2>1 DEF Only
  <2>3. got[k] \cap Taken = {}
    BY DEF _zsock_bind
  <2>. QED
    BY <2>1, <2>2, <2>3
<1>2. \A k \in Binds(cfg) :
        /\ k = <<k[1], k[2]>> /\ k[1] \in Nat /\ k[2] \in Nat
  <2>. SUFFICES ASSUME NEW k \in Binds(cfg)
       PROVE  k = <<k[1], k[2]>> /\ k[1] \in Nat /\ k[2] \in Nat
    OBVIOUS
  <2>1. PICK c \in Created(cfg) : k \in {c} \X DOMAIN cfg[c].listen
    BY DEF Binds
  <2>2. c \in DOMAIN Parse[i]
    BY DEF Created
  <2>3. DOMAIN cfg[c].listen \subseteq Nat
    BY <2>2, ParsedMembers
  <2>4. c \in Nat
    <3>1. Parse[i] = _parse_service(Docs[i])
      BY DEF Parse
    <3>2. c \in DOMAIN Docs[i].sockets.of
      BY <2>2, <3>1 DEF _parse_service
    <3>. QED
      BY <3>2, ZLifeAssumption
  <2>. QED
    BY <2>1, <2>3, <2>4
<1>3. \A k, m \in Binds(cfg) : k # m => Before(k, m) \/ Before(m, k)
  <2>. SUFFICES ASSUME NEW k \in Binds(cfg), NEW m \in Binds(cfg), k # m
       PROVE  Before(k, m) \/ Before(m, k)
    OBVIOUS
  <2>1. k[1] # m[1] \/ k[2] # m[2]
    BY <1>2
  <2>. QED
    BY <1>2, <2>1 DEF Before
<1>4. \A k, m \in Binds(cfg) : Before(k, m) => got[k] \cap got[m] = {}
  BY DEF _zsock_bind
<1>5. \A a \in Addresses(cfg, got) : \E k \in Binds(cfg) : got[k] # {} /\ a = at(k)
  BY DEF Addresses
<1>. HIDE DEF at
<1>6. \A a \in Addresses(cfg, got) : a.port \notin Taken
  BY <1>1, <1>5
<1>7. ASSUME NEW a \in Addresses(cfg, got), NEW b \in Addresses(cfg, got), a.port = b.port
      PROVE  a = b
  <2>1. PICK k \in Binds(cfg) : got[k] # {} /\ a = at(k)
    BY <1>5
  <2>2. PICK m \in Binds(cfg) : got[m] # {} /\ b = at(m)
    BY <1>5
  <2>3. a.port \in got[k] /\ a.port \in got[m]
    BY <1>1, <1>7, <2>1, <2>2
  <2>4. k = m
    BY <1>3, <1>4, <2>3
  <2>. QED
    BY <2>1, <2>2, <2>4
<1>. QED
  BY <1>6, <1>7

\* No port is had twice, by one process or by two.
PortsExclusive ==
    \A p, q \in Proc : \A b \in bound[p], d \in bound[q] : b.port = d.port => p = q /\ b = d

\* The announcement of an entry that a process remembers.
Made(p, c) == \E a \in bind_set[p] : c = Announcement(p, socks[p], a)

\* A process that runs has asked for the announcements of its entries, and no other.
AllMade ==
    \A p \in Proc : stage[p] = "running" =>
        \A c \in creates[p] \cup {k \in nodes : k.life = p} : Made(p, c)

\* Nothing is shown of a process that has no session.
Sessions == \A c \in nodes : session[c.life] = "open"

\* Nobody has a session before it is given one.
Sessionless == \A p \in Proc : stage[p] \in {"unborn", "init"} => session[p] = "none"

\* With LifeInv, what AddressesAreExclusive and PresenceIsImplemented need.
OwnerInv == PortsExclusive /\ AllMade /\ Sessions /\ Sessionless

\* Addresses come with the configuration, on ports that are free, and go together.
LEMMA NextPorts ==
    ASSUME LifeInv, PortsExclusive, [Next]_vars
    PROVE  PortsExclusive'
<1>1. ASSUME NEW p \in Proc, Configure(p)
      PROVE  PortsExclusive'
  <2>. DEFINE i == answer[p]
              cfg == Parse[i]
              complete == _on_zservice_configured(socks[p] \cup zservice_configure(cfg))
  <2>1. PICK got \in [Binds(cfg) -> {{q} : q \in Port} \cup {{}}] :
          /\ _zsock_bind(cfg, got)
          /\ bound' = [bound EXCEPT ![p] = IF complete THEN Addresses(cfg, got) ELSE {}]
    BY <1>1 DEF Configure
  <2>2. i \in DOMAIN Docs
    BY <1>1, ZLifeAssumption DEF Configure, LifeInv, Shape
  <2>. DEFINE addresses == Addresses(cfg, got)
  <2>3. /\ \A a \in addresses : a.port \notin Taken
        /\ \A a, b \in addresses : a.port = b.port => a = b
    BY <2>1, <2>2, FreshAddresses
  <2>4. \A q \in Proc : \A b \in bound[q] : b.port \in Taken
    BY DEF Taken
  <2>5. /\ bound'[p] \subseteq addresses
        /\ \A q \in Proc \ {p} : bound'[q] = bound[q]
    BY <2>1 DEF LifeInv, Shape
  <2>. HIDE DEF addresses
  <2>. QED
    BY <2>3, <2>4, <2>5 DEF PortsExclusive
<1>2. CASE \A q \in Proc : bound'[q] \subseteq bound[q]
  BY <1>2 DEF PortsExclusive
<1>3. ASSUME NEW p \in Proc, Stop(p) \/ Kill(p)
      PROVE  \A q \in Proc : bound'[q] \subseteq bound[q]
  BY <1>3 DEF Stop, Kill, Leaves, LifeInv, Shape
<1>4. ASSUME NEW p \in Proc,
             \/ Start(p) \/ zenv_init_Aborts(p) \/ zsrv_env_init(p) \/ AnswerConfig(p)
             \/ ConfigFails(p) \/ ConfigIsFatal(p)
             \/ ServeCreate(p) \/ LoseCreates(p) \/ SessionEnds(p) \/ zenv_close(p)
      PROVE  UNCHANGED bound
  BY <1>4 DEF Start, zenv_init_Aborts, zsrv_env_init, AnswerConfig, ConfigFails, ConfigIsFatal,
              ServeCreate, LoseCreates, SessionEnds, zenv_close, sockVars
<1>5. CASE Bootstrap \/ UNCHANGED vars
  <2>1. UNCHANGED bound
    BY <1>5 DEF Bootstrap, DeclareType, DeclareSockets, vars, sockVars
  <2>. QED
    BY <1>2, <2>1
<1>. QED
  BY <1>1, <1>2, <1>3, <1>4, <1>5 DEF Next

\* What is asked for is made of the entries that are remembered with it, and what
\* is shown was asked for.
LEMMA NextMade ==
    ASSUME LifeInv, AllMade, [Next]_vars
    PROVE  AllMade'
<1>. DEFINE Same(q) == /\ bind_set'[q] = bind_set[q] /\ socks'[q] = socks[q]
                       /\ creates'[q] \subseteq creates[q] /\ stage'[q] = stage[q]
<1>1. UNCHANGED env
  BY DEF Next, vars, Bootstrap, DeclareType, DeclareSockets, Start, zenv_init_Aborts, zsrv_env_init,
         AnswerConfig, ConfigFails, ConfigIsFatal, Configure, ServeCreate, LoseCreates,
         SessionEnds, Stop, zenv_close, Kill
<1>2. ASSUME NEW q \in Proc, Same(q),
             {k \in nodes' : k.life = q} \subseteq {k \in nodes : k.life = q} \cup creates[q],
             stage'[q] = "running"
      PROVE  \A c \in creates'[q] \cup {k \in nodes' : k.life = q} : Made(q, c)'
  <2>1. \A c : Made(q, c) => Made(q, c)'
    BY <1>1, <1>2 DEF Made, Announcement
  <2>. QED
    BY <1>2, <2>1 DEF AllMade
<1>3. ASSUME NEW p \in Proc, Configure(p)
      PROVE  AllMade'
  <2>. DEFINE cfg == Parse[answer[p]]
              sockets == socks[p] \cup zservice_configure(cfg)
              complete == _on_zservice_configured(sockets)
  <2>1. PICK entries :
          /\ creates' = [creates EXCEPT ![p] = Announcements(p, sockets, entries)]
          /\ bind_set' = [bind_set EXCEPT ![p] = IF complete THEN entries ELSE {}]
    BY <1>3 DEF Configure
  <2>2. /\ stage[p] = "answered"
        /\ stage' = [stage EXCEPT ![p] = IF complete THEN "running" ELSE "aborted"]
        /\ socks' = [socks EXCEPT ![p] = IF complete THEN sockets ELSE {}]
        /\ UNCHANGED nodes
    BY <1>3 DEF Configure, Go
  <2>. HIDE DEF complete, sockets
  <2>3. \A q \in Proc \ {p} : Same(q)
    BY <2>1, <2>2 DEF LifeInv, Shape
  <2>4. ASSUME stage'[p] = "running"
        PROVE  \A c \in creates'[p] \cup {k \in nodes' : k.life = p} : Made(p, c)'
    <3>1. complete
      BY <2>2, <2>4 DEF LifeInv, Shape
    <3>2. bind_set'[p] = entries /\ socks'[p] = sockets
      BY <2>1, <2>2, <3>1 DEF LifeInv, Shape
    <3>3. creates'[p] = {Announcement(p, sockets, a) : a \in entries}
      BY <2>1 DEF Announcements, LifeInv, Shape
    <3>4. \A k \in nodes' : k.life # p
      BY <2>2 DEF LifeInv, Owned, Unannounced
    <3>5. \A c \in creates'[p] : Made(p, c)'
      BY <1>1, <3>2, <3>3 DEF Made, Announcement
    <3>. QED
      BY <3>4, <3>5
  <2>. QED
    BY <1>2, <2>2, <2>3, <2>4 DEF AllMade
<1>4. ASSUME NEW p \in Proc, Stop(p) \/ Kill(p) \/ zenv_close(p)
      PROVE  AllMade'
  <2>1. PICK to \in {"closing", "closed", "killed"} : Go(p, to)
    BY <1>4 DEF Stop, zenv_close, Kill
  <2>2. stage'[p] # "running"
    BY <2>1 DEF Go, LifeInv, Shape
  <2>3. nodes' \subseteq nodes
    BY <1>4 DEF Stop, zenv_close, Kill, Left
  <2>4. \A q \in Proc \ {p} : Same(q)
    BY <1>4, <2>1 DEF Go, Stop, zenv_close, Kill, Leaves, sockVars, LifeInv, Shape
  <2>. QED
    BY <1>2, <2>2, <2>3, <2>4 DEF AllMade
<1>5. ASSUME NEW p \in Proc, ServeCreate(p) \/ LoseCreates(p) \/ SessionEnds(p)
      PROVE  AllMade'
  <2>1. \A q \in Proc : Same(q)
    BY <1>5 DEF ServeCreate, LoseCreates, SessionEnds, sockVars, LifeInv, Shape
  <2>2. nodes' \subseteq nodes \cup creates[p]
    BY <1>5 DEF ServeCreate, LoseCreates, SessionEnds, Left
  <2>3. \A c \in creates[p] : c.life = p
    BY DEF LifeInv, Owned
  <2>. QED
    BY <1>2, <2>1, <2>2, <2>3 DEF AllMade
<1>6. ASSUME NEW p \in Proc,
             \/ Start(p) \/ zenv_init_Aborts(p) \/ zsrv_env_init(p) \/ AnswerConfig(p)
             \/ ConfigFails(p) \/ ConfigIsFatal(p)
      PROVE  AllMade'
  <2>1. PICK to \in Stage \ {"running"} : Go(p, to)
    BY <1>6 DEF Start, zenv_init_Aborts, zsrv_env_init, AnswerConfig, ConfigFails, ConfigIsFatal,
                Stage, Alive, Ended
  <2>2. stage'[p] # "running"
    BY <2>1 DEF Go, LifeInv, Shape
  <2>3. UNCHANGED <<bind_set, creates, nodes>> /\ \A q \in Proc \ {p} : socks'[q] = socks[q]
    BY <1>6 DEF Start, zenv_init_Aborts, zsrv_env_init, AnswerConfig, ConfigFails, ConfigIsFatal,
                sockVars, zkVars, LifeInv, Shape
  <2>4. \A q \in Proc \ {p} : Same(q)
    BY <2>1, <2>3 DEF Go, LifeInv, Shape
  <2>. QED
    BY <1>2, <2>2, <2>3, <2>4 DEF AllMade
<1>7. CASE Bootstrap \/ UNCHANGED vars
  <2>1. UNCHANGED <<bind_set, socks, creates, stage, nodes>>
    BY <1>7 DEF Bootstrap, DeclareType, DeclareSockets, vars, sockVars, zkVars
  <2>. QED
    BY <1>2, <2>1 DEF AllMade
<1>. QED
  BY <1>3, <1>4, <1>5, <1>6, <1>7 DEF Next

\* What is shown goes with the session of its process, and nothing is shown after.
LEMMA NextSessions ==
    ASSUME LifeInv, Sessions, [Next]_vars
    PROVE  Sessions'
<1>1. ASSUME NEW p \in Proc, SessionEnds(p) \/ zenv_close(p)
      PROVE  Sessions'
  <2>1. \A q \in Proc \ {p} : session'[q] = session[q]
    BY <1>1 DEF SessionEnds, zenv_close, LifeInv, Shape
  <2>2. nodes' = Left(p) \/ (UNCHANGED <<session, nodes>>)
    BY <1>1 DEF SessionEnds, zenv_close
  <2>. QED
    BY <2>1, <2>2 DEF Sessions, Left, LifeInv, Owned
<1>2. ASSUME NEW p \in Proc, ServeCreate(p) \/ LoseCreates(p)
      PROVE  Sessions'
  <2>1. session[p] = "open" /\ UNCHANGED session /\ nodes' \subseteq nodes \cup creates[p]
    BY <1>2 DEF ServeCreate, LoseCreates
  <2>. QED
    BY <2>1 DEF Sessions, LifeInv, Owned
<1>3. ASSUME NEW p \in Proc, zsrv_env_init(p)
      PROVE  Sessions'
  <2>1. session' = [session EXCEPT ![p] = "open"] /\ UNCHANGED nodes
    BY <1>3 DEF zsrv_env_init, zkVars
  <2>. QED
    BY <2>1 DEF Sessions, LifeInv, Owned, Shape
<1>4. CASE UNCHANGED <<session, nodes>>
  BY <1>4 DEF Sessions
<1>5. ASSUME NEW p \in Proc,
             \/ Start(p) \/ zenv_init_Aborts(p) \/ AnswerConfig(p) \/ ConfigFails(p)
             \/ ConfigIsFatal(p) \/ Configure(p) \/ Stop(p) \/ Kill(p)
      PROVE  UNCHANGED <<session, nodes>>
  BY <1>5 DEF Start, zenv_init_Aborts, AnswerConfig, ConfigFails, ConfigIsFatal, Configure,
              Stop, Kill, zkVars
<1>6. CASE Bootstrap \/ UNCHANGED vars
  BY <1>4, <1>6 DEF Bootstrap, DeclareType, DeclareSockets, vars, zkVars
<1>. QED
  BY <1>1, <1>2, <1>3, <1>4, <1>5, <1>6 DEF Next

\* A process that has not asked for anything has had no session yet.
LEMMA NextSessionless ==
    ASSUME LifeInv, Sessionless, [Next]_vars
    PROVE  Sessionless'
<1>1. ASSUME NEW p \in Proc, NEW to, Go(p, to), to \notin {"unborn", "init"},
             \A q \in Proc \ {p} : session'[q] = session[q]
      PROVE  Sessionless'
  BY <1>1 DEF Go, Sessionless, LifeInv, Shape
<1>2. ASSUME NEW p \in Proc, Start(p)
      PROVE  Sessionless'
  BY <1>2 DEF Start, Go, Sessionless, LifeInv, Shape
<1>3. ASSUME NEW p \in Proc, SessionEnds(p)
      PROVE  Sessionless'
  BY <1>3 DEF SessionEnds, Sessionless, LifeInv, Shape
<1>4. ASSUME NEW p \in Proc,
             \/ zenv_init_Aborts(p) \/ zsrv_env_init(p) \/ AnswerConfig(p) \/ ConfigFails(p)
             \/ ConfigIsFatal(p) \/ Configure(p) \/ Stop(p) \/ zenv_close(p) \/ Kill(p)
      PROVE  Sessionless'
  <2>1. \A q \in Proc \ {p} : session'[q] = session[q]
    BY <1>4 DEF zenv_init_Aborts, zsrv_env_init, AnswerConfig, ConfigFails, ConfigIsFatal,
                Configure, Stop, zenv_close, Kill, LifeInv, Shape
  <2>2. PICK to \in Stage \ {"unborn", "init"} : Go(p, to)
    BY <1>4 DEF zenv_init_Aborts, zsrv_env_init, AnswerConfig, ConfigFails, ConfigIsFatal,
                Configure, Stop, zenv_close, Kill, Stage, Alive, Ended
  <2>. QED
    BY <1>1, <2>1, <2>2
<1>5. CASE UNCHANGED <<stage, session>>
  BY <1>5 DEF Sessionless
<1>6. ASSUME NEW p \in Proc, ServeCreate(p) \/ LoseCreates(p)
      PROVE  UNCHANGED <<stage, session>>
  BY <1>6 DEF ServeCreate, LoseCreates
<1>7. CASE Bootstrap \/ UNCHANGED vars
  BY <1>5, <1>7 DEF Bootstrap, DeclareType, DeclareSockets, vars
<1>. QED
  BY <1>2, <1>3, <1>4, <1>5, <1>6, <1>7 DEF Next

\* The parts of the invariant that say who owns what hold always.
LEMMA OwnersAlways == Spec => [](LifeInv /\ OwnerInv)
<1>1. Init => OwnerInv
  BY DEF Init, OwnerInv, PortsExclusive, AllMade, Sessions, Sessionless
<1>2. LifeInv /\ OwnerInv /\ [Next]_vars => OwnerInv'
  BY NextPorts, NextMade, NextSessions, NextSessionless DEF OwnerInv
<1>. QED
  BY <1>1, <1>2, LifeInit, LifeNext, PTL DEF Spec

\* However many processes share a host and its ports, an address is announced by
\* at most one that runs, for one of its sockets, and once.
THEOREM AddressesAreExclusive == Spec => []OneLivingOwner
<1>1. LifeInv /\ OwnerInv => OneLivingOwner
  <2>. SUFFICES ASSUME LifeInv, OwnerInv, NEW c \in nodes, NEW d \in nodes,
                       c.body.url = d.body.url,
                       stage[c.life] = "running", stage[d.life] = "running"
       PROVE  c = d
    BY DEF OneLivingOwner
  <2>1. c.life \in Proc /\ d.life \in Proc
    BY DEF LifeInv, Owned
  <2>2. PICK a \in bind_set[c.life] : c = Announcement(c.life, socks[c.life], a)
    BY <2>1 DEF OwnerInv, AllMade, Made
  <2>3. PICK b \in bind_set[d.life] : d = Announcement(d.life, socks[d.life], b)
    BY <2>1 DEF OwnerInv, AllMade, Made
  <2>4. c.body.url = a.port /\ d.body.url = b.port
    BY <2>2, <2>3 DEF Announcement, _build_listen
  <2>5. a \in bound[c.life] /\ b \in bound[d.life]
    BY <2>1, <2>2, <2>3 DEF LifeInv, HasAddresses
  <2>6. c.life = d.life /\ a = b
    BY <2>1, <2>4, <2>5 DEF OwnerInv, PortsExclusive
  <2>. QED
    BY <2>2, <2>3, <2>6
<1>. QED
  BY <1>1, OwnersAlways, PTL

\* What readers see of any number of processes is what Presence promises: each
\* step of a process or of the server shows more of one process, withdraws one
\* whole process, or changes nothing that can be seen.
THEOREM PresenceIsImplemented == Spec => RefinesPresence
<1>. DEFINE over == {p \in Proc : session[p] = "over"}
<1>1. Init => Shown!Init
  BY DEF Init, Shown!Init
<1>2. ASSUME LifeInv, Sessions, Sessionless, [Next]_vars
      PROVE  [Shown!Next]_(Shown!vars)
  <2>1. ASSUME NEW p \in Proc, ServeCreate(p) \/ LoseCreates(p)
        PROVE  Shown!Show(p)
    <3>1. session[p] = "open" /\ UNCHANGED session
      BY <2>1 DEF ServeCreate, LoseCreates
    <3>2. nodes \subseteq nodes' /\ nodes' \subseteq nodes \cup creates[p]
      BY <2>1 DEF ServeCreate, LoseCreates
    <3>. QED
      BY <1>2, <3>1, <3>2 DEF Shown!Show, LifeInv, Owned
  <2>2. ASSUME NEW p \in Proc, session' = [session EXCEPT ![p] = "over"], nodes' = Left(p)
        PROVE  Shown!Withdraw(p) \/ UNCHANGED <<nodes, over>>
    <3>1. over' = over \cup {p}
      BY <1>2, <2>2 DEF LifeInv, Shape
    <3>2. CASE p \in over
      BY <1>2, <2>2, <3>1, <3>2 DEF Sessions, Left
    <3>3. CASE p \notin over
      BY <2>2, <3>1, <3>3 DEF Shown!Withdraw, Left
    <3>. QED
      BY <3>2, <3>3
  <2>3. ASSUME NEW p \in Proc, zsrv_env_init(p)
        PROVE  UNCHANGED <<nodes, over>>
    <3>1. session' = [session EXCEPT ![p] = "open"] /\ UNCHANGED nodes
      BY <2>3 DEF zsrv_env_init, zkVars
    <3>2. session[p] = "none"
      BY <1>2, <2>3 DEF zsrv_env_init, Sessionless
    <3>. QED
      BY <1>2, <3>1, <3>2 DEF LifeInv, Shape
  <2>4. ASSUME NEW p \in Proc, SessionEnds(p)
        PROVE  Shown!Withdraw(p) \/ UNCHANGED <<nodes, over>>
    BY <2>2, <2>4 DEF SessionEnds
  <2>5. ASSUME NEW p \in Proc, zenv_close(p)
        PROVE  Shown!Withdraw(p) \/ UNCHANGED <<nodes, over>>
    BY <2>2, <2>5 DEF zenv_close
  <2>6. ASSUME NEW p \in Proc,
               \/ Start(p) \/ zenv_init_Aborts(p) \/ AnswerConfig(p) \/ ConfigFails(p)
               \/ ConfigIsFatal(p) \/ Configure(p) \/ Stop(p) \/ Kill(p)
        PROVE  UNCHANGED <<nodes, over>>
    BY <2>6 DEF Start, zenv_init_Aborts, AnswerConfig, ConfigFails, ConfigIsFatal, Configure,
                Stop, Kill, zkVars
  <2>7. CASE Bootstrap \/ UNCHANGED vars
    BY <2>7 DEF Bootstrap, DeclareType, DeclareSockets, vars, zkVars, Shown!vars
  <2>. HIDE DEF over
  <2>. QED
    BY <1>2, <2>1, <2>3, <2>4, <2>5, <2>6, <2>7 DEF Next, Shown!Next, Shown!vars, over
<1>. QED
  BY <1>1, <1>2, OwnersAlways, PTL DEF Spec, RefinesPresence, Shown!Spec, OwnerInv
=============================================================================
