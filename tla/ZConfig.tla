------------------------------ MODULE ZConfig ------------------------------
(***************************************************************************)
(* The JSON documents kept in ZooKeeper: what the bootstrap accepts         *)
(* (examples/zk-bootstrap.py), what the library reads (src/zconfig.c), and  *)
(* the names of the socket types (src/zutils.c, src/zsock.c).               *)
(*                                                                         *)
(* A string of a document is itself, "absent", or "wrong" when the value is *)
(* not a string. An array or an object is [is, of]: "absent", "wrong" or    *)
(* "right", and the sequence of its members.                                *)
(***************************************************************************)
EXTENDS Naturals, Sequences, Functions, FiniteSetsExt

Ztype == {"PUB", "SUB", "PUSH", "PULL"}

\* The prefix is compared as it is, the rest without regard to the case; a
\* lower case name stands for all the other spellings.
Spelling == [z \in Ztype |->
    CASE z = "PUB" -> {"zmq:PUB", "zmq:pub"}
      [] z = "SUB" -> {"zmq:SUB", "zmq:sub"}
      [] z = "PUSH" -> {"zmq:PUSH", "zmq:push"}
      [] z = "PULL" -> {"zmq:PULL", "zmq:pull"}]

\* The type a name stands for, or nothing: an error.
zsocket_resolve(zname) == {z \in Ztype : zname \in Spelling[z]}

Only(S) == CHOOSE x \in S : TRUE

\* Mutant of ztype2str: a PUSH socket is announced as a PUB one.
ztype2str_PushAsPub(z) ==
    CASE z \in {"PUB", "PUSH"} -> "zmq:PUB"
      [] z = "SUB" -> "zmq:SUB"
      [] z = "PULL" -> "zmq:PULL"

ztype2str(z) ==
    CASE z = "PUB" -> "zmq:PUB"
      [] z = "SUB" -> "zmq:SUB"
      [] z = "PUSH" -> "zmq:PUSH"
      [] z = "PULL" -> "zmq:PULL"

-----------------------------------------------------------------------------
(* The declaration of a service type. *)

\* The bootstrap looks for members, never at their kinds.
validate_config(doc) ==
    /\ doc.name # "absent"
    /\ doc.sockets.is # "absent"
    /\ \A s \in Range(doc.sockets.of) :
          /\ s.name # "absent"
          /\ s.type # "absent"
          /\ s.bind.is # "absent" \/ s.connect.is # "absent"

\* JGET: a member of the wrong kind is refused, a missing one is not.
JGET(j) == j # "wrong"

\* An element that is not a string ends the vector.
_get_bindv(bind) ==
    [i \in {k \in DOMAIN bind.of : \A j \in 1..k : bind.of[j] # "wrong"} |-> bind.of[i]]

\* A policy that is not a string is fatal to the process.
_get_connectv_IsFatal(connect) == \E c \in Range(connect.of) : c[2] = "wrong"

\* Mutant of Parsed: a socket that only connects is refused.
Parsed_NeedsBind(s) == JGET(s.name) /\ JGET(s.type) /\ s.bind.is = "right"

\* Does _parse_socket accept this member of the sockets?
Parsed(s) ==
    /\ JGET(s.name) /\ JGET(s.type)
    /\ {s.connect.is, s.bind.is} # {"absent"}
    /\ "wrong" \notin {s.connect.is, s.bind.is}

_parse_socket(s) == [sockname |-> s.name, ztype |-> s.type,
                     connect |-> s.connect.of, listen |-> _get_bindv(s.bind)]

\* The sockets of a document, each at its place, those that are not valid left
\* out; none when the document as a whole is refused.
_parse_service(doc) ==
    LET kept == IF JGET(doc.sockets.is) /\ JGET(doc.name)
                THEN {i \in DOMAIN doc.sockets.of : Parsed(doc.sockets.of[i])} ELSE {}
    IN  [i \in kept |-> _parse_socket(doc.sockets.of[i])]

\* Reading the document ends the process.
ParseIsFatal(doc) ==
    /\ JGET(doc.sockets.is) /\ JGET(doc.name)
    /\ \E s \in Range(doc.sockets.of) : Parsed(s) /\ _get_connectv_IsFatal(s.connect)

-----------------------------------------------------------------------------
(* The announcement of an endpoint. *)

_build_listen(fullname, ztype, url, uuid, cell) ==
    [type |-> fullname, ztype |-> ztype2str(ztype), url |-> url, uuid |-> uuid, cell |-> cell]

\* What a reader makes of it, or nothing. The url is always a string.
_parse_listen(body) ==
    IF JGET(body.type) /\ JGET(body.ztype) /\ JGET(body.uuid) /\ JGET(body.cell) THEN {body} ELSE {}
=============================================================================
