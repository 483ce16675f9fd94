------------------------------ MODULE MCZLife ------------------------------
(* A small instance of ZLife for TLC: good documents, and bad ones. *)
EXTENDS ZLife, TLC

Absent == [is |-> "absent", of |-> <<>>]
Right(seq) == [is |-> "right", of |-> seq]
Document(sockets) == [name |-> "type", sockets |-> Right(sockets)]
Socket(name, type, bind) ==
    [name |-> name, type |-> type, bind |-> Right(bind), connect |-> Absent]

Input == Socket("in", "zmq:PULL", <<"any", "any">>)
Log == Socket("log", "zmq:PUSH", <<"fixed">>)
Output == [name |-> "out", type |-> "zmq:push", bind |-> Absent,
           connect |-> Right(<<<<"other.in", "all">>>>)]

\* First the type of "out" does not exist. Then "in" has an URL that is not valid
\* and the port of "log", and is declared again, "out" listens on a number. Then
\* "in" listens twice anywhere, "log" on a port of its own that "in" may have
\* taken, "out" connects.
Good == Document(<<Input, Output, Log>>)
NoOutput == Document(<<Socket("in", "zmq:PULL", <<"bad", "fixed">>), Socket("in", "zmq:SUB", <<"any">>),
                       [Output EXCEPT !.bind = [is |-> "wrong", of |-> <<>>]]>>)
NoSuchType == Document(<<Input, Socket("out", "zmq:REQ", <<"any">>)>>)

MCDocs == <<NoSuchType, NoOutput, Good>>
MCReach == "any" :> {1, 2, 3} @@ "fixed" :> {3} @@ "bad" :> {}
MCEnvs == {[zkurl |-> TRUE, cell |-> "unset", uuid |-> "empty"],
           [zkurl |-> TRUE, cell |-> "empty", uuid |-> "forbidden"]}
AllowedEnvs == {[zkurl |-> TRUE, cell |-> "allowed", uuid |-> "unset"]}
=============================================================================
