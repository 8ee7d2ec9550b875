----------------------------- MODULE AppServer ------------------------------
(***************************************************************************)
(* The persistent app-server: factory/agent/app_server_control.sh starts   *)
(* `codex app-server` on two FIFOs, and every codex_app_client.py process  *)
(* sends it two requests, initialize and command/exec, holding a lock file *)
(* during each.  Between them it asks session_manager.py for the session   *)
(* of its app.                                                             *)
(*                                                                         *)
(* A client numbers its requests from 1, so the id of initialize is 1 and  *)
(* that of command/exec is 2, for every client.  A line of a FIFO is a     *)
(* tuple: the client it belongs to (which no line tells), the id, and for  *)
(* a reply whether it is a success.                                        *)
(***************************************************************************)
EXTENDS Sequences, FiniteSets, Naturals

CONSTANTS
    Clients,      \* processes of codex_app_client.py
    Apps,         \* app ids
    AppOf(_),     \* the --app-id of a client
    Nobody,         \* nobody, no session, no reply
    Room,         \* how many unread requests a writer to the FIFO may leave behind
    MaxLate,      \* bound: how many clients run into a deadline
    MaxKills,     \* bound: how many clients are killed
    MaxStops      \* bound: how often the app-server ends

ASSUME AppsAssumption == \A c \in Clients : AppOf(c) \in Apps
ASSUME NobodyAssumption == Nobody \notin Clients
ASSUME RoomAssumption == Room \in Nat \ {0}
ASSUME ServerBoundsAssumption == MaxLate \in Nat /\ MaxKills \in Nat /\ MaxStops \in Nat

VARIABLES
    cpc,        \* cpc[c]: where the client stands
    id,        \* id[c]: the id of its request
    lock,      \* the client that holds app_server.lock
    up,        \* the app-server runs
    inq,       \* app_server.stdin: the requests nobody has read
    serving,   \* the requests the app-server works on
    half,      \* the one of them whose answer it has begun to write
    begun,     \* where the beginning of that line is: in the FIFO, read, or lost
    out,       \* app_server.stdout: the lines nobody has read
    buf,       \* buf[c]: the lines c has read ahead
    got,       \* got[c]: the reply c took for its command/exec
    registry,  \* registry[a]: the session in codex_sessions.json
    idle,      \* idle[a]: the session was not used for max_idle_sec
    users,     \* users[a]: the sessions used since then (history)
    mixed,     \* apps two clients of which made a session at once (history)
    gaveUp,    \* clients that left their command/exec behind (history)
    late,      \* deadlines so far
    stops      \* ends of the app-server so far

pipes == <<inq, out>>
answering == <<serving, half, begun>>
sessions == <<registry, idle, users, mixed>>
history == <<gaveUp, late, stops>>
appVars == <<cpc, id, lock, up, inq, serving, half, begun, out, buf, got, registry, idle, users,
          mixed, gaveUp, late, stops>>

Ids == {1, 2}
RpcRequests == Clients \X Ids
Replies == Clients \X Ids \X BOOLEAN
Active == {"lock", "open", "send", "wait", "read", "get", "touch", "set", "used"}
Over == {"ok", "failed", "timeout", "killed"}

AppTypeOK ==
    /\ cpc \in [Clients -> {"off"} \union Active \union Over]
    /\ id \in [Clients -> Ids]
    /\ lock \in Clients \union {Nobody}
    /\ up \in BOOLEAN
    /\ inq \in Seq(RpcRequests)
    /\ serving \subseteq RpcRequests
    /\ half \in serving \union {Nobody}
    /\ begun \in {"none", "unread", "read", "lost"}
    /\ out \in Seq(Replies)
    /\ buf \in [Clients -> Seq(Replies)]
    /\ got \in [Clients -> Replies \union {Nobody}]
    /\ registry \in [Apps -> Clients \union {Nobody}]
    /\ idle \in [Apps -> BOOLEAN]
    /\ users \in [Apps -> SUBSET Clients]
    /\ mixed \subseteq Apps
    /\ gaveUp \subseteq Clients
    /\ late \in 0 .. MaxLate
    /\ stops \in 0 .. MaxStops

AppInit ==
    /\ cpc = [c \in Clients |-> "off"]
    /\ id = [c \in Clients |-> 1]
    /\ lock = Nobody
    /\ up = TRUE
    /\ inq = <<>>
    /\ serving = {}
    /\ half = Nobody /\ begun = "none"
    /\ out = <<>>
    /\ buf = [c \in Clients |-> <<>>]
    /\ got = [c \in Clients |-> Nobody]
    /\ registry = [a \in Apps |-> Nobody]
    /\ idle = [a \in Apps |-> FALSE]
    /\ users = [a \in Apps |-> {}]
    /\ mixed = {}
    /\ gaveUp = {}
    /\ late = 0
    /\ stops = 0
-----------------------------------------------------------------------------
(* The app-server and its FIFOs                                            *)

ClientGoes(c, to) == cpc' = [cpc EXCEPT ![c] = to]

\* A client between its opens and its close keeps the contents of the FIFOs;
\* otherwise they are lost when the app-server ends.
Holds(c) == cpc[c] \in {"send", "wait", "read"}

StopServer ==
    /\ up
    /\ stops < MaxStops
    /\ stops' = stops + 1
    /\ up' = FALSE
    /\ serving' = {} /\ half' = Nobody /\ begun' = "none"
    /\ IF \E c \in Clients : Holds(c)
       THEN UNCHANGED pipes
       ELSE inq' = <<>> /\ out' = <<>>
    /\ UNCHANGED <<cpc, id, lock, buf, got, sessions, gaveUp, late>>

\* start_server, which finds the FIFOs of the last one.
StartServer ==
    /\ ~up
    /\ up' = TRUE
    /\ UNCHANGED <<cpc, id, lock, pipes, answering, buf, got, sessions, history>>

\* The app-server reads a request,
Accept ==
    /\ up
    /\ inq # <<>>
    /\ serving' = serving \union {Head(inq)}
    /\ inq' = Tail(inq)
    /\ UNCHANGED <<cpc, id, lock, up, half, begun, out, buf, got, sessions, history>>

\* begins to write the answer to one, which a pipe may carry in pieces,
BeginAnswer ==
    /\ half = Nobody
    /\ \E r \in serving : half' = r
    /\ begun' = "unread"
    /\ UNCHANGED <<cpc, id, lock, up, serving, pipes, buf, got, sessions, history>>

\* and answers the requests it works on in any order.  Of a line whose beginning went
\* with a client that closed the FIFO, the rest is no JSON and is dropped.
Reply ==
    /\ \E r \in serving, well \in BOOLEAN :
        /\ half \in {Nobody, r}
        /\ serving' = serving \ {r}
        /\ out' = IF begun = "lost" THEN out ELSE Append(out, <<r[1], r[2], well>>)
    /\ half' = Nobody /\ begun' = "none"
    /\ UNCHANGED <<cpc, id, lock, up, inq, buf, got, sessions, history>>
-----------------------------------------------------------------------------
(* codex_app_client.py                                                     *)

\* codex_fix.sh has seen the app-server running.
BeginRepair(c) ==
    /\ cpc[c] = "off"
    /\ up
    /\ ClientGoes(c, "lock")
    /\ UNCHANGED <<id, lock, up, pipes, answering, buf, got, sessions, history>>

Lock(c) ==
    /\ cpc[c] = "lock"
    /\ lock = Nobody
    /\ lock' = c
    /\ ClientGoes(c, "open")
    /\ UNCHANGED <<id, up, pipes, answering, buf, got, sessions, history>>

\* open() of a FIFO waits for its other end, and has no timeout.
Open(c) ==
    /\ cpc[c] = "open"
    /\ up
    /\ ClientGoes(c, "send")
    /\ UNCHANGED <<id, lock, up, pipes, answering, buf, got, sessions, history>>

\* The FIFOs are closed and the lock is released; with no app-server at the
\* other end, what is in the FIFOs is lost, and with the client its buffer.
Close(c) ==
    /\ lock' = Nobody
    /\ buf' = [buf EXCEPT ![c] = <<>>]
    /\ IF up THEN UNCHANGED inq ELSE inq' = <<>>

\* With its buffer goes the beginning of a line that it has read.
Drops(read) ==
    /\ begun' = IF begun \in read THEN "lost" ELSE begun
    /\ UNCHANGED <<serving, half>>

\* write and flush wait, without a deadline, until the request fits into the FIFO.
Send(c) ==
    /\ cpc[c] = "send"
    /\ up /\ Len(inq) < Room
    /\ inq' = Append(inq, <<c, id[c]>>)
    /\ ClientGoes(c, "wait")
    /\ UNCHANGED <<id, lock, up, answering, out, buf, got, sessions, history>>

\* BrokenPipeError
SendFails(c) ==
    /\ cpc[c] = "send"
    /\ ~up
    /\ Close(c) /\ Drops({"read"})
    /\ out' = <<>>
    /\ ClientGoes(c, "failed")
    /\ UNCHANGED <<id, up, got, sessions, history>>

\* select() says the FIFO is readable, or at its end; readline() then takes the
\* first line that was read ahead, or reads all that is there.
Readable == out # <<>> \/ begun = "unread" \/ ~up

\* All that is there is the beginning of a line: readline() waits for the rest of it,
\* and the deadline with it,
Block(c) ==
    /\ cpc[c] = "wait"
    /\ buf[c] \o out = <<>> /\ begun = "unread"
    /\ begun' = "read"
    /\ ClientGoes(c, "read")
    /\ UNCHANGED <<id, lock, up, pipes, serving, half, buf, got, sessions, history>>

\* unless the app-server ends, and the FIFO with it.
Unblock(c) ==
    /\ cpc[c] = "read" /\ ~up
    /\ ClientGoes(c, "wait")
    /\ UNCHANGED <<id, lock, up, pipes, answering, buf, got, sessions, history>>

Line(c) == Head(buf[c] \o out)

\* A line that has another id is dropped.
Skip(c) ==
    /\ cpc[c] \in {"wait", "read"}
    /\ Readable /\ buf[c] \o out # <<>>
    /\ Line(c)[2] # id[c]
    /\ IF buf[c] # <<>>
       THEN buf' = [buf EXCEPT ![c] = Tail(@)] /\ UNCHANGED <<out, begun>>
       ELSE /\ buf' = [buf EXCEPT ![c] = Tail(out)] /\ out' = <<>>
            /\ begun' = IF begun = "unread" THEN "read" ELSE begun
    /\ ClientGoes(c, "wait")
    /\ UNCHANGED <<id, lock, up, inq, serving, half, got, sessions, history>>

\* Where a client goes with the reply to its request.
Then(c, line) ==
    IF id[c] = 1 THEN IF line[3] THEN "get" ELSE "failed"
    ELSE IF line[3] THEN "used" ELSE "failed"

\* Mutant of Take: the id of the line is not looked at.
TakeAny(c) ==
    /\ cpc[c] \in {"wait", "read"}
    /\ Readable /\ buf[c] \o out # <<>>
    /\ ClientGoes(c, Then(c, Line(c)))
    /\ got' = IF id[c] = 2 THEN [got EXCEPT ![c] = Line(c)] ELSE got
    /\ Close(c) /\ Drops(IF buf[c] # <<>> THEN {"read"} ELSE {"read", "unread"})
    /\ out' = IF up /\ buf[c] # <<>> THEN out ELSE <<>>
    /\ UNCHANGED <<id, up, sessions, history>>

\* A line that has the id of the request ends it, whoever it was written for.
Take(c) ==
    /\ cpc[c] \in {"wait", "read"}
    /\ Readable /\ buf[c] \o out # <<>>
    /\ Line(c)[2] = id[c]
    /\ ClientGoes(c, Then(c, Line(c)))
    /\ got' = IF id[c] = 2 THEN [got EXCEPT ![c] = Line(c)] ELSE got
    /\ Close(c) /\ Drops(IF buf[c] # <<>> THEN {"read"} ELSE {"read", "unread"})
    /\ out' = IF up /\ buf[c] # <<>> THEN out ELSE <<>>
    /\ UNCHANGED <<id, up, sessions, history>>

\* Mutant of Deadline: the deadline is only looked at after a line.
DeadlineOnLine(c) ==
    /\ cpc[c] = "wait"
    /\ Readable
    /\ late < MaxLate
    /\ late' = late + 1
    /\ ClientGoes(c, "timeout")
    /\ Close(c) /\ Drops({"read"})
    /\ out' = IF up THEN out ELSE <<>>
    /\ gaveUp' = IF id[c] = 2 THEN gaveUp \union {c} ELSE gaveUp
    /\ UNCHANGED <<id, up, got, sessions, stops>>

\* The deadline of the request is over, and the client is back from readline(): exit 124.
Deadline(c) ==
    /\ cpc[c] = "wait"
    /\ late < MaxLate
    /\ late' = late + 1
    /\ ClientGoes(c, "timeout")
    /\ Close(c) /\ Drops({"read"})
    /\ out' = IF up THEN out ELSE <<>>
    /\ gaveUp' = IF id[c] = 2 THEN gaveUp \union {c} ELSE gaveUp
    /\ UNCHANGED <<id, up, got, sessions, stops>>

Kill(c) ==
    /\ cpc[c] \in Active
    /\ Cardinality({b \in Clients : cpc[b] = "killed"}) < MaxKills
    /\ ClientGoes(c, "killed")
    /\ IF lock = c
       THEN Close(c) /\ Drops({"read"}) /\ out' = IF up THEN out ELSE <<>>
       ELSE UNCHANGED <<lock, buf, pipes, answering>>
    /\ gaveUp' = IF id[c] = 2 /\ cpc[c] \in {"wait", "read"} THEN gaveUp \union {c} ELSE gaveUp
    /\ UNCHANGED <<id, up, got, sessions, late, stops>>
-----------------------------------------------------------------------------
(* session_manager.py; each step is one section under codex_sessions.lock  *)

\* A session is not used for max_idle_sec, which may be shorter than a command.
StayIdle(a) ==
    /\ registry[a] # Nobody /\ ~idle[a]
    /\ idle' = [idle EXCEPT ![a] = TRUE]
    /\ users' = [users EXCEPT ![a] = {}]
    /\ UNCHANGED <<cpc, id, lock, up, pipes, answering, buf, got, registry, mixed,
                   history>>

\* Mutant of NoSession: what get_session returns is used unseen.
NoSessionUsed(c) ==
    LET a == AppOf(c) IN
    /\ cpc[c] = "get"
    /\ registry[a] = Nobody \/ idle[a]
    /\ registry' = [registry EXCEPT ![a] = Nobody]
    /\ idle' = [idle EXCEPT ![a] = FALSE]
    /\ users' = [users EXCEPT ![a] = @ \union {Nobody}]
    /\ ClientGoes(c, "lock")
    /\ id' = [id EXCEPT ![c] = 2]
    /\ UNCHANGED <<lock, up, pipes, answering, buf, got, mixed, history>>

\* get_session finds no session, or one that was idle too long, which it removes.
NoSession(c) ==
    LET a == AppOf(c) IN
    /\ cpc[c] = "get"
    /\ registry[a] = Nobody \/ idle[a]
    /\ registry' = [registry EXCEPT ![a] = Nobody]
    /\ idle' = [idle EXCEPT ![a] = FALSE]
    /\ mixed' = IF \E b \in Clients : AppOf(b) = a /\ cpc[b] = "set"
                THEN mixed \union {a} ELSE mixed
    /\ ClientGoes(c, "set")
    /\ UNCHANGED <<id, lock, up, pipes, answering, buf, got, users, history>>

\* get_session finds one.
OldSession(c) ==
    LET a == AppOf(c) IN
    /\ cpc[c] = "get"
    /\ registry[a] # Nobody /\ ~idle[a]
    /\ users' = [users EXCEPT ![a] = @ \union {registry[a]}]
    /\ ClientGoes(c, "touch")
    /\ UNCHANGED <<id, lock, up, pipes, answering, buf, got, registry, idle, mixed, history>>

\* update_last_used: whatever session the app has by now is not idle, before the
\* command and after it.
UpdateLastUsed(c) ==
    /\ cpc[c] \in {"touch", "used"}
    /\ idle' = [idle EXCEPT ![AppOf(c)] = FALSE]
    /\ IF cpc[c] = "touch"
       THEN ClientGoes(c, "lock") /\ id' = [id EXCEPT ![c] = 2]
       ELSE UNCHANGED id /\ \E to \in {"ok", "failed"} : ClientGoes(c, to)
    /\ UNCHANGED <<lock, up, pipes, answering, buf, got, registry, users, mixed, history>>

\* Mutant of SetSession: the new session is used and not saved.
SetNothing(c) ==
    LET a == AppOf(c) IN
    /\ cpc[c] = "set"
    /\ users' = [users EXCEPT ![a] = @ \union {c}]
    /\ ClientGoes(c, "lock")
    /\ id' = [id EXCEPT ![c] = 2]
    /\ UNCHANGED <<lock, up, pipes, answering, buf, got, registry, idle, mixed, history>>

\* set_session with a new uuid, here the client itself
SetSession(c) ==
    LET a == AppOf(c) IN
    /\ cpc[c] = "set"
    /\ registry' = [registry EXCEPT ![a] = c]
    /\ idle' = [idle EXCEPT ![a] = FALSE]
    /\ users' = [users EXCEPT ![a] = @ \union {c}]
    /\ ClientGoes(c, "lock")
    /\ id' = [id EXCEPT ![c] = 2]
    /\ UNCHANGED <<lock, up, pipes, answering, buf, got, mixed, history>>

Client(c) ==
    \/ Lock(c) \/ Open(c) \/ Send(c) \/ SendFails(c) \/ Block(c) \/ Unblock(c)
    \/ Skip(c) \/ Take(c)
    \/ NoSession(c) \/ OldSession(c) \/ UpdateLastUsed(c) \/ SetSession(c)

AppNext ==
    \/ StopServer \/ StartServer \/ Accept \/ BeginAnswer \/ Reply
    \/ \E c \in Clients : BeginRepair(c) \/ Client(c) \/ Deadline(c) \/ Kill(c)
    \/ \E a \in Apps : StayIdle(a)

AppSpec == AppInit /\ [][AppNext]_appVars

\* The clients go on, and their deadlines come.  Nothing is assumed of the
\* app-server: nobody starts it again but `factory start`.
AppFairness == \A c \in Clients : WF_appVars(Client(c)) /\ WF_appVars(Deadline(c))
-----------------------------------------------------------------------------
(* Properties                                                              *)

\* The reply that ends a command/exec is a reply to a command/exec, and to its
\* own as long as no client has left its command/exec behind.  (Afterwards every
\* client may be taken for the one before it: each leaves its own reply behind.)
OwnOrAbandoned ==
    \A c \in Clients : got[c] # Nobody =>
        got[c][2] = 2 /\ (got[c][1] = c \/ gaveUp # {})

\* The clients of an app use one session between two idle times, unless two of
\* them made one at the same time.
SessionKept == \A a \in Apps : a \notin mixed => Cardinality(users[a]) <= 1

\* An app-server that stays up, goes on reading and finishes the lines it begins; it need
\* not answer.  Without the second a client blocks in write, without the third in readline,
\* both without a deadline and with the lock.
ServerStays == [](stops = 0)
ServerReads == []<>(inq = <<>>)
ServerFinishesLines == []<>(half = Nobody)

\* With such an app-server every client ends, whatever is answered, late or left over.
EveryClientEnds ==
    ServerStays /\ ServerReads /\ ServerFinishesLines
        => \A c \in Clients : cpc[c] \in Active ~> cpc[c] \in Over

\* "app-server repair success": the success is that of the client's own command.
SuccessIsOwn == \A c \in Clients : cpc[c] = "ok" => got[c][1] = c
=============================================================================
