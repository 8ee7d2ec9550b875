--------------------------- MODULE AppServerProofs ---------------------------
(***************************************************************************)
(* Proofs about AppServer, for any clients and apps, and any number of     *)
(* deadlines, kills and ends of the app-server.                            *)
(***************************************************************************)
EXTENDS AppServer, FiniteSetTheorems, SequenceTheorems, TLAPS

\* Who is between lock and unlock holds the lock, and nobody else does.
LockHeld == \A c \in Clients : cpc[c] \in {"open", "send", "wait", "read"} <=> lock = c

\* Only a client that waits for a line has read others ahead.
BufferHeld == \A c \in Clients : buf[c] # <<>> => cpc[c] = "wait"

Setters(a) == {c \in Clients : AppOf(c) = a /\ cpc[c] = "set"}

\* An idle session has had no users since.
IdleIsUnused == \A a \in Apps : idle[a] => users[a] = {}

\* Unless two clients made a session at once: one client at most makes one, and then
\* there is none; whoever used a session used the registered one.
OneSession == \A a \in Apps : a \notin mixed =>
    /\ \A b, c \in Setters(a) : b = c
    /\ Setters(a) # {} => registry[a] = Nobody
    /\ registry[a] = Nobody => users[a] = {}
    /\ users[a] \subseteq {registry[a]}

\* Where a second request or its reply (the id is 2) is among some lines.
NoTwos(s) == \A i \in DOMAIN s : s[i][2] # 2
OneTwo(s) == \A i, j \in DOMAIN s : s[i][2] = 2 /\ s[j][2] = 2 => i = j
OwnTwos(s, W) == \A i \in DOMAIN s : s[i][2] = 2 => s[i][1] \in W

Waiting == {c \in Clients : cpc[c] \in {"wait", "read"} /\ id[c] = 2}
NoneServed == \A r \in serving : r[2] # 2
NoneBuffered == \A c \in Clients : NoTwos(buf[c])

\* Every second request under way, and every reply to one, belongs to who waits for it.
Owned ==
    /\ OwnTwos(inq, Waiting) /\ OwnTwos(out, Waiting)
    /\ \A r \in serving : r[2] = 2 => r[1] \in Waiting
    /\ \A c \in Clients : OwnTwos(buf[c], Waiting)

\* There is one of them, in one place.
Single ==
    /\ OneTwo(inq) /\ OneTwo(out) /\ \A c \in Clients : OneTwo(buf[c])
    /\ NoTwos(inq) \/ (NoneServed /\ NoTwos(out) /\ NoneBuffered)
    /\ NoneServed \/ (NoTwos(out) /\ NoneBuffered)
    /\ NoTwos(out) \/ NoneBuffered

Quiet == NoTwos(inq) /\ NoneServed /\ NoTwos(out) /\ NoneBuffered

NobodyLeft == gaveUp = {} => Owned /\ Single

ServerInv ==
    /\ AppTypeOK /\ LockHeld /\ BufferHeld /\ IdleIsUnused /\ OneSession
    /\ NobodyLeft /\ OwnOrAbandoned
-----------------------------------------------------------------------------
(* Lines                                                                   *)

\* No line, no second request.
LEMMA EmptyLines == NoTwos(<<>>)
BY DEF NoTwos

\* Lines without a second request satisfy everything that is asked of one.
LEMMA NoTwosIsAll == ASSUME NEW s, NEW W, NoTwos(s) PROVE OneTwo(s) /\ OwnTwos(s, W)
BY DEF NoTwos, OneTwo, OwnTwos

\* The head of a sequence is its first element.
LEMMA HeadIsFirst == ASSUME NEW S, NEW s \in Seq(S), s # <<>> PROVE Head(s) = s[1]
OBVIOUS

\* What is left behind the first line.
LEMMA TailLines ==
    ASSUME NEW S, NEW s \in Seq(S), NEW W, s # <<>>
    PROVE  /\ NoTwos(s) => NoTwos(Tail(s)) /\ Head(s)[2] # 2
           /\ OneTwo(s) => OneTwo(Tail(s)) /\ (Head(s)[2] = 2 => NoTwos(Tail(s)))
           /\ OwnTwos(s, W) => OwnTwos(Tail(s), W) /\ (Head(s)[2] = 2 => Head(s)[1] \in W)
           /\ Head(s) \in S /\ Tail(s) \in Seq(S)
<1>1. DOMAIN s = 1 .. Len(s) /\ Len(s) \in Nat \ {0}
  BY LenProperties, EmptySeq
<1>2. /\ Head(s) \in S /\ Tail(s) \in Seq(S)
      /\ Len(Tail(s)) = Len(s) - 1
      /\ \A i \in 1 .. Len(Tail(s)) : Tail(s)[i] = s[i + 1]
  BY HeadTailProperties
<1>3. DOMAIN Tail(s) = 1 .. Len(Tail(s))
  BY <1>2, LenProperties
<1>4. Head(s) = s[1] /\ 1 \in DOMAIN s
  BY <1>1
<1>5. \A i \in DOMAIN Tail(s) : i + 1 \in DOMAIN s /\ Tail(s)[i] = s[i + 1] /\ i + 1 # 1 /\ i \in Int
  BY <1>1, <1>2, <1>3
<1>6. NoTwos(s) => NoTwos(Tail(s)) /\ Head(s)[2] # 2
  BY <1>4, <1>5 DEF NoTwos
<1>7. OneTwo(s) => OneTwo(Tail(s))
  BY <1>5 DEF OneTwo
<1>8. OneTwo(s) /\ Head(s)[2] = 2 => NoTwos(Tail(s))
  BY <1>4, <1>5 DEF OneTwo, NoTwos
<1>9. OwnTwos(s, W) => OwnTwos(Tail(s), W) /\ (Head(s)[2] = 2 => Head(s)[1] \in W)
  BY <1>4, <1>5 DEF OwnTwos
<1> QED
  BY <1>2, <1>6, <1>7, <1>8, <1>9

\* A line more.
LEMMA AppendLines ==
    ASSUME NEW S, NEW s \in Seq(S), NEW e \in S, NEW W
    PROVE  /\ NoTwos(s) /\ e[2] # 2 => NoTwos(Append(s, e))
           /\ OneTwo(s) /\ e[2] # 2 => OneTwo(Append(s, e))
           /\ NoTwos(s) => OneTwo(Append(s, e))
           /\ OwnTwos(s, W) /\ (e[2] = 2 => e[1] \in W) => OwnTwos(Append(s, e), W)
           /\ Append(s, e) \in Seq(S)
<1>1. DOMAIN s = 1 .. Len(s) /\ Len(s) \in Nat
  BY LenProperties
<1>2. /\ Append(s, e) \in Seq(S)
      /\ Len(Append(s, e)) = Len(s) + 1
      /\ \A i \in 1 .. Len(s) + 1 : Append(s, e)[i] = IF i = Len(s) + 1 THEN e ELSE s[i]
  BY AppendProperties, <1>1
<1>3. DOMAIN Append(s, e) = 1 .. Len(s) + 1
  BY <1>2, LenProperties
<1>4. \A i \in DOMAIN Append(s, e) :
         \/ i \in DOMAIN s /\ Append(s, e)[i] = s[i] /\ i # Len(s) + 1
         \/ i = Len(s) + 1 /\ Append(s, e)[i] = e
  BY <1>1, <1>2, <1>3
<1>5. NoTwos(s) /\ e[2] # 2 => NoTwos(Append(s, e))
  BY <1>4 DEF NoTwos
<1>6. OneTwo(s) /\ e[2] # 2 => OneTwo(Append(s, e))
  BY <1>4 DEF OneTwo
<1>7. NoTwos(s) => OneTwo(Append(s, e))
  BY <1>4 DEF NoTwos, OneTwo
<1>8. OwnTwos(s, W) /\ (e[2] = 2 => e[1] \in W) => OwnTwos(Append(s, e), W)
  BY <1>4 DEF OwnTwos
<1> QED
  BY <1>2, <1>5, <1>6, <1>7, <1>8

\* The line a client takes is the first it has read ahead, or else the first of the FIFO.
LEMMA LineIs ==
    ASSUME AppTypeOK, NEW c \in Clients, buf[c] \o out # <<>>
    PROVE  /\ Line(c) = IF buf[c] # <<>> THEN Head(buf[c]) ELSE Head(out)
           /\ buf[c] = <<>> => out # <<>>
           /\ Line(c) \in Replies
<1> DEFINE b == buf[c]
<1>1. b \in Seq(Replies) /\ out \in Seq(Replies)
  BY DEF AppTypeOK
<1>2. Line(c) = Head(b \o out)
  BY DEF Line
<1> HIDE DEF b
<1>3. CASE b = <<>>
  <2>1. b \o out = out
    BY <1>1, <1>3, ConcatEmptySeq
  <2>2. out # <<>>
    BY <2>1 DEF b
  <2>3. Head(out) \in Replies
    BY <1>1, <2>2, HeadTailProperties
  <2> QED
    BY <1>2, <1>3, <2>1, <2>2, <2>3 DEF b
<1>4. CASE b # <<>>
  <2>1. Len(b) \in Nat \ {0} /\ Len(out) \in Nat
    BY <1>1, <1>4, EmptySeq, LenProperties
  <2>2. (b \o out)[1] = b[1] /\ Head(b) \in Replies
    BY <1>1, <1>4, <2>1, ConcatProperties, HeadTailProperties
  <2>3. b \o out \in Seq(Replies) /\ b \o out # <<>>
    BY <1>1, <2>1, ConcatProperties, EmptySeq
  <2>4. Head(b \o out) = (b \o out)[1] /\ Head(b) = b[1]
    BY <1>1, <1>4, <2>3, HeadIsFirst
  <2> QED
    BY <1>2, <1>4, <2>2, <2>4 DEF b
<1> QED
  BY <1>3, <1>4
-----------------------------------------------------------------------------
(* Types, the lock and what is read ahead                                  *)

\* A client that closes the FIFOs keeps the types of what it clears.
LEMMA CloseType ==
    ASSUME AppTypeOK, NEW c \in Clients, Close(c)
    PROVE  lock' = Nobody /\ inq' \in Seq(RpcRequests) /\ buf' \in [Clients -> Seq(Replies)]
<1>1. <<>> \in Seq(RpcRequests) /\ <<>> \in Seq(Replies)
  BY EmptySeq
<1> QED
  BY <1>1 DEF AppTypeOK, Close

\* Every step keeps the types.
LEMMA TypeStep == ASSUME AppTypeOK, [AppNext]_appVars PROVE AppTypeOK'
<1> USE ServerBoundsAssumption, AppsAssumption DEF AppTypeOK, pipes, answering, sessions, history, Active, Over, ClientGoes
<1>0. <<>> \in Seq(RpcRequests) /\ <<>> \in Seq(Replies)
  BY EmptySeq
<1>1. CASE StopServer
  <2>1. inq' \in Seq(RpcRequests) /\ out' \in Seq(Replies)
    BY <1>0, <1>1 DEF StopServer
  <2>2. stops' \in 0 .. MaxStops
    BY <1>1 DEF StopServer
  <2> QED
    BY <1>1, <2>1, <2>2 DEF StopServer
<1>2. CASE StartServer
  BY <1>2 DEF StartServer
<1>3. CASE Accept
  BY <1>3, TailLines DEF Accept
<1>4. CASE Reply
  <2>1. PICK r \in serving, well \in BOOLEAN :
            serving' = serving \ {r} /\ out' \in {out, Append(out, <<r[1], r[2], well>>)}
    BY <1>4 DEF Reply
  <2>2. <<r[1], r[2], well>> \in Replies
    BY <2>1 DEF Replies, RpcRequests
  <2>3. out' \in Seq(Replies)
    <3>1. Append(out, <<r[1], r[2], well>>) \in Seq(Replies)
      BY <2>2, AppendLines
    <3> QED  BY <2>1, <3>1
  <2> QED
    BY <1>4, <2>1, <2>3 DEF Reply
<1>5. ASSUME NEW c \in Clients, BeginRepair(c) \/ Lock(c) \/ Open(c) \/ Unblock(c) PROVE AppTypeOK'
  BY <1>5 DEF BeginRepair, Lock, Open, Unblock
<1>6. ASSUME NEW c \in Clients, Send(c) PROVE AppTypeOK'
  <2>1. <<c, id[c]>> \in RpcRequests
    BY DEF RpcRequests
  <2>2. inq' \in Seq(RpcRequests)
    BY <1>6, <2>1, AppendLines DEF Send
  <2> QED
    BY <1>6, <2>2 DEF Send
<1>7. ASSUME NEW c \in Clients, SendFails(c) PROVE AppTypeOK'
  BY <1>0, <1>7, CloseType DEF SendFails, Drops
<1>8. ASSUME NEW c \in Clients, Skip(c) PROVE AppTypeOK'
  <2>1. buf[c] = <<>> => out # <<>>
    BY <1>8, LineIs DEF Skip
  <2>2. buf[c] # <<>> => Tail(buf[c]) \in Seq(Replies)
    BY HeadTailProperties
  <2>3. buf[c] = <<>> => Tail(out) \in Seq(Replies)
    BY <2>1, HeadTailProperties
  <2>4. buf' \in [Clients -> Seq(Replies)] /\ out' \in Seq(Replies)
    BY <1>0, <1>8, <2>2, <2>3 DEF Skip
  <2> QED
    BY <1>8, <2>4 DEF Skip
<1>9. ASSUME NEW c \in Clients, Take(c) PROVE AppTypeOK'
  <2>1. Line(c) \in Replies
    BY <1>9, LineIs DEF Take
  <2>2. Then(c, Line(c)) \in {"get", "used", "failed"}
    BY DEF Then
  <2>3. Close(c) /\ UNCHANGED <<serving, half>> /\ begun' \in {begun, "lost"}
    BY <1>9 DEF Take, Drops
  <2>4. out' \in Seq(Replies)
    BY <1>0, <1>9 DEF Take
  <2> QED
    BY <1>9, <2>1, <2>2, <2>3, <2>4, CloseType DEF Take
<1>10. ASSUME NEW c \in Clients, Deadline(c) PROVE AppTypeOK'
  <2>1. Close(c) /\ out' \in Seq(Replies)
    BY <1>0, <1>10 DEF Deadline
  <2> QED
    BY <1>10, <2>1, CloseType DEF Deadline, Drops
<1>11. ASSUME NEW c \in Clients, Kill(c) PROVE AppTypeOK'
  <2>1. /\ lock' \in Clients \union {Nobody} /\ inq' \in Seq(RpcRequests)
        /\ buf' \in [Clients -> Seq(Replies)] /\ out' \in Seq(Replies)
    BY <1>0, <1>11, CloseType DEF Kill
  <2> QED
    BY <1>11, <2>1 DEF Kill, Drops
<1>12. ASSUME NEW c \in Clients, NoSession(c) \/ OldSession(c) \/ UpdateLastUsed(c) \/ SetSession(c) PROVE AppTypeOK'
  <2>1. CASE NoSession(c)
    BY <2>1 DEF NoSession
  <2>2. CASE OldSession(c)
    <3>1. registry[AppOf(c)] \in Clients
      BY <2>2 DEF OldSession
    <3> QED
      BY <2>2, <3>1 DEF OldSession
  <2>3. CASE SetSession(c)
    BY <2>3 DEF SetSession, Ids
  <2>4. CASE UpdateLastUsed(c)
    BY <2>4 DEF UpdateLastUsed, Ids
  <2> QED
    BY <1>12, <2>1, <2>2, <2>3, <2>4
<1>13. ASSUME NEW a \in Apps, StayIdle(a) PROVE AppTypeOK'
  BY <1>13 DEF StayIdle
<1>14. CASE UNCHANGED appVars
  BY <1>14 DEF appVars
<1>15. CASE BeginAnswer
  BY <1>15 DEF BeginAnswer
<1>16. ASSUME NEW c \in Clients, Block(c) PROVE AppTypeOK'
  BY <1>16 DEF Block
<1> QED
  BY <1>1, <1>2, <1>3, <1>4, <1>5, <1>6, <1>7, <1>8, <1>9, <1>10, <1>11, <1>12, <1>13, <1>14, <1>15, <1>16
     DEF AppNext, Client

\* Every step keeps the lock with its client, and what was read ahead with who waits.
LEMMA LockStep ==
    ASSUME AppTypeOK, LockHeld, BufferHeld, [AppNext]_appVars
    PROVE  LockHeld' /\ BufferHeld'
<1> USE NobodyAssumption DEF AppTypeOK, LockHeld, BufferHeld, pipes, sessions, history, ClientGoes
<1>1. StopServer \/ StartServer \/ Accept \/ BeginAnswer \/ Reply => UNCHANGED <<cpc, lock, buf>>
  BY DEF StopServer, StartServer, Accept, BeginAnswer, Reply
<1>2. ASSUME NEW c \in Clients, BeginRepair(c) \/ Lock(c) \/ Open(c) \/ Send(c) \/ Unblock(c)
      PROVE  LockHeld' /\ BufferHeld'
  BY <1>2 DEF BeginRepair, Lock, Open, Send, Unblock
<1>9. ASSUME NEW c \in Clients, Block(c) PROVE LockHeld' /\ BufferHeld'
  <2>1. buf[c] = <<>>
    <3>1. buf[c] \in Seq(Replies) /\ out \in Seq(Replies) /\ buf[c] \o out = <<>>
      BY <1>9 DEF Block
    <3>2. Len(buf[c] \o out) = Len(buf[c]) + Len(out) /\ Len(buf[c] \o out) = 0
      BY <3>1, ConcatProperties
    <3> QED  BY <3>1, <3>2, EmptySeq, LenProperties
  <2>2. cpc' = [cpc EXCEPT ![c] = "read"] /\ cpc[c] = "wait" /\ UNCHANGED <<lock, buf>>
    BY <1>9 DEF Block
  <2> QED  BY <2>1, <2>2
<1>3. ASSUME NEW c \in Clients, Skip(c) PROVE LockHeld' /\ BufferHeld'
  BY <1>3 DEF Skip
<1>4. ASSUME NEW c \in Clients, SendFails(c) \/ Take(c) \/ Deadline(c)
      PROVE  LockHeld' /\ BufferHeld'
  <2>1. Then(c, Line(c)) \notin {"open", "send", "wait", "read"}
    BY DEF Then
  <2>2. /\ lock = c /\ lock' = Nobody /\ buf' = [buf EXCEPT ![c] = <<>>]
        /\ \E to : cpc' = [cpc EXCEPT ![c] = to] /\ to \notin {"open", "send", "wait", "read"}
    BY <1>4, <2>1 DEF SendFails, Take, Deadline, Close
  <2> QED
    BY <2>2
<1>5. ASSUME NEW c \in Clients, Kill(c) PROVE LockHeld' /\ BufferHeld'
  BY <1>5 DEF Kill, Close
<1>6. ASSUME NEW c \in Clients, NoSession(c) \/ OldSession(c) \/ UpdateLastUsed(c) \/ SetSession(c)
      PROVE  LockHeld' /\ BufferHeld'
  BY <1>6 DEF NoSession, OldSession, UpdateLastUsed, SetSession
<1>7. ASSUME NEW a \in Apps, StayIdle(a) PROVE UNCHANGED <<cpc, lock, buf>>
  BY <1>7 DEF StayIdle
<1>8. CASE UNCHANGED <<cpc, lock, buf>>
  BY <1>8
<1> QED
  BY <1>1, <1>2, <1>3, <1>4, <1>5, <1>6, <1>7, <1>8, <1>9 DEF AppNext, Client, appVars
-----------------------------------------------------------------------------
(* Sessions                                                                *)

\* A step that leaves the sessions alone, and starts no client that makes one, keeps them.
LEMMA SessionsStay ==
    ASSUME AppTypeOK, IdleIsUnused, OneSession, UNCHANGED sessions,
           \A c \in Clients : cpc'[c] = "set" => cpc[c] = "set"
    PROVE  IdleIsUnused' /\ OneSession'
<1>1. \A a \in Apps : Setters(a)' \subseteq Setters(a)
  BY DEF Setters
<1>2. UNCHANGED <<registry, idle, users, mixed>>
  BY DEF sessions
<1>3. IdleIsUnused'
  BY <1>1, <1>2 DEF IdleIsUnused
<1>4. OneSession'
  BY <1>1, <1>2 DEF OneSession
<1> QED
  BY <1>3, <1>4

\* Every step keeps what is known of sessions.
LEMMA SessionStep ==
    ASSUME AppTypeOK, IdleIsUnused, OneSession, [AppNext]_appVars
    PROVE  IdleIsUnused' /\ OneSession'
<1> USE AppsAssumption, NobodyAssumption DEF ClientGoes
<1>1. StopServer \/ StartServer \/ Accept \/ BeginAnswer \/ Reply => UNCHANGED <<cpc, sessions>>
  BY DEF StopServer, StartServer, Accept, BeginAnswer, Reply
<1>2. ASSUME NEW c \in Clients, BeginRepair(c) \/ Lock(c) \/ Open(c) \/ Send(c) \/ SendFails(c) \/ Skip(c)
                                \/ Block(c) \/ Unblock(c) \/ Take(c) \/ Deadline(c) \/ Kill(c)
      PROVE  UNCHANGED sessions /\ \A b \in Clients : cpc'[b] = "set" => cpc[b] = "set"
  <2>1. Then(c, Line(c)) # "set"
    BY DEF Then
  <2> QED
    BY <1>2, <2>1 DEF AppTypeOK, BeginRepair, Lock, Open, Send, SendFails, Block, Unblock,
                         Skip, Take, Deadline, Kill
<1>3. ASSUME NEW c \in Clients, NoSession(c) PROVE IdleIsUnused' /\ OneSession'
  <2> DEFINE a == AppOf(c)
  <2>1. a \in Apps /\ (registry[a] = Nobody \/ idle[a])
    BY <1>3 DEF NoSession
  <2>2. /\ registry' = [registry EXCEPT ![a] = Nobody] /\ idle' = [idle EXCEPT ![a] = FALSE]
        /\ users' = users /\ cpc' = [cpc EXCEPT ![c] = "set"]
        /\ mixed \subseteq mixed'
        /\ a \notin mixed' => Setters(a) = {}
    BY <1>3 DEF NoSession, Setters
  <2>3. Setters(a)' \subseteq Setters(a) \union {c} /\ \A b \in Apps \ {a} : Setters(b)' = Setters(b)
    BY <2>2 DEF Setters, AppTypeOK
  <2>4. IdleIsUnused'
    BY <2>1, <2>2, <2>3 DEF IdleIsUnused, AppTypeOK
  <2>5. a \notin mixed' => users[a] = {}
    BY <2>1, <2>2 DEF OneSession, IdleIsUnused
  <2>6. ASSUME a \notin mixed'
        PROVE  /\ Setters(a)' \subseteq {c} /\ registry'[a] = Nobody /\ users'[a] = {}
    BY <2>1, <2>2, <2>3, <2>5, <2>6 DEF AppTypeOK
  <2>7. ASSUME NEW b \in Apps \ {a}
        PROVE  registry'[b] = registry[b] /\ users'[b] = users[b] /\ Setters(b)' = Setters(b)
    BY <2>2, <2>3 DEF AppTypeOK
  <2> HIDE DEF a
  <2>8. OneSession'
    BY <2>2, <2>6, <2>7 DEF OneSession
  <2> QED
    BY <2>4, <2>8
<1>4. ASSUME NEW c \in Clients, OldSession(c) PROVE IdleIsUnused' /\ OneSession'
  <2> DEFINE a == AppOf(c)
  <2>1. /\ a \in Apps /\ registry[a] # Nobody /\ ~idle[a]
        /\ users' = [users EXCEPT ![a] = @ \union {registry[a]}]
        /\ UNCHANGED <<registry, idle, mixed>>
    BY <1>4 DEF OldSession
  <2>2. \A b \in Apps : Setters(b)' \subseteq Setters(b)
    BY <1>4 DEF OldSession, Setters, AppTypeOK
  <2>3. IdleIsUnused'
    BY <2>1, <2>2 DEF IdleIsUnused, AppTypeOK
  <2>4. OneSession'
    BY <2>1, <2>2 DEF OneSession, AppTypeOK
  <2> QED
    BY <2>3, <2>4
<1>5. ASSUME NEW c \in Clients, SetSession(c) PROVE IdleIsUnused' /\ OneSession'
  <2> DEFINE a == AppOf(c)
  <2>1. /\ a \in Apps /\ c \in Setters(a) /\ c # Nobody
        /\ registry' = [registry EXCEPT ![a] = c]
        /\ users' = [users EXCEPT ![a] = @ \union {c}]
        /\ idle' = [idle EXCEPT ![a] = FALSE] /\ mixed' = mixed
    BY <1>5 DEF SetSession, Setters
  <2>2. Setters(a)' = Setters(a) \ {c} /\ \A b \in Apps \ {a} : Setters(b)' = Setters(b)
    BY <1>5 DEF SetSession, Setters, AppTypeOK
  <2>3. IdleIsUnused'
    BY <2>1, <2>2 DEF IdleIsUnused, AppTypeOK
  <2>4. OneSession'
    BY <2>1, <2>2 DEF OneSession, AppTypeOK
  <2> QED
    BY <2>3, <2>4
<1>6. ASSUME NEW a \in Apps, StayIdle(a) PROVE IdleIsUnused' /\ OneSession'
  <2>1. /\ cpc' = cpc /\ registry' = registry /\ mixed' = mixed
        /\ idle' = [idle EXCEPT ![a] = TRUE] /\ users' = [users EXCEPT ![a] = {}]
    BY <1>6 DEF StayIdle
  <2>2. registry[a] # Nobody /\ \A b \in Apps : Setters(b)' = Setters(b)
    BY <1>6, <2>1 DEF StayIdle, Setters
  <2>3. IdleIsUnused'
    BY <2>1, <2>2 DEF IdleIsUnused, AppTypeOK
  <2>4. OneSession'
    BY <2>1, <2>2 DEF OneSession, AppTypeOK
  <2> QED
    BY <2>3, <2>4
<1>7. CASE UNCHANGED appVars
  BY <1>7, SessionsStay DEF appVars, sessions
<1>8. ASSUME NEW c \in Clients, UpdateLastUsed(c) PROVE IdleIsUnused' /\ OneSession'
  <2>1. UNCHANGED <<registry, users, mixed>> /\ idle' = [idle EXCEPT ![AppOf(c)] = FALSE]
    BY <1>8 DEF UpdateLastUsed
  <2>2. \A b \in Apps : Setters(b)' \subseteq Setters(b)
    BY <1>8 DEF UpdateLastUsed, Setters, AppTypeOK
  <2>3. IdleIsUnused'
    BY <2>1 DEF IdleIsUnused, AppTypeOK
  <2>4. OneSession'
    BY <2>1, <2>2 DEF OneSession
  <2> QED
    BY <2>3, <2>4
<1> QED
  BY <1>1, <1>2, <1>3, <1>4, <1>5, <1>6, <1>7, <1>8, SessionsStay DEF AppNext, Client
-----------------------------------------------------------------------------
(* Whose reply it is                                                       *)

\* A client that waits for its second reply has the lock: there is one at most.
LEMMA WaitingHolds == ASSUME LockHeld PROVE \A c \in Waiting : lock = c
BY DEF LockHeld, Waiting

\* With no second request under way, everything that is asked of them holds.
LEMMA QuietIsAll == ASSUME Quiet PROVE Owned /\ Single
<1>1. \A s, W : NoTwos(s) => OneTwo(s) /\ OwnTwos(s, W)
  BY NoTwosIsAll
<1> QED
  BY <1>1 DEF Quiet, Owned, Single, NoneServed, NoneBuffered

\* The same after a step.
LEMMA QuietIsAllNext == ASSUME Quiet' PROVE Owned' /\ Single'
<1>1. \A s, W : NoTwos(s) => OneTwo(s) /\ OwnTwos(s, W)
  BY NoTwosIsAll
<1> QED
  BY <1>1 DEF Quiet, Owned, Single, NoneServed, NoneBuffered

\* With nobody waiting for a second reply, none is under way.
LEMMA NobodyWaits == ASSUME Owned, Waiting = {} PROVE Quiet
BY DEF Owned, Quiet, OwnTwos, NoTwos, NoneServed, NoneBuffered

\* A step that loses what it does not keep adds no second request.
LEMMA QuietStays ==
    ASSUME Quiet, AppTypeOK, serving' \subseteq serving,
           inq' \in {inq, <<>>}, out' \in {out, <<>>},
           \A c \in Clients : buf'[c] \in {buf[c], <<>>}
    PROVE  Quiet'
BY EmptyLines DEF Quiet, NoneServed, NoneBuffered

\* Lines that stay belong to clients that go on waiting.
LEMMA LinesStay ==
    ASSUME Owned, Single, UNCHANGED <<inq, out, buf, serving>>, Waiting \subseteq Waiting'
    PROVE  Owned' /\ Single'
<1>1. \A s : OwnTwos(s, Waiting) => OwnTwos(s, Waiting')
  BY DEF OwnTwos
<1>2. Owned'
  BY <1>1 DEF Owned
<1>3. Single'
  BY DEF Single, NoneServed, NoneBuffered
<1> QED
  BY <1>2, <1>3

\* The server reads the next request.
LEMMA AcceptStep ==
    ASSUME AppTypeOK, Owned, Single, Accept
    PROVE  Owned' /\ Single'
<1>1. inq \in Seq(RpcRequests) /\ inq # <<>> /\ inq' = Tail(inq) /\ serving' = serving \union {Head(inq)}
  BY DEF AppTypeOK, Accept
<1>2. UNCHANGED <<out, buf>> /\ Waiting' = Waiting
  BY DEF Accept, Waiting
<1>3. /\ NoTwos(inq) => NoTwos(inq') /\ Head(inq)[2] # 2
      /\ OneTwo(inq') /\ (Head(inq)[2] = 2 => NoTwos(inq'))
      /\ OwnTwos(inq', Waiting) /\ (Head(inq)[2] = 2 => Head(inq)[1] \in Waiting)
  BY <1>1, TailLines DEF Owned, Single
<1>4. Owned'
  BY <1>1, <1>2, <1>3 DEF Owned
<1>5. NoneBuffered' <=> NoneBuffered
  BY <1>2 DEF NoneBuffered
<1>6. OneTwo(inq') /\ OneTwo(out') /\ \A c \in Clients : OneTwo(buf'[c])
  BY <1>2, <1>3 DEF Single
<1>7. CASE Head(inq)[2] = 2
  <2>1. NoTwos(out) /\ NoneBuffered /\ NoTwos(inq')
    BY <1>3, <1>7 DEF Single
  <2> QED
    BY <1>2, <1>4, <1>5, <1>6, <2>1 DEF Single
<1>8. CASE Head(inq)[2] # 2
  <2>1. NoneServed' <=> NoneServed
    BY <1>1, <1>8 DEF NoneServed
  <2> QED
    BY <1>2, <1>3, <1>4, <1>5, <1>6, <2>1 DEF Single
<1> QED
  BY <1>7, <1>8

\* The server answers a request.
LEMMA ReplyStep ==
    ASSUME AppTypeOK, LockHeld, Owned, Single, Reply
    PROVE  Owned' /\ Single'
<1>1. PICK r \in serving, well \in BOOLEAN :
          serving' = serving \ {r} /\ out' \in {out, Append(out, <<r[1], r[2], well>>)}
  BY DEF Reply
<1> DEFINE e == <<r[1], r[2], well>>
<1>2. out \in Seq(Replies) /\ e \in Replies /\ e[1] = r[1] /\ e[2] = r[2] /\ out' \in {out, Append(out, e)}
  BY <1>1 DEF AppTypeOK, Replies, RpcRequests
<1>3. UNCHANGED <<inq, buf>> /\ Waiting' = Waiting
  BY DEF Reply, Waiting
<1> HIDE DEF e
<1>4. /\ NoTwos(out) /\ e[2] # 2 => NoTwos(out')
      /\ OneTwo(out) /\ e[2] # 2 => OneTwo(out')
      /\ NoTwos(out) => OneTwo(out')
      /\ OwnTwos(out', Waiting)
  BY <1>1, <1>2, AppendLines, NoTwosIsAll DEF Owned
<1>5. Owned'
  BY <1>1, <1>3, <1>4 DEF Owned
<1>6. (NoneBuffered' <=> NoneBuffered) /\ (NoneServed => NoneServed')
  BY <1>1, <1>3 DEF NoneBuffered, NoneServed
<1>7. CASE r[2] = 2
  <2>1. ~NoneServed
    BY <1>1, <1>7 DEF NoneServed
  <2>2. NoTwos(inq) /\ NoTwos(out) /\ NoneBuffered
    BY <2>1 DEF Single
  <2>3. \A q \in serving' : q[2] # 2
    <3> SUFFICES ASSUME NEW q \in serving', q[2] = 2 PROVE FALSE
      OBVIOUS
    <3>1. q \in serving /\ q # r /\ q \in RpcRequests /\ r \in RpcRequests
      BY <1>1 DEF AppTypeOK
    <3>2. q[1] = lock /\ r[1] = lock
      BY <1>7, <3>1, WaitingHolds DEF Owned
    <3> QED
      BY <1>7, <3>1, <3>2 DEF RpcRequests
  <2> QED
    BY <1>3, <1>4, <1>5, <1>6, <2>2, <2>3 DEF Single, NoneServed
<1>8. CASE r[2] # 2
  BY <1>2, <1>3, <1>4, <1>5, <1>6, <1>8 DEF Single
<1> QED
  BY <1>7, <1>8

\* A client sends its request: before its second one, nobody waits.
LEMMA SendStep ==
    ASSUME AppTypeOK, LockHeld, Owned, Single, NEW c \in Clients, Send(c)
    PROVE  Owned' /\ Single'
<1>1. Waiting = {} /\ c \in Clients /\ cpc[c] = "send" /\ lock = c
  BY WaitingHolds DEF Send, LockHeld, Waiting
<1>2. Quiet
  BY <1>1, NobodyWaits
<1>3. UNCHANGED <<serving, out, buf>> /\ inq' = Append(inq, <<c, id[c]>>)
  BY DEF Send, answering
<1>4. id[c] = 2 => c \in Waiting'
  BY DEF Send, ClientGoes, Waiting, AppTypeOK
<1>5. inq \in Seq(RpcRequests) /\ <<c, id[c]>> \in RpcRequests /\ NoTwos(inq)
  BY <1>2 DEF AppTypeOK, RpcRequests, Quiet
<1>6. OneTwo(inq') /\ OwnTwos(inq', Waiting')
  <2> DEFINE e == <<c, id[c]>>
  <2>1. e[1] = c /\ e[2] = id[c] /\ OwnTwos(inq, Waiting')
    BY <1>5, NoTwosIsAll
  <2> HIDE DEF e
  <2> QED
    BY <1>3, <1>4, <1>5, <2>1, AppendLines DEF e
<1>7. NoneServed' /\ NoTwos(out') /\ NoneBuffered'
  BY <1>2, <1>3 DEF Quiet, NoneServed, NoneBuffered
<1>8. /\ OneTwo(out') /\ OwnTwos(out', Waiting')
      /\ \A b \in Clients : OneTwo(buf'[b]) /\ OwnTwos(buf'[b], Waiting')
  BY <1>7, NoTwosIsAll DEF NoneBuffered
<1> QED
  BY <1>6, <1>7, <1>8 DEF Owned, Single, NoneServed

\* A client that waits drops a line, and keeps the others.
LEMMA SkipStep ==
    ASSUME AppTypeOK, BufferHeld, LockHeld, Owned, Single, NEW c \in Clients, Skip(c)
    PROVE  Owned' /\ Single'
<1>1. /\ cpc[c] \in {"wait", "read"} /\ UNCHANGED <<inq, serving>> /\ Waiting' = Waiting
      /\ buf[c] \in Seq(Replies) /\ out \in Seq(Replies) /\ buf \in [Clients -> Seq(Replies)]
      /\ buf[c] = <<>> => out # <<>>
  BY LineIs DEF Skip, AppTypeOK, Waiting, ClientGoes
<1>2. (NoneServed' <=> NoneServed) /\ OneTwo(inq') /\ OwnTwos(inq', Waiting')
  BY <1>1 DEF NoneServed, Owned, Single
<1>3. CASE buf[c] # <<>>
  <2>1. buf' = [buf EXCEPT ![c] = Tail(buf[c])] /\ out' = out
    BY <1>3 DEF Skip
  <2>2. /\ NoTwos(buf[c]) => NoTwos(Tail(buf[c]))
        /\ OneTwo(Tail(buf[c])) /\ OwnTwos(Tail(buf[c]), Waiting)
    BY <1>1, <1>3, TailLines DEF Owned, Single
  <2>3. NoneBuffered => NoneBuffered'
    BY <1>1, <2>1, <2>2 DEF NoneBuffered
  <2>4. \A b \in Clients : OneTwo(buf'[b]) /\ OwnTwos(buf'[b], Waiting)
    BY <1>1, <2>1, <2>2 DEF Owned, Single
  <2>5. Owned'
    BY <1>1, <1>2, <2>1, <2>4 DEF Owned
  <2>6. Single'
    BY <1>1, <1>2, <2>1, <2>3, <2>4 DEF Single
  <2> QED
    BY <2>5, <2>6
<1>4. CASE buf[c] = <<>>
  <2>1. buf' = [buf EXCEPT ![c] = Tail(out)] /\ out' = <<>>
    BY <1>4 DEF Skip
  <2>2. /\ NoTwos(out) => NoTwos(Tail(out))
        /\ OneTwo(Tail(out)) /\ OwnTwos(Tail(out), Waiting)
    BY <1>1, <1>4, TailLines DEF Owned, Single
  <2>3. NoTwos(out) /\ NoneBuffered => NoneBuffered'
    BY <1>1, <2>1, <2>2 DEF NoneBuffered
  <2>4. \A b \in Clients : OneTwo(buf'[b]) /\ OwnTwos(buf'[b], Waiting)
    BY <1>1, <2>1, <2>2 DEF Owned, Single
  <2>5. NoTwos(out') /\ OneTwo(out') /\ OwnTwos(out', Waiting)
    BY <2>1, EmptyLines, NoTwosIsAll
  <2>6. Owned'
    BY <1>1, <1>2, <2>4, <2>5 DEF Owned
  <2>7. Single'
    BY <1>1, <1>2, <2>3, <2>4, <2>5 DEF Single
  <2> QED
    BY <2>6, <2>7
<1> QED
  BY <1>3, <1>4

\* A client that takes its second reply takes its own, and it was the only one.
LEMMA TakeSecond ==
    ASSUME AppTypeOK, LockHeld, BufferHeld, Owned, Single, NEW c \in Clients, Take(c), id[c] = 2
    PROVE  Quiet' /\ Line(c)[1] = c
<1>1. /\ cpc[c] \in {"wait", "read"} /\ Line(c)[2] = 2 /\ serving' = serving
      /\ buf' = [buf EXCEPT ![c] = <<>>] /\ inq' \in {inq, <<>>}
      /\ out' = IF up /\ buf[c] # <<>> THEN out ELSE <<>>
  BY DEF Take, Close, Drops
<1>2. /\ Line(c) = IF buf[c] # <<>> THEN Head(buf[c]) ELSE Head(out)
      /\ buf[c] = <<>> => out # <<>>
      /\ buf[c] \in Seq(Replies) /\ out \in Seq(Replies)
  BY LineIs DEF Take, AppTypeOK
<1>3. \A b \in Clients \ {c} : buf[b] = <<>>
  BY <1>1 DEF BufferHeld, LockHeld
<1>4. NoneBuffered'
  BY <1>1, <1>3, EmptyLines DEF NoneBuffered, AppTypeOK
<1>5. CASE buf[c] # <<>>
  <2>1. Line(c)[1] \in Waiting /\ ~NoTwos(buf[c])
    BY <1>1, <1>2, <1>5, TailLines DEF Owned
  <2>2. NoTwos(inq) /\ NoneServed /\ NoTwos(out)
    BY <2>1 DEF Single, NoneBuffered
  <2> QED
    BY <1>1, <1>4, <2>1, <2>2, WaitingHolds, EmptyLines DEF Quiet, NoneServed, LockHeld
<1>6. CASE buf[c] = <<>>
  <2>1. Line(c)[1] \in Waiting /\ ~NoTwos(out)
    BY <1>1, <1>2, <1>6, TailLines DEF Owned
  <2>2. NoTwos(inq) /\ NoneServed
    BY <2>1 DEF Single
  <2> QED
    BY <1>1, <1>4, <1>6, <2>1, <2>2, WaitingHolds, EmptyLines DEF Quiet, NoneServed, LockHeld
<1> QED
  BY <1>5, <1>6

\* A client that ends a request, and leaves no second one behind, finds none under way
\* or takes the last.
LEMMA CloseStep ==
    ASSUME AppTypeOK, LockHeld, BufferHeld, NobodyLeft, NEW c \in Clients, gaveUp' = {},
           SendFails(c) \/ Take(c) \/ Deadline(c) \/ (Kill(c) /\ lock = c)
    PROVE  Owned' /\ Single'
<1> USE DEF AppTypeOK
<1>1. Owned /\ Single
  <2>1. gaveUp \subseteq gaveUp'
    BY DEF SendFails, Take, Deadline, Kill, history
  <2> QED
    BY <2>1 DEF NobodyLeft
<1>2. CASE Take(c) /\ id[c] = 2
  BY <1>1, <1>2, TakeSecond, QuietIsAllNext
<1>3. CASE ~(Take(c) /\ id[c] = 2)
  <2>1. lock = c /\ ~(cpc[c] \in {"wait", "read"} /\ id[c] = 2)
    BY <1>3 DEF SendFails, Take, Deadline, Kill, LockHeld, Ids
  <2>2. Quiet
    BY <1>1, <2>1, WaitingHolds, NobodyWaits DEF Waiting
  <2>3. Close(c) /\ serving' = serving /\ out' \in {out, <<>>}
    BY <2>1 DEF SendFails, Take, Deadline, Kill, Drops
  <2>4. inq' \in {inq, <<>>} /\ \A b \in Clients : buf'[b] \in {buf[b], <<>>}
    BY <2>3 DEF Close
  <2> QED
    BY <2>2, <2>3, <2>4, QuietStays, QuietIsAllNext
<1> QED
  BY <1>2, <1>3

\* Every step keeps second requests and their replies to those who wait for them.
LEMMA LeftStep ==
    ASSUME AppTypeOK, LockHeld, BufferHeld, NobodyLeft, [AppNext]_appVars
    PROVE  NobodyLeft'
<1> SUFFICES ASSUME gaveUp' = {} PROVE Owned' /\ Single'
  BY DEF NobodyLeft
<1> USE DEF ClientGoes, pipes, answering, sessions, history
<1>1. gaveUp = {}
  BY DEF AppNext, Client, appVars, StopServer, StartServer, Accept, BeginAnswer, Reply, BeginRepair, Lock,
         Open, Send, SendFails, Block, Unblock, Skip, Take, Deadline, Kill, NoSession, OldSession,
         UpdateLastUsed, SetSession, StayIdle
<1>2. Owned /\ Single
  BY <1>1 DEF NobodyLeft
<1>3. CASE StopServer
  <2>1. serving' = {} /\ buf' = buf /\ Waiting' = Waiting
    BY <1>3 DEF StopServer, Waiting
  <2>2. CASE UNCHANGED <<inq, out>>
    BY <1>2, <2>1, <2>2 DEF Owned, Single, NoneServed, NoneBuffered
  <2>3. CASE inq' = <<>> /\ out' = <<>>
    <3>1. \A s, W : NoTwos(s) => OneTwo(s) /\ OwnTwos(s, W)
      BY NoTwosIsAll
    <3>2. NoTwos(inq') /\ NoTwos(out')
      BY <2>3, EmptyLines
    <3> QED
      BY <1>2, <2>1, <3>1, <3>2 DEF Owned, Single, NoneServed, NoneBuffered
  <2> QED
    BY <1>3, <2>2, <2>3 DEF StopServer
<1>4. Accept \/ Reply => Owned' /\ Single'
  BY <1>2, AcceptStep, ReplyStep
<1>5. ASSUME NEW c \in Clients, Send(c) \/ Skip(c) PROVE Owned' /\ Single'
  BY <1>2, <1>5, SendStep, SkipStep
<1>6. ASSUME NEW c \in Clients, SendFails(c) \/ Take(c) \/ Deadline(c) \/ (Kill(c) /\ lock = c)
      PROVE  Owned' /\ Single'
  BY <1>6, CloseStep
<1>7. ASSUME NEW c \in Clients, Kill(c), lock # c PROVE Owned' /\ Single'
  <2>1. UNCHANGED <<inq, out, buf, serving>>
    BY <1>7 DEF Kill
  <2>2. c \notin Waiting
    BY <1>7, WaitingHolds
  <2>3. Waiting \subseteq Waiting'
    BY <1>7, <2>2 DEF Kill, Waiting, AppTypeOK
  <2> QED
    BY <1>2, <2>1, <2>3, LinesStay
<1>8. ASSUME NEW c \in Clients,
             \/ BeginRepair(c) \/ Lock(c) \/ Open(c)
             \/ NoSession(c) \/ OldSession(c) \/ UpdateLastUsed(c) \/ SetSession(c)
      PROVE  Owned' /\ Single'
  <2>1. UNCHANGED <<inq, out, buf, serving>>
    BY <1>8 DEF BeginRepair, Lock, Open, NoSession, OldSession, UpdateLastUsed, SetSession
  <2>2. /\ cpc[c] \notin {"wait", "read"}
        /\ \A b \in Clients \ {c} : cpc'[b] = cpc[b] /\ id'[b] = id[b]
    BY <1>8 DEF BeginRepair, Lock, Open, NoSession, OldSession, UpdateLastUsed, SetSession, AppTypeOK
  <2>3. Waiting \subseteq Waiting'
    BY <2>2 DEF Waiting
  <2> QED
    BY <1>2, <2>1, <2>3, LinesStay
<1>9. StartServer \/ (\E a \in Apps : StayIdle(a)) \/ UNCHANGED appVars =>
          UNCHANGED <<inq, out, buf, serving, cpc, id>>
  BY DEF StartServer, StayIdle, appVars
<1>10. CASE UNCHANGED <<inq, out, buf, serving, cpc, id>>
  BY <1>2, <1>10, LinesStay DEF Waiting
<1>11. BeginAnswer => UNCHANGED <<inq, out, buf, serving, cpc, id>>
  BY DEF BeginAnswer
<1>12. ASSUME NEW c \in Clients, Block(c) \/ Unblock(c) PROVE Owned' /\ Single'
  <2>1. UNCHANGED <<inq, out, buf, serving>> /\ Waiting' = Waiting
    BY <1>12 DEF Block, Unblock, Waiting, AppTypeOK
  <2> QED
    BY <1>2, <2>1, LinesStay
<1> QED
  BY <1>3, <1>4, <1>5, <1>6, <1>7, <1>8, <1>9, <1>10, <1>11, <1>12 DEF AppNext, Client

\* Every step keeps the replies that were taken to those of their takers.
LEMMA GotStep ==
    ASSUME AppTypeOK, LockHeld, BufferHeld, NobodyLeft, OwnOrAbandoned, [AppNext]_appVars
    PROVE  OwnOrAbandoned'
<1> USE DEF pipes, answering, sessions, history
<1>1. gaveUp \subseteq gaveUp'
  BY DEF AppNext, Client, appVars, StopServer, StartServer, Accept, BeginAnswer, Reply, BeginRepair, Lock,
         Open, Send, SendFails, Block, Unblock, Skip, Take, Deadline, Kill, NoSession, OldSession,
         UpdateLastUsed, SetSession, StayIdle
<1>2. CASE got' = got
  BY <1>1, <1>2 DEF OwnOrAbandoned
<1>3. ASSUME NEW c \in Clients, Take(c), id[c] = 2 PROVE OwnOrAbandoned'
  <2>1. gaveUp = {} => Line(c)[1] = c
    BY <1>3, TakeSecond DEF NobodyLeft
  <2>2. got' = [got EXCEPT ![c] = Line(c)] /\ Line(c)[2] = 2
    BY <1>3 DEF Take
  <2> QED
    BY <1>1, <2>1, <2>2 DEF OwnOrAbandoned, AppTypeOK
<1>4. got' = got \/ \E c \in Clients : Take(c) /\ id[c] = 2
  BY DEF AppNext, Client, appVars, StopServer, StartServer, Accept, BeginAnswer, Reply, BeginRepair, Lock,
         Open, Send, SendFails, Block, Unblock, Skip, Take, Deadline, Kill, NoSession, OldSession,
         UpdateLastUsed, SetSession, StayIdle
<1> QED
  BY <1>2, <1>3, <1>4
-----------------------------------------------------------------------------
(* The theorems.                                                           *)

\* At the start nothing is under way.
LEMMA InitInv == AppInit => ServerInv
<1> SUFFICES ASSUME AppInit PROVE ServerInv
  OBVIOUS
<1> USE DEF AppInit
<1>1. AppTypeOK
  BY EmptySeq, ServerBoundsAssumption DEF AppTypeOK, Ids
<1>2. LockHeld /\ BufferHeld
  BY NobodyAssumption DEF LockHeld, BufferHeld
<1>3. IdleIsUnused /\ OneSession
  BY DEF IdleIsUnused, OneSession, Setters
<1>4. Quiet
  BY EmptyLines DEF Quiet, NoneServed, NoneBuffered
<1>5. NobodyLeft /\ OwnOrAbandoned
  BY <1>4, QuietIsAll DEF NobodyLeft, OwnOrAbandoned
<1> QED
  BY <1>1, <1>2, <1>3, <1>5 DEF ServerInv

\* The invariant holds in every state of clients and server.
THEOREM ServerInvCorrect == AppSpec => []ServerInv
<1>1. ServerInv /\ [AppNext]_appVars => ServerInv'
  BY TypeStep, LockStep, SessionStep, LeftStep, GotStep DEF ServerInv
<1> QED
  BY <1>1, InitInv, PTL DEF AppSpec

\* Clients, pipes and sessions keep their types.
THEOREM TypeCorrect == AppSpec => []AppTypeOK
<1>1. ServerInv => AppTypeOK
  BY DEF ServerInv
<1> QED
  BY <1>1, ServerInvCorrect, PTL

\* However many clients share the server, run into deadlines or are killed, and however
\* often it ends: the reply that ends a command is a reply to a command, and to its own
\* until a client has left a command behind.
THEOREM OwnOrAbandonedCorrect == AppSpec => []OwnOrAbandoned
<1>1. ServerInv => OwnOrAbandoned
  BY DEF ServerInv
<1> QED
  BY <1>1, ServerInvCorrect, PTL

\* Between two idle times the clients of an app use one session, unless two of them
\* made one at once.
THEOREM SessionKeptCorrect == AppSpec => []SessionKept
<1>1. ServerInv => SessionKept
  <2> SUFFICES ASSUME ServerInv, NEW a \in Apps, a \notin mixed PROVE Cardinality(users[a]) <= 1
    BY DEF SessionKept
  <2>1. users[a] = {} \/ users[a] = {registry[a]}
    BY DEF ServerInv, OneSession
  <2>2. Cardinality({}) = 0 /\ Cardinality({registry[a]}) = 1
    BY FS_EmptySet, FS_Singleton
  <2> QED
    BY <2>1, <2>2
<1> QED
  BY <1>1, ServerInvCorrect, PTL
=============================================================================
