---------------------------- MODULE SignIn_proofs ----------------------------
(***************************************************************************)
(* Proofs about the sign-in servers, for any accounts and any number of    *)
(* connections: what the run sign_in checks of the seven programs with two *)
(* of each.                                                                *)
(***************************************************************************)
EXTENDS MCSignIn, SequencesExt, FiniteSetTheorems, SequenceTheorems, WellFoundedInduction,
        TLAPS

Told == [named : Users \cup {None}, first : Users \cup {None}, in : BOOLEAN, tries : 0..MaxTries]
Ghost == [struck : SUBSET Users, forgotten : SUBSET Users, cut : BOOLEAN, robbed : SUBSET Conns]
Files == [Users -> Statuses] \cup {Truncated}
AllActive == [u \in Users |-> "active"]

\* Those who must not be let in.
Held == ghost.struck \ ghost.forgotten

\* What all servers have in common: a client that has no connection knows nothing, and
\* a process that has ended has no connections.
Common ==
  /\ TypeOK /\ ghost \in Ghost
  /\ \A c \in Conns : conn[c] # "open" => told[c] = Newcomer
  /\ ~up => Open = {}

\* A session and what its client knows of it, at the servers with a session struct.
Agree(t, s) ==
  /\ s.st = "anon" => t.named = None
  /\ s.st # "anon" => t.named = s.user /\ s.user \in Users
  /\ t.in <=> s.st = "in"
  /\ t.tries <= s.failed

SessionStructs ==
  [user : Users \cup {None}, st : {"anon", "named", "in"}, failed : 0..4]

\* week5/ex1_server.c: a client's session is of the user it was first told "00" for.
TurnsSessions ==
  [user : Users, status : {"active", "blocked"}, st : {"anon", "named", "in"}, fails : Nat,
   addr : Conns]

TurnsInv ==
  /\ up /\ file = AllActive /\ ghost.struck = {}
  /\ sess \in Seq(TurnsSessions)
  /\ \A i, j \in DOMAIN sess : sess[i].addr = sess[j].addr => i = j
  /\ \A c \in Conns : told[c].tries <= 3
  /\ \A i \in DOMAIN sess : conn[sess[i].addr] # "new"
  /\ \A i \in DOMAIN sess : conn[sess[i].addr] = "open" =>
       told[sess[i].addr].first = sess[i].user /\ told[sess[i].addr].tries <= sess[i].fails
  /\ \A c \in Conns : (\A i \in DOMAIN sess : sess[i].addr # c) =>
       told[c].first = None /\ told[c].tries = 0

\* week5/Untitled Folder: one client at a time, and count is the user it has named.
SingleInv ==
  /\ file = AllActive /\ ghost.struck = {} /\ (up => users = AllActive)
  /\ \A c \in Conns : local[c] \in Users \cup {None}
  /\ \A c, d \in Open : c = d
  /\ \A c \in Conns : conn[c] = "open" => told[c].named \in {None, Single!count}

\* week6/ex2: one client at a time, and the one session is its.
LayersInv ==
  /\ sess \in Seq(SessionStructs)
  /\ \A c \in Conns : conn[c] # "hung"
  /\ \A c, d \in Open : c = d
  /\ Open = {} => sess = <<>>
  /\ \A c \in Open : sess # <<>> /\ Agree(told[c], sess[1])
  /\ \A u \in Users : file[u] # "lost" /\ file # Truncated /\ (up => users[u] # "lost")
  /\ \A u \in Held : IF up THEN users[u] = "blocked" ELSE file[u] = "blocked"

\* week6/ex22: all clients share the first session.
SharedSessions == [user : Users \cup {None}, st : {"anon", "named", "in"}, failed : Nat]

SharedInv ==
  /\ file = AllActive
  /\ sess \in Seq(SharedSessions)
  /\ \A c \in Conns : conn[c] = "open" => sess # <<>>
  /\ \A u \in Held : up /\ users[u] = "blocked"

\* week6/ex2_fix: a session belongs to one client, which has none if it has been robbed.
SocketSessions ==
  [user : Users \cup {None}, st : {"anon", "named", "in"}, failed : 0..4, sock : Conns,
   counted : BOOLEAN]
SocketThreads == [step : {"looking", "writing", "counting", "ready"}, place : Nat]

Sessionless(c) == \A i \in DOMAIN sess : sess[i].sock # c

SocketOwn(c) ==
  /\ conn[c] = "new" => c \notin ghost.robbed /\ Sessionless(c)
  /\ conn[c] = "open" =>
       /\ local[c] \in SocketThreads
       /\ local[c].step # "ready" => told[c] = Newcomer
       /\ local[c].step \in {"looking", "writing"} => c \notin ghost.robbed /\ Sessionless(c)
       /\ local[c].step = "writing" => local[c].place \in 1..(Len(sess) + 1)
       /\ local[c].step \in {"counting", "ready"} =>
            IF c \in ghost.robbed THEN Sessionless(c)
            ELSE /\ local[c].place \in DOMAIN sess /\ sess[local[c].place].sock = c
                 /\ local[c].step = "ready" => sess[local[c].place].counted
                 /\ Agree(told[c], sess[local[c].place])

SocketsInv ==
  /\ file = AllActive
  /\ sess \in Seq(SocketSessions)
  /\ \A i, j \in DOMAIN sess : sess[i].sock = sess[j].sock => i = j
  /\ local \in [Conns -> SocketThreads \cup {None}]
  /\ \A c \in Conns : SocketOwn(c)
  /\ \A u \in Held : up /\ users[u] = "blocked"

\* week6/duc: count is the user the client has named.  While account.txt is empty a thread
\* is writing it.
SlotSessions == [user : Users \cup {None}, st : {"anon", "named", "in"}]
SlotThreads ==
  [step : {"reading", "ready", "writing"}, buf : Files \cup {None}, known : SUBSET Users,
   slot : Nat, count : Users \cup {None}, n : BOOLEAN, wrong : Nat]

SlotOwn(c) ==
  conn[c] = "open" =>
    /\ local[c] \in SlotThreads
    /\ sess # <<>> /\ local[c].slot <= Len(sess)
    /\ told[c].named # None => told[c].named = local[c].count /\ local[c].slot # 0
    /\ local[c].step = "reading" =>
         /\ local[c].buf \in Files
         /\ \A u \in Held : local[c].buf[u] # "active"
         /\ ghost.cut \/ \A u \in Users : local[c].buf[u] \in {"active", "blocked"}
    /\ local[c].step # "reading" => ghost.cut \/ local[c].known = Users

SlotsInv ==
  /\ sess \in Seq(SlotSessions)
  /\ local \in [Conns -> SlotThreads \cup {None}]
  /\ \A c \in Conns : SlotOwn(c)
  /\ file = Truncated => \E c \in Conns : conn[c] = "open" /\ local[c].step = "writing"
  /\ ghost.cut \/ \A u \in Users : file[u] # "lost" /\ (up => users[u] # "lost")
  /\ \A u \in Held : users[u] # "active" /\ file[u] # "active"

\* i is where findSessByConnfd() finds a session for the descriptor f in the table s.
FirstOf(s, f, i) ==
  /\ i \in DOMAIN s /\ s[i].fd = f
  /\ \A j \in DOMAIN s : s[j].fd = f => i <= j

\* week6/ex1_server.c: the session that is found for a client, inherited or its own, has
\* counted each of the client's tries, and is of the user the client has named, if any.
ThreadSessions ==
  [user : Users, status : {"active", "blocked"}, st : {"named", "in"}, fails : Nat, fd : Nat,
   fresh : BOOLEAN]
ConnThreads ==
  [fd : Threads!Fds, step : {"reading", "ready", "writing"}, buf : Files \cup {None}]

Suits(s, f, t) ==
  /\ \A i \in DOMAIN s : FirstOf(s, f, i) =>
       /\ t.tries <= s[i].fails
       /\ s[i].st = "named" => t.named \in {None, s[i].user}
  /\ (\A i \in DOMAIN s : s[i].fd # f) => t.tries = 0

ThreadOwn(c) ==
  conn[c] = "open" =>
    /\ local[c] \in ConnThreads
    /\ local[c].step = "reading" =>
         /\ local[c].buf \in Files
         /\ \A u \in Held : local[c].buf[u] # "active"
         /\ ghost.cut \/ \A u \in Users : local[c].buf[u] \in {"active", "blocked"}
    /\ Suits(sess, local[c].fd, told[c])

ThreadsInv ==
  /\ up
  /\ sess \in Seq(ThreadSessions)
  /\ local \in [Conns -> ConnThreads \cup {None}]
  /\ \A c \in Conns : conn[c] # "hung" /\ told[c].tries <= 3 /\ ThreadOwn(c)
  /\ \A c, d \in Open : local[c].fd = local[d].fd => c = d
  /\ ghost.cut \/ \A u \in Users : file[u] # "lost" /\ users[u] # "lost"
  /\ \A u \in Held : users[u] # "active" /\ file[u] # "active"

SignInInv ==
  /\ Common
  /\ program = "threads" => ThreadsInv
  /\ program = "turns"   => TurnsInv
  /\ program = "slots"   => SlotsInv
  /\ program = "single"  => SingleInv
  /\ program = "layers"  => LayersInv
  /\ program = "shared"  => SharedInv
  /\ program = "sockets" => SocketsInv
----------------------------------------------------------------------------
(* What any server's step does to what the servers share. *)

\* What the three properties about answers ask of one answer.
Deserved(c, op, arg, code) ==
  /\ code = "10" /\ program # "shared" =>
       IF program = "turns" THEN arg = told[c].first
       ELSE \/ arg = told[c].named
            \/ told[c].named = None /\ program \in {"threads", "slots", "single"}
  /\ op = "PASS" /\ program \in {"slots", "layers", "sockets"} /\ c \notin ghost.robbed
       /\ arg \in Users \cap {told[c].named} /\ ~told[c].in => code = "10"
  /\ op = "USER" /\ code = "00" => arg \notin Held

Answered == said' = said \/ Deserved(said'.conn, said'.op, said'.arg, said'.code)

LEMMA SilenceAnswers == ASSUME said' = Silence PROVE Answered /\ said'.code \in Codes
  BY DEF Answered, Deserved, Silence, Codes

LEMMA SaysDeserved ==
  ASSUME NEW c, NEW op, NEW arg, NEW code \in Codes, Says(c, op, arg, code),
         Deserved(c, op, arg, code)
  PROVE  Answered /\ said'.code \in Codes
  <1>1. CASE said' = Silence
    BY <1>1, SilenceAnswers
  <1>2. CASE said' = [conn |-> c, op |-> op, arg |-> arg, code |-> code]
    BY <1>2 DEF Answered
  <1> QED
    BY <1>1, <1>2 DEF Says

\* What a client learns, by the code it is told.
LEMMA LearnsUSER ==
  ASSUME NEW t \in Told, NEW u \in Users
  PROVE  /\ Learns(t, "USER", u, "00") \in Told
         /\ Learns(t, "USER", u, "00").named = u /\ ~Learns(t, "USER", u, "00").in
         /\ Learns(t, "USER", u, "00").tries = t.tries
         /\ Learns(t, "USER", u, "00").first =
              IF program = "turns" /\ t.first = None THEN u ELSE t.first
  BY DEF Learns, Told

LEMMA LearnsIn ==
  ASSUME NEW t \in Told, NEW p
  PROVE  /\ Learns(t, "PASS", p, "10") \in Told
         /\ Learns(t, "PASS", p, "10").named = t.named
         /\ Learns(t, "PASS", p, "10").in <=> program \in {"threads", "layers", "sockets"}
         /\ Learns(t, "PASS", p, "10").tries = 0
         /\ Learns(t, "PASS", p, "10").first = t.first
  <1> DEFINE in == program \in {"threads", "layers", "sockets"}
  <1>1. Learns(t, "PASS", p, "10") = [t EXCEPT !.in = in, !.tries = 0]
    BY DEF Learns
  <1>2. in \in BOOLEAN /\ 0 \in 0..MaxTries
    BY DEF MaxTries
  <1> HIDE DEF in
  <1>3. [t EXCEPT !.in = in, !.tries = 0] \in Told
    BY <1>2 DEF Told
  <1> QED
    BY <1>1, <1>3 DEF in, Told

LEMMA LearnsOut ==
  ASSUME NEW t \in Told, NEW op, NEW arg, NEW code, code = "20" \/ (op = "PASS" /\ code = "31")
  PROVE  /\ Learns(t, op, arg, code) \in Told
         /\ Learns(t, op, arg, code).named = None /\ ~Learns(t, op, arg, code).in
         /\ Learns(t, op, arg, code).tries = 0
         /\ Learns(t, op, arg, code).first = t.first
  <1>1. Learns(t, op, arg, code) = [t EXCEPT !.named = None, !.in = FALSE, !.tries = 0]
    BY DEF Learns
  <1>2. 0 \in 0..MaxTries
    BY DEF MaxTries
  <1> QED
    BY <1>1, <1>2 DEF Told

LEMMA LearnsWrong ==
  ASSUME NEW t \in Told, NEW p
  PROVE  /\ Learns(t, "PASS", p, "11") \in Told
         /\ Learns(t, "PASS", p, "11").named = t.named /\ Learns(t, "PASS", p, "11").in = t.in
         /\ Learns(t, "PASS", p, "11").first = t.first
         /\ Learns(t, "PASS", p, "11").tries \in {t.tries, t.tries + 1}
         /\ t.named = None \/ t.in => Learns(t, "PASS", p, "11").tries = t.tries
  <1>1. \/ Learns(t, "PASS", p, "11") = t
        \/ /\ t.named # None /\ ~t.in /\ t.tries < MaxTries
           /\ Learns(t, "PASS", p, "11") = [t EXCEPT !.tries = @ + 1]
    BY DEF Learns
  <1> QED
    BY <1>1 DEF Told, MaxTries

LEMMA LearnsNothing ==
  ASSUME NEW t, NEW op, NEW arg,
         NEW code, code \in {"01", "12", "21", "41", "sequence"} \/ (op # "PASS" /\ code = "31")
  PROVE  Learns(t, op, arg, code) = t
  BY DEF Learns

Kinds == {"new", "open", "hung", "closed"}

LEMMA CommonTypes ==
  ASSUME Common
  PROVE  /\ program \in Programs /\ up \in BOOLEAN /\ file \in Files
         /\ users \in [Users -> Statuses] /\ conn \in [Conns -> Kinds]
         /\ told \in [Conns -> Told] /\ ghost \in Ghost /\ said.code \in Codes
         /\ Held \in SUBSET Users
  BY DEF Common, TypeOK, Told, Files, Kinds, Ghost, Held

LEMMA TypesKept ==
  ASSUME program' \in Programs, up' \in BOOLEAN, file' \in Files,
         users' \in [Users -> Statuses], conn' \in [Conns -> Kinds], said'.code \in Codes,
         told' \in [Conns -> Told], ghost' \in Ghost
  PROVE  TypeOK'
  BY DEF TypeOK, Told, Files, Kinds, Ghost

LEMMA NewcomerIsTold == Newcomer \in Told
  <1>1. 0 \in 0..MaxTries
    BY DEF MaxTries
  <1> QED
    BY <1>1 DEF Newcomer, Told

\* An answer: the rest of what the servers share is left to the server.
LEMMA ReplyCommon ==
  ASSUME Common, up, NEW c \in Conns, conn[c] = "open", NEW op, NEW arg, NEW code \in Codes,
         Reply(c, op, arg, code), Deserved(c, op, arg, code),
         Learns(told[c], op, arg, code) \in Told,
         UNCHANGED <<program, up, conn>>,
         file' \in Files, users' \in [Users -> Statuses], ghost' \in Ghost
  PROVE  /\ Common' /\ Answered
         /\ told'[c] = Learns(told[c], op, arg, code)
         /\ \A d \in Conns \ {c} : told'[d] = told[d]
  <1>0. told \in [Conns -> Told] /\ conn \in [Conns -> Kinds] /\ program \in Programs
    BY CommonTypes
  <1>1. told' = [told EXCEPT ![c] = Learns(told[c], op, arg, code)]
    BY DEF Reply
  <1>2. /\ told' \in [Conns -> Told] /\ told'[c] = Learns(told[c], op, arg, code)
        /\ \A d \in Conns \ {c} : told'[d] = told[d]
    BY <1>0, <1>1
  <1>3. Answered /\ said'.code \in Codes
    BY SaysDeserved DEF Reply
  <1>4. TypeOK'
    BY <1>0, <1>2, <1>3 DEF TypeOK, Told, Files, Kinds, Ghost, Common
  <1> QED
    BY <1>2, <1>3, <1>4 DEF Common

\* A step of which the clients hear nothing.
LEMMA QuietCommon ==
  ASSUME Common, up, UNCHANGED <<program, up, said, told>>,
         file' \in Files, users' \in [Users -> Statuses], ghost' \in Ghost,
         conn' = conn \/ \E c \in Conns : Connect(c)
  PROVE  Common' /\ Answered
  <1>0. conn \in [Conns -> Kinds]
    BY CommonTypes
  <1>1. conn' \in [Conns -> Kinds] /\ \A c \in Conns : conn'[c] # "open" => conn[c] # "open"
    BY <1>0 DEF Connect, Kinds
  <1> QED
    BY <1>1 DEF Common, TypeOK, Files, Kinds, Ghost, Answered

\* A client leaves, or is left without an answer.
LEMMA GoneCommon ==
  ASSUME Common, up, NEW c \in Conns,
         \/ conn' = [conn EXCEPT ![c] = "closed"]
         \/ conn' = [conn EXCEPT ![c] = "hung"],
         told' = [told EXCEPT ![c] = Newcomer], Answered, said'.code \in Codes,
         UNCHANGED <<program, up>>,
         file' \in Files, users' \in [Users -> Statuses], ghost' \in Ghost
  PROVE  /\ Common'
         /\ told'[c] = Newcomer /\ \A d \in Conns \ {c} : told'[d] = told[d]
         /\ conn'[c] \in {"closed", "hung"} /\ \A d \in Conns \ {c} : conn'[d] = conn[d]
  <1>0. told \in [Conns -> Told] /\ conn \in [Conns -> Kinds]
    BY CommonTypes
  <1>1. /\ told' \in [Conns -> Told] /\ told'[c] = Newcomer
        /\ \A d \in Conns \ {c} : told'[d] = told[d]
    BY <1>0, NewcomerIsTold
  <1>2. /\ conn' \in [Conns -> Kinds] /\ conn'[c] \in {"closed", "hung"}
        /\ \A d \in Conns \ {c} : conn'[d] = conn[d]
    BY <1>0 DEF Kinds
  <1>3. TypeOK'
    BY <1>1, <1>2, TypesKept, CommonTypes
  <1> QED
    BY <1>1, <1>2, <1>3 DEF Common

\* The process ends.
LEMMA ExitCommon ==
  ASSUME Common, Exit, UNCHANGED program, file' \in Files, ghost' \in Ghost
  PROVE  Common' /\ Answered /\ ~up' /\ Open' = {}
  <1>0. conn \in [Conns -> Kinds]
    BY CommonTypes
  <1>1. /\ conn' \in [Conns -> Kinds] /\ \A c \in Conns : conn'[c] \notin {"open", "hung"}
    BY <1>0 DEF Exit, Open, Kinds
  <1>2. told' = [c \in Conns |-> Newcomer]
    BY DEF Exit
  <1>3. told' \in [Conns -> Told] /\ \A c \in Conns : told'[c] = Newcomer
    BY <1>2, NewcomerIsTold
  <1>4. users' \in [Users -> Statuses]
    BY DEF Exit, AllLost, Statuses
  <1>5. Answered /\ said'.code \in Codes
    BY SilenceAnswers DEF Exit
  <1>6. up' = FALSE
    BY DEF Exit
  <1>7. Open' = {}
    BY <1>1 DEF Open
  <1>8. TypeOK'
    BY <1>1, <1>3, <1>4, <1>5, <1>6, TypesKept, CommonTypes
  <1> QED
    BY <1>3, <1>5, <1>6, <1>7, <1>8 DEF Common

\* A session that is written over.
LEMMA SetOne ==
  ASSUME NEW S, NEW s \in Seq(S), NEW i \in DOMAIN s, NEW r \in S, NEW z,
         z = [s EXCEPT ![i] = r]
  PROVE  /\ z \in Seq(S) /\ Len(z) = Len(s) /\ DOMAIN z = DOMAIN s
         /\ z[i] = r /\ \A j \in DOMAIN s : j # i => z[j] = s[j]
  OBVIOUS

\* A session more.
LEMMA AddOne ==
  ASSUME NEW S, NEW s \in Seq(S), NEW r \in S, NEW z, z = Append(s, r)
  PROVE  /\ z \in Seq(S) /\ Len(z) = Len(s) + 1 /\ DOMAIN z = DOMAIN s \cup {Len(s) + 1}
         /\ Len(s) + 1 \notin DOMAIN s
         /\ z[Len(s) + 1] = r /\ \A j \in DOMAIN s : z[j] = s[j]
  OBVIOUS

LEMMA Elements == ASSUME NEW S, NEW s \in Seq(S) PROVE \A j \in DOMAIN s : s[j] \in S
  OBVIOUS

\* A user is blocked in memory, and must not be let in from now on.
LEMMA StrikeHeld ==
  ASSUME ghost \in Ghost, users \in [Users -> Statuses], NEW S \in SUBSET Users,
         ghost' = [ghost EXCEPT !.struck = @ \cup S, !.forgotten = @ \ S],
         users' = [u \in Users |-> IF u \in S THEN "blocked" ELSE users[u]],
         \A u \in Held : users[u] = "blocked"
  PROVE  /\ ghost' \in Ghost /\ ghost'.robbed = ghost.robbed
         /\ users' \in [Users -> Statuses]
         /\ \A u \in Held' : users'[u] = "blocked"
  <1>1. /\ ghost' \in Ghost /\ ghost'.robbed = ghost.robbed
        /\ ghost'.struck = ghost.struck \cup S /\ ghost'.forgotten = ghost.forgotten \ S
    BY DEF Ghost
  <1>2. users' \in [Users -> Statuses]
    BY DEF Statuses
  <1>3. \A u \in Held' : u \in Users /\ (u \in S \/ u \in Held)
    BY <1>1 DEF Held, Ghost
  <1> QED
    BY <1>1, <1>2, <1>3

\* The memory is gone, and with it every block that was in memory only.
LEMMA ForgetAll ==
  ASSUME ghost \in Ghost, ghost' = [ghost EXCEPT !.forgotten = ghost.struck]
  PROVE  ghost' \in Ghost /\ Held' = {} /\ ghost'.robbed = ghost.robbed
  BY DEF Ghost, Held
----------------------------------------------------------------------------
(* week5/ex1_server.c. *)

\* Each program has what the servers share as its own; it is the same.
LEMMA TurnsShares ==
  /\ Turns!Runs("turns") <=> program = "turns" /\ up
  /\ \A c, op, arg, code : Turns!Reply(c, op, arg, code) <=> Reply(c, op, arg, code)
  /\ \A c : (Turns!Connect(c) <=> Connect(c)) /\ (Turns!Leaves(c) <=> Leaves(c))
  /\ Turns!Open = Open
  <1>1. Turns!Runs("turns") <=> program = "turns" /\ up
    BY DEF Turns!Runs
  <1>2. \A t, op, arg, code : Turns!Learns(t, op, arg, code) = Learns(t, op, arg, code)
    BY DEF Turns!Learns, Learns, Turns!Limit, Limit, Turns!MaxTries, MaxTries
  <1>3. \A c, op, arg, code : Turns!Says(c, op, arg, code) <=> Says(c, op, arg, code)
    BY DEF Turns!Says, Says, Turns!Silence, Silence
  <1>4. \A c, op, arg, code : Turns!Reply(c, op, arg, code) <=> Reply(c, op, arg, code)
    BY <1>2, <1>3 DEF Turns!Reply, Reply
  <1>5. \A c : (Turns!Connect(c) <=> Connect(c)) /\ (Turns!Leaves(c) <=> Leaves(c))
    BY DEF Turns!Connect, Connect, Turns!Leaves, Leaves, Turns!Newcomer, Newcomer
  <1>6. Turns!Open = Open
    BY DEF Turns!Open, Open
  <1> QED
    BY <1>1, <1>4, <1>5, <1>6

LEMMA TurnsElements ==
  ASSUME TurnsInv
  PROVE  \A j \in DOMAIN sess : sess[j] \in TurnsSessions /\ sess[j].addr \in Conns
  <1>1. \A j \in DOMAIN sess : sess[j] \in TurnsSessions
    BY Elements DEF TurnsInv
  <1> QED
    BY <1>1 DEF TurnsSessions

LEMMA TurnsFinds ==
  ASSUME TurnsInv, NEW c \in Conns, NEW pos, pos = Turns!findSessByAddr(c)
  PROVE  \/ pos = 0 /\ \A i \in DOMAIN sess : sess[i].addr # c
         \/ pos \in DOMAIN sess /\ pos # 0 /\ sess[pos].addr = c
  <1> DEFINE S == {i \in DOMAIN sess : sess[i].addr = c}
  <1>1. CASE S = {}
    BY <1>1 DEF Turns!findSessByAddr
  <1>2. CASE S # {}
    <2>1. PICK i \in S : TRUE
      BY <1>2
    <2>2. i \in Nat /\ i # 0 /\ sess \in Seq(TurnsSessions)
      BY <2>1 DEF TurnsInv
    <2>3. \A j \in S : i <= j
      BY <2>1, <2>2 DEF TurnsInv
    <2>4. pos = CHOOSE k \in S : \A j \in S : k <= j
      BY <1>2 DEF Turns!findSessByAddr
    <2> HIDE DEF S
    <2>5. pos \in S
      BY <2>1, <2>3, <2>4
    <2> QED
      BY <2>2, <2>5 DEF S
  <1> QED
    BY <1>1, <1>2

\* What a client's session becomes, and what its client learns.
LEMMA TurnsSet ==
  ASSUME TurnsInv, NEW c \in Conns, UNCHANGED <<up, file, ghost, conn>>,
         \A d \in Conns \ {c} : told'[d] = told[d],
         NEW pos \in DOMAIN sess, sess[pos].addr = c,
         NEW r \in TurnsSessions, sess' = [sess EXCEPT ![pos] = r], r.addr = c,
         told'[c].first = r.user, told'[c].tries <= r.fails, told'[c].tries <= 3
  PROVE  TurnsInv'
  <1>1. /\ sess' \in Seq(TurnsSessions) /\ DOMAIN sess' = DOMAIN sess /\ sess'[pos] = r
        /\ \A j \in DOMAIN sess : j # pos => sess'[j] = sess[j]
    BY SetOne DEF TurnsInv
  <1>2. \A j \in DOMAIN sess : sess'[j].addr = sess[j].addr
    BY <1>1
  <1>3. \A j \in DOMAIN sess : sess[j].addr = c => j = pos
    BY DEF TurnsInv
  <1>4. \A j \in DOMAIN sess : sess[j].addr \in Conns
    BY TurnsElements
  <1> QED
    BY <1>1, <1>2, <1>3, <1>4 DEF TurnsInv

LEMMA TurnsAdd ==
  ASSUME TurnsInv, NEW c \in Conns, conn[c] # "new", UNCHANGED <<up, file, ghost, conn>>,
         \A d \in Conns \ {c} : told'[d] = told[d],
         \A i \in DOMAIN sess : sess[i].addr # c,
         NEW r \in TurnsSessions, sess' = Append(sess, r), r.addr = c,
         told'[c].first = r.user, told'[c].tries <= r.fails, told'[c].tries <= 3
  PROVE  TurnsInv'
  <1>1. /\ sess' \in Seq(TurnsSessions) /\ DOMAIN sess' = DOMAIN sess \cup {Len(sess) + 1}
        /\ Len(sess) + 1 \notin DOMAIN sess
        /\ sess'[Len(sess) + 1] = r /\ \A j \in DOMAIN sess : sess'[j] = sess[j]
    BY AddOne DEF TurnsInv
  <1>2. \A j \in DOMAIN sess : sess[j].addr \in Conns
    BY TurnsElements
  <1> QED
    BY <1>1, <1>2 DEF TurnsInv

LEMMA TurnsNone ==
  ASSUME TurnsInv, NEW c \in Conns, UNCHANGED <<up, file, ghost, conn, sess>>,
         \A d \in Conns \ {c} : told'[d] = told[d],
         told'[c].first = told[c].first, told'[c].tries = told[c].tries
  PROVE  TurnsInv'
  <1>1. \A j \in DOMAIN sess : sess[j].addr \in Conns
    BY TurnsElements
  <1>2. \A d \in Conns : told'[d].first = told[d].first /\ told'[d].tries = told[d].tries
    OBVIOUS
  <1> QED
    BY <1>1, <1>2 DEF TurnsInv

LEMMA TurnsUSER ==
  ASSUME Common, TurnsInv, program = "turns", NEW c \in Conns, NEW u, Turns!USER(c, u)
  PROVE  Common' /\ TurnsInv' /\ Answered
  <1>0. /\ up /\ conn[c] = "open" /\ UNCHANGED <<program, up, file, users, conn, local, ghost>>
    BY TurnsShares DEF Turns!USER, Turns!Talks
  <1>9. told[c] \in Told /\ file \in Files /\ users \in [Users -> Statuses] /\ ghost \in Ghost
    BY CommonTypes
  <1>1. ASSUME NEW code \in {"01", "31"}, Reply(c, "USER", u, code), UNCHANGED sess
        PROVE  Common' /\ TurnsInv' /\ Answered
    <2>1. Deserved(c, "USER", u, code) /\ code \in Codes
      BY <1>1 DEF Deserved, Codes
    <2>2. Learns(told[c], "USER", u, code) = told[c]
      BY <1>1, LearnsNothing
    <2>3. Common' /\ Answered /\ told'[c] = told[c] /\ \A d \in Conns \ {c} : told'[d] = told[d]
      BY <1>0, <1>9, <1>1, <2>1, <2>2, ReplyCommon
    <2> QED
      BY <1>0, <1>9, <1>1, <2>3, TurnsNone
  <1> DEFINE pos == Turns!findSessByAddr(c)
  <1>2. ASSUME u \in Users, Reply(c, "USER", u, "00"),
               sess' = IF pos = 0 THEN Append(sess, Turns!newSession(u, c))
                       ELSE IF sess[pos].user = u /\ sess[pos].status = "active"
                       THEN [sess EXCEPT ![pos].st = "named"] ELSE sess
        PROVE  Common' /\ TurnsInv' /\ Answered
    <2>1. Deserved(c, "USER", u, "00") /\ "00" \in Codes
      BY DEF Deserved, Codes, Held, TurnsInv
    <2>2. Learns(told[c], "USER", u, "00") \in Told
      BY <1>0, <1>9, <1>2, LearnsUSER
    <2>3. /\ Common' /\ Answered /\ \A d \in Conns \ {c} : told'[d] = told[d]
          /\ told'[c] = Learns(told[c], "USER", u, "00")
      BY <1>0, <1>9, <1>2, <2>1, <2>2, ReplyCommon
    <2>4. /\ told'[c].tries = told[c].tries
          /\ told'[c].first = IF told[c].first = None THEN u ELSE told[c].first
      BY <1>0, <1>9, <1>2, <2>3, LearnsUSER
    <2>6. told[c].tries <= 3
      BY DEF TurnsInv
    <2> HIDE DEF pos
    <2>7. CASE pos = 0
      <3>1. \A i \in DOMAIN sess : sess[i].addr # c
        BY <2>7, TurnsFinds DEF pos
      <3>2. told[c].first = None /\ told[c].tries = 0
        BY <3>1 DEF TurnsInv
      <3>3. PICK r : r = Turns!newSession(u, c)
        OBVIOUS
      <3>4. r \in TurnsSessions /\ r.addr = c /\ r.user = u /\ r.fails = 0
        BY <1>2, <3>3 DEF Turns!newSession, TurnsSessions
      <3> QED
        BY <1>0, <1>9, <2>3, <2>4, <1>2, <2>6, <2>7, <3>1, <3>2, <3>3, <3>4, TurnsAdd
    <2>8. CASE pos # 0
      <3>1. pos \in DOMAIN sess /\ sess[pos].addr = c
        BY <2>8, TurnsFinds DEF pos
      <3>2. /\ told[c].first = sess[pos].user /\ told[c].tries <= sess[pos].fails
            /\ sess[pos] \in TurnsSessions
        BY <1>0, <1>9, <3>1, TurnsElements DEF TurnsInv
      <3>3. sess[pos].user # None
        BY <3>2, AccountsAssumption DEF TurnsSessions
      <3>4. PICK r : r \in {sess[pos], [sess[pos] EXCEPT !.st = "named"]}
                     /\ sess' = [sess EXCEPT ![pos] = r]
        <4>1. CASE sess' = sess
          BY <3>1, <4>1 DEF TurnsInv
        <4>2. CASE sess' = [sess EXCEPT ![pos].st = "named"]
          BY <3>1, <4>2 DEF TurnsInv
        <4> QED
          BY <1>2, <2>8, <4>1, <4>2
      <3>5. /\ r \in TurnsSessions /\ r.addr = c /\ r.user = sess[pos].user
            /\ r.fails = sess[pos].fails
        BY <3>1, <3>2, <3>4 DEF TurnsSessions
      <3> QED
        BY <1>0, <1>9, <2>3, <2>4, <2>6, <3>1, <3>2, <3>3, <3>4, <3>5, TurnsSet
    <2> QED
      BY <2>7, <2>8
  <1>3. \/ \E code \in {"01", "31"} : Reply(c, "USER", u, code) /\ UNCHANGED sess
        \/ /\ u \in Users /\ Reply(c, "USER", u, "00")
           /\ sess' = IF pos = 0 THEN Append(sess, Turns!newSession(u, c))
                      ELSE IF sess[pos].user = u /\ sess[pos].status = "active"
                      THEN [sess EXCEPT ![pos].st = "named"] ELSE sess
    BY TurnsShares DEF Turns!USER
  <1> HIDE DEF pos
  <1> QED
    BY <1>1, <1>2, <1>3

LEMMA TurnsPASS ==
  ASSUME Common, TurnsInv, program = "turns", NEW c \in Conns, NEW p \in Users, Turns!PASS(c, p)
  PROVE  Common' /\ TurnsInv' /\ Answered
  <1> DEFINE pos == Turns!findSessByAddr(c)
  <1>0. /\ up /\ conn[c] = "open" /\ UNCHANGED <<program, up, file, users, conn, local, ghost>>
        /\ pos # 0
    BY TurnsShares DEF Turns!PASS, Turns!Talks, Turns!Session
  <1>9. told[c] \in Told /\ file \in Files /\ users \in [Users -> Statuses] /\ ghost \in Ghost
    BY CommonTypes
  <1>1. pos \in DOMAIN sess /\ sess[pos].addr = c
    BY <1>0, <1>9, TurnsFinds
  <1>2. /\ told[c].first = sess[pos].user /\ told[c].tries <= sess[pos].fails
        /\ sess[pos] \in TurnsSessions /\ told[c].tries <= 3
    BY <1>0, <1>9, <1>1, TurnsElements DEF TurnsInv
  <1>3. PICK code \in {"10", "11", "31"}, r \in TurnsSessions :
          /\ Reply(c, "PASS", p, code) /\ sess' = [sess EXCEPT ![pos] = r]
          /\ r.addr = c /\ r.user = sess[pos].user
          /\ code = "10" => p = sess[pos].user
          /\ code = "11" => r.fails = sess[pos].fails + 1 /\ r.fails <= 3
    <2> DEFINE x == sess[pos]
    <2>1. CASE x.status = "blocked" /\ UNCHANGED sess /\ Reply(c, "PASS", p, "31")
      <3>1. sess' = [sess EXCEPT ![pos] = x]
        BY <1>1, <2>1 DEF TurnsInv
      <3> QED
        BY <1>1, <1>2, <2>1, <3>1
    <2>2. CASE p = x.user /\ Reply(c, "PASS", p, "10")
               /\ sess' = [sess EXCEPT ![pos].st = "in", ![pos].fails = 0]
      <3>1. PICK r : r = [x EXCEPT !.st = "in", !.fails = 0]
        OBVIOUS
      <3>2. r \in TurnsSessions /\ r.addr = c /\ r.user = x.user
        BY <1>1, <1>2, <3>1 DEF TurnsSessions
      <3>3. sess' = [sess EXCEPT ![pos] = r]
        BY <1>1, <1>2, <2>2, <3>1 DEF TurnsInv
      <3> QED
        BY <2>2, <3>2, <3>3
    <2>3. ASSUME NEW over \in BOOLEAN, over <=> x.fails + 1 > 3,
                 Reply(c, "PASS", p, IF over THEN "31" ELSE "11"),
                 sess' = [sess EXCEPT ![pos].fails = @ + 1,
                                      ![pos].status = IF over THEN "blocked" ELSE @]
          PROVE  \E code \in {"10", "11", "31"}, r \in TurnsSessions :
                   /\ Reply(c, "PASS", p, code) /\ sess' = [sess EXCEPT ![pos] = r]
                   /\ r.addr = c /\ r.user = x.user
                   /\ code = "10" => p = x.user
                   /\ code = "11" => r.fails = x.fails + 1 /\ r.fails <= 3
      <3>0. PICK fails \in Nat, status \in {"active", "blocked"} :
              fails = x.fails + 1 /\ status = IF over THEN "blocked" ELSE x.status
        BY <1>2 DEF TurnsSessions
      <3>1. PICK r : r = [x EXCEPT !.fails = fails, !.status = status]
        OBVIOUS
      <3>2. r \in TurnsSessions /\ r.addr = c /\ r.user = x.user /\ r.fails = x.fails + 1
        BY <1>1, <1>2, <3>0, <3>1 DEF TurnsSessions
      <3>5. sess' = [sess EXCEPT ![pos].fails = fails, ![pos].status = status]
        BY <2>3, <3>0, Zenon
      <3>3. sess' = [sess EXCEPT ![pos] = r]
        BY <1>1, <1>2, <3>1, <3>5 DEF TurnsInv
      <3>4. ~over => r.fails <= 3
        BY <2>3, <1>2, <3>2 DEF TurnsSessions
      <3> QED
        BY <2>3, <3>2, <3>3, <3>4
    <2>4. PICK over \in BOOLEAN : over <=> x.fails + 1 > 3
      OBVIOUS
    <2>5. \/ x.status = "blocked" /\ UNCHANGED sess /\ Reply(c, "PASS", p, "31")
          \/ /\ p = x.user /\ Reply(c, "PASS", p, "10")
             /\ sess' = [sess EXCEPT ![pos].st = "in", ![pos].fails = 0]
          \/ /\ Reply(c, "PASS", p, IF over THEN "31" ELSE "11")
             /\ sess' = [sess EXCEPT ![pos].fails = @ + 1,
                                     ![pos].status = IF over THEN "blocked" ELSE @]
      BY <2>4, TurnsShares DEF Turns!PASS, Turns!MAX_NUMBER_LOGIN
    <2> QED
      BY <2>1, <2>2, <2>3, <2>4, <2>5
  <1>4. Deserved(c, "PASS", p, code) /\ code \in Codes
    BY <1>2, <1>3 DEF Deserved, Codes
  <1>5. /\ Learns(told[c], "PASS", p, code) \in Told
        /\ Learns(told[c], "PASS", p, code).first = told[c].first
        /\ \/ Learns(told[c], "PASS", p, code).tries = 0
           \/ code = "11" /\ Learns(told[c], "PASS", p, code).tries <= told[c].tries + 1
    <2>1. CASE code = "10"
      BY <1>0, <1>9, <2>1, LearnsIn
    <2>2. CASE code = "11"
      BY <1>0, <1>9, <2>2, LearnsWrong DEF Told
    <2>3. CASE code = "31"
      BY <1>0, <1>9, <2>3, LearnsOut
    <2> QED
      BY <2>1, <2>2, <2>3
  <1>6. /\ Common' /\ Answered /\ \A d \in Conns \ {c} : told'[d] = told[d]
        /\ told'[c] = Learns(told[c], "PASS", p, code)
    BY <1>0, <1>9, <1>3, <1>4, <1>5, ReplyCommon
  <1>7. told'[c].tries <= r.fails /\ told'[c].tries <= 3
    <2>1. r.fails \in Nat /\ told[c].tries \in Nat /\ sess[pos].fails \in Nat
      BY <1>0, <1>9, <1>2 DEF TurnsSessions, Told
    <2>2. told'[c].tries \in Nat
      BY <1>5, <1>6 DEF Told
    <2> QED
      BY <1>2, <1>3, <1>5, <1>6, <2>1, <2>2
  <1>8. told'[c].first = r.user
    BY <1>2, <1>3, <1>5, <1>6
  <1> HIDE DEF pos
  <1> QED
    BY <1>0, <1>1, <1>3, <1>6, <1>7, <1>8, TurnsSet

LEMMA TurnsLOUT ==
  ASSUME Common, TurnsInv, program = "turns", NEW c \in Conns, NEW u \in Users, Turns!LOUT(c, u)
  PROVE  Common' /\ TurnsInv' /\ Answered
  <1> DEFINE pos == Turns!findSessByAddr(c)
  <1>0. /\ up /\ conn[c] = "open" /\ UNCHANGED <<program, up, file, users, conn, local, ghost>>
        /\ pos # 0
    BY TurnsShares DEF Turns!LOUT, Turns!Talks, Turns!Session
  <1>9. told[c] \in Told /\ file \in Files /\ users \in [Users -> Statuses] /\ ghost \in Ghost
    BY CommonTypes
  <1>1. pos \in DOMAIN sess /\ sess[pos].addr = c
    BY <1>0, TurnsFinds
  <1>2. /\ told[c].first = sess[pos].user /\ told[c].tries <= sess[pos].fails
        /\ sess[pos] \in TurnsSessions /\ told[c].tries <= 3
    BY <1>0, <1>1, TurnsElements DEF TurnsInv
  <1>3. PICK code \in {"20", "21"}, r \in TurnsSessions :
          /\ Reply(c, "LOUT", u, code) /\ sess' = [sess EXCEPT ![pos] = r]
          /\ r.addr = c /\ r.user = sess[pos].user /\ r.fails = sess[pos].fails
    <2>1. CASE Reply(c, "LOUT", u, "21") /\ UNCHANGED sess
      <3>1. sess' = [sess EXCEPT ![pos] = sess[pos]]
        BY <1>1, <2>1 DEF TurnsInv
      <3> QED
        BY <1>1, <1>2, <2>1, <3>1
    <2>2. CASE Reply(c, "LOUT", u, "20") /\ sess' = [sess EXCEPT ![pos].st = "anon"]
      <3>1. PICK r : r = [sess[pos] EXCEPT !.st = "anon"]
        OBVIOUS
      <3>2. r \in TurnsSessions /\ r.addr = c /\ r.user = sess[pos].user
            /\ r.fails = sess[pos].fails
        BY <1>1, <1>2, <3>1 DEF TurnsSessions
      <3>3. sess' = [sess EXCEPT ![pos] = r]
        BY <1>1, <1>2, <2>2, <3>1 DEF TurnsInv
      <3> QED
        BY <2>2, <3>2, <3>3
    <2> QED
      BY <2>1, <2>2, TurnsShares DEF Turns!LOUT
  <1>4. Deserved(c, "LOUT", u, code) /\ code \in Codes
    BY <1>3 DEF Deserved, Codes
  <1>5. /\ Learns(told[c], "LOUT", u, code) \in Told
        /\ Learns(told[c], "LOUT", u, code).first = told[c].first
        /\ Learns(told[c], "LOUT", u, code).tries \in {0, told[c].tries}
    BY <1>9, <1>3, LearnsOut, LearnsNothing
  <1>6. /\ Common' /\ Answered /\ \A d \in Conns \ {c} : told'[d] = told[d]
        /\ told'[c] = Learns(told[c], "LOUT", u, code)
    BY <1>0, <1>9, <1>3, <1>4, <1>5, ReplyCommon
  <1>7. told'[c].tries <= r.fails /\ told'[c].tries <= 3 /\ told'[c].first = r.user
    BY <1>2, <1>3, <1>5, <1>6 DEF TurnsSessions
  <1> HIDE DEF pos
  <1> QED
    BY <1>0, <1>1, <1>3, <1>6, <1>7, TurnsSet

LEMMA TurnsRest ==
  ASSUME Common, TurnsInv, program = "turns", NEW c \in Conns,
         \/ Turns!accept(c) \/ Turns!leave(c)
         \/ \E u \in Users : Turns!OutOfSequence(c, "PASS", u) \/ Turns!OutOfSequence(c, "LOUT", u)
  PROVE  Common' /\ TurnsInv' /\ Answered
  <1>0. told \in [Conns -> Told] /\ file \in Files /\ users \in [Users -> Statuses]
        /\ ghost \in Ghost /\ conn \in [Conns -> Kinds] /\ said.code \in Codes
    BY CommonTypes
  <1>1. CASE Turns!accept(c)
    <2>1. /\ Connect(c) /\ users' = file /\ UNCHANGED <<program, up, file, sess, local, said, told, ghost>>
      BY <1>1, TurnsShares DEF Turns!accept
    <2>2. users' \in [Users -> Statuses]
      BY <2>1 DEF TurnsInv, AllActive, Statuses
    <2>3. Common' /\ Answered
      BY <1>0, <2>1, <2>2, QuietCommon DEF TurnsInv
    <2>4. \A j \in DOMAIN sess : sess[j].addr # c /\ sess[j].addr \in Conns
      BY <2>1, TurnsElements DEF TurnsInv, Connect
    <2>5. \A d \in Conns \ {c} : conn'[d] = conn[d]
      BY <1>0, <2>1 DEF Connect
    <2>6. TurnsInv'
      BY <2>1, <2>4, <2>5 DEF TurnsInv
    <2> QED
      BY <2>3, <2>6
  <1>2. CASE Turns!leave(c)
    <2>1. /\ Leaves(c) /\ UNCHANGED <<program, up, file, users, sess, local, said, ghost>> /\ up
      BY <1>2, TurnsShares DEF Turns!leave, Turns!Talks
    <2>2. Answered
      BY <2>1 DEF Answered
    <2>3. /\ Common' /\ told'[c] = Newcomer /\ \A d \in Conns \ {c} : told'[d] = told[d]
          /\ conn'[c] \in {"closed", "hung"} /\ \A d \in Conns \ {c} : conn'[d] = conn[d]
      BY <1>0, <2>1, <2>2, GoneCommon DEF Leaves
    <2>4. told'[c].tries = 0 /\ told'[c].first = None
      BY <2>3 DEF Newcomer
    <2>5. \A j \in DOMAIN sess : sess[j].addr \in Conns
      BY TurnsElements
    <2>6. TurnsInv'
      BY <2>1, <2>3, <2>4, <2>5 DEF TurnsInv
    <2> QED
      BY <2>2, <2>3, <2>6
  <1>3. ASSUME NEW u \in Users, NEW op \in {"PASS", "LOUT"}, Turns!OutOfSequence(c, op, u)
        PROVE  Common' /\ TurnsInv' /\ Answered
    <2>1. /\ Reply(c, op, u, "sequence") /\ up /\ conn[c] = "open"
          /\ UNCHANGED <<program, up, file, users, sess, conn, local, ghost>>
      BY <1>3, TurnsShares DEF Turns!OutOfSequence, Turns!Talks
    <2>2. Deserved(c, op, u, "sequence") /\ "sequence" \in Codes
      BY DEF Deserved, Codes
    <2>3. Learns(told[c], op, u, "sequence") = told[c]
      BY LearnsNothing
    <2>4. Common' /\ Answered /\ told'[c] = told[c] /\ \A d \in Conns \ {c} : told'[d] = told[d]
      BY <1>0, <2>1, <2>2, <2>3, ReplyCommon
    <2> QED
      BY <2>1, <2>4, TurnsNone
  <1> QED
    BY <1>1, <1>2, <1>3

LEMMA TurnsNext ==
  ASSUME Common, TurnsInv, program = "turns", Turns!Next PROVE Common' /\ TurnsInv' /\ Answered
  BY TurnsUSER, TurnsPASS, TurnsLOUT, TurnsRest DEF Turns!Next

----------------------------------------------------------------------------
(* week5/Untitled Folder/server.c. *)

LEMMA SingleShares ==
  /\ Single!Runs("single") <=> program = "single" /\ up
  /\ \A c, op, arg, code : Single!Says(c, op, arg, code) <=> Says(c, op, arg, code)
  /\ \A c, op, arg, code : Single!Reply(c, op, arg, code) <=> Reply(c, op, arg, code)
  /\ \A c : (Single!Connect(c) <=> Connect(c)) /\ (Single!Leaves(c) <=> Leaves(c))
  /\ \A c : Single!Hangs(c) <=> Hangs(c)
  /\ Single!Exit <=> Exit
  /\ Single!Open = Open
  <1>1. Single!Runs("single") <=> program = "single" /\ up
    BY DEF Single!Runs
  <1>2. \A t, op, arg, code : Single!Learns(t, op, arg, code) = Learns(t, op, arg, code)
    BY DEF Single!Learns, Learns, Single!Limit, Limit, Single!MaxTries, MaxTries
  <1>3. \A c, op, arg, code : Single!Says(c, op, arg, code) <=> Says(c, op, arg, code)
    BY DEF Single!Says, Says, Single!Silence, Silence
  <1>4. \A c, op, arg, code : Single!Reply(c, op, arg, code) <=> Reply(c, op, arg, code)
    BY <1>2, <1>3 DEF Single!Reply, Reply
  <1>5. \A c : (Single!Connect(c) <=> Connect(c)) /\ (Single!Leaves(c) <=> Leaves(c))
    BY DEF Single!Connect, Connect, Single!Leaves, Leaves, Single!Newcomer, Newcomer
  <1>6. Single!Open = Open
    BY DEF Single!Open, Open
  <1>7. \A c : Single!Hangs(c) <=> Hangs(c)
    BY DEF Single!Hangs, Hangs, Single!Silence, Silence, Single!Newcomer, Newcomer
  <1>8. Single!Exit <=> Exit
    BY DEF Single!Exit, Exit, Single!AllLost, AllLost, Single!Open, Open, Single!Silence, Silence,
       Single!Newcomer, Newcomer
  <1> QED
    BY <1>1, <1>3, <1>4, <1>5, <1>6, <1>7, <1>8

LEMMA SingleCount == ASSUME SingleInv, NEW c \in Conns PROVE Single!count \in Users \cup {None}
  BY DEF SingleInv, Single!count

\* All clients but the one that has the connection know nothing.
LEMMA SingleKeeps ==
  ASSUME Common', SingleInv, UNCHANGED <<up, file, users, ghost>>,
         NEW c \in Conns, conn[c] \in {"open", "hung"},
         \A d \in Conns \ {c} : conn'[d] = conn[d],
         local' = local \/ \E u \in Users : local' = [d \in Conns |-> u],
         conn'[c] = "open" => told'[c].named \in {None, Single!count'}
  PROVE  SingleInv'
  <1>1. \A d \in Open : d = c
    BY DEF SingleInv, Open
  <1>2. \A d \in Open' : d = c
    BY <1>1 DEF Open
  <1>3. \A d \in Conns : local'[d] \in Users \cup {None}
    BY DEF SingleInv
  <1>4. \A d \in Conns : conn'[d] = "open" => told'[d].named \in {None, Single!count'}
    BY <1>2 DEF Open
  <1> QED
    BY <1>2, <1>3, <1>4 DEF SingleInv

LEMMA SingleUSER ==
  ASSUME Common, SingleInv, program = "single", NEW c \in Conns, NEW u, Single!USER(c, u)
  PROVE  Common' /\ SingleInv' /\ Answered
  <1>0. /\ up /\ conn[c] = "open" /\ UNCHANGED <<program, up, file, users, ghost>>
    BY SingleShares DEF Single!USER, Single!Talks
  <1>9. /\ told[c] \in Told /\ file \in Files /\ users \in [Users -> Statuses] /\ ghost \in Ghost
        /\ conn \in [Conns -> Kinds]
    BY CommonTypes
  <1>1. ASSUME Reply(c, "USER", u, "01"), UNCHANGED <<sess, local, conn>>
        PROVE  Common' /\ SingleInv' /\ Answered
    <2>1. Deserved(c, "USER", u, "01") /\ "01" \in Codes
      BY DEF Deserved, Codes
    <2>2. Learns(told[c], "USER", u, "01") = told[c]
      BY LearnsNothing
    <2>3. Common' /\ Answered /\ told'[c] = told[c]
      BY <1>0, <1>1, <1>9, <2>1, <2>2, ReplyCommon
    <2>4. Single!count' = Single!count
      BY <1>1 DEF Single!count
    <2>5. told[c].named \in {None, Single!count}
      BY <1>0 DEF SingleInv
    <2> QED
      BY <1>0, <1>1, <2>3, <2>4, <2>5, SingleKeeps
  <1>2. ASSUME Hangs(c), UNCHANGED <<sess, local>> PROVE Common' /\ SingleInv' /\ Answered
    <2>1. Answered /\ said'.code \in Codes
      BY <1>2, SilenceAnswers DEF Hangs
    <2>2. /\ Common' /\ conn'[c] \in {"closed", "hung"}
          /\ \A d \in Conns \ {c} : conn'[d] = conn[d]
      BY <1>0, <1>2, <1>9, <2>1, GoneCommon DEF Hangs
    <2> QED
      BY <1>0, <1>2, <2>1, <2>2, SingleKeeps
  <1>3. ASSUME u \in Users, users[u] = "active", local' = [d \in Conns |-> u],
               Reply(c, "USER", u, "00"), UNCHANGED conn
        PROVE  Common' /\ SingleInv' /\ Answered
    <2>1. Deserved(c, "USER", u, "00") /\ "00" \in Codes
      BY DEF Deserved, Codes, Held, SingleInv
    <2>2. /\ Learns(told[c], "USER", u, "00") \in Told
          /\ Learns(told[c], "USER", u, "00").named = u
      BY <1>3, <1>9, LearnsUSER
    <2>3. Common' /\ Answered /\ told'[c].named = u
      BY <1>0, <1>3, <1>9, <2>1, <2>2, ReplyCommon
    <2>4. Single!count' = u
      BY <1>3 DEF Single!count
    <2> QED
      BY <1>0, <1>3, <2>3, <2>4, SingleKeeps
  <1>4. ~(u \in Users /\ users[u] = "blocked")
    BY <1>0 DEF SingleInv, AllActive
  <1>5. \/ Single!Reply(c, "USER", u, "01") /\ UNCHANGED <<sess, local, conn>>
        \/ Single!Hangs(c) /\ UNCHANGED <<sess, local>>
        \/ u \in Users /\ users[u] = "blocked"
        \/ /\ u \in Users /\ users[u] = "active" /\ local' = [d \in Conns |-> u]
           /\ Single!Reply(c, "USER", u, "00") /\ UNCHANGED conn
    BY DEF Single!USER
  <1> QED
    BY <1>1, <1>2, <1>3, <1>4, <1>5, SingleShares

LEMMA SinglePASS ==
  ASSUME Common, SingleInv, program = "single", NEW c \in Conns, NEW p \in Users,
         Single!PASS(c, p)
  PROVE  Common' /\ SingleInv' /\ Answered
  <1>0. /\ up /\ conn[c] = "open" /\ UNCHANGED <<program, up, file, users, conn, local, ghost>>
    BY SingleShares DEF Single!PASS, Single!Talks
  <1>9. told[c] \in Told /\ file \in Files /\ users \in [Users -> Statuses] /\ ghost \in Ghost
    BY CommonTypes
  <1>1. told[c].named \in {None, Single!count}
    BY <1>0 DEF SingleInv
  <1>2. PICK k \in IF Single!n THEN {Single!count} ELSE Users \cup {None} :
          \/ p = k /\ users[k] = "blocked"
          \/ p = k /\ Single!Reply(c, "PASS", p, "10")
          \/ p # k /\ Single!Reply(c, "PASS", p, "11")
    BY DEF Single!PASS
  <1>3. users[p] # "blocked"
    BY <1>0 DEF SingleInv, AllActive
  <1>4. p = k => p = told[c].named \/ told[c].named = None
    BY <1>1, <1>2 DEF Single!n
  <1>5. PICK code \in {"10", "11"} : Reply(c, "PASS", p, code) /\ (code = "10" => p = k)
    BY <1>2, <1>3, SingleShares
  <1>6. Deserved(c, "PASS", p, code) /\ code \in Codes
    BY <1>4, <1>5 DEF Deserved, Codes
  <1>7. /\ Learns(told[c], "PASS", p, code) \in Told
        /\ Learns(told[c], "PASS", p, code).named = told[c].named
    BY <1>5, <1>9, LearnsIn, LearnsWrong
  <1>8. Common' /\ Answered /\ told'[c].named = told[c].named
    BY <1>0, <1>5, <1>6, <1>7, <1>9, ReplyCommon
  <1>10. Single!count' = Single!count
    BY <1>0 DEF Single!count
  <1> QED
    BY <1>0, <1>1, <1>8, <1>10, SingleKeeps

LEMMA SingleRest ==
  ASSUME Common, SingleInv, program = "single", NEW c \in Conns,
         \/ Single!accept(c) \/ Single!quit(c) \/ \E u \in Users : Single!LOUT(c, u)
  PROVE  Common' /\ SingleInv' /\ Answered
  <1>0. /\ told \in [Conns -> Told] /\ file \in Files /\ users \in [Users -> Statuses]
        /\ ghost \in Ghost /\ conn \in [Conns -> Kinds] /\ said.code \in Codes
    BY CommonTypes
  <1>1. CASE Single!accept(c)
    <2>1. /\ up /\ Open = {} /\ Connect(c)
          /\ UNCHANGED <<program, up, file, users, sess, local, said, told, ghost>>
      BY <1>1, SingleShares DEF Single!accept
    <2>2. Common' /\ Answered
      BY <1>0, <2>1, QuietCommon
    <2>3. \A d \in Open' : d = c
      BY <1>0, <2>1 DEF Connect, Open
    <2>4. told'[c].named = None
      BY <2>1 DEF Common, Connect, Newcomer
    <2>5. \A d \in Conns : conn'[d] = "open" => told'[d].named \in {None, Single!count'}
      BY <2>3, <2>4 DEF Open
    <2>6. SingleInv'
      BY <2>1, <2>3, <2>5 DEF SingleInv
    <2> QED
      BY <2>2, <2>6
  <1>2. CASE Single!quit(c)
    <2>1. Exit /\ UNCHANGED <<program, file, ghost>>
      BY <1>2, SingleShares DEF Single!quit
    <2>2. Common' /\ Answered /\ ~up' /\ Open' = {}
      BY <1>0, <2>1, ExitCommon
    <2>3. \A d \in Conns : local'[d] \in Users \cup {None}
      BY <2>1 DEF Exit
    <2>4. \A d \in Conns : conn'[d] # "open"
      BY <2>2 DEF Open
    <2>5. SingleInv'
      BY <2>1, <2>2, <2>3, <2>4 DEF SingleInv
    <2> QED
      BY <2>2, <2>5
  <1>3. ASSUME NEW u \in Users, Single!LOUT(c, u) PROVE Common' /\ SingleInv' /\ Answered
    <2>0. up /\ conn[c] = "open" /\ UNCHANGED <<program, up, file, users, local, ghost>>
      BY <1>3, SingleShares DEF Single!LOUT, Single!Talks
    <2>1. CASE Says(c, "LOUT", u, "20") /\ Leaves(c)
      <3>1. Deserved(c, "LOUT", u, "20") /\ "20" \in Codes
        BY DEF Deserved, Codes
      <3>2. Answered /\ said'.code \in Codes
        BY <2>1, <3>1, SaysDeserved
      <3>3. /\ Common' /\ conn'[c] \in {"closed", "hung"}
            /\ \A d \in Conns \ {c} : conn'[d] = conn[d]
        BY <1>0, <2>0, <2>1, <3>2, GoneCommon DEF Leaves
      <3> QED
        BY <2>0, <3>2, <3>3, SingleKeeps
    <2>2. CASE Reply(c, "LOUT", u, "21") /\ UNCHANGED conn
      <3>1. Deserved(c, "LOUT", u, "21") /\ "21" \in Codes
        BY DEF Deserved, Codes
      <3>2. Learns(told[c], "LOUT", u, "21") = told[c]
        BY LearnsNothing
      <3>3. Common' /\ Answered /\ told'[c] = told[c]
        BY <1>0, <2>0, <2>2, <3>1, <3>2, ReplyCommon
      <3>4. Single!count' = Single!count /\ told[c].named \in {None, Single!count}
        BY <2>0 DEF Single!count, SingleInv
      <3> QED
        BY <2>0, <2>2, <3>3, <3>4, SingleKeeps
    <2>3. \/ Single!Says(c, "LOUT", u, "20") /\ Single!Leaves(c)
          \/ Single!Reply(c, "LOUT", u, "21") /\ UNCHANGED conn
      BY <1>3 DEF Single!LOUT
    <2> QED
      BY <2>1, <2>2, <2>3, SingleShares
  <1> QED
    BY <1>1, <1>2, <1>3

LEMMA SingleNext ==
  ASSUME Common, SingleInv, program = "single", Single!Next
  PROVE  Common' /\ SingleInv' /\ Answered
  BY SingleUSER, SinglePASS, SingleRest DEF Single!Next

----------------------------------------------------------------------------
(* week6/ex22. *)

LEMMA SharedShares ==
  /\ Shared!Runs("shared") <=> program = "shared" /\ up
  /\ \A c, op, arg, code : Shared!Says(c, op, arg, code) <=> Says(c, op, arg, code)
  /\ \A c, op, arg, code : Shared!Reply(c, op, arg, code) <=> Reply(c, op, arg, code)
  /\ \A c : (Shared!Connect(c) <=> Connect(c)) /\ (Shared!Leaves(c) <=> Leaves(c))
  /\ Shared!Exit <=> Exit
  /\ Shared!Open = Open
  <1>1. Shared!Runs("shared") <=> program = "shared" /\ up
    BY DEF Shared!Runs
  <1>2. \A t, op, arg, code : Shared!Learns(t, op, arg, code) = Learns(t, op, arg, code)
    BY DEF Shared!Learns, Learns, Shared!Limit, Limit, Shared!MaxTries, MaxTries
  <1>3. \A c, op, arg, code : Shared!Says(c, op, arg, code) <=> Says(c, op, arg, code)
    BY DEF Shared!Says, Says, Shared!Silence, Silence
  <1>4. \A c, op, arg, code : Shared!Reply(c, op, arg, code) <=> Reply(c, op, arg, code)
    BY <1>2, <1>3 DEF Shared!Reply, Reply
  <1>5. \A c : (Shared!Connect(c) <=> Connect(c)) /\ (Shared!Leaves(c) <=> Leaves(c))
    BY DEF Shared!Connect, Connect, Shared!Leaves, Leaves, Shared!Newcomer, Newcomer
  <1>6. Shared!Open = Open
    BY DEF Shared!Open, Open
  <1>8. Shared!Exit <=> Exit
    BY DEF Shared!Exit, Exit, Shared!AllLost, AllLost, Shared!Open, Open, Shared!Silence, Silence,
       Shared!Newcomer, Newcomer
  <1> QED
    BY <1>1, <1>3, <1>4, <1>5, <1>6, <1>8

\* A request that leaves the accounts alone.
LEMMA SharedAnswers ==
  ASSUME Common, SharedInv, program = "shared", up, NEW c \in Conns, conn[c] = "open",
         NEW op \in {"USER", "PASS", "LOUT"}, NEW arg,
         NEW code \in {"00", "01", "10", "11", "20", "21", "31"}, Reply(c, op, arg, code),
         code = "00" => op = "USER" /\ arg \in Users /\ users[arg] # "blocked",
         code = "10" => op = "PASS",
         UNCHANGED <<program, up, file, conn>>, users' \in [Users -> Statuses], ghost' \in Ghost
  PROVE  Common' /\ Answered
  <1>1. told[c] \in Told /\ file \in Files
    BY CommonTypes
  <1>2. Deserved(c, op, arg, code) /\ code \in Codes
    BY DEF Deserved, Codes, SharedInv
  <1>3. Learns(told[c], op, arg, code) \in Told
    <2>1. CASE code = "00"
      BY <1>1, <2>1, LearnsUSER
    <2>2. CASE code = "10"
      BY <1>1, <2>2, LearnsIn
    <2>3. CASE code = "20" \/ (op = "PASS" /\ code = "31")
      BY <1>1, <2>3, LearnsOut
    <2>4. CASE code = "11" /\ op = "PASS"
      BY <1>1, <2>4, LearnsWrong
    <2>5. CASE code \in {"01", "21"} \/ (op # "PASS" /\ code = "31")
      BY <1>1, <2>5, LearnsNothing
    <2>6. CASE code = "11" /\ op # "PASS"
      BY <1>1, <2>6 DEF Learns
    <2> QED
      BY <2>1, <2>2, <2>3, <2>4, <2>5, <2>6
  <1> QED
    BY <1>1, <1>2, <1>3, ReplyCommon

LEMMA SharedUnchanged ==
  ASSUME SharedInv, UNCHANGED <<up, file, users, sess, ghost>>,
         \A c \in Conns : conn'[c] = "open" => conn[c] = "open"
  PROVE  SharedInv'
  BY DEF SharedInv, Held

LEMMA SharedUSER ==
  ASSUME Common, SharedInv, program = "shared", NEW c \in Conns, Shared!runUSER(c)
  PROVE  Common' /\ SharedInv' /\ Answered
  <1> DEFINE id == local[c].arg
  <1>0. up /\ conn[c] = "open" /\ UNCHANGED <<program, up, file, users, conn, ghost>>
    BY SharedShares DEF Shared!runUSER, Shared!Acts, Shared!Talks
  <1>1. users \in [Users -> Statuses] /\ ghost \in Ghost
    BY CommonTypes
  <1>2. PICK code \in {"00", "01", "31"} :
          /\ Shared!Reply(c, "USER", id, code)
          /\ IF code = "00" THEN /\ id \in Users /\ users[id] # "blocked"
                                 /\ sess' = [sess EXCEPT ![1].user = id, ![1].st = "named"]
             ELSE sess' = sess
    <2>1. \/ Shared!typeUser(id) = "not found"
          \/ Shared!typeUser(id) = "blocked"
          \/ Shared!typeUser(id) = "success" /\ id \in Users /\ users[id] # "blocked"
      BY DEF Shared!typeUser
    <2>2. CASE Shared!typeUser(id) = "not found"
      BY <2>2 DEF Shared!runUSER
    <2>3. CASE Shared!typeUser(id) = "blocked"
      BY <2>3 DEF Shared!runUSER
    <2>4. CASE Shared!typeUser(id) = "success" /\ id \in Users /\ users[id] # "blocked"
      BY <2>4 DEF Shared!runUSER
    <2> QED
      BY <2>1, <2>2, <2>3, <2>4
  <1>3. Reply(c, "USER", id, code)
    BY <1>2, SharedShares
  <1>4. Common' /\ Answered
    BY <1>0, <1>1, <1>2, <1>3, SharedAnswers
  <1>5. sess' \in Seq(SharedSessions) /\ sess' # <<>>
    <2>1. sess \in Seq(SharedSessions) /\ sess # <<>>
      BY <1>0 DEF SharedInv
    <2>2. CASE code = "00"
      <3>1. PICK r : r = [sess[1] EXCEPT !.user = id, !.st = "named"]
        OBVIOUS
      <3>2. sess[1] \in SharedSessions /\ 1 \in DOMAIN sess
        BY <2>1
      <3>3. r \in SharedSessions
        BY <1>2, <2>2, <3>1, <3>2 DEF SharedSessions
      <3>4. sess' = [sess EXCEPT ![1] = r]
        BY <1>2, <2>1, <2>2, <3>1, <3>2
      <3>5. sess' \in Seq(SharedSessions) /\ Len(sess') = Len(sess)
        BY <2>1, <3>2, <3>3, <3>4, SetOne
      <3> QED
        BY <2>1, <3>5
    <2> QED
      BY <1>2, <2>1, <2>2
  <1>6. SharedInv'
    BY <1>0, <1>5 DEF SharedInv, Held
  <1> QED
    BY <1>4, <1>6

LEMMA SharedPASS ==
  ASSUME Common, SharedInv, program = "shared", NEW c \in Conns, Shared!runPASS(c)
  PROVE  Common' /\ SharedInv' /\ Answered
  <1> DEFINE p == local[c].arg
             login == Shared!typePass(sess[1], p)
             S == IF login.status = "blocked" THEN {sess[1].user} ELSE {}
  <1>0. up /\ conn[c] = "open" /\ UNCHANGED <<program, up, file, conn>> /\ sess[1].user # None
    BY SharedShares DEF Shared!runPASS, Shared!Acts, Shared!Talks, Shared!findSessionByCliaddr
  <1>1. users \in [Users -> Statuses] /\ ghost \in Ghost
    BY CommonTypes
  <1>2. sess \in Seq(SharedSessions) /\ sess # <<>> /\ 1 \in DOMAIN sess
    BY <1>0 DEF SharedInv
  <1>3. sess[1] \in SharedSessions /\ sess[1].user \in Users
    <2>1. sess[1] \in SharedSessions
      BY <1>2
    <2> QED
      BY <1>0, <2>1 DEF SharedSessions
  <1>4. login.ss \in SharedSessions
    <2>1. \/ login.ss = [sess[1] EXCEPT !.st = "in", !.failed = 0]
          \/ login.ss = [sess[1] EXCEPT !.failed = @ + 1]
          \/ login.ss = [user |-> None, st |-> "anon", failed |-> 0]
      BY DEF Shared!typePass, Shared!NewSession
    <2>2. sess[1].failed \in Nat /\ sess[1].failed + 1 \in Nat
      BY <1>3 DEF SharedSessions
    <2>3. \A x \in SharedSessions, k \in Nat :
            /\ [x EXCEPT !.st = "in", !.failed = 0] \in SharedSessions
            /\ [x EXCEPT !.failed = k] \in SharedSessions
      BY DEF SharedSessions
    <2>4. [user |-> None, st |-> "anon", failed |-> 0] \in SharedSessions
      BY DEF SharedSessions
    <2> HIDE DEF login
    <2> QED
      BY <1>3, <2>1, <2>2, <2>3, <2>4
  <1>5. /\ sess' = [sess EXCEPT ![1] = login.ss]
        /\ users' = [u \in Users |-> IF u \in S THEN "blocked" ELSE users[u]]
        /\ ghost' = [ghost EXCEPT !.struck = @ \cup S, !.forgotten = @ \ S]
    BY DEF Shared!runPASS, Shared!findSessionByCliaddr
  <1>6. PICK code \in {"10", "31", "11"} : Shared!Reply(c, "PASS", p, code)
    BY DEF Shared!runPASS, Shared!findSessionByCliaddr
  <1>7. Reply(c, "PASS", p, code)
    BY <1>6, SharedShares
  <1>8. S \in SUBSET Users
    BY <1>3
  <1> HIDE DEF S, login
  <1>9. /\ ghost' \in Ghost /\ users' \in [Users -> Statuses]
        /\ \A u \in Held' : users'[u] = "blocked"
    BY <1>1, <1>5, <1>8, StrikeHeld DEF SharedInv
  <1>10. Common' /\ Answered
    BY <1>0, <1>6, <1>7, <1>9, SharedAnswers
  <1>11. sess' \in Seq(SharedSessions) /\ Len(sess') = Len(sess)
    BY <1>2, <1>4, <1>5, SetOne
  <1>12. sess' # <<>>
    BY <1>2, <1>11
  <1> QED
    BY <1>0, <1>9, <1>10, <1>11, <1>12 DEF SharedInv

LEMMA SharedLOUT ==
  ASSUME Common, SharedInv, program = "shared", NEW c \in Conns, NEW u, NEW p,
         Shared!runLOUT(c, u, p)
  PROVE  Common' /\ SharedInv' /\ Answered
  <1>0. up /\ conn[c] = "open" /\ UNCHANGED <<program, up, file, users, conn, ghost>>
    BY SharedShares DEF Shared!runLOUT, Shared!Talks
  <1>1. users \in [Users -> Statuses] /\ ghost \in Ghost
    BY CommonTypes
  <1>2. PICK code \in {"20", "21"} :
          /\ Shared!Reply(c, "LOUT", u, code)
          /\ sess' = sess \/ sess' = [sess EXCEPT ![1] = [user |-> None, st |-> "anon", failed |-> 0]]
    BY DEF Shared!runLOUT, Shared!NewSession
  <1>3. Reply(c, "LOUT", u, code)
    BY <1>2, SharedShares
  <1>4. Common' /\ Answered
    BY <1>0, <1>1, <1>2, <1>3, SharedAnswers
  <1>5. sess \in Seq(SharedSessions) /\ sess # <<>> /\ 1 \in DOMAIN sess
    BY <1>0 DEF SharedInv
  <1>6. [user |-> None, st |-> "anon", failed |-> 0] \in SharedSessions
    BY DEF SharedSessions
  <1>7. sess' \in Seq(SharedSessions) /\ Len(sess') = Len(sess)
    BY <1>2, <1>5, <1>6, SetOne
  <1>8. sess' # <<>>
    BY <1>5, <1>7
  <1> QED
    BY <1>0, <1>4, <1>7, <1>8 DEF SharedInv, Held

LEMMA SharedRest ==
  ASSUME Common, SharedInv, program = "shared",
         \/ Shared!Stopped
         \/ \E c \in Conns :
              \/ Shared!createSession(c) \/ Shared!leave(c)
              \/ \E u \in Users \cup {Stranger} : Shared!typeUserChecks(c, u)
              \/ \E u \in Users : Shared!typePassChecks(c, u)
  PROVE  Common' /\ SharedInv' /\ Answered
  <1>0. /\ told \in [Conns -> Told] /\ file \in Files /\ users \in [Users -> Statuses]
        /\ ghost \in Ghost /\ conn \in [Conns -> Kinds] /\ said.code \in Codes
    BY CommonTypes
  <1>1. CASE Shared!Stopped
    <2>1. /\ Exit /\ UNCHANGED <<program, file>>
          /\ ghost' = [ghost EXCEPT !.forgotten = ghost.struck]
      BY <1>1, SharedShares DEF Shared!Stopped
    <2>2. ghost' \in Ghost /\ Held' = {}
      BY <1>0, <2>1, ForgetAll
    <2>3. Common' /\ Answered /\ Open' = {}
      BY <1>0, <2>1, <2>2, ExitCommon
    <2>4. sess' = <<>> /\ \A c \in Conns : conn'[c] # "open"
      BY <2>1, <2>3 DEF Exit, Open
    <2>5. sess' \in Seq(SharedSessions)
      BY <2>4
    <2>6. SharedInv'
      BY <2>1, <2>2, <2>4, <2>5 DEF SharedInv
    <2> QED
      BY <2>3, <2>6
  <1>2. ASSUME NEW c \in Conns, Shared!createSession(c) PROVE Common' /\ SharedInv' /\ Answered
    <2>1. /\ up /\ Connect(c) /\ UNCHANGED <<program, up, file, users, said, told, ghost>>
      BY <1>2, SharedShares DEF Shared!createSession
    <2>2. Common' /\ Answered
      BY <1>0, <2>1, QuietCommon
    <2>3. PICK r : r = [user |-> None, st |-> "anon", failed |-> 0]
      OBVIOUS
    <2>4. sess' = Append(sess, r) /\ r \in SharedSessions /\ sess \in Seq(SharedSessions)
      BY <1>2, <2>3 DEF Shared!createSession, Shared!NewSession, SharedSessions, SharedInv
    <2>5. sess' \in Seq(SharedSessions) /\ sess' # <<>>
      BY <2>4
    <2>6. SharedInv'
      BY <2>1, <2>5 DEF SharedInv, Held
    <2> QED
      BY <2>2, <2>6
  <1>3. ASSUME NEW c \in Conns, Shared!leave(c) PROVE Common' /\ SharedInv' /\ Answered
    <2>1. /\ Leaves(c) /\ UNCHANGED <<program, up, file, users, sess, local, said, ghost>> /\ up
      BY <1>3, SharedShares DEF Shared!leave, Shared!Talks
    <2>2. Answered
      BY <2>1 DEF Answered
    <2>3. /\ Common' /\ conn'[c] \in {"closed", "hung"}
          /\ \A d \in Conns \ {c} : conn'[d] = conn[d]
      BY <1>0, <2>1, <2>2, GoneCommon DEF Leaves
    <2> QED
      BY <2>1, <2>2, <2>3, SharedUnchanged
  <1>4. ASSUME NEW c \in Conns, NEW u, NEW op \in {"USER", "PASS"}, NEW code \in {"01", "11"},
               \/ Shared!Reply(c, op, u, code) \/ UNCHANGED <<said, told>>,
               UNCHANGED <<program, up, file, users, sess, conn, ghost>>,
               Shared!Talks(c)
        PROVE  Common' /\ SharedInv' /\ Answered
    <2>1. up /\ conn[c] = "open"
      BY <1>4, SharedShares DEF Shared!Talks
    <2>2. CASE Reply(c, op, u, code)
      BY <1>0, <1>4, <2>1, <2>2, SharedAnswers, SharedUnchanged
    <2>3. CASE UNCHANGED <<said, told>>
      BY <1>0, <1>4, <2>1, <2>3, QuietCommon, SharedUnchanged
    <2> QED
      BY <1>4, <2>2, <2>3, SharedShares
  <1>5. ASSUME NEW c \in Conns, NEW u, Shared!typeUserChecks(c, u)
        PROVE  Common' /\ SharedInv' /\ Answered
    BY <1>4, <1>5 DEF Shared!typeUserChecks
  <1>6. ASSUME NEW c \in Conns, NEW u, Shared!typePassChecks(c, u)
        PROVE  Common' /\ SharedInv' /\ Answered
    BY <1>4, <1>6 DEF Shared!typePassChecks
  <1> QED
    BY <1>1, <1>2, <1>3, <1>5, <1>6

LEMMA SharedNext ==
  ASSUME Common, SharedInv, program = "shared", Shared!Next
  PROVE  Common' /\ SharedInv' /\ Answered
  BY SharedUSER, SharedPASS, SharedLOUT, SharedRest DEF Shared!Next

----------------------------------------------------------------------------
(* What a session struct and its client make of a request (week6/ex2, ex2_fix). *)

LEMMA StructUSER ==
  ASSUME program \in {"layers", "sockets"}, NEW c, told[c] \in Told, NEW s, Agree(told[c], s),
         s.failed \in Nat, NEW u, NEW code, NEW r,
         \A v \in Held : users[v] = "blocked",
         \/ code \in {"01", "31"} /\ r = s
         \/ /\ code = "00" /\ s.st = "anon" /\ u \in Users /\ users[u] # "blocked"
            /\ r.user = u /\ r.st = "named" /\ r.failed = s.failed
  PROVE  /\ Learns(told[c], "USER", u, code) \in Told
         /\ Agree(Learns(told[c], "USER", u, code), r)
         /\ Deserved(c, "USER", u, code) /\ code \in Codes
  <1>1. CASE code \in {"01", "31"} /\ r = s
    <2>1. Learns(told[c], "USER", u, code) = told[c]
      BY <1>1, LearnsNothing
    <2> QED
      BY <1>1, <2>1 DEF Deserved, Codes
  <1>2. CASE /\ code = "00" /\ s.st = "anon" /\ u \in Users /\ users[u] # "blocked"
             /\ r.user = u /\ r.st = "named" /\ r.failed = s.failed
    BY <1>2, LearnsUSER DEF Deserved, Codes, Agree
  <1> QED
    BY <1>1, <1>2

LEMMA StructPASS ==
  ASSUME program \in {"layers", "sockets"}, NEW c, told[c] \in Told, NEW s, Agree(told[c], s),
         s.failed \in Nat, s.st \in {"anon", "named", "in"}, NEW p \in Users, NEW code, NEW r,
         \/ s.st # "named" /\ code = "11" /\ r = s
         \/ /\ s.st = "named" /\ p = s.user /\ code = "10"
            /\ r.user = s.user /\ r.st = "in" /\ r.failed = 0
         \/ /\ s.st = "named" /\ p # s.user /\ code = "11"
            /\ r.user = s.user /\ r.st = "named" /\ r.failed = s.failed + 1
         \/ /\ s.st = "named" /\ p # s.user /\ code = "31"
            /\ r.st = "anon" /\ r.failed = 0
  PROVE  /\ Learns(told[c], "PASS", p, code) \in Told
         /\ Agree(Learns(told[c], "PASS", p, code), r)
         /\ Deserved(c, "PASS", p, code) /\ code \in Codes
  <1>0. told[c].tries \in Nat
    BY DEF Told
  <1>1. CASE s.st # "named" /\ code = "11" /\ r = s
    <2>1. told[c].named = None \/ told[c].in
      BY <1>1 DEF Agree
    <2>2. /\ Learns(told[c], "PASS", p, code) \in Told
          /\ Agree(Learns(told[c], "PASS", p, code), r)
      BY <1>1, <2>1, LearnsWrong DEF Agree
    <2>3. Deserved(c, "PASS", p, code) /\ code \in Codes
      BY <1>1, <2>1, AccountsAssumption DEF Deserved, Codes
    <2> QED
      BY <2>2, <2>3
  <1>2. CASE /\ s.st = "named" /\ p = s.user /\ code = "10"
             /\ r.user = s.user /\ r.st = "in" /\ r.failed = 0
    <2>1. /\ Learns(told[c], "PASS", p, code) \in Told
          /\ Agree(Learns(told[c], "PASS", p, code), r)
      BY <1>2, LearnsIn DEF Agree
    <2>2. Deserved(c, "PASS", p, code) /\ code \in Codes
      BY <1>2 DEF Deserved, Codes, Agree
    <2> QED
      BY <2>1, <2>2
  <1>3. CASE /\ s.st = "named" /\ p # s.user /\ code = "11"
             /\ r.user = s.user /\ r.st = "named" /\ r.failed = s.failed + 1
    <2>1. /\ Learns(told[c], "PASS", p, code) \in Told
          /\ Agree(Learns(told[c], "PASS", p, code), r)
      BY <1>0, <1>3, LearnsWrong DEF Agree
    <2>2. Deserved(c, "PASS", p, code) /\ code \in Codes
      BY <1>3 DEF Deserved, Codes, Agree
    <2> QED
      BY <2>1, <2>2
  <1>4. CASE s.st = "named" /\ p # s.user /\ code = "31" /\ r.st = "anon" /\ r.failed = 0
    <2>1. /\ Learns(told[c], "PASS", p, code) \in Told
          /\ Agree(Learns(told[c], "PASS", p, code), r)
      BY <1>4, LearnsOut DEF Agree
    <2>2. Deserved(c, "PASS", p, code) /\ code \in Codes
      BY <1>4 DEF Deserved, Codes, Agree
    <2> QED
      BY <2>1, <2>2
  <1> QED
    BY <1>1, <1>2, <1>3, <1>4

LEMMA StructLOUT ==
  ASSUME NEW c, told[c] \in Told, NEW s, Agree(told[c], s), NEW u, NEW code, NEW r,
         \/ code = "21" /\ r = s
         \/ code = "20" /\ r.st = "anon" /\ r.failed = 0
  PROVE  /\ Learns(told[c], "LOUT", u, code) \in Told
         /\ Agree(Learns(told[c], "LOUT", u, code), r)
         /\ Deserved(c, "LOUT", u, code) /\ code \in Codes
  <1>1. CASE code = "21" /\ r = s
    <2>1. Learns(told[c], "LOUT", u, code) = told[c]
      BY <1>1, LearnsNothing
    <2> QED
      BY <1>1, <2>1 DEF Deserved, Codes
  <1>2. CASE code = "20" /\ r.st = "anon" /\ r.failed = 0
    BY <1>2, LearnsOut DEF Agree, Deserved, Codes
  <1> QED
    BY <1>1, <1>2
----------------------------------------------------------------------------
(* week6/ex2. *)

LEMMA LayersShares ==
  /\ Layers!Runs("layers") <=> program = "layers" /\ up
  /\ \A c, op, arg, code : Layers!Says(c, op, arg, code) <=> Says(c, op, arg, code)
  /\ \A c, op, arg, code : Layers!Reply(c, op, arg, code) <=> Reply(c, op, arg, code)
  /\ \A c : (Layers!Connect(c) <=> Connect(c)) /\ (Layers!Leaves(c) <=> Leaves(c))
  /\ Layers!Exit <=> Exit
  /\ Layers!Open = Open
  <1>1. Layers!Runs("layers") <=> program = "layers" /\ up
    BY DEF Layers!Runs
  <1>2. \A t, op, arg, code : Layers!Learns(t, op, arg, code) = Learns(t, op, arg, code)
    BY DEF Layers!Learns, Learns, Layers!Limit, Limit, Layers!MaxTries, MaxTries
  <1>3. \A c, op, arg, code : Layers!Says(c, op, arg, code) <=> Says(c, op, arg, code)
    BY DEF Layers!Says, Says, Layers!Silence, Silence
  <1>4. \A c, op, arg, code : Layers!Reply(c, op, arg, code) <=> Reply(c, op, arg, code)
    BY <1>2, <1>3 DEF Layers!Reply, Reply
  <1>5. \A c : (Layers!Connect(c) <=> Connect(c)) /\ (Layers!Leaves(c) <=> Leaves(c))
    BY DEF Layers!Connect, Connect, Layers!Leaves, Leaves, Layers!Newcomer, Newcomer
  <1>6. Layers!Open = Open
    BY DEF Layers!Open, Open
  <1>8. Layers!Exit <=> Exit
    BY DEF Layers!Exit, Exit, Layers!AllLost, AllLost, Layers!Open, Open, Layers!Silence, Silence,
       Layers!Newcomer, Newcomer
  <1> QED
    BY <1>1, <1>3, <1>4, <1>5, <1>6, <1>8

LEMMA LayersSession ==
  ASSUME LayersInv, NEW c \in Conns, conn[c] = "open"
  PROVE  /\ sess \in Seq(SessionStructs) /\ 1 \in DOMAIN sess /\ sess[1] \in SessionStructs
         /\ Agree(told[c], sess[1]) /\ sess[1].failed \in Nat
         /\ sess[1].st \in {"anon", "named", "in"} /\ \A d \in Open : d = c
  <1>1. c \in Open
    BY DEF Open
  <1>2. sess \in Seq(SessionStructs) /\ sess # <<>>
    BY <1>1 DEF LayersInv
  <1>3. 1 \in DOMAIN sess /\ sess[1] \in SessionStructs
    BY <1>2
  <1> QED
    BY <1>1, <1>2, <1>3 DEF LayersInv, SessionStructs

\* What a request leaves in the one session, and what it does to the accounts.
LEMMA LayersSet ==
  ASSUME Common', LayersInv, NEW c \in Conns, conn[c] = "open", up,
         UNCHANGED <<up, file, conn>>, NEW r \in SessionStructs, sess' = [sess EXCEPT ![1] = r],
         Agree(told'[c], r), \A u \in Users : users'[u] # "lost",
         \A u \in Held' : users'[u] = "blocked"
  PROVE  LayersInv'
  <1>1. \A d \in Open : d = c
    BY LayersSession
  <1>2. sess' \in Seq(SessionStructs) /\ sess'[1] = r /\ Len(sess') = Len(sess)
    BY LayersSession, SetOne
  <1>3. sess' # <<>>
    BY <1>2, LayersSession
  <1>4. Open' = Open /\ c \in Open
    BY DEF Open
  <1> QED
    BY <1>1, <1>2, <1>3, <1>4 DEF LayersInv

LEMMA LayersUSER ==
  ASSUME Common, LayersInv, program = "layers", NEW c \in Conns, NEW u, Layers!runUSER(c, u)
  PROVE  Common' /\ LayersInv' /\ Answered
  <1>0. up /\ conn[c] = "open" /\ UNCHANGED <<program, up, file, users, conn, ghost>>
    BY LayersShares DEF Layers!runUSER, Layers!Talks
  <1>1. /\ users \in [Users -> Statuses] /\ ghost \in Ghost /\ file \in Files /\ told[c] \in Told
    BY CommonTypes
  <1>2. PICK code \in {"00", "01", "31"} :
          /\ Layers!Reply(c, "USER", u, code)
          /\ IF code = "00" THEN /\ sess[1].st = "anon" /\ u \in Users /\ users[u] # "blocked"
                                 /\ sess' = [sess EXCEPT ![1].user = u, ![1].st = "named"]
             ELSE sess' = sess
    <2> DEFINE login == Layers!loginUser(u)
    <2>1. \/ login = "not found" \/ login = "existed" \/ login = "blocked"
          \/ login = "success" /\ sess[1].st = "anon" /\ u \in Users /\ users[u] # "blocked"
      BY DEF Layers!loginUser, Layers!ss
    <2>2. /\ sess' = IF login = "success" THEN [sess EXCEPT ![1].user = u, ![1].st = "named"]
                     ELSE sess
          /\ Layers!Reply(c, "USER", u, CASE login = "success" -> "00"
                                          [] login = "blocked" -> "31" [] OTHER -> "01")
      BY DEF Layers!runUSER
    <2> HIDE DEF login
    <2>3. CASE login = "not found" \/ login = "existed"
      BY <2>2, <2>3
    <2>4. CASE login = "blocked"
      BY <2>2, <2>4
    <2>5. CASE login = "success" /\ sess[1].st = "anon" /\ u \in Users /\ users[u] # "blocked"
      BY <2>2, <2>5
    <2> QED
      BY <2>1, <2>3, <2>4, <2>5
  <1>3. PICK r \in SessionStructs :
          /\ sess' = [sess EXCEPT ![1] = r]
          /\ \/ code \in {"01", "31"} /\ r = sess[1]
             \/ /\ code = "00" /\ sess[1].st = "anon" /\ u \in Users /\ users[u] # "blocked"
                /\ r.user = u /\ r.st = "named" /\ r.failed = sess[1].failed
    <2>0. sess \in Seq(SessionStructs) /\ 1 \in DOMAIN sess /\ sess[1] \in SessionStructs
      BY <1>0, LayersSession
    <2>1. CASE code = "00"
      <3>1. PICK r : r = [sess[1] EXCEPT !.user = u, !.st = "named"]
        OBVIOUS
      <3>2. r \in SessionStructs /\ r.user = u /\ r.st = "named" /\ r.failed = sess[1].failed
        BY <1>2, <2>0, <2>1, <3>1 DEF SessionStructs
      <3>3. sess' = [sess EXCEPT ![1] = r]
        BY <1>2, <2>0, <2>1, <3>1
      <3> QED
        BY <1>2, <2>1, <3>2, <3>3
    <2>2. CASE code # "00"
      <3>1. sess' = [sess EXCEPT ![1] = sess[1]]
        BY <1>2, <2>0, <2>2
      <3> QED
        BY <1>2, <2>0, <2>2, <3>1
    <2> QED
      BY <2>1, <2>2
  <1>4. Reply(c, "USER", u, code)
    BY <1>2, LayersShares
  <1>5. \A v \in Held : users[v] = "blocked"
    BY <1>0 DEF LayersInv
  <1>6. /\ Learns(told[c], "USER", u, code) \in Told
        /\ Agree(Learns(told[c], "USER", u, code), r)
        /\ Deserved(c, "USER", u, code) /\ code \in Codes
    BY <1>0, <1>1, <1>3, <1>5, StructUSER, LayersSession
  <1>7. Common' /\ Answered /\ told'[c] = Learns(told[c], "USER", u, code)
    BY <1>0, <1>1, <1>4, <1>6, ReplyCommon
  <1>8. \A v \in Held' : users'[v] = "blocked"
    BY <1>0, <1>5 DEF Held
  <1>9. \A v \in Users : users'[v] # "lost"
    BY <1>0 DEF LayersInv
  <1>10. LayersInv'
    BY <1>0, <1>3, <1>6, <1>7, <1>8, <1>9, LayersSet
  <1> QED
    BY <1>7, <1>10

LEMMA LayersPASS ==
  ASSUME Common, LayersInv, program = "layers", NEW c \in Conns, NEW p \in Users,
         Layers!runPASS(c, p)
  PROVE  Common' /\ LayersInv' /\ Answered
  <1> DEFINE x == sess[1]
             login == Layers!loginPass(p)
             S == IF login.status = "blocked" THEN {x.user} ELSE {}
  <1>0. up /\ conn[c] = "open" /\ UNCHANGED <<program, up, file, conn>>
    BY LayersShares DEF Layers!runPASS, Layers!Talks
  <1>1. users \in [Users -> Statuses] /\ ghost \in Ghost /\ file \in Files /\ told[c] \in Told
    BY CommonTypes
  <1>2. /\ sess \in Seq(SessionStructs) /\ 1 \in DOMAIN sess /\ x \in SessionStructs
        /\ Agree(told[c], x) /\ x.failed \in 0..4 /\ x.st \in {"anon", "named", "in"}
    BY <1>0, LayersSession DEF SessionStructs
  <1>3. /\ sess' = [sess EXCEPT ![1] = login.ss]
        /\ users' = [u \in Users |-> IF u \in S THEN "blocked" ELSE users[u]]
        /\ ghost' = [ghost EXCEPT !.struck = @ \cup S, !.forgotten = @ \ S]
        /\ Layers!Reply(c, "PASS", p, CASE login.status = "success" -> "10"
                                        [] login.status = "blocked" -> "31" [] OTHER -> "11")
    BY DEF Layers!runPASS, Layers!ss
  <1>4. \/ x.st # "named" /\ login = [status |-> "not now", ss |-> x]
        \/ /\ x.st = "named" /\ p = x.user
           /\ login = [status |-> "success", ss |-> [x EXCEPT !.st = "in", !.failed = 0]]
        \/ /\ x.st = "named" /\ p # x.user /\ x.failed + 1 < 5
           /\ login = [status |-> "wrong", ss |-> [x EXCEPT !.failed = @ + 1]]
        \/ /\ x.st = "named" /\ p # x.user
           /\ login = [status |-> "blocked", ss |-> [user |-> None, st |-> "anon", failed |-> 0]]
    BY DEF Layers!loginPass, Layers!ss, Layers!MAX_LOGIN_FAILED, Layers!NewSession
  <1> HIDE DEF login, x
  <1>n. 0 \in 0..4 /\ x.user \in Users \cup {None} /\ (x.st = "named" => x.user \in Users)
    BY <1>2 DEF SessionStructs, Agree
  <1>5. \E code \in {"10", "11", "31"} : \E r \in SessionStructs :
          /\ r = login.ss /\ Layers!Reply(c, "PASS", p, code)
          /\ \/ x.st # "named" /\ code = "11" /\ r = x
             \/ /\ x.st = "named" /\ p = x.user /\ code = "10"
                /\ r.user = x.user /\ r.st = "in" /\ r.failed = 0
             \/ /\ x.st = "named" /\ p # x.user /\ code = "11"
                /\ r.user = x.user /\ r.st = "named" /\ r.failed = x.failed + 1
             \/ /\ x.st = "named" /\ p # x.user /\ code = "31"
                /\ r.st = "anon" /\ r.failed = 0
    <2>0. login.ss = login.ss
      OBVIOUS
    <2>1. CASE x.st # "named" /\ login = [status |-> "not now", ss |-> x]
      <3>1. Layers!Reply(c, "PASS", p, "11")
        <4>1. login.status = "not now"
          BY <2>1
        <4> QED
          BY <1>3, <4>1
      <3>2. login.ss = x
        BY <2>1
      <3> QED
        BY <1>2, <2>1, <3>1, <3>2
    <2>2. CASE /\ x.st = "named" /\ p = x.user
               /\ login = [status |-> "success", ss |-> [x EXCEPT !.st = "in", !.failed = 0]]
      <3>1. Layers!Reply(c, "PASS", p, "10")
        <4>1. login.status = "success"
          BY <2>2
        <4> QED
          BY <1>3, <4>1
      <3>2. PICK r : r = login.ss /\ r = [x EXCEPT !.st = "in", !.failed = 0]
        BY <2>2
      <3>3. r \in SessionStructs /\ r.user = x.user /\ r.st = "in" /\ r.failed = 0
        BY <1>2, <1>n, <3>2 DEF SessionStructs
      <3> HIDE DEF S
      <3> QED
        BY <2>2, <3>1, <3>2, <3>3
    <2>3. CASE /\ x.st = "named" /\ p # x.user /\ x.failed + 1 < 5
               /\ login = [status |-> "wrong", ss |-> [x EXCEPT !.failed = @ + 1]]
      <3>1. Layers!Reply(c, "PASS", p, "11")
        <4>1. login.status = "wrong"
          BY <2>3
        <4> QED
          BY <1>3, <4>1
      <3>2. PICK r : r = login.ss /\ r = [x EXCEPT !.failed = @ + 1]
        BY <2>3
      <3>3. x.failed + 1 \in 0..4
        BY <1>2, <2>3
      <3>4. /\ r \in SessionStructs /\ r.user = x.user /\ r.st = "named"
            /\ r.failed = x.failed + 1
        BY <1>2, <2>3, <3>2, <3>3 DEF SessionStructs
      <3> QED
        BY <2>3, <3>1, <3>2, <3>4
    <2>4. CASE /\ x.st = "named" /\ p # x.user
               /\ login = [status |-> "blocked",
                           ss |-> [user |-> None, st |-> "anon", failed |-> 0]]
      <3>1. Layers!Reply(c, "PASS", p, "31")
        <4>1. login.status = "blocked"
          BY <2>4
        <4> QED
          BY <1>3, <4>1
      <3>2. PICK r : r = login.ss /\ r = [user |-> None, st |-> "anon", failed |-> 0]
        BY <2>4
      <3>3. r \in SessionStructs /\ r.st = "anon" /\ r.failed = 0
        BY <1>n, <3>2 DEF SessionStructs
      <3> QED
        BY <2>4, <3>1, <3>2, <3>3
    <2> QED
      BY <1>4, <2>1, <2>2, <2>3, <2>4
  <1>5a. PICK code \in {"10", "11", "31"}, r \in SessionStructs :
          /\ r = login.ss /\ Layers!Reply(c, "PASS", p, code)
          /\ \/ x.st # "named" /\ code = "11" /\ r = x
             \/ /\ x.st = "named" /\ p = x.user /\ code = "10"
                /\ r.user = x.user /\ r.st = "in" /\ r.failed = 0
             \/ /\ x.st = "named" /\ p # x.user /\ code = "11"
                /\ r.user = x.user /\ r.st = "named" /\ r.failed = x.failed + 1
             \/ /\ x.st = "named" /\ p # x.user /\ code = "31"
                /\ r.st = "anon" /\ r.failed = 0
    BY <1>5
  <1>6. Reply(c, "PASS", p, code)
    BY <1>5a, LayersShares
  <1>7. S \in SUBSET Users
    <2>1. login.status = "blocked" => x.st = "named"
      <3>1. CASE x.st = "named"
        BY <3>1
      <3>2. CASE x.st # "named"
        <4>1. login = [status |-> "not now", ss |-> x]
          BY <1>4, <3>2
        <4> QED
          BY <4>1
      <3> QED
        BY <3>1, <3>2
    <2> QED
      BY <1>n, <2>1
  <1> HIDE DEF S
  <1>8. \A v \in Held : users[v] = "blocked"
    BY <1>0 DEF LayersInv
  <1>9. /\ ghost' \in Ghost /\ users' \in [Users -> Statuses]
        /\ \A u \in Held' : users'[u] = "blocked"
    BY <1>1, <1>3, <1>7, <1>8, StrikeHeld
  <1>10. /\ Learns(told[c], "PASS", p, code) \in Told
         /\ Agree(Learns(told[c], "PASS", p, code), r)
         /\ Deserved(c, "PASS", p, code) /\ code \in Codes
    <2>1. x.failed \in Nat
      BY <1>2
    <2> HIDE DEF S
    <2> QED
      BY <1>1, <1>2, <1>5a, <2>1, StructPASS
  <1>11. Common' /\ Answered /\ told'[c] = Learns(told[c], "PASS", p, code)
    BY <1>0, <1>1, <1>6, <1>9, <1>10, ReplyCommon
  <1>12. \A v \in Users : users'[v] # "lost"
    BY <1>0, <1>3 DEF LayersInv
  <1>13. LayersInv'
    BY <1>0, <1>3, <1>5a, <1>9, <1>10, <1>11, <1>12, LayersSet
  <1> QED
    BY <1>11, <1>13

LEMMA LayersLOUT ==
  ASSUME Common, LayersInv, program = "layers", NEW c \in Conns, NEW u, NEW op, NEW code, NEW r,
         up, conn[c] = "open", UNCHANGED <<program, up, file, users, conn, ghost>>,
         Reply(c, op, u, code), r \in SessionStructs, sess' = [sess EXCEPT ![1] = r],
         Deserved(c, op, u, code), code \in Codes,
         Learns(told[c], op, u, code) \in Told, Agree(Learns(told[c], op, u, code), r)
  PROVE  Common' /\ LayersInv' /\ Answered
  <1>1. users \in [Users -> Statuses] /\ ghost \in Ghost /\ file \in Files
    BY CommonTypes
  <1>2. Common' /\ Answered /\ told'[c] = Learns(told[c], op, u, code)
    BY <1>1, ReplyCommon
  <1>3. (\A v \in Held' : users'[v] = "blocked") /\ \A v \in Users : users'[v] # "lost"
    BY DEF LayersInv, Held
  <1> QED
    BY <1>2, <1>3, LayersSet

LEMMA LayersRest ==
  ASSUME Common, LayersInv, program = "layers", NEW c \in Conns,
         \/ Layers!newSession(c) \/ Layers!makeCommand(c)
         \/ Layers!removeSession(c) \/ Layers!removeSessionStops(c)
         \/ \E u, p \in Users : Layers!runLOUT(c, u, p)
  PROVE  Common' /\ LayersInv' /\ Answered
  <1>0. /\ told \in [Conns -> Told] /\ file \in Files /\ users \in [Users -> Statuses]
        /\ ghost \in Ghost /\ conn \in [Conns -> Kinds] /\ said.code \in Codes
    BY CommonTypes
  <1>1. CASE Layers!newSession(c)
    <2>1. /\ up /\ Open = {} /\ Connect(c)
          /\ UNCHANGED <<program, up, file, users, said, told, ghost>>
      BY <1>1, LayersShares DEF Layers!newSession
    <2>2. Common' /\ Answered
      BY <1>0, <2>1, QuietCommon
    <2>3. Open' = {c} /\ \A d \in Conns : conn'[d] # "hung"
      BY <1>0, <2>1 DEF Connect, Open
    <2>4. PICK r : r = [user |-> None, st |-> "anon", failed |-> 0]
      OBVIOUS
    <2>5. sess' = Append(sess, r) /\ sess = <<>> /\ r \in SessionStructs
      BY <1>1, <2>1, <2>4 DEF Layers!newSession, Layers!NewSession, LayersInv, SessionStructs
    <2>6. sess' \in Seq(SessionStructs) /\ sess' # <<>> /\ sess'[1] = r
      BY <2>5
    <2>7. told'[c] = Newcomer
      BY <2>1 DEF Common, Connect
    <2>8. Agree(told'[c], sess'[1])
      BY <2>4, <2>6, <2>7 DEF Agree, Newcomer
    <2>9. LayersInv'
      BY <2>1, <2>3, <2>6, <2>8 DEF LayersInv, Held
    <2> QED
      BY <2>2, <2>9
  <1>2. CASE Layers!makeCommand(c)
    <2>1. /\ Reply(c, "other", None, "41") /\ up /\ conn[c] = "open"
          /\ UNCHANGED <<program, up, file, users, sess, conn, local, ghost>>
      BY <1>2, LayersShares DEF Layers!makeCommand, Layers!Talks
    <2>2. Deserved(c, "other", None, "41") /\ "41" \in Codes
      BY DEF Deserved, Codes
    <2>3. Learns(told[c], "other", None, "41") = told[c]
      BY LearnsNothing
    <2>4. /\ sess[1] \in SessionStructs /\ Agree(told[c], sess[1])
          /\ sess \in Seq(SessionStructs) /\ 1 \in DOMAIN sess
      BY <2>1, LayersSession
    <2>5. sess' = [sess EXCEPT ![1] = sess[1]]
      BY <2>1, <2>4
    <2>6. /\ Learns(told[c], "other", None, "41") \in Told
          /\ Agree(Learns(told[c], "other", None, "41"), sess[1])
      BY <1>0, <2>3, <2>4
    <2> QED
      BY <2>1, <2>2, <2>4, <2>5, <2>6, LayersLOUT
  <1>3. CASE Layers!removeSession(c)
    <2>1. /\ Leaves(c) /\ UNCHANGED <<program, up, users, local, said, ghost>> /\ up
          /\ conn[c] = "open" /\ sess' = <<>> /\ file' = users
      BY <1>3, LayersShares DEF Layers!removeSession, Layers!Talks
    <2>2. Answered
      BY <2>1 DEF Answered
    <2>3. file' \in Files
      BY <1>0, <2>1 DEF Files
    <2>4. /\ Common' /\ conn'[c] \in {"closed", "hung"}
          /\ \A d \in Conns \ {c} : conn'[d] = conn[d]
      BY <1>0, <2>1, <2>2, <2>3, GoneCommon DEF Leaves
    <2>5. conn'[c] = "closed"
      BY <1>0, <2>1 DEF Leaves
    <2>6. Open' = {} /\ \A d \in Conns : conn'[d] # "hung"
      BY <2>1, <2>4, <2>5, LayersSession DEF Open, LayersInv
    <2>7. \A u \in Users : users[u] # "lost"
      BY <2>1 DEF LayersInv
    <2>8. file' # Truncated
      <3>1. users[First] # "empty"
        BY <1>0, AccountsAssumption DEF Statuses
      <3> QED
        BY <2>1, <3>1, AccountsAssumption DEF Truncated
    <2>9. sess' \in Seq(SessionStructs)
      BY <2>1
    <2>10. LayersInv'
      BY <2>1, <2>6, <2>7, <2>8, <2>9 DEF LayersInv, Held
    <2> QED
      BY <2>2, <2>4, <2>10
  <1>4. CASE Layers!removeSessionStops(c)
    <2>1. /\ Exit /\ UNCHANGED <<program, file>>
          /\ ghost' = [ghost EXCEPT !.forgotten =
               @ \cup {u \in ghost.struck : file[u] # "blocked"}]
      BY <1>4, LayersShares DEF Layers!removeSessionStops
    <2>2. ghost' \in Ghost /\ \A u \in Held' : file[u] = "blocked"
      BY <1>0, <2>1 DEF Ghost, Held
    <2>3. Common' /\ Answered /\ Open' = {} /\ ~up'
      BY <1>0, <2>1, <2>2, ExitCommon
    <2>4. sess' = <<>> /\ sess' \in Seq(SessionStructs)
      BY <2>1 DEF Exit
    <2>5. \A d \in Conns : conn'[d] # "hung"
      BY <2>3 DEF Open
    <2>6. LayersInv'
      BY <2>1, <2>2, <2>3, <2>4, <2>5 DEF LayersInv
    <2> QED
      BY <2>3, <2>6
  <1>5. ASSUME NEW u, NEW p, Layers!runLOUT(c, u, p)
        PROVE  Common' /\ LayersInv' /\ Answered
    <2>1. up /\ conn[c] = "open" /\ UNCHANGED <<program, up, file, users, conn, local, ghost>>
      BY <1>5, LayersShares DEF Layers!runLOUT, Layers!Talks
    <2>2. /\ sess[1] \in SessionStructs /\ Agree(told[c], sess[1])
          /\ sess \in Seq(SessionStructs) /\ 1 \in DOMAIN sess
      BY <2>1, LayersSession
    <2>3. [user |-> None, st |-> "anon", failed |-> 0] \in SessionStructs
      BY DEF SessionStructs
    <2>4. PICK code \in {"20", "21"}, r \in SessionStructs :
            /\ Layers!Reply(c, "LOUT", u, code) /\ sess' = [sess EXCEPT ![1] = r]
            /\ \/ code = "21" /\ r = sess[1]
               \/ code = "20" /\ r.st = "anon" /\ r.failed = 0
      <3>1. CASE Layers!Reply(c, "LOUT", u, "21") /\ UNCHANGED sess
        <4>1. sess' = [sess EXCEPT ![1] = sess[1]]
          BY <2>2, <3>1
        <4> QED
          BY <2>2, <3>1, <4>1
      <3>2. CASE /\ Layers!Reply(c, "LOUT", u, "20")
                 /\ sess' = [sess EXCEPT ![1] = [user |-> None, st |-> "anon", failed |-> 0]]
        BY <2>3, <3>2
      <3> QED
        BY <1>5, <3>1, <3>2 DEF Layers!runLOUT, Layers!NewSession
    <2>5. Reply(c, "LOUT", u, code)
      BY <2>4, LayersShares
    <2>6. /\ Learns(told[c], "LOUT", u, code) \in Told
          /\ Agree(Learns(told[c], "LOUT", u, code), r)
          /\ Deserved(c, "LOUT", u, code) /\ code \in Codes
      BY <1>0, <2>2, <2>4, StructLOUT
    <2> QED
      BY <2>1, <2>4, <2>5, <2>6, LayersLOUT
  <1> QED
    BY <1>1, <1>2, <1>3, <1>4, <1>5

LEMMA LayersNext ==
  ASSUME Common, LayersInv, program = "layers", Layers!Next
  PROVE  Common' /\ LayersInv' /\ Answered
  BY LayersUSER, LayersPASS, LayersRest DEF Layers!Next, Layers!runCommand
----------------------------------------------------------------------------
\* week6/ex2_fix.

LEMMA SocketsShares ==
  /\ Sockets!Runs("sockets") <=> program = "sockets" /\ up
  /\ \A c, op, arg, code : Sockets!Says(c, op, arg, code) <=> Says(c, op, arg, code)
  /\ \A c, op, arg, code : Sockets!Reply(c, op, arg, code) <=> Reply(c, op, arg, code)
  /\ \A c : (Sockets!Connect(c) <=> Connect(c)) /\ (Sockets!Leaves(c) <=> Leaves(c))
  /\ Sockets!Exit <=> Exit
  /\ Sockets!Open = Open
  <1>1. Sockets!Runs("sockets") <=> program = "sockets" /\ up
    BY DEF Sockets!Runs
  <1>2. \A t, op, arg, code : Sockets!Learns(t, op, arg, code) = Learns(t, op, arg, code)
    BY DEF Sockets!Learns, Learns, Sockets!Limit, Limit, Sockets!MaxTries, MaxTries
  <1>3. \A c, op, arg, code : Sockets!Says(c, op, arg, code) <=> Says(c, op, arg, code)
    BY DEF Sockets!Says, Says, Sockets!Silence, Silence
  <1>4. \A c, op, arg, code : Sockets!Reply(c, op, arg, code) <=> Reply(c, op, arg, code)
    BY <1>2, <1>3 DEF Sockets!Reply, Reply
  <1>5. \A c : (Sockets!Connect(c) <=> Connect(c)) /\ (Sockets!Leaves(c) <=> Leaves(c))
    BY DEF Sockets!Connect, Connect, Sockets!Leaves, Leaves, Sockets!Newcomer, Newcomer
  <1>6. Sockets!Open = Open
    BY DEF Sockets!Open, Open
  <1>8. Sockets!Exit <=> Exit
    BY DEF Sockets!Exit, Exit, Sockets!AllLost, AllLost, Sockets!Open, Open, Sockets!Silence, Silence,
       Sockets!Newcomer, Newcomer
  <1> QED
    BY <1>1, <1>3, <1>4, <1>5, <1>6, <1>8

\* session_count never covers more than the table has.
LEMMA SessionCount ==
  ASSUME SocketsInv
  PROVE  Sockets!session_count + 1 \in 1..(Len(sess) + 1)
  <1> DEFINE S == {i \in DOMAIN sess : sess[i].counted}
  <1>1. Len(sess) \in Nat /\ DOMAIN sess = 1..Len(sess)
    BY DEF SocketsInv
  <1>2. IsFiniteSet(1..Len(sess)) /\ Cardinality(1..Len(sess)) = Len(sess)
    <2>1. /\ IsFiniteSet(1..Len(sess))
          /\ Cardinality(1..Len(sess)) = IF 1 > Len(sess) THEN 0 ELSE Len(sess) - 1 + 1
      BY <1>1, FS_Interval
    <2>2. (IF 1 > Len(sess) THEN 0 ELSE Len(sess) - 1 + 1) = Len(sess)
      BY <1>1
    <2> QED
      BY <2>1, <2>2
  <1>3. S \subseteq 1..Len(sess)
    BY <1>1
  <1>4. /\ IsFiniteSet(S) /\ Cardinality(S) \in Nat
        /\ Cardinality(S) <= Cardinality(1..Len(sess))
    BY <1>2, <1>3, FS_Subset, FS_CardinalityType
  <1>5. Sockets!session_count = Cardinality(S)
    BY DEF Sockets!session_count, Sockets!Cardinality, Cardinality
  <1> HIDE DEF S
  <1> QED
    BY <1>1, <1>2, <1>4, <1>5

\* What findSessionBySock() finds for a client.
LEMMA SocketsFind ==
  ASSUME SocketsInv, NEW c \in Conns, conn[c] = "open", local[c].step = "ready"
  PROVE  /\ c \in ghost.robbed => Sockets!findSessionBySock(c) = 0
         /\ c \notin ghost.robbed =>
              /\ Sockets!findSessionBySock(c) = local[c].place
              /\ local[c].place \in DOMAIN sess /\ sess[local[c].place] \in SocketSessions
              /\ local[c].place # 0 /\ sess[local[c].place].sock = c
              /\ Agree(told[c], sess[local[c].place])
  <1> DEFINE I == {i \in 1..Len(sess) : sess[i].counted /\ sess[i].sock = c}
             p == local[c].place
  <1>1. /\ sess \in Seq(SocketSessions) /\ DOMAIN sess = 1..Len(sess)
        /\ \A i, j \in DOMAIN sess : sess[i].sock = sess[j].sock => i = j
    BY DEF SocketsInv
  <1>2. SocketOwn(c)
    BY DEF SocketsInv
  <1>3. Sockets!findSessionBySock(c) = IF I # {} THEN CHOOSE x \in I : \A y \in I : x =< y ELSE 0
    BY DEF Sockets!findSessionBySock, Sockets!SelectInSeq, Sockets!Min
  <1>4. CASE c \in ghost.robbed
    <2>1. I = {}
      BY <1>1, <1>2, <1>4 DEF SocketOwn, Sessionless
    <2> QED
      BY <1>3, <1>4, <2>1
  <1>5. CASE c \notin ghost.robbed
    <2>1. /\ p \in DOMAIN sess /\ sess[p].sock = c /\ sess[p].counted /\ Agree(told[c], sess[p])
      BY <1>2, <1>5 DEF SocketOwn
    <2>2. sess[p] \in SocketSessions /\ p \in Nat /\ p # 0
      BY <1>1, <2>1
    <2>3. I = {p}
      BY <1>1, <2>1
    <2>4. Sockets!findSessionBySock(c) = p
      BY <1>3, <2>2, <2>3
    <2> QED
      BY <1>5, <2>1, <2>2, <2>4
  <1> QED
    BY <1>4, <1>5

\* A step of another client, that leaves the sessions of d alone.
LEMMA SocketsOthers ==
  ASSUME SocketsInv, NEW d \in Conns,
         conn'[d] = conn[d], local'[d] = local[d], told'[d] = told[d],
         d \in ghost'.robbed <=> d \in ghost.robbed, sess' \in Seq(SocketSessions),
         Len(sess') >= Len(sess),
         \A i \in DOMAIN sess' : sess'[i].sock = d => i \in DOMAIN sess /\ sess[i].sock = d,
         \A i \in DOMAIN sess : sess[i].sock = d => sess'[i] = sess[i]
  PROVE  SocketOwn(d)'
  <1>1. sess \in Seq(SocketSessions) /\ SocketOwn(d)
    BY DEF SocketsInv
  <1>2. Len(sess) \in Nat /\ Len(sess') \in Nat /\ DOMAIN sess = 1..Len(sess)
        /\ DOMAIN sess' = 1..Len(sess')
    BY <1>1
  <1>3. Sessionless(d) => Sessionless(d)'
    BY DEF Sessionless
  <1>4. ASSUME conn'[d] = "new"
        PROVE  d \notin ghost'.robbed /\ Sessionless(d)'
    BY <1>1, <1>3, <1>4 DEF SocketOwn
  <1>5. ASSUME conn'[d] = "open"
        PROVE  /\ local'[d] \in SocketThreads
               /\ local'[d].step # "ready" => told'[d] = Newcomer
               /\ local'[d].step \in {"looking", "writing"} =>
                    d \notin ghost'.robbed /\ Sessionless(d)'
               /\ local'[d].step = "writing" => local'[d].place \in 1..(Len(sess') + 1)
    BY <1>1, <1>2, <1>3, <1>5 DEF SocketOwn
  <1>6. ASSUME conn'[d] = "open", local'[d].step \in {"counting", "ready"},
               d \in ghost'.robbed
        PROVE  Sessionless(d)'
    BY <1>1, <1>3, <1>6 DEF SocketOwn
  <1>7. ASSUME conn'[d] = "open", local'[d].step \in {"counting", "ready"},
               d \notin ghost'.robbed
        PROVE  /\ local'[d].place \in DOMAIN sess' /\ sess'[local'[d].place].sock = d
               /\ local'[d].step = "ready" => sess'[local'[d].place].counted
               /\ Agree(told'[d], sess'[local'[d].place])
    <2>1. /\ local[d].place \in DOMAIN sess /\ sess[local[d].place].sock = d
          /\ local[d].step = "ready" => sess[local[d].place].counted
          /\ Agree(told[d], sess[local[d].place])
      BY <1>1, <1>7 DEF SocketOwn
    <2>2. local[d].place \in DOMAIN sess'
      BY <1>2, <2>1
    <2>3. sess'[local[d].place] = sess[local[d].place]
      BY <2>1
    <2> QED
      BY <2>1, <2>2, <2>3
  <1> QED
    BY <1>4, <1>5, <1>6, <1>7 DEF SocketOwn

\* One client's thread goes a step on.
LEMMA SetLocal ==
  ASSUME NEW S, local \in [Conns -> S], NEW c \in Conns, NEW r \in S,
         local' = [local EXCEPT ![c] = r]
  PROVE  local' \in [Conns -> S] /\ local'[c] = r /\ \A d \in Conns \ {c} : local'[d] = local[d]
  OBVIOUS

\* A step of c that touches no session.
LEMMA SocketsQuiet ==
  ASSUME SocketsInv, NEW c \in Conns, UNCHANGED <<up, file, users, sess, ghost>>,
         local' \in [Conns -> SocketThreads \cup {None}], SocketOwn(c)',
         \A d \in Conns \ {c} :
           conn'[d] = conn[d] /\ local'[d] = local[d] /\ told'[d] = told[d]
  PROVE  SocketsInv'
  <1>1. sess \in Seq(SocketSessions) /\ Len(sess) \in Nat
    BY DEF SocketsInv
  <1>2. ASSUME NEW d \in Conns \ {c} PROVE SocketOwn(d)'
    BY <1>1, SocketsOthers
  <1>3. \A d \in Conns : SocketOwn(d)'
    BY <1>2
  <1> QED
    BY <1>3 DEF SocketsInv, Held

LEMMA SocketsJoin ==
  ASSUME Common, SocketsInv, program = "sockets", NEW c \in Conns,
         Sockets!accept(c) \/ Sockets!looks(c)
  PROVE  Common' /\ SocketsInv' /\ Answered
  <1>0. /\ told \in [Conns -> Told] /\ file \in Files /\ users \in [Users -> Statuses]
        /\ ghost \in Ghost /\ conn \in [Conns -> Kinds] /\ said.code \in Codes
    BY CommonTypes
  <1>1. local \in [Conns -> SocketThreads \cup {None}] /\ SocketOwn(c)
    BY DEF SocketsInv
  <1>2. CASE Sockets!accept(c)
    <2>1. /\ up /\ Connect(c) /\ UNCHANGED <<program, up, file, users, sess, said, told, ghost>>
      BY <1>2, SocketsShares DEF Sockets!accept
    <2>2. Common' /\ Answered
      BY <1>0, <2>1, QuietCommon
    <2>3. PICK r : r = [step |-> "looking", place |-> 0]
      OBVIOUS
    <2>4. r \in SocketThreads /\ r.step = "looking" /\ local' = [local EXCEPT ![c] = r]
      BY <1>2, <2>3 DEF SocketThreads, Sockets!accept
    <2>5. /\ local' \in [Conns -> SocketThreads \cup {None}] /\ local'[c] = r
          /\ \A d \in Conns \ {c} : local'[d] = local[d]
      BY <1>1, <2>4, SetLocal
    <2>6. conn[c] = "new" /\ conn'[c] = "open" /\ \A d \in Conns \ {c} : conn'[d] = conn[d]
      BY <1>0, <2>1 DEF Connect
    <2>7. told'[c] = Newcomer
      BY <2>1, <2>6 DEF Common
    <2>8. c \notin ghost'.robbed /\ Sessionless(c)'
      BY <1>1, <2>1, <2>6 DEF SocketOwn, Sessionless
    <2>9. SocketOwn(c)'
      BY <2>4, <2>5, <2>6, <2>7, <2>8 DEF SocketOwn
    <2>10. SocketsInv'
      BY <2>1, <2>5, <2>6, <2>9, SocketsQuiet
    <2> QED
      BY <2>2, <2>10
  <1>3. CASE Sockets!looks(c)
    <2>1. /\ up /\ conn[c] = "open" /\ local[c].step = "looking"
          /\ UNCHANGED <<program, up, file, users, sess, conn, said, told, ghost>>
      BY <1>3, SocketsShares DEF Sockets!looks, Sockets!At
    <2>2. Common' /\ Answered
      BY <1>0, <2>1, QuietCommon
    <2>3. PICK r : r = [step |-> "writing", place |-> Sockets!session_count + 1]
      OBVIOUS
    <2>4. /\ r \in SocketThreads /\ r.step = "writing" /\ r.place \in 1..(Len(sess) + 1)
          /\ local' = [local EXCEPT ![c] = r]
      <3>1. sess \in Seq(SocketSessions) /\ Len(sess) + 1 \in Nat
        BY DEF SocketsInv
      <3>2. Sockets!session_count + 1 \in Nat /\ Sockets!session_count + 1 \in 1..(Len(sess) + 1)
        BY <3>1, SessionCount
      <3> QED
        BY <1>3, <2>3, <3>2 DEF SocketThreads, Sockets!looks
    <2>5. /\ local' \in [Conns -> SocketThreads \cup {None}] /\ local'[c] = r
          /\ \A d \in Conns \ {c} : local'[d] = local[d]
      BY <1>1, <2>4, SetLocal
    <2>6. told[c] = Newcomer /\ c \notin ghost.robbed /\ Sessionless(c)
      BY <1>1, <2>1 DEF SocketOwn
    <2>7. SocketOwn(c)'
      BY <2>1, <2>4, <2>5, <2>6 DEF SocketOwn, Sessionless
    <2>8. SocketsInv'
      BY <2>1, <2>5, <2>7, SocketsQuiet
    <2> QED
      BY <2>2, <2>8
  <1> QED
    BY <1>2, <1>3

LEMMA SocketsCreate ==
  ASSUME Common, SocketsInv, program = "sockets", NEW c \in Conns, Sockets!createSession(c)
  PROVE  Common' /\ SocketsInv' /\ Answered
  <1> DEFINE p == local[c].place
             owner == IF p > Len(sess) THEN {} ELSE {sess[p].sock}
             new == [user |-> None, st |-> "anon", failed |-> 0, sock |-> c, counted |-> FALSE]
  <1>0. /\ told \in [Conns -> Told] /\ file \in Files /\ users \in [Users -> Statuses]
        /\ ghost \in Ghost /\ conn \in [Conns -> Kinds] /\ said.code \in Codes
    BY CommonTypes
  <1>1. /\ local \in [Conns -> SocketThreads \cup {None}] /\ SocketOwn(c)
        /\ sess \in Seq(SocketSessions)
        /\ \A i, j \in DOMAIN sess : sess[i].sock = sess[j].sock => i = j
    BY DEF SocketsInv
  <1>2. /\ up /\ conn[c] = "open" /\ local[c].step = "writing"
        /\ UNCHANGED <<program, up, file, users, conn, said, told>>
    BY SocketsShares DEF Sockets!createSession, Sockets!At
  <1>3. /\ sess' = IF owner = {} THEN Append(sess, new)
                   ELSE [sess EXCEPT ![p] = [new EXCEPT !.counted = sess[p].counted]]
        /\ local' = [local EXCEPT ![c].step = "counting"]
        /\ ghost' = [ghost EXCEPT !.robbed = @ \cup owner]
    BY DEF Sockets!createSession, Sockets!NewSession
  <1>4. /\ local[c] \in SocketThreads /\ told[c] = Newcomer /\ c \notin ghost.robbed
        /\ Sessionless(c) /\ p \in 1..(Len(sess) + 1)
    BY <1>1, <1>2 DEF SocketOwn
  <1>5. Len(sess) \in Nat /\ DOMAIN sess = 1..Len(sess)
    BY <1>1
  <1>6. PICK r : r = [local[c] EXCEPT !.step = "counting"]
    OBVIOUS
  <1>7. r \in SocketThreads /\ r.step = "counting" /\ r.place = p
    BY <1>4, <1>6 DEF SocketThreads
  <1>8. local' = [local EXCEPT ![c] = r]
    BY <1>1, <1>3, <1>6
  <1>9. /\ local' \in [Conns -> SocketThreads \cup {None}] /\ local'[c] = r
        /\ \A d \in Conns \ {c} : local'[d] = local[d]
    BY <1>1, <1>7, <1>8, SetLocal
  <1>10. PICK q \in SocketSessions :
           /\ q.sock = c /\ q.user = None /\ q.st = "anon" /\ q.failed = 0
           /\ sess' \in Seq(SocketSessions) /\ Len(sess') >= Len(sess)
           /\ p \in DOMAIN sess' /\ sess'[p] = q
           /\ \A i \in DOMAIN sess' : i # p => i \in DOMAIN sess /\ sess'[i] = sess[i]
           /\ DOMAIN sess \subseteq DOMAIN sess'
           /\ owner = IF p \in DOMAIN sess THEN {sess[p].sock} ELSE {}
    <2>0. 0 \in 0..4
      OBVIOUS
    <2>1. CASE p > Len(sess)
      <3>1. p = Len(sess) + 1 /\ p \notin DOMAIN sess
        BY <1>4, <1>5, <2>1
      <3>2. owner = {}
        BY <2>1
      <3>3. PICK q : q = new
        OBVIOUS
      <3>4. /\ q \in SocketSessions /\ q.sock = c /\ q.user = None /\ q.st = "anon"
            /\ q.failed = 0
        BY <2>0, <3>3 DEF SocketSessions
      <3> HIDE DEF new, owner
      <3>5. sess' = Append(sess, q)
        BY <1>3, <3>2, <3>3
      <3> HIDE DEF p
      <3>6. /\ sess' \in Seq(SocketSessions) /\ Len(sess') = Len(sess) + 1
            /\ DOMAIN sess' = DOMAIN sess \cup {p} /\ sess'[p] = q
            /\ \A j \in DOMAIN sess : sess'[j] = sess[j]
        BY <1>1, <3>1, <3>4, <3>5, AddOne
      <3>7. Len(sess') >= Len(sess)
        BY <1>5, <3>6
      <3> QED
        BY <3>1, <3>2, <3>4, <3>6, <3>7
    <2>2. CASE ~(p > Len(sess))
      <3>1. p \in DOMAIN sess
        BY <1>4, <1>5, <2>2
      <3>2. owner = {sess[p].sock} /\ owner # {}
        BY <2>2
      <3>3. sess[p] \in SocketSessions
        BY <1>1, <3>1
      <3>4. PICK q : q = [new EXCEPT !.counted = sess[p].counted]
        OBVIOUS
      <3>5. /\ q \in SocketSessions /\ q.sock = c /\ q.user = None /\ q.st = "anon"
            /\ q.failed = 0
        BY <2>0, <3>3, <3>4 DEF SocketSessions
      <3> HIDE DEF new, owner
      <3>6. sess' = [sess EXCEPT ![p] = q]
        BY <1>3, <3>2, <3>4
      <3> HIDE DEF p
      <3>7. /\ sess' \in Seq(SocketSessions) /\ Len(sess') = Len(sess)
            /\ DOMAIN sess' = DOMAIN sess /\ sess'[p] = q
            /\ \A j \in DOMAIN sess : j # p => sess'[j] = sess[j]
        BY <1>1, <3>1, <3>5, <3>6, SetOne
      <3>8. Len(sess') >= Len(sess)
        BY <1>5, <3>7
      <3> QED
        BY <3>1, <3>2, <3>5, <3>7, <3>8
    <2> QED
      BY <2>1, <2>2
  <1> HIDE DEF owner, new, p
  <1>11. owner \subseteq Conns
    <2>0. \A j \in DOMAIN sess : sess[j] \in SocketSessions
      BY <1>1, Elements
    <2>1. \A j \in DOMAIN sess : sess[j].sock \in Conns
      BY <2>0 DEF SocketSessions
    <2> QED
      BY <1>10, <2>1
  <1>12. /\ ghost' \in Ghost /\ ghost'.robbed = ghost.robbed \cup owner
         /\ ghost'.struck = ghost.struck /\ ghost'.forgotten = ghost.forgotten
    BY <1>0, <1>3, <1>11 DEF Ghost
  <1>13. Common' /\ Answered
    BY <1>0, <1>2, <1>12, QuietCommon
  <1>14. c \notin owner
    BY <1>4, <1>10 DEF Sessionless
  <1>15. SocketOwn(c)'
    <2>1. c \notin ghost'.robbed
      BY <1>4, <1>12, <1>14
    <2>2. Agree(told'[c], sess'[p])
      BY <1>2, <1>4, <1>10 DEF Agree, Newcomer
    <2>3. local'[c].step = "counting" /\ local'[c].place = p /\ local'[c] \in SocketThreads
      BY <1>7, <1>9
    <2> QED
      BY <1>2, <1>4, <1>10, <2>1, <2>2, <2>3 DEF SocketOwn
  <1>16. ASSUME NEW d \in Conns \ {c} PROVE SocketOwn(d)'
    <2>1. CASE d \notin owner
      <3>1. d \in ghost'.robbed <=> d \in ghost.robbed
        BY <1>12, <2>1
      <3>2. \A i \in DOMAIN sess' : sess'[i].sock = d => i \in DOMAIN sess /\ sess[i].sock = d
        BY <1>10
      <3>3. \A i \in DOMAIN sess : sess[i].sock = d => sess'[i] = sess[i]
        BY <1>10, <2>1
      <3>4. conn'[d] = conn[d] /\ local'[d] = local[d] /\ told'[d] = told[d]
        BY <1>2, <1>9
      <3> QED
        BY <1>10, <3>1, <3>2, <3>3, <3>4, SocketsOthers
    <2>2. CASE d \in owner
      <3>1. p \in DOMAIN sess /\ sess[p].sock = d
        BY <1>10, <2>2
      <3>2. Sessionless(d)' /\ d \in ghost'.robbed
        BY <1>1, <1>10, <1>12, <2>2, <3>1 DEF Sessionless
      <3>3. SocketOwn(d)
        BY DEF SocketsInv
      <3>4. conn[d] # "new" /\ ~(conn[d] = "open" /\ local[d].step \in {"looking", "writing"})
        BY <3>1, <3>3 DEF SocketOwn, Sessionless
      <3>5. conn'[d] = conn[d] /\ local'[d] = local[d] /\ told'[d] = told[d]
        BY <1>2, <1>9
      <3> QED
        BY <3>2, <3>3, <3>4, <3>5 DEF SocketOwn
    <2> QED
      BY <2>1, <2>2
  <1>17. \A i, j \in DOMAIN sess' : sess'[i].sock = sess'[j].sock => i = j
    BY <1>1, <1>4, <1>10 DEF Sessionless
  <1>18. \A u \in Held' : up' /\ users'[u] = "blocked"
    BY <1>2, <1>12 DEF SocketsInv, Held
  <1>19. file' = AllActive
    BY <1>2 DEF SocketsInv
  <1>20. \A d \in Conns : SocketOwn(d)'
    BY <1>15, <1>16
  <1> QED
    BY <1>9, <1>10, <1>13, <1>17, <1>18, <1>19, <1>20 DEF SocketsInv

LEMMA SocketsCount ==
  ASSUME Common, SocketsInv, program = "sockets", NEW c \in Conns, Sockets!counts(c)
  PROVE  Common' /\ SocketsInv' /\ Answered
  <1> DEFINE p == local[c].place
  <1>0. /\ told \in [Conns -> Told] /\ file \in Files /\ users \in [Users -> Statuses]
        /\ ghost \in Ghost /\ conn \in [Conns -> Kinds] /\ said.code \in Codes
    BY CommonTypes
  <1>1. /\ local \in [Conns -> SocketThreads \cup {None}] /\ SocketOwn(c)
        /\ sess \in Seq(SocketSessions)
        /\ \A i, j \in DOMAIN sess : sess[i].sock = sess[j].sock => i = j
    BY DEF SocketsInv
  <1>2. /\ up /\ conn[c] = "open" /\ local[c].step = "counting"
        /\ UNCHANGED <<program, up, file, users, conn, said, told, ghost>>
    BY SocketsShares DEF Sockets!counts, Sockets!At
  <1>3. /\ sess' = [sess EXCEPT ![p].counted = TRUE]
        /\ local' = [local EXCEPT ![c].step = "ready"]
    BY DEF Sockets!counts
  <1>4. /\ local[c] \in SocketThreads /\ told[c] = Newcomer
        /\ IF c \in ghost.robbed THEN Sessionless(c)
           ELSE p \in DOMAIN sess /\ sess[p].sock = c /\ Agree(told[c], sess[p])
    BY <1>1, <1>2 DEF SocketOwn
  <1>5. PICK r : r = [local[c] EXCEPT !.step = "ready"]
    OBVIOUS
  <1>6. r \in SocketThreads /\ r.step = "ready" /\ r.place = p
    BY <1>4, <1>5 DEF SocketThreads
  <1>7. local' = [local EXCEPT ![c] = r]
    BY <1>1, <1>3, <1>5
  <1>8. /\ local' \in [Conns -> SocketThreads \cup {None}] /\ local'[c] = r
        /\ \A d \in Conns \ {c} : local'[d] = local[d]
    BY <1>1, <1>6, <1>7, SetLocal
  <1> HIDE DEF p
  \* If the session at p is another client's, that one is counted; the client knows nothing of it.
  <1>9. /\ sess' \in Seq(SocketSessions) /\ DOMAIN sess' = DOMAIN sess /\ Len(sess') = Len(sess)
        /\ \A i \in DOMAIN sess :
             /\ sess'[i].sock = sess[i].sock /\ sess'[i].user = sess[i].user
             /\ sess'[i].st = sess[i].st /\ sess'[i].failed = sess[i].failed
             /\ (sess'[i].counted <=> sess[i].counted \/ i = p)
    <2>1. CASE p \in DOMAIN sess
      <3>1. PICK q : q = [sess[p] EXCEPT !.counted = TRUE]
        OBVIOUS
      <3>2. sess[p] \in SocketSessions
        BY <1>1, <2>1
      <3>3. /\ q \in SocketSessions /\ q.sock = sess[p].sock /\ q.user = sess[p].user
            /\ q.st = sess[p].st /\ q.failed = sess[p].failed /\ q.counted
        BY <3>1, <3>2 DEF SocketSessions
      <3>4. sess' = [sess EXCEPT ![p] = q]
        BY <1>3, <2>1, <3>1
      <3>5. /\ sess' \in Seq(SocketSessions) /\ Len(sess') = Len(sess)
            /\ DOMAIN sess' = DOMAIN sess /\ sess'[p] = q
            /\ \A j \in DOMAIN sess : j # p => sess'[j] = sess[j]
        BY <1>1, <2>1, <3>3, <3>4, SetOne
      <3> QED
        BY <3>3, <3>5
    <2>2. CASE p \notin DOMAIN sess
      <3>1. sess' = sess
        BY <1>1, <1>3, <2>2
      <3> QED
        BY <1>1, <2>2, <3>1
    <2> QED
      BY <2>1, <2>2
  <1>10. Common' /\ Answered
    BY <1>0, <1>2, QuietCommon
  <1>11. SocketOwn(c)'
    <2>1. local'[c] \in SocketThreads /\ local'[c].step = "ready" /\ local'[c].place = p
      BY <1>6, <1>8
    <2>2. CASE c \in ghost.robbed
      BY <1>2, <1>4, <1>9, <2>1, <2>2 DEF SocketOwn, Sessionless
    <2>3. CASE c \notin ghost.robbed
      <3>1. /\ p \in DOMAIN sess' /\ sess'[p].sock = c /\ sess'[p].counted
        BY <1>4, <1>9, <2>3
      <3>2. Agree(told'[c], sess'[p])
        BY <1>2, <1>4, <1>9, <2>3 DEF Agree
      <3> QED
        BY <1>2, <2>1, <2>3, <3>1, <3>2 DEF SocketOwn
    <2> QED
      BY <2>2, <2>3
  <1>12. ASSUME NEW d \in Conns \ {c} PROVE SocketOwn(d)'
    <2>1. conn'[d] = conn[d] /\ local'[d] = local[d] /\ told'[d] = told[d] /\ SocketOwn(d)
      BY <1>2, <1>8 DEF SocketsInv
    <2>2. Sessionless(d) => Sessionless(d)'
      BY <1>9 DEF Sessionless
    <2>3. \A i \in DOMAIN sess : Agree(told[d], sess[i]) => Agree(told'[d], sess'[i])
      BY <1>9, <2>1 DEF Agree
    <2> QED
      BY <1>2, <1>9, <2>1, <2>2, <2>3 DEF SocketOwn
  <1>13. \A d \in Conns : SocketOwn(d)'
    BY <1>11, <1>12
  <1>14. \A i, j \in DOMAIN sess' : sess'[i].sock = sess'[j].sock => i = j
    BY <1>1, <1>9
  <1>15. file' = AllActive /\ \A u \in Held' : up' /\ users'[u] = "blocked"
    BY <1>2 DEF SocketsInv, Held
  <1> QED
    BY <1>8, <1>9, <1>10, <1>13, <1>14, <1>15 DEF SocketsInv

LEMMA SocketsEnd ==
  ASSUME Common, SocketsInv, program = "sockets", NEW c \in Conns,
         Sockets!leave(c) \/ Sockets!echo(c)
  PROVE  Common' /\ SocketsInv' /\ Answered
  <1>0. /\ told \in [Conns -> Told] /\ file \in Files /\ users \in [Users -> Statuses]
        /\ ghost \in Ghost /\ conn \in [Conns -> Kinds] /\ said.code \in Codes
    BY CommonTypes
  <1>1. local \in [Conns -> SocketThreads \cup {None}]
    BY DEF SocketsInv
  <1>2. CASE Sockets!leave(c)
    <2>1. /\ Leaves(c) /\ UNCHANGED <<program, up, file, users, sess, local, said, ghost>> /\ up
      BY <1>2, SocketsShares DEF Sockets!leave, Sockets!At
    <2>2. Answered
      BY <2>1 DEF Answered
    <2>3. /\ Common' /\ conn'[c] \in {"closed", "hung"}
          /\ \A d \in Conns \ {c} : conn'[d] = conn[d] /\ told'[d] = told[d]
      BY <1>0, <2>1, <2>2, GoneCommon DEF Leaves
    <2>4. SocketOwn(c)'
      BY <2>3 DEF SocketOwn
    <2>5. SocketsInv'
      BY <1>1, <2>1, <2>3, <2>4, SocketsQuiet
    <2> QED
      BY <2>2, <2>3, <2>5
  <1>3. CASE Sockets!echo(c)
    <2>1. /\ Exit /\ UNCHANGED <<program, file>>
          /\ ghost' = [ghost EXCEPT !.forgotten = ghost.struck]
      BY <1>3, SocketsShares DEF Sockets!echo
    <2>2. ghost' \in Ghost /\ Held' = {} /\ ghost'.robbed = ghost.robbed
      BY <1>0, <2>1, ForgetAll
    <2>3. Common' /\ Answered
      BY <1>0, <2>1, <2>2, ExitCommon
    <2>4. sess' = <<>> /\ local' = [d \in Conns |-> None]
      BY <2>1 DEF Exit
    <2>5. \A d \in Conns : conn'[d] # "open" /\ (conn'[d] = "new" => conn[d] = "new")
      BY <1>0, <2>1 DEF Exit, Open
    <2>6. sess' \in Seq(SocketSessions) /\ DOMAIN sess' = {}
      BY <2>4
    <2>7. ASSUME NEW d \in Conns PROVE SocketOwn(d)'
      <3>1. SocketOwn(d)
        BY DEF SocketsInv
      <3> QED
        BY <2>2, <2>5, <2>6, <3>1 DEF SocketOwn, Sessionless
    <2>8. local' \in [Conns -> SocketThreads \cup {None}]
      BY <2>4
    <2>9. file' = AllActive
      BY <2>1 DEF SocketsInv
    <2> QED
      BY <2>2, <2>3, <2>6, <2>7, <2>8, <2>9 DEF SocketsInv
  <1> QED
    BY <1>2, <1>3

\* A request, answered to a client without a session ...
LEMMA SocketsRefuse ==
  ASSUME Common, SocketsInv, program = "sockets", NEW c \in Conns, up, conn[c] = "open",
         local[c].step = "ready", c \in ghost.robbed, NEW op, NEW arg, NEW code,
         Reply(c, op, arg, code), code \in {"01", "11", "21"},
         code = "11" => op = "PASS",
         UNCHANGED <<program, up, file, users, sess, conn, local, ghost>>
  PROVE  Common' /\ SocketsInv' /\ Answered
  <1>0. /\ told[c] \in Told /\ file \in Files /\ users \in [Users -> Statuses] /\ ghost \in Ghost
    BY CommonTypes
  <1>1. Learns(told[c], op, arg, code) \in Told
    BY <1>0, LearnsWrong, LearnsNothing
  <1>2. Deserved(c, op, arg, code) /\ code \in Codes
    BY DEF Deserved, Codes
  <1>3. Common' /\ Answered /\ \A d \in Conns \ {c} : told'[d] = told[d]
    BY <1>0, <1>1, <1>2, ReplyCommon
  <1>4. SocketOwn(c) /\ local \in [Conns -> SocketThreads \cup {None}]
    BY DEF SocketsInv
  <1>5. SocketOwn(c)'
    BY <1>4 DEF SocketOwn, Sessionless
  <1>6. SocketsInv'
    BY <1>3, <1>4, <1>5, SocketsQuiet
  <1> QED
    BY <1>3, <1>6

\* ... and to a client with one, whose session becomes r.
LEMMA SocketsAnswer ==
  ASSUME Common, SocketsInv, program = "sockets", NEW c \in Conns, up, conn[c] = "open",
         local[c].step = "ready", c \notin ghost.robbed, NEW op, NEW arg, NEW code,
         Reply(c, op, arg, code), Deserved(c, op, arg, code), code \in Codes,
         UNCHANGED <<program, up, file, conn, local>>,
         users' \in [Users -> Statuses], ghost' \in Ghost, ghost'.robbed = ghost.robbed,
         \A u \in Held' : users'[u] = "blocked",
         NEW r, r.user \in Users \cup {None}, r.st \in {"anon", "named", "in"}, r.failed \in 0..4,
         sess' = [sess EXCEPT ![local[c].place].user = r.user, ![local[c].place].st = r.st,
                              ![local[c].place].failed = r.failed],
         Learns(told[c], op, arg, code) \in Told, Agree(Learns(told[c], op, arg, code), r)
  PROVE  Common' /\ SocketsInv' /\ Answered
  <1> DEFINE p == local[c].place
  <1>0. /\ told[c] \in Told /\ file \in Files
    BY CommonTypes
  <1>1. /\ sess \in Seq(SocketSessions)
        /\ \A i, j \in DOMAIN sess : sess[i].sock = sess[j].sock => i = j
        /\ SocketOwn(c) /\ local \in [Conns -> SocketThreads \cup {None}]
    BY DEF SocketsInv
  <1>2. /\ Common' /\ Answered /\ told'[c] = Learns(told[c], op, arg, code)
        /\ \A d \in Conns \ {c} : told'[d] = told[d]
    BY <1>0, ReplyCommon
  <1>3. /\ p \in DOMAIN sess /\ sess[p].sock = c /\ sess[p].counted /\ sess[p] \in SocketSessions
    BY <1>1 DEF SocketOwn
  <1>4. PICK q : q = [sess[p] EXCEPT !.user = r.user, !.st = r.st, !.failed = r.failed]
    OBVIOUS
  <1>5. /\ q \in SocketSessions /\ q.sock = c /\ q.counted
        /\ q.user = r.user /\ q.st = r.st /\ q.failed = r.failed
    BY <1>3, <1>4 DEF SocketSessions
  <1>6. sess' = [sess EXCEPT ![p] = q]
    BY <1>1, <1>3, <1>4
  <1> HIDE DEF p
  <1>7. /\ sess' \in Seq(SocketSessions) /\ Len(sess') = Len(sess)
        /\ DOMAIN sess' = DOMAIN sess /\ sess'[p] = q
        /\ \A j \in DOMAIN sess : j # p => sess'[j] = sess[j]
    <2>1. ASSUME NEW x \in Seq(SocketSessions), NEW y, y = [x EXCEPT ![p] = q], p \in DOMAIN x
          PROVE  /\ y \in Seq(SocketSessions) /\ Len(y) = Len(x) /\ DOMAIN y = DOMAIN x
                 /\ y[p] = q /\ \A j \in DOMAIN x : j # p => y[j] = x[j]
      BY <1>5, <2>1, SetOne
    <2> QED
      BY <1>1, <1>3, <1>6, <2>1
  <1>8. Agree(told'[c], sess'[p])
    BY <1>2, <1>5, <1>7 DEF Agree
  <1>9. SocketOwn(c)'
    BY <1>1, <1>3, <1>5, <1>7, <1>8 DEF SocketOwn, p
  <1>10. ASSUME NEW d \in Conns \ {c} PROVE SocketOwn(d)'
    <2>1. Len(sess') >= Len(sess)
      BY <1>1, <1>7
    <2>2. \A i \in DOMAIN sess' : sess'[i].sock = d => i \in DOMAIN sess /\ sess[i].sock = d
      BY <1>5, <1>7
    <2>3. \A i \in DOMAIN sess : sess[i].sock = d => sess'[i] = sess[i]
      BY <1>3, <1>7
    <2> QED
      BY <1>2, <1>7, <2>1, <2>2, <2>3, SocketsOthers
  <1>11. \A d \in Conns : SocketOwn(d)'
    BY <1>9, <1>10
  <1>12. \A i, j \in DOMAIN sess' : sess'[i].sock = sess'[j].sock => i = j
    BY <1>1, <1>3, <1>5, <1>7
  <1>13. file' = AllActive
    BY DEF SocketsInv
  <1> QED
    BY <1>1, <1>2, <1>7, <1>11, <1>12, <1>13 DEF SocketsInv

LEMMA SocketsUSER ==
  ASSUME Common, SocketsInv, program = "sockets", NEW c \in Conns, NEW u, Sockets!runUSER(c, u)
  PROVE  Common' /\ SocketsInv' /\ Answered
  <1> DEFINE p == local[c].place
             s == Sockets!Session(c)
             status == Sockets!typeUser(s, u)
  <1>0. /\ up /\ conn[c] = "open" /\ local[c].step = "ready"
        /\ UNCHANGED <<program, up, file, users, conn, local, ghost>>
    BY SocketsShares DEF Sockets!runUSER, Sockets!At
  <1>1. users \in [Users -> Statuses] /\ ghost \in Ghost /\ file \in Files /\ told[c] \in Told
    BY CommonTypes
  <1>2. /\ Sockets!Becomes(c, IF status = "success" THEN [s EXCEPT !.user = u, !.st = "named"]
                              ELSE s)
        /\ Sockets!Reply(c, "USER", u, CASE status = "success" -> "00"
                                         [] status = "blocked" -> "31" [] OTHER -> "01")
    BY DEF Sockets!runUSER
  <1>3. /\ s.st # "anon" => status = "no place"
        /\ s.st = "anon" /\ u \notin Users => status = "not found"
        /\ s.st = "anon" /\ u \in Users /\ users[u] = "blocked" => status = "blocked"
        /\ s.st = "anon" /\ u \in Users /\ users[u] # "blocked" => status = "success"
    BY DEF Sockets!typeUser
  <1>4. CASE c \in ghost.robbed
    <2>1. Sockets!findSessionBySock(c) = 0
      BY <1>0, <1>4, SocketsFind
    <2>2. s.st = "none" /\ sess' = sess
      BY <1>2, <2>1 DEF Sockets!Session, Sockets!Becomes
    <2>3. status = "no place"
      BY <1>3, <2>2
    <2> HIDE DEF status
    <2>4. Sockets!Reply(c, "USER", u, "01")
      BY <1>2, <2>3
    <2>5. Reply(c, "USER", u, "01")
      BY <2>4, SocketsShares
    <2>6. sess' = sess
      BY <2>2
    <2> HIDE DEF s, p
    <2> QED
      BY <1>0, <1>4, <2>5, <2>6, SocketsRefuse
  <1>5. CASE c \notin ghost.robbed
    <2>1. /\ Sockets!findSessionBySock(c) = p /\ p # 0 /\ sess[p] \in SocketSessions
          /\ Agree(told[c], sess[p])
      BY <1>0, <1>5, SocketsFind
    <2>2. s = sess[p]
      BY <2>1 DEF Sockets!Session
    <2>3. \A x : Sockets!Becomes(c, x) =>
                   sess' = [sess EXCEPT ![p].user = x.user, ![p].st = x.st, ![p].failed = x.failed]
      BY <2>1 DEF Sockets!Becomes
    <2> HIDE DEF s, status, p
    <2>4. /\ s \in SocketSessions /\ s.failed \in Nat /\ s.failed \in 0..4 /\ Agree(told[c], s)
          /\ s.user \in Users \cup {None} /\ s.st \in {"anon", "named", "in"}
      BY <2>1, <2>2 DEF SocketSessions
    <2>5. \A v \in Held : users[v] = "blocked"
      BY DEF SocketsInv
    <2>6. ASSUME NEW code, NEW r, Sockets!Reply(c, "USER", u, code), Sockets!Becomes(c, r),
                 r.user \in Users \cup {None}, r.st \in {"anon", "named", "in"},
                 r.failed \in 0..4,
                 \/ code \in {"01", "31"} /\ r = s
                 \/ /\ code = "00" /\ s.st = "anon" /\ u \in Users /\ users[u] # "blocked"
                    /\ r.user = u /\ r.st = "named" /\ r.failed = s.failed
          PROVE  Common' /\ SocketsInv' /\ Answered
      <3>1. Reply(c, "USER", u, code)
        BY <2>6, SocketsShares
      <3>2. /\ Learns(told[c], "USER", u, code) \in Told
            /\ Agree(Learns(told[c], "USER", u, code), r)
            /\ Deserved(c, "USER", u, code) /\ code \in Codes
        BY <1>1, <2>4, <2>5, <2>6, StructUSER
      <3>3. sess' = [sess EXCEPT ![p].user = r.user, ![p].st = r.st, ![p].failed = r.failed]
        BY <2>3, <2>6
      <3>4. /\ users' \in [Users -> Statuses] /\ ghost' \in Ghost /\ ghost'.robbed = ghost.robbed
            /\ \A v \in Held' : users'[v] = "blocked"
        BY <1>0, <1>1, <2>5 DEF Held
      <3> QED
        BY <1>0, <1>5, <2>6, <3>1, <3>2, <3>3, <3>4, SocketsAnswer DEF p
    <2>7. CASE status = "success"
      <3>1. s.st = "anon" /\ u \in Users /\ users[u] # "blocked"
        BY <1>3, <2>7
      <3>2. PICK r : r = [s EXCEPT !.user = u, !.st = "named"]
        OBVIOUS
      <3>3. r.user = u /\ r.st = "named" /\ r.failed = s.failed
        BY <2>4, <3>2 DEF SocketSessions
      <3>4. Sockets!Reply(c, "USER", u, "00") /\ Sockets!Becomes(c, r)
        BY <1>2, <2>7, <3>2
      <3> QED
        BY <2>4, <2>6, <3>1, <3>3, <3>4
    <2>8. CASE status # "success"
      <3>1. Sockets!Becomes(c, s)
        BY <1>2, <2>8
      <3>2. CASE status = "blocked"
        <4>1. Sockets!Reply(c, "USER", u, "31")
          BY <1>2, <3>2
        <4> QED
          BY <2>4, <2>6, <3>1, <4>1
      <3>3. CASE status # "blocked"
        <4>1. Sockets!Reply(c, "USER", u, "01")
          BY <1>2, <2>8, <3>3
        <4> QED
          BY <2>4, <2>6, <3>1, <4>1
      <3> QED
        BY <3>2, <3>3
    <2> QED
      BY <2>7, <2>8
  <1> QED
    BY <1>4, <1>5

LEMMA SocketsLOUT ==
  ASSUME Common, SocketsInv, program = "sockets", NEW c \in Conns, NEW u, NEW w,
         Sockets!runLOUT(c, u, w)
  PROVE  Common' /\ SocketsInv' /\ Answered
  <1> DEFINE p == local[c].place
             s == Sockets!Session(c)
  <1>0. /\ up /\ conn[c] = "open" /\ local[c].step = "ready"
        /\ UNCHANGED <<program, up, file, users, conn, local, ghost>>
    BY SocketsShares DEF Sockets!runLOUT, Sockets!At
  <1>1. users \in [Users -> Statuses] /\ ghost \in Ghost /\ file \in Files /\ told[c] \in Told
    BY CommonTypes
  <1>2. \/ /\ s.st \in {"named", "in"} /\ Sockets!Reply(c, "LOUT", u, "20")
           /\ Sockets!Becomes(c, [user |-> None, st |-> "anon", failed |-> 0])
        \/ sess' = sess /\ Sockets!Reply(c, "LOUT", u, "21")
    BY DEF Sockets!runLOUT, Sockets!logOut, Sockets!Anonymous
  <1>3. CASE c \in ghost.robbed
    <2>1. Sockets!findSessionBySock(c) = 0
      BY <1>0, <1>3, SocketsFind
    <2>2. s.st = "none"
      BY <2>1 DEF Sockets!Session
    <2>3. sess' = sess /\ Sockets!Reply(c, "LOUT", u, "21")
      BY <1>2, <2>2
    <2>4. Reply(c, "LOUT", u, "21")
      BY <2>3, SocketsShares
    <2> QED
      BY <1>0, <1>3, <2>3, <2>4, SocketsRefuse
  <1>4. CASE c \notin ghost.robbed
    <2>1. /\ Sockets!findSessionBySock(c) = p /\ p # 0 /\ p \in DOMAIN sess
          /\ sess[p] \in SocketSessions /\ Agree(told[c], sess[p])
      BY <1>0, <1>4, SocketsFind
    <2>2. \A x : Sockets!Becomes(c, x) =>
                   sess' = [sess EXCEPT ![p].user = x.user, ![p].st = x.st, ![p].failed = x.failed]
      BY <2>1 DEF Sockets!Becomes
    <2>3. \A v \in Held' : users'[v] = "blocked"
      BY <1>0 DEF SocketsInv, Held
    <2>4. sess \in Seq(SocketSessions)
      BY DEF SocketsInv
    <2> HIDE DEF p, s
    <2>5. ASSUME NEW code, NEW r, Sockets!Reply(c, "LOUT", u, code),
                 sess' = [sess EXCEPT ![p].user = r.user, ![p].st = r.st, ![p].failed = r.failed],
                 r.user \in Users \cup {None}, r.st \in {"anon", "named", "in"},
                 r.failed \in 0..4,
                 \/ code = "21" /\ r = sess[p]
                 \/ code = "20" /\ r.st = "anon" /\ r.failed = 0
          PROVE  Common' /\ SocketsInv' /\ Answered
      <3>1. Reply(c, "LOUT", u, code)
        BY <2>5, SocketsShares
      <3>2. /\ Learns(told[c], "LOUT", u, code) \in Told
            /\ Agree(Learns(told[c], "LOUT", u, code), r)
            /\ Deserved(c, "LOUT", u, code) /\ code \in Codes
        BY <1>1, <2>1, <2>5, StructLOUT
      <3>3. users' \in [Users -> Statuses] /\ ghost' \in Ghost /\ ghost'.robbed = ghost.robbed
        BY <1>0, <1>1
      <3> QED
        BY <1>0, <1>4, <2>3, <2>5, <3>1, <3>2, <3>3, SocketsAnswer DEF p
    <2>6. CASE sess' = sess /\ Sockets!Reply(c, "LOUT", u, "21")
      <3>1. /\ sess[p].user \in Users \cup {None} /\ sess[p].st \in {"anon", "named", "in"}
            /\ sess[p].failed \in 0..4
        BY <2>1 DEF SocketSessions
      <3>2. PICK q : q = [sess[p] EXCEPT !.user = sess[p].user, !.st = sess[p].st,
                                         !.failed = sess[p].failed]
        OBVIOUS
      <3>3. q = sess[p]
        BY <2>1, <3>2 DEF SocketSessions
      <3>4. [sess EXCEPT ![p].user = sess[p].user, ![p].st = sess[p].st,
                         ![p].failed = sess[p].failed] = [sess EXCEPT ![p] = q]
        BY <2>1, <2>4, <3>2
      <3>5. [sess EXCEPT ![p] = sess[p]] = sess
        BY <2>1, <2>4
      <3> QED
        BY <2>5, <2>6, <3>1, <3>3, <3>4, <3>5
    <2>7. CASE /\ Sockets!Reply(c, "LOUT", u, "20")
               /\ Sockets!Becomes(c, [user |-> None, st |-> "anon", failed |-> 0])
      <3>1. PICK r : r = [user |-> None, st |-> "anon", failed |-> 0]
        OBVIOUS
      <3>2. /\ r.user \in Users \cup {None} /\ r.st = "anon" /\ r.failed = 0
            /\ r.st \in {"anon", "named", "in"} /\ r.failed \in 0..4
        BY <3>1
      <3>3. sess' = [sess EXCEPT ![p].user = r.user, ![p].st = r.st, ![p].failed = r.failed]
        BY <2>2, <2>7, <3>1
      <3> QED
        BY <2>5, <2>7, <3>2, <3>3
    <2> QED
      BY <1>2, <2>6, <2>7
  <1> QED
    BY <1>3, <1>4

LEMMA SocketsPASS ==
  ASSUME Common, SocketsInv, program = "sockets", NEW c \in Conns, NEW w \in Users,
         Sockets!runPASS(c, w)
  PROVE  Common' /\ SocketsInv' /\ Answered
  <1> DEFINE p == local[c].place
             s == Sockets!Session(c)
             login == Sockets!typePass(s, w)
             S == IF login.status = "blocked" THEN {s.user} ELSE {}
  <1>0. /\ up /\ conn[c] = "open" /\ local[c].step = "ready"
        /\ UNCHANGED <<program, up, file, conn, local>>
    BY SocketsShares DEF Sockets!runPASS, Sockets!At
  <1>1. users \in [Users -> Statuses] /\ ghost \in Ghost /\ file \in Files /\ told[c] \in Told
    BY CommonTypes
  <1>2. /\ Sockets!Becomes(c, login.ss)
        /\ users' = [u \in Users |-> IF u \in S THEN "blocked" ELSE users[u]]
        /\ ghost' = [ghost EXCEPT !.struck = @ \cup S, !.forgotten = @ \ S]
        /\ Sockets!Reply(c, "PASS", w, CASE login.status = "success" -> "10"
                                         [] login.status = "blocked" -> "31" [] OTHER -> "11")
    BY DEF Sockets!runPASS
  <1>3. /\ s.st # "named" => login = [status |-> "not now", ss |-> s]
        /\ s.st = "named" /\ w = s.user =>
             login = [status |-> "success", ss |-> [s EXCEPT !.st = "in", !.failed = 0]]
        /\ s.st = "named" /\ w # s.user /\ s.failed + 1 < 5 =>
             login = [status |-> "wrong", ss |-> [s EXCEPT !.failed = @ + 1]]
        /\ s.st = "named" /\ w # s.user /\ ~(s.failed + 1 < 5) =>
             login = [status |-> "blocked", ss |-> [user |-> None, st |-> "anon", failed |-> 0]]
    BY DEF Sockets!typePass, Sockets!MAX_LOGIN_FAILED, Sockets!Anonymous
  <1>4. CASE c \in ghost.robbed
    <2>1. Sockets!findSessionBySock(c) = 0
      BY <1>0, <1>4, SocketsFind
    <2>2. s.st = "none" /\ sess' = sess
      BY <1>2, <2>1 DEF Sockets!Session, Sockets!Becomes
    <2>3. login = [status |-> "not now", ss |-> s]
      BY <1>3, <2>2
    <2> HIDE DEF login, s, p
    <2>4. login.status = "not now" /\ sess' = sess
      <3>1. login.status = "not now"
        BY <2>3
      <3> QED
        BY <2>2, <3>1
    <2>5. Sockets!Reply(c, "PASS", w, "11") /\ S = {}
      BY <1>2, <2>4
    <2>6. Reply(c, "PASS", w, "11")
      BY <2>5, SocketsShares
    <2>7. users' = users /\ ghost' = ghost
      <3>1. \A u \in Users : users'[u] = users[u]
        BY <1>2, <2>5
      <3>2. users' = users
        BY <1>1, <1>2, <3>1
      <3>3. \A F : F \cup {} = F /\ F \ {} = F
        OBVIOUS
      <3>4. ghost' = [ghost EXCEPT !.struck = @, !.forgotten = @]
        BY <1>2, <2>5, <3>3
      <3>5. ghost' = ghost
        BY <1>1, <3>4 DEF Ghost
      <3> QED
        BY <3>2, <3>5
    <2> QED
      BY <1>0, <1>4, <2>4, <2>6, <2>7, SocketsRefuse
  <1>5. CASE c \notin ghost.robbed
    <2>1. /\ Sockets!findSessionBySock(c) = p /\ p # 0 /\ sess[p] \in SocketSessions
          /\ Agree(told[c], sess[p])
      BY <1>0, <1>5, SocketsFind
    <2>2. s = sess[p]
      BY <2>1 DEF Sockets!Session
    <2>3. \A x : Sockets!Becomes(c, x) =>
                   sess' = [sess EXCEPT ![p].user = x.user, ![p].st = x.st, ![p].failed = x.failed]
      BY <2>1 DEF Sockets!Becomes
    <2> HIDE DEF s, login, p, S
    <2>4. /\ s \in SocketSessions /\ s.failed \in Nat /\ s.failed \in 0..4 /\ Agree(told[c], s)
          /\ s.user \in Users \cup {None} /\ s.st \in {"anon", "named", "in"}
          /\ (s.st = "named" => s.user \in Users)
      BY <2>1, <2>2 DEF SocketSessions, Agree
    <2>5. \A v \in Held : users[v] = "blocked"
      BY DEF SocketsInv
    <2>6. ASSUME NEW code, NEW r, Sockets!Reply(c, "PASS", w, code), login.ss = r,
                 r.user \in Users \cup {None}, r.st \in {"anon", "named", "in"},
                 r.failed \in 0..4,
                 login.status = "blocked" => s.st = "named",
                 \/ s.st # "named" /\ code = "11" /\ r = s
                 \/ /\ s.st = "named" /\ w = s.user /\ code = "10"
                    /\ r.user = s.user /\ r.st = "in" /\ r.failed = 0
                 \/ /\ s.st = "named" /\ w # s.user /\ code = "11"
                    /\ r.user = s.user /\ r.st = "named" /\ r.failed = s.failed + 1
                 \/ s.st = "named" /\ w # s.user /\ code = "31" /\ r.st = "anon" /\ r.failed = 0
          PROVE  Common' /\ SocketsInv' /\ Answered
      <3>1. Reply(c, "PASS", w, code)
        BY <2>6, SocketsShares
      <3>2. /\ Learns(told[c], "PASS", w, code) \in Told
            /\ Agree(Learns(told[c], "PASS", w, code), r)
            /\ Deserved(c, "PASS", w, code) /\ code \in Codes
        BY <1>1, <2>4, <2>6, StructPASS
      <3>3. sess' = [sess EXCEPT ![p].user = r.user, ![p].st = r.st, ![p].failed = r.failed]
        BY <1>2, <2>3, <2>6
      <3>4. S \in SUBSET Users
        BY <2>4, <2>6 DEF S
      <3>5. /\ users' \in [Users -> Statuses] /\ ghost' \in Ghost /\ ghost'.robbed = ghost.robbed
            /\ \A v \in Held' : users'[v] = "blocked"
        BY <1>1, <1>2, <2>5, <3>4, StrikeHeld
      <3> QED
        BY <1>0, <1>5, <2>6, <3>1, <3>2, <3>3, <3>5, SocketsAnswer DEF p
    <2>7. CASE s.st # "named"
      <3>1. login = [status |-> "not now", ss |-> s]
        BY <1>3, <2>7
      <3>2. login.status = "not now" /\ login.ss = s
        BY <3>1
      <3>3. Sockets!Reply(c, "PASS", w, "11")
        BY <1>2, <3>2
      <3> QED
        BY <2>4, <2>6, <2>7, <3>2, <3>3
    <2>8. CASE s.st = "named" /\ w = s.user
      <3>1. PICK r : r = [s EXCEPT !.st = "in", !.failed = 0]
        OBVIOUS
      <3>2. login = [status |-> "success", ss |-> r]
        BY <1>3, <2>8, <3>1
      <3>3. login.status = "success" /\ login.ss = r
        BY <3>2
      <3>4. r.user = s.user /\ r.st = "in" /\ r.failed = 0 /\ 0 \in 0..4
        BY <2>4, <3>1 DEF SocketSessions
      <3>5. Sockets!Reply(c, "PASS", w, "10")
        BY <1>2, <3>3
      <3> QED
        BY <2>4, <2>6, <2>8, <3>3, <3>4, <3>5
    <2>9. CASE s.st = "named" /\ w # s.user /\ s.failed + 1 < 5
      <3>1. PICK r : r = [s EXCEPT !.failed = @ + 1]
        OBVIOUS
      <3>2. login = [status |-> "wrong", ss |-> r]
        BY <1>3, <2>9, <3>1
      <3>3. login.status = "wrong" /\ login.ss = r
        BY <3>2
      <3>4. r.user = s.user /\ r.st = s.st /\ r.failed = s.failed + 1
        BY <2>4, <3>1 DEF SocketSessions
      <3>5. s.failed + 1 \in 0..4
        BY <2>4, <2>9
      <3>6. Sockets!Reply(c, "PASS", w, "11")
        BY <1>2, <3>3
      <3> QED
        BY <2>4, <2>6, <2>9, <3>3, <3>4, <3>5, <3>6
    <2>10. CASE s.st = "named" /\ w # s.user /\ ~(s.failed + 1 < 5)
      <3>1. PICK r : r = [user |-> None, st |-> "anon", failed |-> 0]
        OBVIOUS
      <3>2. login = [status |-> "blocked", ss |-> r]
        BY <1>3, <2>10, <3>1
      <3>3. login.status = "blocked" /\ login.ss = r
        BY <3>2
      <3>4. r.user = None /\ r.st = "anon" /\ r.failed = 0 /\ 0 \in 0..4
        BY <3>1
      <3>5. Sockets!Reply(c, "PASS", w, "31")
        BY <1>2, <3>3
      <3> QED
        BY <2>4, <2>6, <2>10, <3>3, <3>4, <3>5
    <2> QED
      BY <2>7, <2>8, <2>9, <2>10
  <1> QED
    BY <1>4, <1>5

LEMMA SocketsNext ==
  ASSUME Common, SocketsInv, program = "sockets", Sockets!Next
  PROVE  Common' /\ SocketsInv' /\ Answered
  BY SocketsJoin, SocketsCreate, SocketsCount, SocketsEnd, SocketsUSER, SocketsPASS, SocketsLOUT
     DEF Sockets!Next
----------------------------------------------------------------------------
\* week6/duc.

LEMMA SlotsShares ==
  /\ Slots!Runs("slots") <=> program = "slots" /\ up
  /\ \A c, op, arg, code : Slots!Says(c, op, arg, code) <=> Says(c, op, arg, code)
  /\ \A c, op, arg, code : Slots!Reply(c, op, arg, code) <=> Reply(c, op, arg, code)
  /\ \A c : (Slots!Connect(c) <=> Connect(c)) /\ (Slots!Leaves(c) <=> Leaves(c))
  /\ \A c : Slots!Hangs(c) <=> Hangs(c)
  /\ Slots!Exit <=> Exit
  /\ Slots!Open = Open
  /\ Slots!Truncated = Truncated
  <1>1. Slots!Runs("slots") <=> program = "slots" /\ up
    BY DEF Slots!Runs
  <1>2. \A t, op, arg, code : Slots!Learns(t, op, arg, code) = Learns(t, op, arg, code)
    BY DEF Slots!Learns, Learns, Slots!Limit, Limit, Slots!MaxTries, MaxTries
  <1>3. \A c, op, arg, code : Slots!Says(c, op, arg, code) <=> Says(c, op, arg, code)
    BY DEF Slots!Says, Says, Slots!Silence, Silence
  <1>4. \A c, op, arg, code : Slots!Reply(c, op, arg, code) <=> Reply(c, op, arg, code)
    BY <1>2, <1>3 DEF Slots!Reply, Reply
  <1>5. \A c : (Slots!Connect(c) <=> Connect(c)) /\ (Slots!Leaves(c) <=> Leaves(c))
    BY DEF Slots!Connect, Connect, Slots!Leaves, Leaves, Slots!Newcomer, Newcomer
  <1>6. Slots!Open = Open
    BY DEF Slots!Open, Open
  <1>7. \A c : Slots!Hangs(c) <=> Hangs(c)
    BY DEF Slots!Hangs, Hangs, Slots!Silence, Silence, Slots!Newcomer, Newcomer
  <1>8. Slots!Exit <=> Exit
    BY DEF Slots!Exit, Exit, Slots!AllLost, AllLost, Slots!Open, Open, Slots!Silence, Silence,
       Slots!Newcomer, Newcomer
  <1> QED
    BY <1>1, <1>3, <1>4, <1>5, <1>6, <1>7, <1>8 DEF Slots!Truncated, Truncated

\* A step of another client.
LEMMA SlotsOthers ==
  ASSUME NEW d \in Conns, SlotOwn(d), conn'[d] = conn[d], local'[d] = local[d],
         told'[d] = told[d], sess \in Seq(SlotSessions), sess' \in Seq(SlotSessions),
         Len(sess') >= Len(sess),
         ghost'.cut = ghost.cut \/ ghost'.cut = TRUE,
         \/ conn[d] = "open" /\ local[d].step # "reading"
         \/ Held' \subseteq Held
  PROVE  SlotOwn(d)'
  <1>1. ASSUME conn[d] = "open"
        PROVE  /\ local'[d] \in SlotThreads
               /\ sess' # <<>> /\ local'[d].slot <= Len(sess')
               /\ told'[d].named # None => told'[d].named = local'[d].count /\ local'[d].slot # 0
    <2>1. /\ local[d] \in SlotThreads /\ sess # <<>> /\ local[d].slot <= Len(sess)
          /\ told[d].named # None => told[d].named = local[d].count /\ local[d].slot # 0
      BY <1>1 DEF SlotOwn
    <2>2. local[d].slot \in Nat /\ Len(sess) \in Nat /\ Len(sess') \in Nat
      BY <2>1 DEF SlotThreads
    <2>3. local'[d].slot <= Len(sess')
      BY <2>1, <2>2
    <2>4. sess' # <<>>
      BY <2>1
    <2> QED
      BY <2>1, <2>3, <2>4
  <1>2. ASSUME conn[d] = "open", local[d].step = "reading"
        PROVE  /\ local'[d].buf \in Files
               /\ \A u \in Held' : local'[d].buf[u] # "active"
               /\ ghost'.cut \/ \A u \in Users : local'[d].buf[u] \in {"active", "blocked"}
    BY <1>2 DEF SlotOwn
  <1>3. ASSUME conn[d] = "open", local[d].step # "reading"
        PROVE  ghost'.cut \/ local'[d].known = Users
    BY <1>3 DEF SlotOwn
  <1> QED
    BY <1>1, <1>2, <1>3 DEF SlotOwn

\* What is left to show of a step of c that touches no account.
LEMMA SlotsQuiet ==
  ASSUME SlotsInv, NEW c \in Conns, UNCHANGED <<up, file, users, ghost>>,
         sess' \in Seq(SlotSessions), Len(sess') >= Len(sess),
         local' \in [Conns -> SlotThreads \cup {None}], SlotOwn(c)',
         conn[c] = "open" /\ local[c].step = "writing" =>
           conn'[c] = "open" /\ local'[c].step = "writing",
         \A d \in Conns \ {c} :
           conn'[d] = conn[d] /\ local'[d] = local[d] /\ told'[d] = told[d]
  PROVE  SlotsInv'
  <1>1. sess \in Seq(SlotSessions) /\ Held' = Held
    BY DEF SlotsInv, Held
  <1>2. ASSUME NEW d \in Conns \ {c} PROVE SlotOwn(d)'
    <2>1. SlotOwn(d)
      BY DEF SlotsInv
    <2> QED
      BY <1>1, <2>1, SlotsOthers
  <1>3. \A d \in Conns : SlotOwn(d)'
    BY <1>2
  <1>4. file' = Truncated => \E d \in Conns : conn'[d] = "open" /\ local'[d].step = "writing"
    BY DEF SlotsInv, Truncated
  <1> QED
    BY <1>1, <1>3, <1>4 DEF SlotsInv

LEMMA SlotsJoin ==
  ASSUME Common, SlotsInv, program = "slots",
         Slots!pthread_created \/ \E c \in Conns : Slots!accept(c)
  PROVE  Common' /\ SlotsInv' /\ Answered
  <1>0. /\ told \in [Conns -> Told] /\ file \in Files /\ users \in [Users -> Statuses]
        /\ ghost \in Ghost /\ conn \in [Conns -> Kinds] /\ said.code \in Codes
    BY CommonTypes
  <1>1. local \in [Conns -> SlotThreads \cup {None}] /\ sess \in Seq(SlotSessions)
    BY DEF SlotsInv
  <1>2. PICK q : q = [user |-> None, st |-> "anon"]
    OBVIOUS
  <1>3. sess' = Append(sess, q) /\ q \in SlotSessions
    BY <1>2 DEF SlotSessions, Slots!pthread_created, Slots!accept, Slots!newSession
  <1>4. sess' \in Seq(SlotSessions) /\ Len(sess') = Len(sess) + 1
    BY <1>1, <1>3, AddOne
  <1>5. Len(sess') >= Len(sess) /\ Len(sess') >= 1 /\ sess' # <<>>
    <2>1. Len(sess) \in Nat
      BY <1>1
    <2> QED
      BY <1>4, <2>1
  <1>6. CASE Slots!pthread_created
    <2>1. up /\ UNCHANGED <<program, up, file, users, conn, local, said, told, ghost>>
      BY <1>6, SlotsShares DEF Slots!pthread_created
    <2>2. Common' /\ Answered
      BY <1>0, <2>1, QuietCommon
    <2>3. Held' = Held
      BY <2>1 DEF Held
    <2>4. ASSUME NEW d \in Conns PROVE SlotOwn(d)'
      <3>1. SlotOwn(d)
        BY DEF SlotsInv
      <3> QED
        BY <1>1, <1>4, <1>5, <2>1, <2>3, <3>1, SlotsOthers
    <2>5. file' = Truncated => \E d \in Conns : conn'[d] = "open" /\ local'[d].step = "writing"
      BY <2>1 DEF SlotsInv, Truncated
    <2>6. SlotsInv'
      BY <1>4, <2>1, <2>3, <2>4, <2>5 DEF SlotsInv
    <2> QED
      BY <2>2, <2>6
  <1>7. ASSUME NEW c \in Conns, Slots!accept(c) PROVE Common' /\ SlotsInv' /\ Answered
    <2>1. /\ up /\ Connect(c) /\ UNCHANGED <<program, up, file, users, said, told>>
          /\ ghost' = [ghost EXCEPT !.cut = @ \/ file = Truncated]
      BY <1>7, SlotsShares DEF Slots!accept
    <2>2. /\ ghost' \in Ghost /\ Held' = Held
          /\ ghost'.cut = (ghost.cut \/ file = Truncated) /\ ghost.cut \in BOOLEAN
      BY <1>0, <2>1 DEF Ghost, Held
    <2>3. Common' /\ Answered
      BY <1>0, <2>1, <2>2, QuietCommon
    <2>4. PICK r : r = [step |-> "reading", buf |-> file, known |-> {}, slot |-> 0,
                        count |-> None, n |-> FALSE, wrong |-> 0]
      OBVIOUS
    <2>5. /\ r \in SlotThreads /\ r.step = "reading" /\ r.buf = file /\ r.slot = 0
          /\ local' = [local EXCEPT ![c] = r]
      BY <1>0, <1>7, <2>4 DEF SlotThreads, Slots!accept
    <2>6. /\ local' \in [Conns -> SlotThreads \cup {None}] /\ local'[c] = r
          /\ \A d \in Conns \ {c} : local'[d] = local[d]
      BY <1>1, <2>5, SetLocal
    <2>7. conn[c] = "new" /\ conn'[c] = "open" /\ \A d \in Conns \ {c} : conn'[d] = conn[d]
      BY <1>0, <2>1 DEF Connect
    <2>8. told'[c] = Newcomer
      BY <2>1, <2>7 DEF Common
    <2>9. ghost'.cut \/ \A u \in Users : file[u] \in {"active", "blocked"}
      <3>1. CASE ghost'.cut
        BY <3>1
      <3>2. CASE ~ghost'.cut
        <4>1. file \in [Users -> Statuses] /\ ~ghost.cut
          BY <1>0, <2>2, <3>2 DEF Files
        <4> QED
          BY <4>1 DEF SlotsInv, Statuses
      <3> QED
        BY <3>1, <3>2
    <2>10. SlotOwn(c)'
      <3>1. r.slot <= Len(sess')
        BY <1>5, <2>5
      <3>2. told'[c].named = None
        BY <2>8 DEF Newcomer
      <3>3. \A u \in Held' : file[u] # "active"
        BY <2>2 DEF SlotsInv
      <3> QED
        BY <1>0, <1>5, <2>5, <2>6, <2>9, <3>1, <3>2, <3>3 DEF SlotOwn
    <2>11. ASSUME NEW d \in Conns \ {c} PROVE SlotOwn(d)'
      <3>1. SlotOwn(d)
        BY DEF SlotsInv
      <3>2. ghost'.cut = ghost.cut \/ ghost'.cut = TRUE
        BY <2>2
      <3>3. conn'[d] = conn[d] /\ local'[d] = local[d] /\ told'[d] = told[d]
        BY <2>1, <2>6, <2>7
      <3> QED
        BY <1>1, <1>4, <1>5, <2>2, <3>1, <3>2, <3>3, SlotsOthers
    <2>12. \A d \in Conns : SlotOwn(d)'
      BY <2>10, <2>11
    <2>13. file' = Truncated => \E d \in Conns : conn'[d] = "open" /\ local'[d].step = "writing"
      <3>1. ASSUME file = Truncated
            PROVE  \E d \in Conns \ {c} : conn[d] = "open" /\ local[d].step = "writing"
        BY <2>7, <3>1 DEF SlotsInv
      <3>2. Truncated' = Truncated
        BY DEF Truncated
      <3> QED
        BY <2>1, <2>6, <2>7, <3>1, <3>2
    <2>14. ghost'.cut \/ \A u \in Users : file'[u] # "lost" /\ (up' => users'[u] # "lost")
      BY <2>1, <2>2 DEF SlotsInv
    <2>15. \A u \in Held' : users'[u] # "active" /\ file'[u] # "active"
      BY <2>1, <2>2 DEF SlotsInv
    <2> QED
      BY <1>4, <2>3, <2>6, <2>12, <2>13, <2>14, <2>15 DEF SlotsInv
  <1> QED
    BY <1>6, <1>7

LEMMA SlotsRead ==
  ASSUME Common, SlotsInv, program = "slots", NEW c \in Conns, Slots!readFile(c)
  PROVE  Common' /\ SlotsInv' /\ Answered
  <1> DEFINE b == local[c].buf
             known == {u \in Users : b[u] \in {"active", "blocked"}}
  <1>0. /\ told \in [Conns -> Told] /\ file \in Files /\ users \in [Users -> Statuses]
        /\ ghost \in Ghost /\ conn \in [Conns -> Kinds] /\ said.code \in Codes
    BY CommonTypes
  <1>1. /\ local \in [Conns -> SlotThreads \cup {None}] /\ sess \in Seq(SlotSessions)
        /\ SlotOwn(c)
    BY DEF SlotsInv
  <1>2. /\ up /\ conn[c] = "open" /\ local[c].step = "reading"
        /\ users' = [u \in Users |-> IF u \in known THEN b[u] ELSE users[u]]
        /\ local' = [local EXCEPT ![c].step = "ready", ![c].buf = None, ![c].known = known]
        /\ UNCHANGED <<program, up, file, sess, conn, said, told, ghost>>
    BY SlotsShares DEF Slots!readFile, Slots!At, Slots!Lines
  <1>3. /\ local[c] \in SlotThreads /\ b \in Files /\ (\A u \in Held : b[u] # "active")
        /\ ghost.cut \/ \A u \in Users : b[u] \in {"active", "blocked"}
    BY <1>1, <1>2 DEF SlotOwn
  <1>4. known \in SUBSET Users /\ (ghost.cut \/ known = Users)
    BY <1>3
  <1>5. PICK r : r = [local[c] EXCEPT !.step = "ready", !.buf = None, !.known = known]
    OBVIOUS
  <1> HIDE DEF known, b
  <1>6. /\ r \in SlotThreads /\ r.step = "ready" /\ r.known = known
        /\ r.slot = local[c].slot /\ r.count = local[c].count
    BY <1>3, <1>4, <1>5 DEF SlotThreads
  <1>7. local' = [local EXCEPT ![c] = r]
    BY <1>1, <1>2, <1>5
  <1>8. /\ local' \in [Conns -> SlotThreads \cup {None}] /\ local'[c] = r
        /\ \A d \in Conns \ {c} : local'[d] = local[d]
    BY <1>1, <1>6, <1>7, SetLocal
  <1>9. \A u \in Users : users'[u] \in Statuses /\ users'[u] = IF u \in known THEN b[u] ELSE users[u]
    BY <1>0, <1>2 DEF known, Statuses
  <1>10. users' \in [Users -> Statuses]
    BY <1>2, <1>9
  <1>11. Common' /\ Answered
    BY <1>0, <1>2, <1>10, QuietCommon
  <1>12. SlotOwn(c)'
    BY <1>1, <1>2, <1>4, <1>6, <1>8 DEF SlotOwn
  <1>13. ASSUME NEW d \in Conns \ {c} PROVE SlotOwn(d)'
    <2>1. SlotOwn(d) /\ Held' = Held
      BY <1>2 DEF SlotsInv, Held
    <2>2. Len(sess') >= Len(sess)
      BY <1>1, <1>2
    <2> QED
      BY <1>1, <1>2, <1>8, <2>1, <2>2, SlotsOthers
  <1>14. \A d \in Conns : SlotOwn(d)'
    BY <1>12, <1>13
  <1>15. file' = Truncated => \E d \in Conns : conn'[d] = "open" /\ local'[d].step = "writing"
    <2>1. ASSUME file = Truncated
          PROVE  \E d \in Conns \ {c} : conn[d] = "open" /\ local[d].step = "writing"
      BY <1>2, <2>1 DEF SlotsInv
    <2>2. Truncated' = Truncated
      BY DEF Truncated
    <2> QED
      BY <1>2, <1>8, <2>1, <2>2
  <1>16. ghost'.cut \/ \A u \in Users : file'[u] # "lost" /\ (up' => users'[u] # "lost")
    <2>1. CASE ghost.cut
      BY <1>2, <2>1
    <2>2. CASE ~ghost.cut
      BY <1>2, <1>3, <1>4, <1>9, <2>2 DEF SlotsInv
    <2> QED
      BY <2>1, <2>2
  <1>17. \A u \in Held' : users'[u] # "active" /\ file'[u] # "active"
    <2>1. \A u \in Held : u \in Users /\ users[u] # "active" /\ file[u] # "active"
      BY <1>0 DEF SlotsInv, Held, Ghost
    <2> QED
      BY <1>2, <1>3, <1>9, <2>1 DEF Held
  <1> QED
    BY <1>1, <1>2, <1>8, <1>11, <1>14, <1>15, <1>16, <1>17 DEF SlotsInv

\* account.txt is written again: some of the lines that are in memory.
LEMMA SlotsWritten ==
  ASSUME NEW K \in SUBSET Users, users \in [Users -> Statuses], SlotsInv
  PROVE  /\ Slots!Written(K) \in Files /\ Slots!Written(K) # Truncated
         /\ \A u \in Held : u \in Users => Slots!Written(K)[u] # "active"
         /\ ~ghost.cut /\ up /\ K = Users => \A u \in Users : Slots!Written(K)[u] # "lost"
  <1>1. PICK w : w = Slots!Written(K) /\ w = [u \in Users |-> IF u \in K THEN users[u] ELSE "lost"]
    BY DEF Slots!Written
  <1>2. w \in [Users -> Statuses]
    BY <1>1 DEF Statuses
  <1>3. w # Truncated
    <2>1. w[First] # "empty"
      BY <1>2, AccountsAssumption DEF Statuses
    <2> QED
      BY <2>1, AccountsAssumption DEF Truncated
  <1>4. \A u \in Held : u \in Users => w[u] # "active"
    BY <1>1 DEF SlotsInv
  <1>5. ~ghost.cut /\ up /\ K = Users => \A u \in Users : w[u] # "lost"
    BY <1>1 DEF SlotsInv
  <1> QED
    BY <1>1, <1>2, <1>3, <1>4, <1>5 DEF Files

LEMMA SlotsDismiss ==
  ASSUME Common, SlotsInv, program = "slots", NEW c \in Conns, conn[c] = "open",
         NEW op, NEW arg, NEW code,
         Slots!Dismiss(c, op, arg, code), UNCHANGED <<program, up, users, sess, ghost>>, up,
         file' \in Files, code \in Codes, Deserved(c, op, arg, code)
  PROVE  /\ Common' /\ Answered /\ Held' = Held
         /\ local' \in [Conns -> SlotThreads \cup {None}]
         /\ conn'[c] = "closed" /\ \A d \in Conns : SlotOwn(d)'
         /\ \A d \in Conns \ {c} : conn'[d] = conn[d] /\ local'[d] = local[d]
  <1>0. /\ told \in [Conns -> Told] /\ users \in [Users -> Statuses]
        /\ ghost \in Ghost /\ conn \in [Conns -> Kinds]
        /\ local \in [Conns -> SlotThreads \cup {None}] /\ sess \in Seq(SlotSessions)
    BY CommonTypes DEF SlotsInv
  <1>1. Says(c, op, arg, code) /\ Leaves(c) /\ local' = [local EXCEPT ![c] = None]
    BY SlotsShares DEF Slots!Dismiss
  <1>2. Answered /\ said'.code \in Codes
    BY <1>1, SaysDeserved
  <1>3. /\ Common' /\ \A d \in Conns \ {c} : conn'[d] = conn[d] /\ told'[d] = told[d]
    BY <1>0, <1>1, <1>2, GoneCommon DEF Leaves
  <1>4. conn'[c] = "closed"
    BY <1>0, <1>1 DEF Leaves
  <1>5. /\ local' \in [Conns -> SlotThreads \cup {None}]
        /\ \A d \in Conns \ {c} : local'[d] = local[d]
    BY <1>0, <1>1, SetLocal
  <1>6. SlotOwn(c)'
    BY <1>4 DEF SlotOwn
  <1>7. ASSUME NEW d \in Conns \ {c} PROVE SlotOwn(d)'
    <2>1. SlotOwn(d) /\ Held' = Held
      BY DEF SlotsInv, Held
    <2>2. Len(sess') >= Len(sess)
      BY <1>0
    <2> QED
      BY <1>0, <1>3, <1>5, <2>1, <2>2, SlotsOthers
  <1>8. Held' = Held
    BY DEF Held
  <1> QED
    BY <1>2, <1>3, <1>4, <1>5, <1>6, <1>7, <1>8

LEMMA SlotsWrite ==
  ASSUME Common, SlotsInv, program = "slots", NEW c \in Conns, Slots!writeFile(c)
  PROVE  Common' /\ SlotsInv' /\ Answered
  <1> DEFINE K == local[c].known
  <1>0. users \in [Users -> Statuses] /\ Held \in SUBSET Users
    BY CommonTypes
  <1>1. /\ up /\ conn[c] = "open" /\ local[c].step = "writing" /\ file' = Slots!Written(K)
        /\ Slots!Dismiss(c, "PASS", None, "31") /\ UNCHANGED <<program, up, users, sess, ghost>>
    BY SlotsShares DEF Slots!writeFile, Slots!At
  <1>2. K \in SUBSET Users /\ (ghost.cut \/ K = Users)
    BY <1>1 DEF SlotsInv, SlotOwn, SlotThreads
  <1> HIDE DEF K
  <1>3. /\ file' \in Files /\ file' # Truncated /\ \A u \in Held : file'[u] # "active"
        /\ ~ghost.cut /\ K = Users => \A u \in Users : file'[u] # "lost"
    BY <1>0, <1>1, <1>2, SlotsWritten
  <1>4. Deserved(c, "PASS", None, "31") /\ "31" \in Codes
    BY AccountsAssumption DEF Deserved, Codes
  <1>5. /\ Common' /\ Answered /\ Held' = Held
        /\ local' \in [Conns -> SlotThreads \cup {None}] /\ \A d \in Conns : SlotOwn(d)'
    BY <1>1, <1>3, <1>4, SlotsDismiss
  <1>6. Truncated' = Truncated
    BY DEF Truncated
  <1>7. ghost'.cut \/ \A u \in Users : file'[u] # "lost" /\ (up' => users'[u] # "lost")
    BY <1>1, <1>2, <1>3 DEF SlotsInv
  <1>8. sess' \in Seq(SlotSessions) /\ \A u \in Held' : users'[u] # "active" /\ file'[u] # "active"
    BY <1>1, <1>3, <1>5 DEF SlotsInv
  <1> QED
    BY <1>3, <1>5, <1>6, <1>7, <1>8 DEF SlotsInv

LEMMA SlotsQuit ==
  ASSUME Common, SlotsInv, program = "slots", NEW c \in Conns, Slots!quit(c)
  PROVE  Common' /\ SlotsInv' /\ Answered
  <1>0. /\ users \in [Users -> Statuses] /\ Held \in SUBSET Users /\ file \in Files
        /\ ghost \in Ghost
    BY CommonTypes
  <1>1. Exit /\ UNCHANGED program /\ up
    BY SlotsShares DEF Slots!quit
  <1>2. /\ file' \in Files /\ file' # Truncated /\ ghost' \in Ghost
        /\ Held' = Held /\ (\A u \in Held : file'[u] # "active")
        /\ ghost'.cut \/ \A u \in Users : file'[u] # "lost"
    <2>1. CASE Slots!At("writing") = {}
      <3>1. UNCHANGED <<file, ghost>>
        BY <2>1 DEF Slots!quit
      <3>2. \A d \in Conns : ~(conn[d] = "open" /\ local[d].step = "writing")
        BY <2>1 DEF Slots!At
      <3> QED
        BY <1>0, <3>1, <3>2 DEF SlotsInv, Held
    <2>2. CASE Slots!At("writing") # {}
      <3>1. PICK d \in Slots!At("writing") : \E kept \in SUBSET local[d].known :
              file' = Slots!Written(kept)
        BY <2>2 DEF Slots!quit
      <3>2. PICK kept \in SUBSET local[d].known : file' = Slots!Written(kept)
        BY <3>1
      <3>3. d \in Conns /\ conn[d] = "open"
        BY DEF Slots!At
      <3>4. kept \in SUBSET Users
        BY <3>3 DEF SlotsInv, SlotOwn, SlotThreads
      <3>5. /\ file' \in Files /\ file' # Truncated
            /\ \A u \in Held : file'[u] # "active"
        BY <1>0, <3>2, <3>4, SlotsWritten
      <3>6. ghost' = [ghost EXCEPT !.cut = TRUE]
        BY <2>2 DEF Slots!quit
      <3>7. ghost' \in Ghost /\ Held' = Held /\ ghost'.cut
        BY <1>0, <3>6 DEF Ghost, Held
      <3> QED
        BY <3>5, <3>7
    <2> QED
      BY <2>1, <2>2
  <1>3. Common' /\ Answered /\ ~up' /\ Open' = {}
    BY <1>1, <1>2, ExitCommon
  <1>4. /\ sess' = <<>> /\ local' = [d \in Conns |-> None] /\ users' = [u \in Users |-> "lost"]
    BY <1>1 DEF Exit, AllLost
  <1>5. \A d \in Conns : SlotOwn(d)'
    BY <1>3 DEF SlotOwn, Open
  <1>6. /\ sess' \in Seq(SlotSessions) /\ local' \in [Conns -> SlotThreads \cup {None}]
        /\ \A u \in Users : users'[u] # "active"
    BY <1>4
  <1>7. Truncated' = Truncated
    BY DEF Truncated
  <1> QED
    BY <1>0, <1>2, <1>3, <1>5, <1>6, <1>7 DEF SlotsInv

\* The client stays, has now named u, and its thread goes on.
Continues(c, u) ==
  \E r \in SlotThreads :
    /\ local' = [local EXCEPT ![c] = r]
    /\ r.step = "ready" /\ r.known = local[c].known /\ r.slot <= Len(sess)
    /\ u # None => u = r.count /\ r.slot # 0

LEMMA SlotsAnswer ==
  ASSUME Common, SlotsInv, program = "slots", NEW c \in Conns, conn[c] = "open", up,
         local[c].step = "ready", NEW op, NEW arg, NEW code, Reply(c, op, arg, code),
         Deserved(c, op, arg, code), code \in Codes, Learns(told[c], op, arg, code) \in Told,
         Continues(c, Learns(told[c], op, arg, code).named),
         sess' \in Seq(SlotSessions), Len(sess') = Len(sess),
         UNCHANGED <<program, up, file, users, conn, ghost>>
  PROVE  Common' /\ SlotsInv' /\ Answered
  <1>0. /\ users \in [Users -> Statuses] /\ ghost \in Ghost /\ file \in Files
        /\ local \in [Conns -> SlotThreads \cup {None}] /\ sess \in Seq(SlotSessions)
        /\ SlotOwn(c)
    BY CommonTypes DEF SlotsInv
  <1>1. /\ Common' /\ Answered /\ told'[c] = Learns(told[c], op, arg, code)
        /\ \A d \in Conns \ {c} : told'[d] = told[d]
    BY <1>0, ReplyCommon
  <1>r. PICK r \in SlotThreads :
          /\ local' = [local EXCEPT ![c] = r]
          /\ r.step = "ready" /\ r.known = local[c].known /\ r.slot <= Len(sess)
          /\ Learns(told[c], op, arg, code).named # None =>
               Learns(told[c], op, arg, code).named = r.count /\ r.slot # 0
    BY DEF Continues
  <1>2. /\ local' \in [Conns -> SlotThreads \cup {None}] /\ local'[c] = r
        /\ \A d \in Conns \ {c} : local'[d] = local[d]
    BY <1>0, <1>r, SetLocal
  <1>3. Len(sess) \in Nat /\ Len(sess') >= Len(sess) /\ sess # <<>> /\ sess' # <<>>
    BY <1>0 DEF SlotOwn
  <1>4. ghost.cut \/ r.known = Users
    BY <1>0, <1>r DEF SlotOwn
  <1>5. SlotOwn(c)'
    BY <1>1, <1>2, <1>3, <1>4, <1>r DEF SlotOwn
  <1>6. SlotsInv'
    BY <1>1, <1>2, <1>3, <1>5, SlotsQuiet
  <1> QED
    BY <1>1, <1>6

LEMMA SlotsReady ==
  ASSUME Common, SlotsInv, NEW c \in Conns, Slots!Ready(c)
  PROVE  /\ up /\ conn[c] = "open" /\ local[c].step = "ready" /\ told[c] \in Told
         /\ local[c] \in SlotThreads /\ local[c].slot \in Nat /\ local[c].slot <= Len(sess)
         /\ told[c].named # None => told[c].named = local[c].count /\ local[c].slot # 0
         /\ Len(sess) \in Nat /\ Len(sess) # 0 /\ Len(sess) \in DOMAIN sess
         /\ DOMAIN sess = 1..Len(sess)
         /\ sess \in Seq(SlotSessions) /\ local \in [Conns -> SlotThreads \cup {None}]
  <1>1. up /\ conn[c] = "open" /\ local[c].step = "ready" /\ told[c] \in Told
    BY SlotsShares, CommonTypes DEF Slots!Ready, Slots!At
  <1>2. sess \in Seq(SlotSessions) /\ local \in [Conns -> SlotThreads \cup {None}] /\ SlotOwn(c)
    BY DEF SlotsInv
  <1>3. /\ local[c] \in SlotThreads /\ local[c].slot <= Len(sess) /\ sess # <<>>
        /\ told[c].named # None => told[c].named = local[c].count /\ local[c].slot # 0
    BY <1>1, <1>2 DEF SlotOwn
  <1>4. /\ Len(sess) \in Nat /\ Len(sess) # 0 /\ Len(sess) \in DOMAIN sess
        /\ DOMAIN sess = 1..Len(sess)
    BY <1>2, <1>3
  <1>5. local[c].slot \in Nat
    BY <1>3 DEF SlotThreads
  <1> QED
    BY <1>1, <1>2, <1>3, <1>4, <1>5

LEMMA SlotsUSER ==
  ASSUME Common, SlotsInv, program = "slots", NEW c \in Conns, NEW u, Slots!USER(c, u)
  PROVE  Common' /\ SlotsInv' /\ Answered
  <1> DEFINE x == local[c]
             last == Len(sess)
  <1>0. /\ users \in [Users -> Statuses] /\ ghost \in Ghost /\ file \in Files
        /\ conn \in [Conns -> Kinds] /\ Held \in SUBSET Users
    BY CommonTypes
  <1>1. Slots!Ready(c) /\ UNCHANGED <<program, up, file, users, ghost>>
    BY DEF Slots!USER
  <1>2. /\ up /\ conn[c] = "open" /\ x.step = "ready" /\ told[c] \in Told
        /\ x \in SlotThreads /\ x.slot \in Nat /\ x.slot <= last
        /\ told[c].named # None => told[c].named = x.count /\ x.slot # 0
        /\ last \in Nat /\ last # 0 /\ last <= last /\ last \in DOMAIN sess
        /\ sess \in Seq(SlotSessions) /\ local \in [Conns -> SlotThreads \cup {None}]
    BY <1>1, SlotsReady
  <1>3. \/ /\ Slots!Reply(c, "USER", u, "01") /\ UNCHANGED <<conn, sess>>
           /\ local' = [local EXCEPT ![c].slot = last]
        \/ Slots!Hangs(c) /\ local' = [local EXCEPT ![c] = None] /\ UNCHANGED sess
        \/ /\ local' = [local EXCEPT ![c] = [x EXCEPT !.slot = last, !.n = TRUE]]
           /\ Slots!Reply(c, "USER", u, "12") /\ UNCHANGED <<sess, conn>>
        \/ Slots!Dismiss(c, "USER", u, "31") /\ UNCHANGED sess
        \/ /\ u \in x.known /\ users[u] = "active"
           /\ local' = [local EXCEPT ![c] =
                [[x EXCEPT !.count = u] EXCEPT !.slot = last, !.n = TRUE]]
           /\ sess' = [sess EXCEPT ![last] = [user |-> u, st |-> "named"]]
           /\ Slots!Reply(c, "USER", u, "00") /\ UNCHANGED conn
    BY DEF Slots!USER, Slots!addSession
  <1> HIDE DEF x
  <1>4. ASSUME NEW code \in {"01", "12"}, Slots!Reply(c, "USER", u, code),
               UNCHANGED <<conn, sess>>, NEW r \in SlotThreads, r.step = "ready",
               r.known = x.known, r.count = x.count, r.slot = last,
               local' = [local EXCEPT ![c] = r]
        PROVE  Common' /\ SlotsInv' /\ Answered
    <2>1. Reply(c, "USER", u, code)
      BY <1>4, SlotsShares
    <2>2. Learns(told[c], "USER", u, code) = told[c]
      BY <1>4, LearnsNothing
    <2>3. Deserved(c, "USER", u, code) /\ code \in Codes
      BY <1>4 DEF Deserved, Codes
    <2>4. /\ local[c].step = "ready" /\ r.known = local[c].known /\ r.slot <= Len(sess)
          /\ sess' \in Seq(SlotSessions) /\ Len(sess') = Len(sess)
      BY <1>2, <1>4 DEF x
    <2>5. /\ Learns(told[c], "USER", u, code) \in Told
          /\ Learns(told[c], "USER", u, code).named # None =>
               Learns(told[c], "USER", u, code).named = r.count /\ r.slot # 0
      BY <1>2, <1>4, <2>2
    <2>6. up /\ conn[c] = "open" /\ UNCHANGED <<program, up, file, users, conn, ghost>>
      BY <1>1, <1>2, <1>4
    <2>7. Continues(c, Learns(told[c], "USER", u, code).named)
      BY <1>4, <2>4, <2>5 DEF Continues
    <2> QED
      BY <2>1, <2>3, <2>4, <2>5, <2>6, <2>7, SlotsAnswer
  <1>5. CASE /\ Slots!Reply(c, "USER", u, "01") /\ UNCHANGED <<conn, sess>>
             /\ local' = [local EXCEPT ![c].slot = last]
    <2>1. PICK r : r = [x EXCEPT !.slot = last]
      OBVIOUS
    <2>2. /\ r \in SlotThreads /\ r.step = "ready" /\ r.known = x.known /\ r.count = x.count
          /\ r.slot = last
      BY <1>2, <2>1 DEF SlotThreads
    <2>3. local' = [local EXCEPT ![c] = r]
      BY <1>2, <1>5, <2>1 DEF x
    <2> QED
      BY <1>4, <1>5, <2>2, <2>3
  <1>6. CASE /\ local' = [local EXCEPT ![c] = [x EXCEPT !.slot = last, !.n = TRUE]]
             /\ Slots!Reply(c, "USER", u, "12") /\ UNCHANGED <<sess, conn>>
    <2>1. PICK r : r = [x EXCEPT !.slot = last, !.n = TRUE]
      OBVIOUS
    <2>2. /\ r \in SlotThreads /\ r.step = "ready" /\ r.known = x.known /\ r.count = x.count
          /\ r.slot = last
      BY <1>2, <2>1 DEF SlotThreads
    <2>3. local' = [local EXCEPT ![c] = r]
      BY <1>6, <2>1
    <2> QED
      BY <1>4, <1>6, <2>2, <2>3
  <1>7. CASE Slots!Hangs(c) /\ local' = [local EXCEPT ![c] = None] /\ UNCHANGED sess
    <2>1. Hangs(c)
      BY <1>7, SlotsShares
    <2>2. Answered /\ said'.code \in Codes
      BY <2>1, SilenceAnswers DEF Hangs
    <2>3. /\ Common' /\ conn'[c] \in {"closed", "hung"}
          /\ \A d \in Conns \ {c} : conn'[d] = conn[d] /\ told'[d] = told[d]
      BY <1>0, <1>1, <1>2, <2>1, <2>2, GoneCommon DEF Hangs
    <2>4. /\ local' \in [Conns -> SlotThreads \cup {None}]
          /\ \A d \in Conns \ {c} : local'[d] = local[d]
      BY <1>2, <1>7, SetLocal
    <2>5. SlotOwn(c)'
      BY <2>3 DEF SlotOwn
    <2>6. sess' \in Seq(SlotSessions) /\ Len(sess') >= Len(sess)
      BY <1>2, <1>7
    <2>7. local[c].step # "writing"
      BY <1>2 DEF x
    <2>8. SlotsInv'
      BY <1>1, <2>3, <2>4, <2>5, <2>6, <2>7, SlotsQuiet
    <2> QED
      BY <2>2, <2>3, <2>8
  <1>8. CASE Slots!Dismiss(c, "USER", u, "31") /\ UNCHANGED sess
    <2>1. Deserved(c, "USER", u, "31") /\ "31" \in Codes
      BY DEF Deserved, Codes
    <2>2. /\ Common' /\ Answered /\ Held' = Held /\ conn'[c] = "closed"
          /\ local' \in [Conns -> SlotThreads \cup {None}] /\ SlotOwn(c)'
          /\ \A d \in Conns \ {c} : conn'[d] = conn[d] /\ local'[d] = local[d]
      BY <1>0, <1>1, <1>2, <1>8, <2>1, SlotsDismiss
    <2>3. sess' \in Seq(SlotSessions) /\ Len(sess') >= Len(sess)
      BY <1>2, <1>8
    <2>4. local[c].step # "writing"
      BY <1>2 DEF x
    <2>5. \A d \in Conns \ {c} : told'[d] = told[d]
      <3>1. Leaves(c)
        BY <1>8, SlotsShares DEF Slots!Dismiss
      <3>2. told' = [told EXCEPT ![c] = Newcomer] /\ told \in [Conns -> Told]
        BY <3>1, CommonTypes DEF Leaves
      <3> QED
        BY <3>2
    <2>6. SlotsInv'
      BY <1>1, <2>2, <2>3, <2>4, <2>5, SlotsQuiet
    <2> QED
      BY <2>2, <2>6
  <1>9. CASE /\ u \in x.known /\ users[u] = "active"
             /\ local' = [local EXCEPT ![c] =
                  [[x EXCEPT !.count = u] EXCEPT !.slot = last, !.n = TRUE]]
             /\ sess' = [sess EXCEPT ![last] = [user |-> u, st |-> "named"]]
             /\ Slots!Reply(c, "USER", u, "00") /\ UNCHANGED conn
    <2>1. u \in Users
      BY <1>2, <1>9 DEF SlotThreads
    <2>2. PICK r : r = [[x EXCEPT !.count = u] EXCEPT !.slot = last, !.n = TRUE]
      OBVIOUS
    <2>3. /\ r \in SlotThreads /\ r.step = "ready" /\ r.known = x.known /\ r.count = u
          /\ r.slot = last
      BY <1>2, <2>1, <2>2 DEF SlotThreads
    <2>4. local' = [local EXCEPT ![c] = r]
      BY <1>9, <2>2
    <2>5. PICK q : q = [user |-> u, st |-> "named"]
      OBVIOUS
    <2>6. q \in SlotSessions /\ sess' = [sess EXCEPT ![last] = q]
      BY <1>9, <2>1, <2>5 DEF SlotSessions
    <2>7. sess' \in Seq(SlotSessions) /\ Len(sess') = Len(sess)
      BY <1>2, <2>6, SetOne
    <2>8. Reply(c, "USER", u, "00")
      BY <1>9, SlotsShares
    <2>9. /\ Learns(told[c], "USER", u, "00") \in Told
          /\ Learns(told[c], "USER", u, "00").named = u
      BY <1>2, <2>1, LearnsUSER
    <2>10. Deserved(c, "USER", u, "00") /\ "00" \in Codes
      BY <1>9 DEF Deserved, Codes, SlotsInv
    <2>11. /\ local[c].step = "ready" /\ r.known = local[c].known /\ r.slot <= Len(sess)
      BY <1>2, <2>3 DEF x
    <2>12. Learns(told[c], "USER", u, "00").named # None =>
             Learns(told[c], "USER", u, "00").named = r.count /\ r.slot # 0
      BY <1>2, <2>3, <2>9
    <2>13. up /\ conn[c] = "open" /\ UNCHANGED <<program, up, file, users, conn, ghost>>
      BY <1>1, <1>2, <1>9
    <2>14. Continues(c, Learns(told[c], "USER", u, "00").named)
      BY <2>3, <2>4, <2>11, <2>12 DEF Continues
    <2> QED
      BY <2>7, <2>8, <2>9, <2>10, <2>11, <2>13, <2>14, SlotsAnswer
  <1> QED
    BY <1>3, <1>5, <1>6, <1>7, <1>8, <1>9

\* The third wrong password: the user k is blocked, and the file is empty until it is written.
LEMMA SlotsBlock ==
  ASSUME Common, SlotsInv, program = "slots", NEW c \in Conns, Slots!Ready(c), NEW k,
         k \in Users \cup {None}, NEW w \in Nat,
         local' = [local EXCEPT ![c].wrong = w, ![c].step = "writing"],
         users' = [u \in Users |-> IF u = k THEN "blocked" ELSE users[u]],
         file' = Truncated,
         ghost' = [ghost EXCEPT !.struck = @ \cup ({k} \ {None}),
                     !.forgotten = IF Slots!At("reading") = {} THEN @ \ {k}
                                   ELSE @ \cup ({k} \ {None})],
         UNCHANGED <<sess, said, told, program, up, conn>>
  PROVE  Common' /\ SlotsInv' /\ Answered
  <1> DEFINE x == local[c]
  <1>0. /\ users \in [Users -> Statuses] /\ ghost \in Ghost /\ Held \in SUBSET Users
        /\ told \in [Conns -> Told]
    BY CommonTypes
  <1>1. /\ up /\ conn[c] = "open" /\ x.step = "ready" /\ x \in SlotThreads
        /\ sess \in Seq(SlotSessions) /\ local \in [Conns -> SlotThreads \cup {None}]
        /\ SlotOwn(c)
    BY SlotsReady DEF SlotsInv
  <1>2. PICK r : r = [x EXCEPT !.wrong = w, !.step = "writing"]
    OBVIOUS
  <1> HIDE DEF x
  <1>3. /\ r \in SlotThreads /\ r.step = "writing" /\ r.known = x.known /\ r.count = x.count
        /\ r.slot = x.slot
    BY <1>1, <1>2 DEF SlotThreads
  <1>4. local' = [local EXCEPT ![c] = r]
    BY <1>1, <1>2 DEF x
  <1>5. /\ local' \in [Conns -> SlotThreads \cup {None}] /\ local'[c] = r
        /\ \A d \in Conns \ {c} : local'[d] = local[d]
    BY <1>1, <1>3, <1>4, SetLocal
  <1>6. /\ ghost' \in Ghost /\ ghost'.cut = ghost.cut
        /\ ghost'.struck = ghost.struck \cup ({k} \ {None})
        /\ ghost'.forgotten = IF Slots!At("reading") = {} THEN ghost.forgotten \ {k}
                              ELSE ghost.forgotten \cup ({k} \ {None})
    BY <1>0 DEF Ghost
  <1>7. \A u \in Held' : (u \in Held \/ u = k) /\ u \in Users
    BY <1>0, <1>6 DEF Held, Ghost
  <1>8. users' \in [Users -> Statuses] /\ \A u \in Held' : users'[u] # "active"
    BY <1>0, <1>7 DEF Statuses, SlotsInv
  <1>9. file' \in Files /\ \A u \in Users : file'[u] = "empty"
    BY DEF Files, Truncated
  <1>10. Common' /\ Answered
    BY <1>1, <1>6, <1>8, <1>9, QuietCommon
  <1>11. SlotOwn(c)'
    BY <1>1, <1>3, <1>5, <1>6 DEF SlotOwn, x
  <1>12. ASSUME NEW d \in Conns \ {c} PROVE SlotOwn(d)'
    <2>1. SlotOwn(d)
      BY DEF SlotsInv
    <2>2. \/ conn[d] = "open" /\ local[d].step # "reading"
          \/ Held' \subseteq Held
          \/ conn[d] # "open"
      <3>1. CASE Slots!At("reading") = {}
        BY <3>1 DEF Slots!At
      <3>2. CASE Slots!At("reading") # {}
        BY <1>6, <1>7, <3>2 DEF Held
      <3> QED
        BY <3>1, <3>2
    <2>3. CASE conn[d] # "open"
      BY <2>3 DEF SlotOwn
    <2>4. Len(sess') >= Len(sess)
      BY <1>1
    <2>5. ASSUME \/ conn[d] = "open" /\ local[d].step # "reading"
                 \/ Held' \subseteq Held
          PROVE  SlotOwn(d)'
      BY <1>1, <1>5, <1>6, <2>1, <2>4, <2>5, SlotsOthers
    <2> QED
      BY <2>2, <2>3, <2>5
  <1>13. \A d \in Conns : SlotOwn(d)'
    BY <1>11, <1>12
  <1>14. \E d \in Conns : conn'[d] = "open" /\ local'[d].step = "writing"
    BY <1>1, <1>3, <1>5
  <1>15. ghost'.cut \/ \A u \in Users : file'[u] # "lost" /\ (up' => users'[u] # "lost")
    BY <1>6, <1>9 DEF SlotsInv
  <1>16. \A u \in Held' : users'[u] # "active" /\ file'[u] # "active"
    BY <1>7, <1>8, <1>9
  <1> QED
    BY <1>1, <1>5, <1>10, <1>13, <1>14, <1>15, <1>16 DEF SlotsInv

LEMMA SlotsPASS ==
  ASSUME Common, SlotsInv, program = "slots", NEW c \in Conns, NEW p \in Users, Slots!PASS(c, p)
  PROVE  Common' /\ SlotsInv' /\ Answered
  <1> DEFINE x == local[c]
             slot == x.slot
  <1>1. Slots!Ready(c) /\ UNCHANGED <<program, up, conn>>
    BY DEF Slots!PASS
  <1>2. /\ up /\ conn[c] = "open" /\ x.step = "ready" /\ told[c] \in Told
        /\ x \in SlotThreads /\ slot \in Nat /\ slot <= Len(sess) /\ Len(sess) \in Nat
        /\ told[c].named # None => told[c].named = x.count /\ slot # 0
        /\ sess \in Seq(SlotSessions) /\ local \in [Conns -> SlotThreads \cup {None}]
        /\ DOMAIN sess = 1..Len(sess)
    BY <1>1, SlotsReady
  <1>3. \/ /\ slot = 0 /\ Slots!Reply(c, "PASS", p, "01")
           /\ UNCHANGED <<file, users, sess, local, ghost>>
        \/ /\ slot # 0
           /\ \E k \in IF x.count = None THEN Users \cup {None} ELSE {x.count} :
                \/ /\ p = k /\ sess' = [sess EXCEPT ![slot].st = "in"]
                   /\ Slots!Reply(c, "PASS", p, "10")
                   /\ UNCHANGED <<file, users, local, ghost>>
                \/ /\ p # k /\ local' = [local EXCEPT ![c].wrong = x.wrong + 1]
                   /\ Slots!Reply(c, "PASS", p, "11")
                   /\ UNCHANGED <<file, users, sess, ghost>>
                \/ /\ p # k
                   /\ local' = [local EXCEPT ![c].wrong = x.wrong + 1, ![c].step = "writing"]
                   /\ users' = [u \in Users |-> IF u = k THEN "blocked" ELSE users[u]]
                   /\ file' = Slots!Truncated
                   /\ ghost' = [ghost EXCEPT !.struck = @ \cup ({k} \ {None}),
                        !.forgotten = IF Slots!At("reading") = {} THEN @ \ {k}
                                      ELSE @ \cup ({k} \ {None})]
                   /\ UNCHANGED <<sess, said, told>>
    BY DEF Slots!PASS
  <1>4. x.wrong + 1 \in Nat /\ x.count \in Users \cup {None}
    BY <1>2 DEF SlotThreads
  <1>5. \A n : n = told[c].named /\ UNCHANGED local => Continues(c, n)
    <2>1. local = [local EXCEPT ![c] = x]
      BY <1>2
    <2> QED
      BY <1>2, <2>1 DEF Continues
  <1>6. CASE slot = 0 /\ Slots!Reply(c, "PASS", p, "01")
             /\ UNCHANGED <<file, users, sess, local, ghost>>
    <2>1. Reply(c, "PASS", p, "01")
      BY <1>6, SlotsShares
    <2>2. Learns(told[c], "PASS", p, "01") = told[c]
      BY LearnsNothing
    <2>3. Deserved(c, "PASS", p, "01") /\ "01" \in Codes
      BY <1>2, <1>6, AccountsAssumption DEF Deserved, Codes
    <2>4. Continues(c, Learns(told[c], "PASS", p, "01").named)
      BY <1>5, <1>6, <2>2
    <2>5. Learns(told[c], "PASS", p, "01") \in Told
      BY <1>2, <2>2
    <2>6. sess' \in Seq(SlotSessions) /\ Len(sess') = Len(sess)
      BY <1>2, <1>6
    <2> QED
      BY <1>1, <1>2, <1>6, <2>1, <2>3, <2>4, <2>5, <2>6, SlotsAnswer
  <1>7. ASSUME slot # 0, NEW k, k \in Users \cup {None}, x.count # None => k = x.count
        PROVE  slot \in DOMAIN sess /\ (told[c].named # None => k = told[c].named)
    BY <1>2, <1>7
  <1>8. ASSUME slot # 0, NEW k, k \in Users \cup {None}, x.count # None => k = x.count,
               p = k, sess' = [sess EXCEPT ![slot].st = "in"], Slots!Reply(c, "PASS", p, "10"),
               UNCHANGED <<file, users, local, ghost>>
        PROVE  Common' /\ SlotsInv' /\ Answered
    <2>1. Reply(c, "PASS", p, "10")
      BY <1>8, SlotsShares
    <2>2. /\ Learns(told[c], "PASS", p, "10") \in Told
          /\ Learns(told[c], "PASS", p, "10").named = told[c].named
      BY <1>2, LearnsIn
    <2>3. Deserved(c, "PASS", p, "10") /\ "10" \in Codes
      BY <1>7, <1>8 DEF Deserved, Codes
    <2>4. Continues(c, Learns(told[c], "PASS", p, "10").named)
      BY <1>5, <1>8, <2>2
    <2>5. PICK q : q = [sess[slot] EXCEPT !.st = "in"]
      OBVIOUS
    <2>6. slot \in DOMAIN sess /\ sess[slot] \in SlotSessions
      BY <1>2, <1>7, <1>8
    <2>7. q \in SlotSessions
      BY <2>5, <2>6 DEF SlotSessions
    <2>8. sess' = [sess EXCEPT ![slot] = q]
      BY <1>2, <1>8, <2>5, <2>6
    <2> HIDE DEF slot
    <2>9. sess' \in Seq(SlotSessions) /\ Len(sess') = Len(sess)
      BY <1>2, <2>6, <2>7, <2>8, SetOne
    <2> QED
      BY <1>1, <1>2, <1>8, <2>1, <2>2, <2>3, <2>4, <2>9, SlotsAnswer
  <1>9. ASSUME slot # 0, NEW k, k \in Users \cup {None}, x.count # None => k = x.count,
               p # k, local' = [local EXCEPT ![c].wrong = x.wrong + 1],
               Slots!Reply(c, "PASS", p, "11"), UNCHANGED <<file, users, sess, ghost>>
        PROVE  Common' /\ SlotsInv' /\ Answered
    <2>1. Reply(c, "PASS", p, "11")
      BY <1>9, SlotsShares
    <2>2. /\ Learns(told[c], "PASS", p, "11") \in Told
          /\ Learns(told[c], "PASS", p, "11").named = told[c].named
      BY <1>2, LearnsWrong
    <2>3. Deserved(c, "PASS", p, "11") /\ "11" \in Codes
      BY <1>7, <1>9, AccountsAssumption DEF Deserved, Codes
    <2>4. PICK r : r = [x EXCEPT !.wrong = x.wrong + 1]
      OBVIOUS
    <2>5. local' = [local EXCEPT ![c] = r]
      BY <1>2, <1>9, <2>4
    <2> HIDE DEF x, slot
    <2>6. /\ r \in SlotThreads /\ r.step = "ready" /\ r.known = x.known /\ r.count = x.count
          /\ r.slot = slot
      BY <1>2, <1>4, <2>4 DEF SlotThreads, slot
    <2>7. Continues(c, told[c].named)
      BY <1>2, <2>5, <2>6 DEF Continues, x
    <2>8. sess' \in Seq(SlotSessions) /\ Len(sess') = Len(sess)
      BY <1>2, <1>9
    <2> QED
      BY <1>1, <1>2, <1>9, <2>1, <2>2, <2>3, <2>7, <2>8, SlotsAnswer DEF x
  <1>10. Slots!Truncated = Truncated
    BY SlotsShares
  <1>11. ASSUME NEW k \in IF x.count = None THEN Users \cup {None} ELSE {x.count}
         PROVE  k \in Users \cup {None} /\ (x.count # None => k = x.count)
    BY <1>4, <1>11
  <1> HIDE DEF slot, x
  <1>12. ASSUME NEW k, k \in Users \cup {None},
               local' = [local EXCEPT ![c].wrong = x.wrong + 1, ![c].step = "writing"],
               users' = [u \in Users |-> IF u = k THEN "blocked" ELSE users[u]],
               file' = Slots!Truncated,
               ghost' = [ghost EXCEPT !.struck = @ \cup ({k} \ {None}),
                           !.forgotten = IF Slots!At("reading") = {} THEN @ \ {k}
                                         ELSE @ \cup ({k} \ {None})],
               UNCHANGED <<sess, said, told>>
         PROVE  Common' /\ SlotsInv' /\ Answered
    <2>1. file' = Truncated
      BY <1>10, <1>12
    <2> QED
      BY <1>1, <1>4, <1>12, <2>1, SlotsBlock
  <1>13. CASE slot = 0
    BY <1>3, <1>6, <1>13
  <1>14. CASE slot # 0
    <2>1. PICK k \in IF x.count = None THEN Users \cup {None} ELSE {x.count} :
                \/ /\ p = k /\ sess' = [sess EXCEPT ![slot].st = "in"]
                   /\ Slots!Reply(c, "PASS", p, "10")
                   /\ UNCHANGED <<file, users, local, ghost>>
                \/ /\ p # k /\ local' = [local EXCEPT ![c].wrong = x.wrong + 1]
                   /\ Slots!Reply(c, "PASS", p, "11")
                   /\ UNCHANGED <<file, users, sess, ghost>>
                \/ /\ p # k
                   /\ local' = [local EXCEPT ![c].wrong = x.wrong + 1, ![c].step = "writing"]
                   /\ users' = [u \in Users |-> IF u = k THEN "blocked" ELSE users[u]]
                   /\ file' = Slots!Truncated
                   /\ ghost' = [ghost EXCEPT !.struck = @ \cup ({k} \ {None}),
                        !.forgotten = IF Slots!At("reading") = {} THEN @ \ {k}
                                      ELSE @ \cup ({k} \ {None})]
                   /\ UNCHANGED <<sess, said, told>>
      BY <1>3, <1>14
    <2>2. k \in Users \cup {None} /\ (x.count # None => k = x.count)
      BY <1>11
    <2>3. CASE /\ p = k /\ sess' = [sess EXCEPT ![slot].st = "in"]
               /\ Slots!Reply(c, "PASS", p, "10")
               /\ UNCHANGED <<file, users, local, ghost>>
      BY <1>8, <1>14, <2>2, <2>3
    <2>4. CASE /\ p # k /\ local' = [local EXCEPT ![c].wrong = x.wrong + 1]
               /\ Slots!Reply(c, "PASS", p, "11")
               /\ UNCHANGED <<file, users, sess, ghost>>
      BY <1>9, <1>14, <2>2, <2>4
    <2>5. CASE /\ local' = [local EXCEPT ![c].wrong = x.wrong + 1, ![c].step = "writing"]
               /\ users' = [u \in Users |-> IF u = k THEN "blocked" ELSE users[u]]
               /\ file' = Slots!Truncated
               /\ ghost' = [ghost EXCEPT !.struck = @ \cup ({k} \ {None}),
                    !.forgotten = IF Slots!At("reading") = {} THEN @ \ {k}
                                  ELSE @ \cup ({k} \ {None})]
               /\ UNCHANGED <<sess, said, told>>
      BY <1>12, <2>2, <2>5
    <2> QED
      BY <2>1, <2>3, <2>4, <2>5
  <1> QED
    BY <1>13, <1>14

LEMMA SlotsLOUT ==
  ASSUME Common, SlotsInv, program = "slots", NEW c \in Conns, NEW u, Slots!LOUT(c, u)
  PROVE  Common' /\ SlotsInv' /\ Answered
  <1>0. /\ users \in [Users -> Statuses] /\ ghost \in Ghost /\ file \in Files
        /\ told \in [Conns -> Told]
    BY CommonTypes
  <1>1. Slots!Ready(c) /\ UNCHANGED <<program, up, file, users, sess, ghost>>
    BY DEF Slots!LOUT
  <1>2. /\ up /\ conn[c] = "open" /\ local[c].step = "ready" /\ told[c] \in Told
        /\ local[c] \in SlotThreads /\ local[c].slot \in Nat /\ local[c].slot <= Len(sess)
        /\ told[c].named # None => told[c].named = local[c].count /\ local[c].slot # 0
        /\ sess \in Seq(SlotSessions) /\ local \in [Conns -> SlotThreads \cup {None}]
        /\ Len(sess) \in Nat
    BY <1>1, SlotsReady
  <1>3. sess' \in Seq(SlotSessions) /\ Len(sess') >= Len(sess) /\ Len(sess') = Len(sess)
    BY <1>1, <1>2
  <1>4. CASE Slots!Dismiss(c, "LOUT", u, "20")
    <2>1. Deserved(c, "LOUT", u, "20") /\ "20" \in Codes
      BY DEF Deserved, Codes
    <2>2. /\ Common' /\ Answered
          /\ local' \in [Conns -> SlotThreads \cup {None}] /\ SlotOwn(c)'
          /\ \A d \in Conns \ {c} : conn'[d] = conn[d] /\ local'[d] = local[d]
      BY <1>0, <1>1, <1>2, <1>4, <2>1, SlotsDismiss
    <2>3. \A d \in Conns \ {c} : told'[d] = told[d]
      <3>1. Leaves(c)
        BY <1>4, SlotsShares DEF Slots!Dismiss
      <3>2. told' = [told EXCEPT ![c] = Newcomer]
        BY <3>1 DEF Leaves
      <3> QED
        BY <1>0, <3>2
    <2>4. SlotsInv'
      BY <1>1, <1>2, <1>3, <2>2, <2>3, SlotsQuiet
    <2> QED
      BY <2>2, <2>4
  <1>5. CASE Slots!Reply(c, "LOUT", u, "21") /\ UNCHANGED <<conn, local>>
    <2>1. Reply(c, "LOUT", u, "21")
      BY <1>5, SlotsShares
    <2>2. Learns(told[c], "LOUT", u, "21") = told[c]
      BY LearnsNothing
    <2>3. Deserved(c, "LOUT", u, "21") /\ "21" \in Codes
      BY DEF Deserved, Codes
    <2>4. local' = [local EXCEPT ![c] = local[c]]
      BY <1>2, <1>5
    <2>5. Continues(c, Learns(told[c], "LOUT", u, "21").named)
      BY <1>2, <2>2, <2>4 DEF Continues
    <2>6. Learns(told[c], "LOUT", u, "21") \in Told
      BY <1>2, <2>2
    <2> QED
      BY <1>1, <1>2, <1>3, <1>5, <2>1, <2>3, <2>5, <2>6, SlotsAnswer
  <1> QED
    BY <1>4, <1>5 DEF Slots!LOUT

LEMMA SlotsNext ==
  ASSUME Common, SlotsInv, program = "slots", Slots!Next
  PROVE  Common' /\ SlotsInv' /\ Answered
  BY SlotsJoin, SlotsRead, SlotsWrite, SlotsQuit, SlotsUSER, SlotsPASS, SlotsLOUT
     DEF Slots!Next
----------------------------------------------------------------------------
\* week6/ex1_server.c.

LEMMA ThreadsShares ==
  /\ Threads!Runs("threads") <=> program = "threads" /\ up
  /\ \A c, op, arg, code : Threads!Says(c, op, arg, code) <=> Says(c, op, arg, code)
  /\ \A c, op, arg, code : Threads!Reply(c, op, arg, code) <=> Reply(c, op, arg, code)
  /\ \A c : (Threads!Connect(c) <=> Connect(c)) /\ (Threads!Leaves(c) <=> Leaves(c))
  /\ Threads!Open = Open
  /\ Threads!Truncated = Truncated
  /\ Threads!AllLost = AllLost
  <1>1. Threads!Runs("threads") <=> program = "threads" /\ up
    BY DEF Threads!Runs
  <1>2. \A t, op, arg, code : Threads!Learns(t, op, arg, code) = Learns(t, op, arg, code)
    BY DEF Threads!Learns, Learns, Threads!Limit, Limit, Threads!MaxTries, MaxTries
  <1>3. \A c, op, arg, code : Threads!Says(c, op, arg, code) <=> Says(c, op, arg, code)
    BY DEF Threads!Says, Says, Threads!Silence, Silence
  <1>4. \A c, op, arg, code : Threads!Reply(c, op, arg, code) <=> Reply(c, op, arg, code)
    BY <1>2, <1>3 DEF Threads!Reply, Reply
  <1>5. \A c : (Threads!Connect(c) <=> Connect(c)) /\ (Threads!Leaves(c) <=> Leaves(c))
    BY DEF Threads!Connect, Connect, Threads!Leaves, Leaves, Threads!Newcomer, Newcomer
  <1>6. Threads!Open = Open
    BY DEF Threads!Open, Open
  <1> QED
    BY <1>1, <1>3, <1>4, <1>5, <1>6 DEF Threads!Truncated, Truncated, Threads!AllLost, AllLost

LEMMA Least ==
  ASSUME NEW S \in SUBSET Nat, S # {}
  PROVE  \E x \in S : \A y \in S : x <= y
  <1>1. \E x \in S : \A y \in S : ~(<<y, x>> \in OpToRel(<, Nat))
    BY WFMin, NatLessThanWellFounded
  <1>2. PICK x \in S : \A y \in S : ~(<<y, x>> \in OpToRel(<, Nat))
    BY <1>1
  <1>3. \A y \in S : ~(y < x)
    BY <1>2 DEF OpToRel
  <1> QED
    BY <1>3

\* A descriptor is free for each client that is accepted, and no other client's.
LEMMA FreeDescriptor ==
  ASSUME Common, ThreadsInv, NEW c \in Conns, conn[c] = "new"
  PROVE  LET f == CHOOSE g \in Threads!FreeFds : \A h \in Threads!FreeFds : g <= h
         IN  f \in Threads!Fds /\ \A d \in Open : local[d].fd # f
  <1> DEFINE N == Cardinality(Conns)
             T == {local[d].fd : d \in Open}
             fds == [d \in Open |-> local[d].fd]
  <1>1. Threads!Fds = 1..N
    BY DEF Threads!Fds, Threads!Cardinality, Cardinality
  <1>2. Threads!FreeFds = Threads!Fds \ T
    BY DEF Threads!FreeFds, Threads!Open, Open
  <1>3. IsFiniteSet(Conns) /\ N \in Nat
    BY AccountsAssumption, FS_CardinalityType
  <1>4. Open \in SUBSET (Conns \ {c})
    BY DEF Open
  <1>5. IsFiniteSet(Conns \ {c}) /\ Cardinality(Conns \ {c}) = N - 1
    BY <1>3, FS_RemoveElement
  <1>6. IsFiniteSet(Open) /\ Cardinality(Open) <= N - 1
    BY <1>4, <1>5, FS_Subset
  <1>7. fds \in Surjection(Open, T)
    BY DEF Surjection
  <1>8. IsFiniteSet(T) /\ Cardinality(T) <= Cardinality(Open)
    BY <1>6, <1>7, FS_Surjection
  <1>9. IsFiniteSet(1..N) /\ Cardinality(1..N) = N
    <2>1. /\ IsFiniteSet(1..N)
          /\ Cardinality(1..N) = IF 1 > N THEN 0 ELSE N - 1 + 1
      BY <1>3, FS_Interval
    <2>2. (IF 1 > N THEN 0 ELSE N - 1 + 1) = N
      BY <1>3
    <2> QED
      BY <2>1, <2>2
  <1> HIDE DEF N, T, fds
  <1>10. Cardinality(T) \in Nat /\ Cardinality(Open) \in Nat
    BY <1>6, <1>8, FS_CardinalityType
  <1>11. ~(1..N \subseteq T)
    <2>1. SUFFICES ASSUME 1..N \in SUBSET T PROVE FALSE
      OBVIOUS
    <2>2. Cardinality(1..N) <= Cardinality(T)
      BY <1>8, <2>1, FS_Subset
    <2> QED
      BY <1>3, <1>6, <1>8, <1>9, <1>10, <2>2
  <1>12. Threads!FreeFds # {} /\ Threads!FreeFds \in SUBSET Nat
    BY <1>1, <1>2, <1>3, <1>11
  <1>13. \E g \in Threads!FreeFds : \A h \in Threads!FreeFds : g <= h
    BY <1>12, Least
  <1>14. (CHOOSE g \in Threads!FreeFds : \A h \in Threads!FreeFds : g <= h) \in Threads!FreeFds
    BY <1>13
  <1> QED
    BY <1>2, <1>14 DEF T

\* What findSessByConnfd() finds.
LEMMA ThreadsFind ==
  ASSUME ThreadsInv, NEW c \in Conns
  PROVE  \/ /\ Threads!findSessByConnfd(c) = 0
            /\ \A i \in DOMAIN sess : sess[i].fd # local[c].fd
         \/ /\ Threads!findSessByConnfd(c) # 0
            /\ FirstOf(sess, local[c].fd, Threads!findSessByConnfd(c))
            /\ sess[Threads!findSessByConnfd(c)] \in ThreadSessions
  <1> DEFINE S == {i \in DOMAIN sess : sess[i].fd = local[c].fd}
  <1>1. sess \in Seq(ThreadSessions) /\ DOMAIN sess = 1..Len(sess) /\ Len(sess) \in Nat
    BY DEF ThreadsInv
  <1>2. Threads!findSessByConnfd(c) = IF S = {} THEN 0 ELSE CHOOSE i \in S : \A j \in S : i <= j
    BY DEF Threads!findSessByConnfd, Threads!Fd
  <1>3. CASE S = {}
    BY <1>2, <1>3
  <1>4. CASE S # {}
    <2>1. S \in SUBSET Nat
      BY <1>1
    <2> HIDE DEF S
    <2>2. \E i \in S : \A j \in S : i <= j
      BY <1>4, <2>1, Least
    <2>3. PICK p : p = Threads!findSessByConnfd(c)
      OBVIOUS
    <2>4. p \in S /\ \A j \in S : p <= j
      BY <1>2, <1>4, <2>2, <2>3
    <2>5. p \in DOMAIN sess /\ FirstOf(sess, local[c].fd, p)
      BY <2>4 DEF FirstOf, S
    <2>6. p # 0 /\ sess[p] \in ThreadSessions
      BY <1>1, <2>5
    <2> QED
      BY <2>3, <2>5, <2>6
  <1> QED
    BY <1>3, <1>4

\* In the table z a client with the descriptor f finds what it found in s.
Keeps(s, z, f) ==
  /\ \A i \in DOMAIN z : FirstOf(z, f, i) =>
       \E j \in DOMAIN s : /\ FirstOf(s, f, j) /\ z[i].user = s[j].user
                           /\ z[i].st = s[j].st /\ z[i].fails = s[j].fails
  /\ (\A i \in DOMAIN z : z[i].fd # f) => \A i \in DOMAIN s : s[i].fd # f

LEMMA KeepsSuits ==
  ASSUME NEW s, NEW z, NEW f, NEW t, Suits(s, f, t), Keeps(s, z, f)
  PROVE  Suits(z, f, t)
  BY DEF Suits, Keeps

LEMMA KeepsSame == \A s, f : Keeps(s, s, f)
  BY DEF Keeps

\* The session at p is another client's, and stays one ...
LEMMA KeepsSet ==
  ASSUME NEW s, NEW z, NEW f, NEW p \in DOMAIN s, DOMAIN z = DOMAIN s, s[p].fd # f, z[p].fd # f,
         \A j \in DOMAIN s : j # p => z[j] = s[j]
  PROVE  Keeps(s, z, f)
  <1>1. ASSUME NEW i \in DOMAIN z, FirstOf(z, f, i) PROVE FirstOf(s, f, i) /\ z[i] = s[i]
    <2>1. z[i].fd = f /\ i # p /\ z[i] = s[i]
      BY <1>1 DEF FirstOf
    <2>2. \A j \in DOMAIN s : s[j].fd = f => z[j].fd = f
      OBVIOUS
    <2> QED
      BY <1>1, <2>1, <2>2 DEF FirstOf
  <1>2. ASSUME \A i \in DOMAIN z : z[i].fd # f PROVE \A i \in DOMAIN s : s[i].fd # f
    BY <1>2
  <1> QED
    BY <1>1, <1>2 DEF Keeps

\* ... or becomes a copy of the next one ...
LEMMA KeepsCopy ==
  ASSUME NEW S, NEW s \in Seq(S), NEW z, NEW f, NEW p \in DOMAIN s, p + 1 \in DOMAIN s,
         DOMAIN z = DOMAIN s, s[p].fd # f, z[p] = s[p + 1],
         \A j \in DOMAIN s : j # p => z[j] = s[j]
  PROVE  Keeps(s, z, f)
  <1>0. DOMAIN s \subseteq Nat /\ p \in Nat
    OBVIOUS
  <1>1. ASSUME NEW i \in DOMAIN z, FirstOf(z, f, i)
        PROVE  \E j \in DOMAIN s : FirstOf(s, f, j) /\ z[i] = s[j]
    <2>1. \A j \in DOMAIN s : s[j].fd = f => j # p /\ z[j].fd = f
      OBVIOUS
    <2>2. \A j \in DOMAIN s : s[j].fd = f => i <= j
      BY <1>1, <2>1 DEF FirstOf
    <2>3. CASE i # p
      <3>1. z[i] = s[i] /\ s[i].fd = f
        BY <1>1, <2>3 DEF FirstOf
      <3>2. FirstOf(s, f, i)
        BY <2>2, <3>1 DEF FirstOf
      <3> QED
        BY <3>1, <3>2
    <2>4. CASE i = p
      <3>1. s[p + 1].fd = f
        BY <1>1, <2>4 DEF FirstOf
      <3>2. \A j \in DOMAIN s : s[j].fd = f => p + 1 <= j
        BY <1>0, <2>1, <2>2, <2>4
      <3>3. FirstOf(s, f, p + 1)
        BY <3>1, <3>2 DEF FirstOf
      <3> QED
        BY <2>4, <3>3
    <2> QED
      BY <2>3, <2>4
  <1>2. ASSUME \A i \in DOMAIN z : z[i].fd # f PROVE \A i \in DOMAIN s : s[i].fd # f
    BY <1>2
  <1> QED
    BY <1>1, <1>2 DEF Keeps

\* ... or another client's session is added.
LEMMA KeepsAdd ==
  ASSUME NEW S, NEW s \in Seq(S), NEW r \in S, NEW z, z = Append(s, r), NEW f, r.fd # f
  PROVE  Keeps(s, z, f)
  <1>0. /\ DOMAIN z = DOMAIN s \cup {Len(s) + 1} /\ Len(s) + 1 \notin DOMAIN s
        /\ z[Len(s) + 1] = r /\ \A j \in DOMAIN s : z[j] = s[j]
    BY AddOne
  <1>1. ASSUME NEW i \in DOMAIN z, FirstOf(z, f, i)
        PROVE  i \in DOMAIN s /\ FirstOf(s, f, i) /\ z[i] = s[i]
    <2>1. z[i].fd = f /\ i \in DOMAIN s /\ z[i] = s[i]
      BY <1>0, <1>1 DEF FirstOf
    <2> QED
      BY <1>0, <1>1, <2>1 DEF FirstOf
  <1>2. ASSUME \A i \in DOMAIN z : z[i].fd # f PROVE \A i \in DOMAIN s : s[i].fd # f
    BY <1>0, <1>2
  <1> QED
    BY <1>1, <1>2 DEF Keeps

\* A step of another client.
LEMMA ThreadsOthers ==
  ASSUME NEW d \in Conns, ThreadOwn(d), conn[d] = "open" => conn'[d] = conn[d],
         conn'[d] = "open" => conn[d] = "open",
         local'[d] = local[d], told'[d] = told[d],
         conn[d] = "open" => Keeps(sess, sess', local[d].fd),
         ghost'.cut = ghost.cut \/ ghost'.cut = TRUE,
         \/ local[d].step # "reading"
         \/ Held' \subseteq Held
  PROVE  ThreadOwn(d)'
  <1>1. ASSUME conn'[d] = "open" PROVE local'[d] \in ConnThreads
    BY <1>1 DEF ThreadOwn
  <1>2. ASSUME conn'[d] = "open", local[d].step = "reading"
        PROVE  /\ local'[d].buf \in Files
               /\ \A u \in Held' : local'[d].buf[u] # "active"
               /\ ghost'.cut \/ \A u \in Users : local'[d].buf[u] \in {"active", "blocked"}
    BY <1>2 DEF ThreadOwn
  <1>3. ASSUME conn'[d] = "open" PROVE Suits(sess', local'[d].fd, told'[d])
    <2>1. Suits(sess, local[d].fd, told[d]) /\ Keeps(sess, sess', local[d].fd)
      BY <1>3 DEF ThreadOwn
    <2>2. Suits(sess', local[d].fd, told[d])
      BY <2>1, KeepsSuits
    <2> QED
      BY <2>2
  <1>4. ConnThreads' = ConnThreads
    BY DEF ConnThreads, Files, Statuses, Truncated, Threads!Fds
  <1> QED
    BY <1>1, <1>2, <1>3, <1>4 DEF ThreadOwn

\* What is left to show of a step of c that touches no account.
LEMMA ThreadsQuiet ==
  ASSUME Common', ThreadsInv, NEW c \in Conns, UNCHANGED <<up, file, users, ghost>>,
         sess' \in Seq(ThreadSessions), local' \in [Conns -> ConnThreads \cup {None}],
         \A d \in Conns \ {c} :
           conn'[d] = conn[d] /\ local'[d] = local[d] /\ told'[d] = told[d],
         conn'[c] # "hung", told'[c].tries <= 3,
         conn'[c] = "open" => conn[c] = "open" /\ local'[c].fd = local[c].fd,
         ThreadOwn(c)',
         \A d \in Conns \ {c} : conn[d] = "open" => Keeps(sess, sess', local[d].fd)
  PROVE  ThreadsInv'
  <1>1. Held' = Held
    BY DEF Held
  <1>2. ASSUME NEW d \in Conns \ {c}
        PROVE  conn'[d] # "hung" /\ told'[d].tries <= 3 /\ ThreadOwn(d)'
    <2>1. ThreadOwn(d) /\ conn[d] # "hung" /\ told[d].tries <= 3
      BY DEF ThreadsInv
    <2> QED
      BY <1>1, <2>1, ThreadsOthers
  <1>3. \A d \in Conns : conn'[d] # "hung" /\ told'[d].tries <= 3 /\ ThreadOwn(d)'
    BY <1>2
  <1>4. \A d \in Conns : conn'[d] = "open" => conn[d] = "open" /\ local'[d].fd = local[d].fd
    OBVIOUS
  <1>5. \A d, e \in Open' : local'[d].fd = local'[e].fd => d = e
    BY <1>3, <1>4 DEF ThreadsInv, Open
  <1> QED
    BY <1>1, <1>3, <1>5 DEF ThreadsInv

LEMMA ThreadsAnswer ==
  ASSUME Common, ThreadsInv, program = "threads", NEW c \in Conns, conn[c] = "open", up,
         local[c].step = "ready",
         NEW op, NEW arg, NEW code, Reply(c, op, arg, code),
         Deserved(c, op, arg, code), code \in Codes, Learns(told[c], op, arg, code) \in Told,
         Learns(told[c], op, arg, code).tries <= 3,
         UNCHANGED <<program, up, file, users, conn, ghost, local>>,
         sess' \in Seq(ThreadSessions),
         Suits(sess', local[c].fd, Learns(told[c], op, arg, code)),
         \A f : f # local[c].fd => Keeps(sess, sess', f)
  PROVE  Common' /\ ThreadsInv' /\ Answered
  <1>0. /\ users \in [Users -> Statuses] /\ ghost \in Ghost /\ file \in Files
        /\ local \in [Conns -> ConnThreads \cup {None}] /\ ThreadOwn(c) /\ c \in Open
    BY CommonTypes DEF ThreadsInv, Open
  <1>1. /\ Common' /\ Answered /\ told'[c] = Learns(told[c], op, arg, code)
        /\ \A d \in Conns \ {c} : told'[d] = told[d]
    BY <1>0, ReplyCommon
  <1>2. ThreadOwn(c)'
    <2>1. Suits(sess', local'[c].fd, told'[c])
      BY <1>1
    <2>2. local'[c] \in ConnThreads' /\ local'[c].step # "reading"
      BY <1>0 DEF ThreadOwn, ConnThreads, Files, Statuses, Truncated, Threads!Fds
    <2> QED
      BY <2>1, <2>2 DEF ThreadOwn
  <1>3. ASSUME NEW d \in Conns \ {c}, conn[d] = "open" PROVE Keeps(sess, sess', local[d].fd)
    <2>1. local[d].fd # local[c].fd
      BY <1>0, <1>3 DEF ThreadsInv, Open
    <2> QED
      BY <2>1
  <1>4. ThreadsInv'
    <2>1. local' \in [Conns -> ConnThreads \cup {None}]
      BY <1>0
    <2>2. conn'[c] # "hung" /\ told'[c].tries <= 3
      BY <1>1
    <2> QED
      BY <1>1, <1>2, <1>3, <2>1, <2>2, ThreadsQuiet
  <1> QED
    BY <1>1, <1>4

LEMMA ThreadsReady ==
  ASSUME Common, ThreadsInv, NEW c \in Conns, Threads!Ready(c)
  PROVE  /\ up /\ conn[c] = "open" /\ local[c].step = "ready" /\ told[c] \in Told
         /\ told[c].tries <= 3 /\ told[c].tries \in Nat
         /\ local[c] \in ConnThreads /\ Suits(sess, local[c].fd, told[c])
         /\ sess \in Seq(ThreadSessions) /\ local \in [Conns -> ConnThreads \cup {None}]
  <1>1. up /\ conn[c] = "open" /\ local[c].step = "ready" /\ told[c] \in Told
    BY ThreadsShares, CommonTypes DEF Threads!Ready
  <1>2. told[c].tries \in Nat
    BY <1>1 DEF Told
  <1> QED
    BY <1>1, <1>2 DEF ThreadsInv, ThreadOwn

\* An answer that changes no session, and tells the client nothing new.
LEMMA ThreadsRefuse ==
  ASSUME Common, ThreadsInv, program = "threads", NEW c \in Conns, Threads!Ready(c),
         NEW op, NEW arg, NEW code, Reply(c, op, arg, code),
         code \in {"01", "21", "sequence"} \/ (op # "PASS" /\ code = "31"),
         UNCHANGED <<program, up, file, users, sess, conn, ghost, local>>
  PROVE  Common' /\ ThreadsInv' /\ Answered
  <1>1. /\ up /\ conn[c] = "open" /\ local[c].step = "ready" /\ told[c] \in Told
        /\ told[c].tries <= 3 /\ Suits(sess, local[c].fd, told[c])
        /\ sess \in Seq(ThreadSessions)
    BY ThreadsReady
  <1>2. Learns(told[c], op, arg, code) = told[c]
    BY LearnsNothing
  <1>3. Deserved(c, op, arg, code) /\ code \in Codes
    BY DEF Deserved, Codes
  <1>4. \A f : f # local[c].fd => Keeps(sess, sess', f)
    BY KeepsSame
  <1>5. /\ Learns(told[c], op, arg, code) \in Told /\ Learns(told[c], op, arg, code).tries <= 3
        /\ Suits(sess', local[c].fd, Learns(told[c], op, arg, code))
    BY <1>1, <1>2
  <1>6. sess' \in Seq(ThreadSessions)
    BY <1>1
  <1> QED
    BY <1>1, <1>3, <1>4, <1>5, <1>6, ThreadsAnswer

LEMMA ThreadsOutOfSequence ==
  ASSUME Common, ThreadsInv, program = "threads", NEW c \in Conns, NEW op, NEW arg,
         Threads!OutOfSequence(c, op, arg)
  PROVE  Common' /\ ThreadsInv' /\ Answered
  <1>1. /\ Threads!Ready(c) /\ Reply(c, op, arg, "sequence")
        /\ UNCHANGED <<program, up, file, users, sess, conn, local, ghost>>
    BY ThreadsShares DEF Threads!OutOfSequence
  <1> QED
    BY <1>1, ThreadsRefuse

\* The session that is found for c is written over by r, of the same descriptor.
LEMMA ThreadsSet ==
  ASSUME NEW S, NEW s \in Seq(S), NEW f, NEW p, FirstOf(s, f, p), NEW r \in S, r.fd = f,
         NEW z, z = [s EXCEPT ![p] = r]
  PROVE  /\ z \in Seq(S) /\ p \in DOMAIN s /\ \A g : g # f => Keeps(s, z, g)
         /\ \A t : t.tries <= r.fails /\ (r.st = "named" => t.named \in {None, r.user})
                     => Suits(z, f, t)
  <1>1. p \in DOMAIN s /\ s[p].fd = f
    BY DEF FirstOf
  <1>2. /\ z \in Seq(S) /\ DOMAIN z = DOMAIN s /\ z[p] = r
        /\ \A j \in DOMAIN s : j # p => z[j] = s[j]
    BY <1>1, SetOne
  <1>3. \A g : g # f => Keeps(s, z, g)
    BY <1>1, <1>2, KeepsSet
  <1>4. \A i \in DOMAIN z : FirstOf(z, f, i) => i = p
    <2>1. SUFFICES ASSUME NEW i \in DOMAIN z, FirstOf(z, f, i) PROVE i = p
      OBVIOUS
    <2>2. i <= p
      BY <1>1, <1>2, <2>1 DEF FirstOf
    <2>3. p <= i
      BY <1>2, <2>1 DEF FirstOf
    <2>4. i \in Nat /\ p \in Nat
      BY <1>1, <1>2
    <2> QED
      BY <2>2, <2>3, <2>4
  <1>5. p \in DOMAIN z /\ z[p].fd = f
    BY <1>1, <1>2
  <1> QED
    BY <1>1, <1>2, <1>3, <1>4, <1>5 DEF Suits

LEMMA ThreadsUSER ==
  ASSUME Common, ThreadsInv, program = "threads", NEW c \in Conns, NEW u, Threads!USER(c, u)
  PROVE  Common' /\ ThreadsInv' /\ Answered
  <1> DEFINE pos == Threads!findSessByConnfd(c)
             f == local[c].fd
  <1>1. Threads!Ready(c) /\ UNCHANGED <<program, up, file, users, conn, local, ghost>>
    BY DEF Threads!USER
  <1>2. /\ up /\ conn[c] = "open" /\ local[c].step = "ready" /\ told[c] \in Told
        /\ told[c].tries <= 3 /\ told[c].tries \in Nat
        /\ local[c] \in ConnThreads /\ Suits(sess, f, told[c]) /\ sess \in Seq(ThreadSessions)
    BY <1>1, ThreadsReady
  <1>3. \/ /\ UNCHANGED sess
           /\ \E code \in {"01", "31"} : Threads!Reply(c, "USER", u, code)
        \/ /\ u \in Users /\ users[u] = "active" /\ Threads!Reply(c, "USER", u, "00")
           /\ \/ /\ pos = 0
                 /\ sess' = Append(sess, [user |-> u, status |-> "active", st |-> "named",
                                          fails |-> 0, fd |-> f, fresh |-> TRUE])
              \/ /\ pos # 0
                 /\ \/ /\ sess[pos].user = u
                       /\ sess' = [sess EXCEPT ![pos] = [sess[pos] EXCEPT !.st = "named"]]
                    \/ sess' = [sess EXCEPT ![pos] =
                         [sess[pos] EXCEPT !.user = u, !.status = "active", !.fresh = TRUE]]
                    \/ sess[pos].st # "named" /\ UNCHANGED sess
    BY DEF Threads!USER, Threads!findUserById, Threads!Same, Threads!newSession, Threads!Fd
  <1>4. CASE UNCHANGED sess /\ \E code \in {"01", "31"} : Threads!Reply(c, "USER", u, code)
    <2>1. PICK code \in {"01", "31"} : Threads!Reply(c, "USER", u, code)
      BY <1>4
    <2>2. Reply(c, "USER", u, code)
      BY <2>1, ThreadsShares
    <2> QED
      BY <1>1, <1>4, <2>2, ThreadsRefuse
  <1>5. ASSUME u \in Users, users[u] = "active", Threads!Reply(c, "USER", u, "00"),
               sess' \in Seq(ThreadSessions), \A g : g # f => Keeps(sess, sess', g),
               \A t : t.named = u /\ t.tries = told[c].tries => Suits(sess', f, t)
        PROVE  Common' /\ ThreadsInv' /\ Answered
    <2>1. Reply(c, "USER", u, "00")
      BY <1>5, ThreadsShares
    <2>2. /\ Learns(told[c], "USER", u, "00") \in Told
          /\ Learns(told[c], "USER", u, "00").named = u
          /\ Learns(told[c], "USER", u, "00").tries = told[c].tries
      BY <1>2, <1>5, LearnsUSER
    <2>3. Deserved(c, "USER", u, "00") /\ "00" \in Codes
      BY <1>5 DEF Deserved, Codes, ThreadsInv
    <2>4. /\ Learns(told[c], "USER", u, "00").tries <= 3
          /\ Suits(sess', f, Learns(told[c], "USER", u, "00"))
      BY <1>2, <1>5, <2>2
    <2> QED
      BY <1>1, <1>2, <1>5, <2>1, <2>2, <2>3, <2>4, ThreadsAnswer
  <1>6. ASSUME pos = 0, u \in Users, users[u] = "active", Threads!Reply(c, "USER", u, "00"),
               sess' = Append(sess, [user |-> u, status |-> "active", st |-> "named",
                                     fails |-> 0, fd |-> f, fresh |-> TRUE])
        PROVE  Common' /\ ThreadsInv' /\ Answered
    <2>1. \A i \in DOMAIN sess : sess[i].fd # f
      BY <1>6, ThreadsFind
    <2>2. told[c].tries = 0
      BY <1>2, <2>1 DEF Suits
    <2>3. PICK r : r = [user |-> u, status |-> "active", st |-> "named", fails |-> 0, fd |-> f,
                        fresh |-> TRUE]
      OBVIOUS
    <2>4. f \in Nat
      BY <1>2 DEF ConnThreads, Threads!Fds
    <2> HIDE DEF f, pos
    <2>5. /\ r \in ThreadSessions /\ r.fd = f /\ r.fails = 0 /\ r.user = u
          /\ sess' = Append(sess, r)
      BY <1>6, <2>3, <2>4 DEF ThreadSessions
    <2>6. /\ sess' \in Seq(ThreadSessions) /\ DOMAIN sess' = DOMAIN sess \cup {Len(sess) + 1}
          /\ sess'[Len(sess) + 1] = r /\ \A j \in DOMAIN sess : sess'[j] = sess[j]
      BY <1>2, <2>5, AddOne
    <2>7. \A g : g # f => Keeps(sess, sess', g)
      BY <1>2, <2>5, KeepsAdd
    <2>8. \A i \in DOMAIN sess' : sess'[i].fd = f => i = Len(sess) + 1
      BY <2>1, <2>6
    <2>9. \A t : t.named = u /\ t.tries = told[c].tries => Suits(sess', f, t)
      BY <2>2, <2>5, <2>6, <2>8 DEF Suits, FirstOf
    <2> QED
      BY <1>5, <1>6, <2>6, <2>7, <2>9
  <1>7. ASSUME pos # 0, u \in Users, users[u] = "active", Threads!Reply(c, "USER", u, "00"),
               \/ /\ sess[pos].user = u
                  /\ sess' = [sess EXCEPT ![pos] = [sess[pos] EXCEPT !.st = "named"]]
               \/ sess' = [sess EXCEPT ![pos] =
                    [sess[pos] EXCEPT !.user = u, !.status = "active", !.fresh = TRUE]]
               \/ sess[pos].st # "named" /\ UNCHANGED sess
        PROVE  Common' /\ ThreadsInv' /\ Answered
    <2>1. FirstOf(sess, f, pos) /\ sess[pos] \in ThreadSessions
      BY <1>7, ThreadsFind
    <2>2. /\ pos \in DOMAIN sess /\ sess[pos].fd = f /\ told[c].tries <= sess[pos].fails
      BY <1>2, <2>1 DEF FirstOf, Suits
    <2> HIDE DEF pos, f
    <2>3. PICK r \in ThreadSessions :
            /\ r.fd = f /\ r.fails = sess[pos].fails /\ (r.st = "named" => r.user = u)
            /\ sess' = [sess EXCEPT ![pos] = r]
      <3>1. CASE /\ sess[pos].user = u
                 /\ sess' = [sess EXCEPT ![pos] = [sess[pos] EXCEPT !.st = "named"]]
        <4>1. PICK r : r = [sess[pos] EXCEPT !.st = "named"]
          OBVIOUS
        <4>2. r \in ThreadSessions /\ r.fd = f /\ r.fails = sess[pos].fails /\ r.user = u
          BY <2>1, <2>2, <3>1, <4>1 DEF ThreadSessions
        <4> QED
          BY <3>1, <4>1, <4>2
      <3>2. CASE sess' = [sess EXCEPT ![pos] =
                   [sess[pos] EXCEPT !.user = u, !.status = "active", !.fresh = TRUE]]
        <4>1. PICK r : r = [sess[pos] EXCEPT !.user = u, !.status = "active", !.fresh = TRUE]
          OBVIOUS
        <4>2. r \in ThreadSessions /\ r.fd = f /\ r.fails = sess[pos].fails /\ r.user = u
          BY <1>7, <2>1, <2>2, <4>1 DEF ThreadSessions
        <4> QED
          BY <3>2, <4>1, <4>2
      <3>3. CASE sess[pos].st # "named" /\ UNCHANGED sess
        <4>1. sess' = [sess EXCEPT ![pos] = sess[pos]]
          BY <1>2, <2>2, <3>3
        <4> QED
          BY <2>1, <2>2, <3>3, <4>1
      <3> QED
        BY <1>7, <3>1, <3>2, <3>3
    <2>4. /\ sess' \in Seq(ThreadSessions) /\ \A g : g # f => Keeps(sess, sess', g)
          /\ \A t : t.tries <= r.fails /\ (r.st = "named" => t.named \in {None, r.user})
                     => Suits(sess', f, t)
      <3>1. sess \in Seq(ThreadSessions) /\ FirstOf(sess, f, pos)
        BY <1>2, <2>1
      <3>2. r \in ThreadSessions /\ r.fd = f /\ sess' = [sess EXCEPT ![pos] = r]
        BY <2>3
      <3>3. PICK z : z = sess'
        OBVIOUS
      <3>4. /\ z \in Seq(ThreadSessions) /\ \A g : g # f => Keeps(sess, z, g)
            /\ \A t : t.tries <= r.fails /\ (r.st = "named" => t.named \in {None, r.user})
                     => Suits(z, f, t)
        BY <3>1, <3>2, <3>3, ThreadsSet
      <3> QED
        BY <3>3, <3>4
    <2>5. \A t : t.named = u /\ t.tries = told[c].tries => Suits(sess', f, t)
      BY <2>2, <2>3, <2>4
    <2> QED
      BY <1>5, <1>7, <2>4, <2>5
  <1> HIDE DEF pos, f
  <1> QED
    BY <1>3, <1>4, <1>6, <1>7

LEMMA ThreadsAccept ==
  ASSUME Common, ThreadsInv, program = "threads", NEW c \in Conns, Threads!accept(c)
  PROVE  Common' /\ ThreadsInv' /\ Answered
  <1>1. PICK f : f = CHOOSE g \in Threads!FreeFds : \A h \in Threads!FreeFds : g <= h
    OBVIOUS
  <1>2. /\ up /\ Connect(c) /\ conn[c] = "new"
        /\ local' = [local EXCEPT ![c] = [fd |-> f, step |-> "reading", buf |-> file]]
        /\ ghost' = [ghost EXCEPT !.cut = @ \/ file = Truncated]
        /\ UNCHANGED <<program, up, file, users, sess, said, told>>
    BY <1>1, ThreadsShares DEF Threads!accept, Connect
  <1>3. f \in Threads!Fds /\ \A d \in Open : local[d].fd # f
    BY <1>1, <1>2, FreeDescriptor
  <1>4. /\ file \in Files /\ users \in [Users -> Statuses] /\ conn \in [Conns -> Kinds]
        /\ ghost \in Ghost /\ told[c] = Newcomer
    BY <1>2, CommonTypes DEF Common
  <1>5. /\ ghost' \in Ghost /\ Held' = Held
        /\ ghost'.cut = (ghost.cut \/ file = Truncated)
    BY <1>2, <1>4 DEF Ghost, Held
  <1>6. Common' /\ Answered
    BY <1>2, <1>4, <1>5, QuietCommon
  <1>7. PICK r : r = [fd |-> f, step |-> "reading", buf |-> file]
    OBVIOUS
  <1>8. r \in ConnThreads /\ r.fd = f /\ r.step = "reading" /\ r.buf = file
    BY <1>3, <1>4, <1>7 DEF ConnThreads
  <1>9. /\ local' \in [Conns -> ConnThreads \cup {None}] /\ local'[c] = r
        /\ \A d \in Conns \ {c} : local'[d] = local[d]
    BY <1>2, <1>7, <1>8 DEF ThreadsInv
  <1>10. conn'[c] = "open" /\ \A d \in Conns \ {c} : conn'[d] = conn[d]
    BY <1>2, <1>4 DEF Connect
  <1>11. ThreadOwn(c)'
    <2>1. Suits(sess', local'[c].fd, told'[c])
      <3>1. \A i \in DOMAIN sess : sess[i].fails >= 0
        <4>1. \A i \in DOMAIN sess : sess[i] \in ThreadSessions
          BY Elements DEF ThreadsInv
        <4> QED
          BY <4>1 DEF ThreadSessions
      <3>2. told'[c].tries = 0 /\ told'[c].named = None /\ sess' = sess
        BY <1>2, <1>4 DEF Newcomer
      <3> QED
        BY <3>1, <3>2 DEF Suits
    <2>2. local'[c] \in ConnThreads'
      BY <1>8, <1>9 DEF ConnThreads, Files, Statuses, Truncated, Threads!Fds
    <2>3. /\ local'[c].buf \in Files
          /\ \A u \in Held' : local'[c].buf[u] # "active"
      BY <1>4, <1>5, <1>8, <1>9 DEF ThreadsInv
    <2>4. ghost'.cut \/ \A u \in Users : local'[c].buf[u] \in {"active", "blocked"}
      BY <1>4, <1>5, <1>8, <1>9 DEF ThreadsInv, Files, Statuses
    <2>5. Files' = Files
      BY DEF Files, Statuses, Truncated
    <2> QED
      BY <2>1, <2>2, <2>3, <2>4, <2>5 DEF ThreadOwn
  <1>12. ASSUME NEW d \in Conns \ {c} PROVE ThreadOwn(d)'
    <2>1. ThreadOwn(d)
      BY DEF ThreadsInv
    <2>2. Keeps(sess, sess', local[d].fd)
      BY <1>2, KeepsSame
    <2>3. conn'[d] = conn[d] /\ local'[d] = local[d] /\ told'[d] = told[d]
      BY <1>2, <1>9, <1>10
    <2>4. Held' \subseteq Held /\ (ghost'.cut = ghost.cut \/ ghost'.cut = TRUE)
      <3>1. CASE file = Truncated
        BY <1>5, <3>1
      <3>2. CASE file # Truncated
        <4>1. ghost.cut \in BOOLEAN
          BY <1>4 DEF Ghost
        <4> QED
          BY <1>5, <3>2, <4>1
      <3> QED
        BY <3>1, <3>2
    <2> QED
      BY <2>1, <2>2, <2>3, <2>4, ThreadsOthers
  <1>13. \A d, e \in Open' : local'[d].fd = local'[e].fd => d = e
    <2>1. \A d \in Open' : d = c \/ (d \in Open /\ d # c)
      BY <1>10 DEF Open
    <2> QED
      BY <1>3, <1>8, <1>9, <2>1 DEF ThreadsInv, Open
  <1>14. \A d \in Conns : conn'[d] # "hung" /\ told'[d].tries <= 3
    BY <1>2, <1>10 DEF ThreadsInv
  <1>15. ghost'.cut \/ \A u \in Users : file'[u] # "lost" /\ users'[u] # "lost"
    BY <1>2, <1>5 DEF ThreadsInv
  <1>16. \A d \in Conns : ThreadOwn(d)'
    BY <1>11, <1>12
  <1>17. (ConnThreads \cup {None})' = ConnThreads \cup {None}
    BY DEF ConnThreads, Files, Statuses, Truncated, Threads!Fds
  <1> QED
    BY <1>2, <1>5, <1>6, <1>9, <1>13, <1>14, <1>15, <1>16, <1>17 DEF ThreadsInv

LEMMA ThreadsLeave ==
  ASSUME Common, ThreadsInv, program = "threads", NEW c \in Conns, Threads!leave(c)
  PROVE  Common' /\ ThreadsInv' /\ Answered
  <1>1. /\ Threads!Ready(c) /\ Leaves(c) /\ local' = [local EXCEPT ![c] = None]
        /\ UNCHANGED <<program, up, file, users, sess, said, ghost>>
    BY ThreadsShares DEF Threads!leave
  <1>2. up /\ sess \in Seq(ThreadSessions) /\ local \in [Conns -> ConnThreads \cup {None}]
    BY <1>1, ThreadsReady
  <1>3. /\ file \in Files /\ users \in [Users -> Statuses] /\ ghost \in Ghost
        /\ said.code \in Codes /\ conn \in [Conns -> Kinds]
    BY CommonTypes
  <1>4. conn' = [conn EXCEPT ![c] = "closed"] /\ told' = [told EXCEPT ![c] = Newcomer]
    BY <1>1 DEF Leaves
  <1>5. Answered
    BY <1>1 DEF Answered
  <1>6. /\ Common' /\ told'[c] = Newcomer
        /\ \A d \in Conns \ {c} : told'[d] = told[d] /\ conn'[d] = conn[d]
    BY <1>1, <1>2, <1>3, <1>4, <1>5, GoneCommon
  <1>7. /\ local' \in [Conns -> ConnThreads \cup {None}]
        /\ \A d \in Conns \ {c} : local'[d] = local[d]
    BY <1>1, <1>2
  <1>8. conn'[c] = "closed" /\ told'[c].tries <= 3
    BY <1>3, <1>4, <1>6 DEF Newcomer
  <1>9. ThreadOwn(c)'
    BY <1>8 DEF ThreadOwn
  <1>10. \A d \in Conns \ {c} : conn[d] = "open" => Keeps(sess, sess', local[d].fd)
    BY <1>1, KeepsSame
  <1>11. ThreadsInv'
    BY <1>1, <1>2, <1>6, <1>7, <1>8, <1>9, <1>10, ThreadsQuiet
  <1> QED
    BY <1>5, <1>6, <1>11

\* A thread reads or writes account.txt, in steps that its client does not see.
LEMMA ThreadsFile ==
  ASSUME ThreadsInv, NEW c \in Conns, conn[c] = "open",
         UNCHANGED <<program, up, conn, ghost>>, sess' \in Seq(ThreadSessions),
         \A d \in Conns \ {c} : told'[d] = told[d] /\ local'[d] = local[d],
         NEW r \in ConnThreads, local' = [local EXCEPT ![c] = r], r.fd = local[c].fd,
         r.step # "reading", told'[c].tries <= 3, Suits(sess', local[c].fd, told'[c]),
         \A d \in Conns \ {c} : Keeps(sess, sess', local[d].fd),
         ghost.cut \/ \A u \in Users : file'[u] # "lost" /\ users'[u] # "lost",
         \A u \in Held : users'[u] # "active" /\ file'[u] # "active"
  PROVE  ThreadsInv'
  <1>1. Held' = Held
    BY DEF Held
  <1>2. local' \in [Conns -> ConnThreads \cup {None}] /\ local'[c] = r
    BY DEF ThreadsInv
  <1>3. (ConnThreads \cup {None})' = ConnThreads \cup {None} /\ ConnThreads' = ConnThreads
    BY DEF ConnThreads, Files, Statuses, Truncated, Threads!Fds
  <1>4. ThreadOwn(c)'
    BY <1>2, <1>3 DEF ThreadOwn
  <1>5. ASSUME NEW d \in Conns \ {c} PROVE ThreadOwn(d)'
    <2>1. ThreadOwn(d)
      BY DEF ThreadsInv
    <2>2. conn'[d] = conn[d] /\ Held' \subseteq Held /\ ghost'.cut = ghost.cut
      BY <1>1
    <2> QED
      BY <2>1, <2>2, ThreadsOthers
  <1>6. \A d \in Conns : conn'[d] # "hung" /\ told'[d].tries <= 3 /\ ThreadOwn(d)'
    BY <1>4, <1>5 DEF ThreadsInv
  <1>7. \A d \in Conns : conn'[d] = conn[d] /\ local'[d].fd = local[d].fd
    BY <1>2
  <1>8. \A d, e \in Open' : local'[d].fd = local'[e].fd => d = e
    BY <1>7 DEF ThreadsInv, Open
  <1> QED
    BY <1>1, <1>2, <1>3, <1>6, <1>8 DEF ThreadsInv

LEMMA ThreadsReadFile ==
  ASSUME Common, ThreadsInv, program = "threads", NEW c \in Conns, Threads!readFileUser(c)
  PROVE  Common' /\ ThreadsInv' /\ Answered
  <1>1. /\ up /\ conn[c] = "open" /\ local[c].step = "reading"
        /\ users' = IF local[c].buf = Truncated THEN [users EXCEPT ![First] = "lost"]
                    ELSE local[c].buf
        /\ sess' = [i \in DOMAIN sess |-> [sess[i] EXCEPT !.fresh = FALSE]]
        /\ local' = [local EXCEPT ![c].step = "ready", ![c].buf = None]
        /\ UNCHANGED <<program, up, file, conn, said, told, ghost>>
    BY ThreadsShares DEF Threads!readFileUser
  <1>2. /\ file \in Files /\ users \in [Users -> Statuses] /\ ghost \in Ghost
        /\ ThreadOwn(c) /\ First \in Users /\ told[c].tries <= 3
        /\ local \in [Conns -> ConnThreads \cup {None}] /\ sess \in Seq(ThreadSessions)
    BY CommonTypes, AccountsAssumption DEF ThreadsInv
  <1>3. /\ local[c] \in ConnThreads /\ local[c].buf \in Files
        /\ \A u \in Held : local[c].buf[u] # "active"
        /\ ghost.cut \/ \A u \in Users : local[c].buf[u] \in {"active", "blocked"}
        /\ Suits(sess, local[c].fd, told[c])
    BY <1>1, <1>2 DEF ThreadOwn
  <1>4. /\ users' \in [Users -> Statuses]
        /\ ghost.cut \/ \A u \in Users : users'[u] # "lost"
        /\ \A u \in Held : users'[u] # "active"
    <2>1. CASE local[c].buf = Truncated
      <3>1. users' = [users EXCEPT ![First] = "lost"]
        BY <1>1, <2>1
      <3>2. ghost.cut
        BY <1>2, <1>3, <2>1 DEF Truncated
      <3> QED
        BY <1>2, <3>1, <3>2 DEF Statuses, ThreadsInv
    <2>2. CASE local[c].buf # Truncated
      BY <1>1, <1>3, <2>2 DEF Files
    <2> QED
      BY <2>1, <2>2
  <1>5. ASSUME NEW s, NEW z, s \in Seq(ThreadSessions),
               z = [i \in DOMAIN s |-> [s[i] EXCEPT !.fresh = FALSE]]
        PROVE  z \in Seq(ThreadSessions) /\ \A f : Keeps(s, z, f)
    <2>1. DOMAIN z = DOMAIN s /\ \A i \in DOMAIN s : s[i] \in ThreadSessions
      BY <1>5, Elements
    <2>2. \A i \in DOMAIN s : /\ z[i] \in ThreadSessions /\ z[i].user = s[i].user
                              /\ z[i].st = s[i].st /\ z[i].fails = s[i].fails /\ z[i].fd = s[i].fd
      <3>1. SUFFICES ASSUME NEW i \in DOMAIN s, NEW x, x = s[i]
                     PROVE  LET y == [x EXCEPT !.fresh = FALSE]
                            IN  /\ y \in ThreadSessions /\ y.user = x.user
                                /\ y.st = x.st /\ y.fails = x.fails /\ y.fd = x.fd
        BY <1>5
      <3>2. x \in ThreadSessions
        BY <2>1, <3>1
      <3> QED
        BY <3>2 DEF ThreadSessions
    <2>3. z \in Seq(ThreadSessions)
      <3>1. DOMAIN z = 1..Len(s) /\ Len(s) \in Nat
        BY <1>5, <2>1
      <3>2. z = [i \in 1..Len(s) |-> z[i]]
        BY <1>5, <3>1
      <3> QED
        BY <2>1, <2>2, <3>1, <3>2, IsASeq
    <2>4. \A f, i : FirstOf(z, f, i) <=> FirstOf(s, f, i)
      BY <2>1, <2>2 DEF FirstOf
    <2> QED
      BY <2>1, <2>2, <2>3, <2>4 DEF Keeps
  <1>6. sess' \in Seq(ThreadSessions) /\ \A f : Keeps(sess, sess', f)
    BY <1>1, <1>2, <1>5
  <1>7. PICK r : r = [local[c] EXCEPT !.step = "ready", !.buf = None]
    OBVIOUS
  <1>8. r \in ConnThreads /\ r.fd = local[c].fd /\ r.step = "ready"
    BY <1>3, <1>7 DEF ConnThreads
  <1>9. local' = [local EXCEPT ![c] = r] /\ \A d \in Conns \ {c} : local'[d] = local[d]
    BY <1>1, <1>2, <1>7
  <1>10. Common' /\ Answered
    BY <1>1, <1>2, <1>4, QuietCommon
  <1>11. Suits(sess', local[c].fd, told'[c])
    BY <1>1, <1>3, <1>6, KeepsSuits
  <1>12. /\ ghost.cut \/ \A u \in Users : file'[u] # "lost" /\ users'[u] # "lost"
         /\ \A u \in Held : users'[u] # "active" /\ file'[u] # "active"
    BY <1>1, <1>4 DEF ThreadsInv
  <1>13. ThreadsInv'
    <2>1. told'[c].tries <= 3 /\ r.step # "reading"
      BY <1>1, <1>2, <1>8
    <2>2. \A d \in Conns \ {c} : told'[d] = told[d] /\ local'[d] = local[d]
      BY <1>1, <1>9
    <2> QED
      BY <1>1, <1>6, <1>8, <1>9, <1>11, <1>12, <2>1, <2>2, ThreadsFile
  <1> QED
    BY <1>10, <1>13

\* A client that is told that it is out has nothing to be kept of.
LEMMA SuitsNobody ==
  ASSUME NEW s \in Seq(ThreadSessions), NEW f, NEW t, t.tries = 0, t.named = None
  PROVE  Suits(s, f, t)
  <1>1. \A i \in DOMAIN s : s[i] \in ThreadSessions
    BY Elements
  <1>2. \A i \in DOMAIN s : 0 <= s[i].fails
    BY <1>1 DEF ThreadSessions
  <1> QED
    BY <1>2 DEF Suits

LEMMA ThreadsWriteFile ==
  ASSUME Common, ThreadsInv, program = "threads", NEW c \in Conns, Threads!writeUserToFile(c)
  PROVE  Common' /\ ThreadsInv' /\ Answered
  <1>1. /\ up /\ conn[c] = "open" /\ Reply(c, "PASS", None, "31")
        /\ file' \in IF users[First] = "lost" THEN {users, AllLost} ELSE {users}
        /\ local' = [local EXCEPT ![c].step = "ready"]
        /\ UNCHANGED <<program, up, users, sess, conn, ghost>>
    BY ThreadsShares DEF Threads!writeUserToFile
  <1>2. /\ file \in Files /\ users \in [Users -> Statuses] /\ ghost \in Ghost
        /\ ThreadOwn(c) /\ First \in Users /\ told[c] \in Told
        /\ local \in [Conns -> ConnThreads \cup {None}] /\ sess \in Seq(ThreadSessions)
    BY CommonTypes, AccountsAssumption DEF ThreadsInv
  <1>3. file' \in Files /\ (file' = users \/ (users[First] = "lost" /\ file' = AllLost))
    <2>1. file' = users \/ (users[First] = "lost" /\ file' = AllLost)
      BY <1>1
    <2>2. users \in Files /\ AllLost \in Files
      BY <1>2 DEF Files, AllLost, Statuses
    <2> QED
      BY <2>1, <2>2
  <1>4. /\ ghost.cut \/ \A u \in Users : file'[u] # "lost" /\ users'[u] # "lost"
        /\ \A u \in Held : users'[u] # "active" /\ file'[u] # "active"
    <2>1. CASE file' = users
      BY <1>1, <2>1 DEF ThreadsInv
    <2>2. CASE users[First] = "lost" /\ file' = AllLost
      <3>1. ghost.cut
        BY <1>2, <2>2 DEF ThreadsInv
      <3>2. \A u \in Held : u \in Users
        BY <1>2 DEF Held, Ghost
      <3> QED
        BY <1>1, <2>2, <3>1, <3>2 DEF ThreadsInv, AllLost
    <2> QED
      BY <1>3, <2>1, <2>2
  <1>5. /\ Learns(told[c], "PASS", None, "31") \in Told
        /\ Learns(told[c], "PASS", None, "31").named = None
        /\ Learns(told[c], "PASS", None, "31").tries = 0
    BY <1>2, LearnsOut
  <1>6. Deserved(c, "PASS", None, "31") /\ "31" \in Codes
    BY DEF Deserved, Codes
  <1>7. /\ Common' /\ Answered /\ told'[c] = Learns(told[c], "PASS", None, "31")
        /\ \A d \in Conns \ {c} : told'[d] = told[d]
    BY <1>1, <1>2, <1>3, <1>5, <1>6, ReplyCommon
  <1>8. PICK r : r = [local[c] EXCEPT !.step = "ready"]
    OBVIOUS
  <1>9. r \in ConnThreads /\ r.fd = local[c].fd /\ r.step = "ready"
    BY <1>1, <1>2, <1>8 DEF ConnThreads, ThreadOwn
  <1>10. local' = [local EXCEPT ![c] = r] /\ \A d \in Conns \ {c} : local'[d] = local[d]
    BY <1>1, <1>2, <1>8
  <1>11. ThreadsInv'
    <2>1. sess' \in Seq(ThreadSessions) /\ \A d \in Conns \ {c} : Keeps(sess, sess', local[d].fd)
      BY <1>1, <1>2, KeepsSame
    <2>2. told'[c].tries <= 3 /\ r.step # "reading"
      BY <1>5, <1>7, <1>9
    <2>3. Suits(sess', local[c].fd, told'[c])
      BY <1>5, <1>7, <2>1, SuitsNobody
    <2>4. \A d \in Conns \ {c} : told'[d] = told[d] /\ local'[d] = local[d]
      BY <1>7, <1>10
    <2> QED
      BY <1>1, <1>4, <1>9, <1>10, <2>1, <2>2, <2>3, <2>4, ThreadsFile
  <1> QED
    BY <1>7, <1>11

LEMMA ThreadsLOUT ==
  ASSUME Common, ThreadsInv, program = "threads", NEW c \in Conns, NEW u, Threads!LOUT(c, u)
  PROVE  Common' /\ ThreadsInv' /\ Answered
  <1> DEFINE pos == Threads!findSessByConnfd(c)
             f == local[c].fd
             out == Learns(told[c], "LOUT", u, "20")
  <1>1. /\ Threads!Ready(c) /\ UNCHANGED <<program, up, file, users, conn, local, ghost>>
        /\ pos # 0
        /\ \/ /\ sess' = IF pos < Len(sess) THEN [sess EXCEPT ![pos] = sess[pos + 1]] ELSE sess
              /\ Reply(c, "LOUT", u, "20")
           \/ UNCHANGED sess /\ Reply(c, "LOUT", u, "21")
    BY ThreadsShares DEF Threads!LOUT, Threads!Named
  <1>2. /\ up /\ conn[c] = "open" /\ local[c].step = "ready" /\ told[c] \in Told
        /\ sess \in Seq(ThreadSessions)
    BY <1>1, ThreadsReady
  <1>3. FirstOf(sess, f, pos)
    BY <1>1, ThreadsFind
  <1> HIDE DEF pos, f
  <1>4. CASE UNCHANGED sess /\ Reply(c, "LOUT", u, "21")
    BY <1>1, <1>4, ThreadsRefuse
  <1>5. CASE /\ sess' = IF pos < Len(sess) THEN [sess EXCEPT ![pos] = sess[pos + 1]] ELSE sess
             /\ Reply(c, "LOUT", u, "20")
    <2>1. pos \in DOMAIN sess /\ sess[pos].fd = f
      BY <1>3 DEF FirstOf
    <2>2. sess' \in Seq(ThreadSessions) /\ \A g : g # f => Keeps(sess, sess', g)
      <3>1. CASE pos < Len(sess)
        <4>1. pos + 1 \in DOMAIN sess /\ sess' = [sess EXCEPT ![pos] = sess[pos + 1]]
          BY <1>2, <1>5, <2>1, <3>1
        <4>2. sess[pos + 1] \in ThreadSessions
          BY <1>2, <4>1, Elements
        <4>3. /\ sess' \in Seq(ThreadSessions) /\ DOMAIN sess' = DOMAIN sess
              /\ sess'[pos] = sess[pos + 1]
              /\ \A j \in DOMAIN sess : j # pos => sess'[j] = sess[j]
          BY <1>2, <2>1, <4>1, <4>2, SetOne
        <4>4. ASSUME NEW g, g # f PROVE Keeps(sess, sess', g)
          <5>1. sess[pos].fd # g
            BY <2>1, <4>4
          <5> QED
            BY <1>2, <2>1, <4>1, <4>3, <5>1, KeepsCopy
        <4> QED
          BY <4>3, <4>4
      <3>2. CASE ~(pos < Len(sess))
        BY <1>2, <1>5, <3>2, KeepsSame
      <3> QED
        BY <3>1, <3>2
    <2>3. out \in Told /\ out.named = None /\ out.tries = 0
      BY <1>2, LearnsOut
    <2>4. Deserved(c, "LOUT", u, "20") /\ "20" \in Codes
      BY DEF Deserved, Codes
    <2>5. Suits(sess', f, out) /\ out.tries <= 3
      BY <2>2, <2>3, SuitsNobody
    <2> QED
      BY <1>1, <1>2, <1>5, <2>2, <2>3, <2>4, <2>5, ThreadsAnswer DEF f
  <1> QED
    BY <1>1, <1>4, <1>5

LEMMA ThreadsSetOther ==
  ASSUME NEW S, NEW s \in Seq(S), NEW f, NEW p, FirstOf(s, f, p), NEW r \in S, r.fd = f,
         NEW z, z = [s EXCEPT ![p] = r], NEW g, g # f
  PROVE  Keeps(s, z, g)
  <1>1. p \in DOMAIN s /\ s[p].fd = f
    BY DEF FirstOf
  <1>2. /\ DOMAIN z = DOMAIN s /\ z[p] = r
        /\ \A j \in DOMAIN s : j # p => z[j] = s[j]
    BY <1>1, SetOne
  <1> QED
    BY <1>1, <1>2, KeepsSet

LEMMA ThreadsPASS ==
  ASSUME Common, ThreadsInv, program = "threads", NEW c \in Conns, NEW p, Threads!PASS(c, p)
  PROVE  Common' /\ ThreadsInv' /\ Answered
  <1> DEFINE pos == Threads!findSessByConnfd(c)
             f == local[c].fd
  <1>0. PICK s : s = sess[pos]
    OBVIOUS
  <1>1. /\ Threads!Ready(c) /\ UNCHANGED <<program, up, conn>>
        /\ pos # 0 /\ s.st = "named"
    BY <1>0 DEF Threads!PASS, Threads!Named
  <1>2. /\ up /\ conn[c] = "open" /\ local[c].step = "ready" /\ told[c] \in Told
        /\ told[c].tries <= 3 /\ told[c].tries \in Nat
        /\ local[c] \in ConnThreads /\ Suits(sess, f, told[c]) /\ sess \in Seq(ThreadSessions)
        /\ local \in [Conns -> ConnThreads \cup {None}]
    BY <1>1, ThreadsReady
  <1>3. FirstOf(sess, f, pos) /\ s \in ThreadSessions
    BY <1>0, <1>1, ThreadsFind
  <1>4. /\ pos \in DOMAIN sess /\ s.fd = f /\ s.user \in Users /\ s.fails \in Nat
        /\ told[c].tries <= s.fails /\ told[c].named \in {None, s.user}
    BY <1>0, <1>1, <1>2, <1>3 DEF FirstOf, Suits, ThreadSessions
  <1>5. /\ file \in Files /\ users \in [Users -> Statuses] /\ ghost \in Ghost
    BY CommonTypes
  <1> DEFINE readers == {d \in Open : local[d].step = "reading"}
  <1>6. \/ /\ Reply(c, "PASS", p, "31") /\ UNCHANGED <<sess, users, file, local, ghost>>
        \/ /\ p = s.user
           /\ sess' = [sess EXCEPT ![pos].st = "in", ![pos].fails = 0]
           /\ Reply(c, "PASS", p, "10") /\ UNCHANGED <<users, file, local, ghost>>
        \/ /\ ~(s.fails + 1 > 3)
           /\ sess' = [sess EXCEPT ![pos].fails = @ + 1]
           /\ Reply(c, "PASS", p, "11") /\ UNCHANGED <<users, file, local, ghost>>
        \/ /\ sess' = [sess EXCEPT ![pos].fails = @ + 1, ![pos].status = "blocked"]
           /\ users' = [users EXCEPT ![s.user] = IF @ = "lost" THEN @ ELSE "blocked"]
           /\ file' = Truncated
           /\ local' = [local EXCEPT ![c].step = "writing"]
           /\ ghost' = [ghost EXCEPT !.struck = @ \cup {s.user},
                          !.forgotten = @ \cup (IF readers = {} THEN {} ELSE {s.user})]
           /\ UNCHANGED <<said, told>>
    BY <1>0, ThreadsShares DEF Threads!PASS, Threads!MAX_NUMBER_LOGIN
  <1> HIDE DEF pos, f, readers
  <1>7. CASE Reply(c, "PASS", p, "31") /\ UNCHANGED <<sess, users, file, local, ghost>>
    <2>1. /\ Learns(told[c], "PASS", p, "31") \in Told
          /\ Learns(told[c], "PASS", p, "31").named = None
          /\ Learns(told[c], "PASS", p, "31").tries = 0
      BY <1>2, LearnsOut
    <2>2. Deserved(c, "PASS", p, "31") /\ "31" \in Codes
      BY DEF Deserved, Codes
    <2>3. /\ sess' \in Seq(ThreadSessions) /\ \A g : Keeps(sess, sess', g)
          /\ Learns(told[c], "PASS", p, "31").tries <= 3
      BY <1>2, <1>7, <2>1, KeepsSame
    <2>4. Suits(sess', f, Learns(told[c], "PASS", p, "31"))
      BY <2>1, <2>3, SuitsNobody
    <2> QED
      BY <1>1, <1>2, <1>7, <2>1, <2>2, <2>3, <2>4, ThreadsAnswer DEF f
  <1>8. CASE /\ p = s.user
             /\ sess' = [sess EXCEPT ![pos].st = "in", ![pos].fails = 0]
             /\ Reply(c, "PASS", p, "10") /\ UNCHANGED <<users, file, local, ghost>>
    <2>1. PICK r : r = [s EXCEPT !.st = "in", !.fails = 0]
      OBVIOUS
    <2>2. r \in ThreadSessions /\ r.fd = f /\ r.fails = 0 /\ r.st = "in"
      BY <1>3, <1>4, <2>1 DEF ThreadSessions
    <2>3. sess' = [sess EXCEPT ![pos] = r]
      BY <1>0, <1>2, <1>4, <1>8, <2>1
    <2>4. PICK z : z = sess'
      OBVIOUS
    <2>5. /\ z \in Seq(ThreadSessions) /\ \A g : g # f => Keeps(sess, z, g)
          /\ \A t : t.tries <= r.fails /\ (r.st = "named" => t.named \in {None, r.user})
                     => Suits(z, f, t)
      <3>1. sess \in Seq(ThreadSessions) /\ FirstOf(sess, f, pos)
        BY <1>2, <1>3
      <3>2. r \in ThreadSessions /\ r.fd = f /\ z = [sess EXCEPT ![pos] = r]
        BY <2>2, <2>3, <2>4
      <3>3. z \in Seq(ThreadSessions)
        BY <3>1, <3>2, ThreadsSet
      <3>4. ASSUME NEW g, g # f PROVE Keeps(sess, z, g)
        BY <3>1, <3>2, <3>4, ThreadsSetOther
      <3>5. ASSUME NEW k, k.tries <= r.fails, r.st = "named" => k.named \in {None, r.user}
            PROVE  Suits(z, f, k)
        BY <3>1, <3>2, <3>5, ThreadsSet
      <3> QED
        BY <3>3, <3>4, <3>5
    <2>6. /\ Learns(told[c], "PASS", p, "10") \in Told
          /\ Learns(told[c], "PASS", p, "10").tries = 0
      BY <1>2, LearnsIn
    <2>7. Deserved(c, "PASS", p, "10") /\ "10" \in Codes
      BY <1>4, <1>8 DEF Deserved, Codes
    <2>8. Suits(sess', f, Learns(told[c], "PASS", p, "10"))
      BY <2>2, <2>4, <2>5, <2>6
    <2>9. /\ sess' \in Seq(ThreadSessions) /\ \A g : g # f => Keeps(sess, sess', g)
          /\ Learns(told[c], "PASS", p, "10").tries <= 3
      BY <2>4, <2>5, <2>6
    <2> QED
      BY <1>1, <1>2, <1>8, <2>6, <2>7, <2>8, <2>9, ThreadsAnswer DEF f
  <1>9. CASE /\ ~(s.fails + 1 > 3)
             /\ sess' = [sess EXCEPT ![pos].fails = @ + 1]
             /\ Reply(c, "PASS", p, "11") /\ UNCHANGED <<users, file, local, ghost>>
    <2> DEFINE t == Learns(told[c], "PASS", p, "11")
    <2>1. PICK r : r = [s EXCEPT !.fails = s.fails + 1]
      OBVIOUS
    <2>2. r \in ThreadSessions /\ r.fd = f /\ r.fails = s.fails + 1 /\ r.user = s.user
      BY <1>3, <1>4, <2>1 DEF ThreadSessions
    <2>3. sess' = [sess EXCEPT ![pos] = r]
      BY <1>0, <1>2, <1>4, <1>9, <2>1
    <2>4. PICK z : z = sess'
      OBVIOUS
    <2>5. /\ z \in Seq(ThreadSessions) /\ \A g : g # f => Keeps(sess, z, g)
          /\ \A k : k.tries <= r.fails /\ (r.st = "named" => k.named \in {None, r.user})
                     => Suits(z, f, k)
      <3>1. sess \in Seq(ThreadSessions) /\ FirstOf(sess, f, pos)
        BY <1>2, <1>3
      <3>2. r \in ThreadSessions /\ r.fd = f /\ z = [sess EXCEPT ![pos] = r]
        BY <2>2, <2>3, <2>4
      <3>3. z \in Seq(ThreadSessions)
        BY <3>1, <3>2, ThreadsSet
      <3>4. ASSUME NEW g, g # f PROVE Keeps(sess, z, g)
        BY <3>1, <3>2, <3>4, ThreadsSetOther
      <3>5. ASSUME NEW k, k.tries <= r.fails, r.st = "named" => k.named \in {None, r.user}
            PROVE  Suits(z, f, k)
        BY <3>1, <3>2, <3>5, ThreadsSet
      <3> QED
        BY <3>3, <3>4, <3>5
    <2>6. t \in Told /\ t.named = told[c].named /\ t.tries \in {told[c].tries, told[c].tries + 1}
      BY <1>2, LearnsWrong
    <2>7. t.tries <= r.fails /\ t.tries <= 3
      BY <1>2, <1>4, <1>9, <2>2, <2>6
    <2>8. Suits(sess', f, t)
      BY <1>4, <2>2, <2>4, <2>5, <2>6, <2>7
    <2>9. sess' \in Seq(ThreadSessions) /\ \A g : g # f => Keeps(sess, sess', g)
      BY <2>4, <2>5
    <2>10. Deserved(c, "PASS", p, "11") /\ "11" \in Codes
      BY DEF Deserved, Codes
    <2> QED
      BY <1>1, <1>2, <1>9, <2>6, <2>7, <2>8, <2>9, <2>10, ThreadsAnswer DEF f
  <1>10. CASE /\ sess' = [sess EXCEPT ![pos].fails = @ + 1, ![pos].status = "blocked"]
              /\ users' = [users EXCEPT ![s.user] = IF @ = "lost" THEN @ ELSE "blocked"]
              /\ file' = Truncated
              /\ local' = [local EXCEPT ![c].step = "writing"]
              /\ ghost' = [ghost EXCEPT !.struck = @ \cup {s.user},
                             !.forgotten = @ \cup (IF readers = {} THEN {} ELSE {s.user})]
              /\ UNCHANGED <<said, told>>
    <2>1. PICK r : r = [s EXCEPT !.fails = s.fails + 1, !.status = "blocked"]
      OBVIOUS
    <2>2. r \in ThreadSessions /\ r.fd = f /\ r.fails = s.fails + 1 /\ r.user = s.user
      <3>1. s.fails + 1 \in Nat
        BY <1>4
      <3>2. PICK n : n = s.fails + 1
        OBVIOUS
      <3>3. r = [s EXCEPT !.fails = n, !.status = "blocked"] /\ n \in Nat
        BY <2>1, <3>1, <3>2
      <3>4. r \in ThreadSessions /\ r.fails = n /\ r.fd = s.fd /\ r.user = s.user
        BY <1>3, <3>3 DEF ThreadSessions
      <3> QED
        BY <1>4, <3>2, <3>4
    <2>3. sess' = [sess EXCEPT ![pos] = r]
      BY <1>0, <1>2, <1>4, <1>10, <2>1
    <2>4. PICK z : z = sess'
      OBVIOUS
    <2>5. /\ z \in Seq(ThreadSessions) /\ \A g : g # f => Keeps(sess, z, g)
          /\ \A k : k.tries <= r.fails /\ (r.st = "named" => k.named \in {None, r.user})
                     => Suits(z, f, k)
      <3>1. sess \in Seq(ThreadSessions) /\ FirstOf(sess, f, pos)
        BY <1>2, <1>3
      <3>2. r \in ThreadSessions /\ r.fd = f /\ z = [sess EXCEPT ![pos] = r]
        BY <2>2, <2>3, <2>4
      <3>3. z \in Seq(ThreadSessions)
        BY <3>1, <3>2, ThreadsSet
      <3>4. ASSUME NEW g, g # f PROVE Keeps(sess, z, g)
        BY <3>1, <3>2, <3>4, ThreadsSetOther
      <3>5. ASSUME NEW k, k.tries <= r.fails, r.st = "named" => k.named \in {None, r.user}
            PROVE  Suits(z, f, k)
        BY <3>1, <3>2, <3>5, ThreadsSet
      <3> QED
        BY <3>3, <3>4, <3>5
    <2>6. Suits(z, f, told[c])
      <3>1. told[c].tries <= r.fails
        BY <1>2, <1>4, <2>2
      <3> QED
        BY <1>4, <2>2, <2>5, <3>1
    <2>7. /\ ghost' \in Ghost /\ ghost'.cut = ghost.cut
          /\ ghost'.struck = ghost.struck \cup {s.user}
          /\ ghost'.forgotten = ghost.forgotten \cup (IF readers = {} THEN {} ELSE {s.user})
      BY <1>4, <1>5, <1>10 DEF Ghost
    <2>8. Held' \subseteq (Held \cup {s.user}) /\ (readers # {} => Held' \subseteq Held)
      BY <2>7 DEF Held
    <2>9. /\ users' \in [Users -> Statuses]
          /\ \A u \in Users : users[u] # "lost" => users'[u] # "lost"
          /\ \A u \in Held' : users'[u] # "active"
      <3>1. users' \in [Users -> Statuses]
        BY <1>4, <1>5, <1>10 DEF Statuses
      <3>2. users'[s.user] \in {"lost", "blocked"} /\ (users[s.user] # "lost" => users'[s.user] # "lost")
        BY <1>4, <1>5, <1>10
      <3>3. \A u \in Users \ {s.user} : users'[u] = users[u]
        BY <1>4, <1>5, <1>10
      <3>4. \A u \in Held' : u \in Users
        BY <2>7 DEF Held, Ghost
      <3> QED
        BY <2>8, <3>1, <3>2, <3>3, <3>4 DEF ThreadsInv
    <2>10. /\ file' \in Files /\ \A u \in Users : file'[u] = "empty"
      BY <1>10 DEF Files, Truncated
    <2>11. Common' /\ Answered
      BY <1>1, <1>2, <1>10, <2>7, <2>9, <2>10, QuietCommon
    <2>12. PICK q : q = [local[c] EXCEPT !.step = "writing"]
      OBVIOUS
    <2>13. q \in ConnThreads /\ q.fd = f /\ q.step = "writing"
      BY <1>2, <2>12 DEF ConnThreads, f
    <2>14. /\ local' \in [Conns -> ConnThreads \cup {None}] /\ local'[c] = q
           /\ \A d \in Conns \ {c} : local'[d] = local[d]
      BY <1>2, <1>10, <2>12, <2>13
    <2>15. (ConnThreads \cup {None})' = ConnThreads \cup {None} /\ ConnThreads' = ConnThreads
      BY DEF ConnThreads, Files, Statuses, Truncated, Threads!Fds
    <2>16. ThreadOwn(c)'
      <3>1. Suits(sess', local'[c].fd, told'[c])
        BY <1>10, <2>4, <2>6, <2>13, <2>14
      <3> QED
        BY <2>13, <2>14, <2>15, <3>1 DEF ThreadOwn
    <2>17. ASSUME NEW d \in Conns \ {c} PROVE ThreadOwn(d)'
      <3>1. CASE conn[d] # "open"
        BY <1>1, <3>1 DEF ThreadOwn
      <3>2. CASE conn[d] = "open"
        <4>1. ThreadOwn(d) /\ c \in Open /\ d \in Open
          BY <1>2, <3>2 DEF ThreadsInv, Open
        <4>2. local[d].fd # f
          BY <4>1 DEF ThreadsInv, f
        <4>3. Keeps(sess, sess', local[d].fd)
          BY <2>4, <2>5, <4>2
        <4>4. local[d].step # "reading" \/ Held' \subseteq Held
          BY <2>8, <4>1 DEF readers
        <4>5. conn'[d] = conn[d] /\ local'[d] = local[d] /\ told'[d] = told[d]
          BY <1>1, <1>10, <2>14
        <4> QED
          BY <2>7, <3>2, <4>1, <4>3, <4>4, <4>5, ThreadsOthers
      <3> QED
        BY <3>1, <3>2
    <2>18. \A d \in Conns : conn'[d] # "hung" /\ told'[d].tries <= 3 /\ ThreadOwn(d)'
      BY <1>1, <1>10, <2>16, <2>17 DEF ThreadsInv
    <2>19. \A d, e \in Open' : local'[d].fd = local'[e].fd => d = e
      <3>1. Open' = Open /\ \A d \in Conns : local'[d].fd = local[d].fd
        BY <1>1, <2>13, <2>14 DEF Open, f
      <3> QED
        BY <3>1 DEF ThreadsInv, Open
    <2>20. ghost'.cut \/ \A u \in Users : file'[u] # "lost" /\ users'[u] # "lost"
      BY <2>7, <2>9, <2>10 DEF ThreadsInv
    <2>21. \A u \in Held' : users'[u] # "active" /\ file'[u] # "active"
      <3>1. Held' \subseteq Users
        BY <2>7 DEF Held, Ghost
      <3> QED
        BY <2>9, <2>10, <3>1
    <2>22. up' /\ sess' \in Seq(ThreadSessions)
      BY <1>1, <1>2, <2>4, <2>5
    <2>23. ThreadsInv'
      BY <2>14, <2>15, <2>18, <2>19, <2>20, <2>21, <2>22 DEF ThreadsInv
    <2> QED
      BY <2>11, <2>23
  <1> QED
    BY <1>6, <1>7, <1>8, <1>9, <1>10

LEMMA ThreadsNext ==
  ASSUME Common, ThreadsInv, program = "threads", Threads!Next
  PROVE  Common' /\ ThreadsInv' /\ Answered
  <1>1. PICK c \in Conns :
          \/ Threads!accept(c) \/ Threads!readFileUser(c) \/ Threads!writeUserToFile(c)
          \/ Threads!leave(c)
          \/ \E u \in Users \cup {Stranger} : Threads!USER(c, u)
          \/ \E u \in Users : Threads!PASS(c, u) \/ Threads!LOUT(c, u)
          \/ \E u \in Users :
               Threads!OutOfSequence(c, "PASS", u) \/ Threads!OutOfSequence(c, "LOUT", u)
    BY DEF Threads!Next
  <1> QED
    BY <1>1, ThreadsAccept, ThreadsReadFile, ThreadsWriteFile, ThreadsLeave, ThreadsUSER,
       ThreadsPASS, ThreadsLOUT, ThreadsOutOfSequence
----------------------------------------------------------------------------
(* All servers. *)

\* A behaviour runs one program.
LEMMA ProgramKept ==
  ASSUME [Next]_vars PROVE program' = program
  <1>1. CASE UNCHANGED vars
    BY <1>1 DEF vars
  <1>2. ASSUME Threads!Next PROVE program' = program
    BY <1>2 DEF Threads!Next, Threads!accept, Threads!readFileUser, Threads!writeUserToFile,
       Threads!leave, Threads!USER, Threads!PASS, Threads!LOUT, Threads!OutOfSequence
  <1>3. ASSUME Turns!Next PROVE program' = program
    BY <1>3 DEF Turns!Next, Turns!accept, Turns!leave, Turns!USER, Turns!PASS, Turns!LOUT,
       Turns!OutOfSequence
  <1>4. ASSUME Slots!Next PROVE program' = program
    BY <1>4 DEF Slots!Next, Slots!pthread_created, Slots!accept, Slots!readFile,
       Slots!writeFile, Slots!quit, Slots!USER, Slots!PASS, Slots!LOUT
  <1>5. ASSUME Single!Next PROVE program' = program
    BY <1>5 DEF Single!Next, Single!accept, Single!quit, Single!USER, Single!PASS, Single!LOUT
  <1>6. ASSUME Layers!Next PROVE program' = program
    BY <1>6 DEF Layers!Next, Layers!newSession, Layers!runCommand, Layers!removeSession,
       Layers!removeSessionStops, Layers!makeCommand, Layers!runUSER, Layers!runPASS,
       Layers!runLOUT
  <1>7. ASSUME Shared!Next PROVE program' = program
    BY <1>7 DEF Shared!Next, Shared!Stopped, Shared!createSession, Shared!runUSER,
       Shared!runPASS, Shared!leave, Shared!typeUserChecks, Shared!typePassChecks, Shared!runLOUT
  <1>8. ASSUME Sockets!Next PROVE program' = program
    BY <1>8 DEF Sockets!Next, Sockets!accept, Sockets!looks, Sockets!createSession,
       Sockets!counts, Sockets!leave, Sockets!echo, Sockets!runUSER, Sockets!runPASS,
       Sockets!runLOUT
  <1>9. CASE Restart
    BY <1>9 DEF Restart
  <1> QED
    BY <1>1, <1>2, <1>3, <1>4, <1>5, <1>6, <1>7, <1>8, <1>9 DEF Next

\* The invariant holds when a server starts ...
LEMMA SignInInit == Init => SignInInv
  <1> SUFFICES ASSUME Init PROVE SignInInv
    OBVIOUS
  <1>1. /\ program \in Programs /\ up = TRUE /\ file = AllActive /\ users = AllActive
        /\ sess = <<>> /\ conn = [c \in Conns |-> "new"] /\ local = [c \in Conns |-> None]
        /\ said = Silence /\ told = [c \in Conns |-> Newcomer]
        /\ ghost = [struck |-> {}, forgotten |-> {}, cut |-> FALSE, robbed |-> {}]
    BY DEF Init, AllActive
  <1>2. AllActive \in [Users -> Statuses]
    BY DEF AllActive, Statuses
  <1>3. Held = {} /\ Open = {} /\ \A c \in Conns : conn[c] = "new" /\ told[c] = Newcomer
    BY <1>1 DEF Held, Open
  <1>4. ghost \in Ghost
    BY <1>1 DEF Ghost
  <1>5. Common
    <2>1. TypeOK
      <3>1. told \in [Conns -> Told]
        BY <1>1, NewcomerIsTold
      <3>2. said.code \in Codes
        BY <1>1 DEF Silence, Codes
      <3>3. conn \in [Conns -> Kinds]
        BY <1>1 DEF Kinds
      <3> QED
        BY <1>1, <1>2, <3>1, <3>2, <3>3 DEF TypeOK, Told, Kinds
    <2> QED
      BY <1>1, <1>3, <1>4, <2>1 DEF Common
  <1>6. Newcomer.tries = 0 /\ Newcomer.first = None
    BY DEF Newcomer
  <1>7. \A S : sess \in Seq(S) /\ DOMAIN sess = {}
    BY <1>1
  <1>8. AllActive # Truncated /\ \A u \in Users : AllActive[u] = "active"
    BY AccountsAssumption DEF AllActive, Truncated
  <1>9. ThreadsInv
    BY <1>1, <1>3, <1>6, <1>7, <1>8 DEF ThreadsInv, ThreadOwn
  <1>10. TurnsInv
    BY <1>1, <1>3, <1>6, <1>7 DEF TurnsInv
  <1>11. SlotsInv
    BY <1>1, <1>3, <1>7, <1>8 DEF SlotsInv, SlotOwn
  <1>12. SingleInv
    BY <1>1, <1>3 DEF SingleInv
  <1>13. LayersInv
    BY <1>1, <1>3, <1>7, <1>8 DEF LayersInv
  <1>14. SharedInv
    BY <1>1, <1>3, <1>7 DEF SharedInv
  <1>15. SocketsInv
    BY <1>1, <1>3, <1>7 DEF SocketsInv, SocketOwn, Sessionless
  <1> QED
    BY <1>5, <1>9, <1>10, <1>11, <1>12, <1>13, <1>14, <1>15 DEF SignInInv

\* A process that has ended has left a file that can be read, and nobody connected.
LEMMA SignInRestart ==
  ASSUME SignInInv, Restart
  PROVE  SignInInv' /\ Answered
  <1>1. /\ ~up /\ up' = TRUE /\ users' = file
        /\ UNCHANGED <<program, file, sess, conn, local, said, told, ghost>>
    BY DEF Restart
  <1>2. Common /\ Open = {} /\ First \in Users /\ file \in Files
    BY <1>1, CommonTypes, AccountsAssumption DEF SignInInv, Common
  <1>3. Held' = Held /\ Open' = {} /\ \A c \in Conns : conn[c] # "open"
    BY <1>1, <1>2 DEF Held, Open
  <1>4. program \notin {"threads", "turns"}
    BY <1>1 DEF SignInInv, ThreadsInv, TurnsInv
  <1>5. file \in [Users -> Statuses]
    <2>1. AllActive \in [Users -> Statuses]
      BY DEF AllActive, Statuses
    <2>2. program \in {"slots", "single", "layers", "shared", "sockets"}
      BY <1>2, <1>4, ProgramsAssumption, CommonTypes
    <2>3. file # Truncated \/ file \in [Users -> Statuses]
      BY <1>2, <1>3, <2>1, <2>2 DEF SignInInv, SlotsInv, SingleInv, LayersInv, SharedInv, SocketsInv
    <2> QED
      BY <1>2, <2>3 DEF Files
  <1>6. Common'
    <2>1. TypeOK'
      BY <1>1, <1>2, <1>5, TypesKept, CommonTypes
    <2> QED
      BY <1>1, <1>2, <1>3, <2>1 DEF Common, Ghost
  <1>7. program = "slots" => SlotsInv'
    <2> SUFFICES ASSUME program = "slots" PROVE SlotsInv'
      OBVIOUS
    <2>1. SlotsInv
      BY DEF SignInInv
    <2>2. \A c \in Conns : SlotOwn(c)'
      BY <1>1, <1>3 DEF SlotOwn
    <2>3. file # Truncated
      BY <1>3, <2>1 DEF SlotsInv
    <2>4. (SlotThreads \cup {None})' = SlotThreads \cup {None}
      BY DEF SlotThreads, Files, Statuses, Truncated
    <2>5. Truncated' = Truncated
      BY DEF Truncated
    <2> QED
      BY <1>1, <1>3, <2>1, <2>2, <2>3, <2>4, <2>5 DEF SlotsInv
  <1>8. program = "single" => SingleInv'
    BY <1>1, <1>2, <1>3 DEF SignInInv, SingleInv, AllActive
  <1>9. program = "layers" => LayersInv'
    <2> SUFFICES ASSUME program = "layers" PROVE LayersInv'
      OBVIOUS
    <2>1. LayersInv
      BY DEF SignInInv
    <2>2. /\ \A u \in Users : file[u] # "lost" /\ file # Truncated
          /\ \A u \in Held : file[u] = "blocked"
      BY <1>1, <2>1 DEF LayersInv
    <2>3. /\ \A u \in Users : file'[u] # "lost" /\ file' # Truncated' /\ users'[u] # "lost"
          /\ \A u \in Held' : users'[u] = "blocked"
      BY <1>1, <1>3, <2>2 DEF Truncated
    <2>4. /\ sess' \in Seq(SessionStructs) /\ \A c \in Conns : conn'[c] # "hung"
          /\ sess' = <<>>
      BY <1>1, <1>2, <2>1 DEF LayersInv
    <2> QED
      BY <1>1, <1>3, <2>3, <2>4 DEF LayersInv
  <1>10. program = "shared" => SharedInv'
    BY <1>1, <1>3 DEF SignInInv, SharedInv, AllActive
  <1>11. program = "sockets" => SocketsInv'
    <2> SUFFICES ASSUME program = "sockets" PROVE SocketsInv'
      OBVIOUS
    <2>1. SocketsInv
      BY DEF SignInInv
    <2>2. \A c \in Conns : SocketOwn(c)'
      BY <1>1, <1>3, <2>1 DEF SocketsInv, SocketOwn, Sessionless
    <2> QED
      BY <1>1, <1>3, <2>1, <2>2 DEF SocketsInv, AllActive
  <1>12. Answered
    BY <1>1 DEF Answered
  <1> QED
    BY <1>1, <1>4, <1>6, <1>7, <1>8, <1>9, <1>10, <1>11, <1>12 DEF SignInInv

\* ... when nothing happens ...
LEMMA SignInStutter ==
  ASSUME SignInInv, UNCHANGED vars
  PROVE  SignInInv' /\ Answered
  <1>1. UNCHANGED <<program, up, file, users, sess, conn, local, said, told, ghost>>
    BY DEF vars
  <1>2. Held' = Held /\ Open' = Open
    BY <1>1 DEF Held, Open
  <1>3. Truncated' = Truncated /\ Files' = Files /\ AllActive' = AllActive
    BY DEF Truncated, Files, Statuses, AllActive
  <1>4. Common'
    BY <1>1, <1>2 DEF SignInInv, Common, TypeOK, Ghost, Truncated, Statuses, MaxTries, Codes,
       Newcomer
  <1>5. ThreadsInv => ThreadsInv'
    BY <1>1, <1>2, <1>3 DEF ThreadsInv, ThreadOwn, Suits, FirstOf, ConnThreads, ThreadSessions,
       Threads!Fds
  <1>6. TurnsInv => TurnsInv'
    BY <1>1 DEF TurnsInv, TurnsSessions, AllActive
  <1>7. SlotsInv => SlotsInv'
    BY <1>1, <1>2, <1>3 DEF SlotsInv, SlotOwn, SlotSessions, SlotThreads
  <1>8. SingleInv => SingleInv'
    BY <1>1, <1>2, <1>3 DEF SingleInv, Single!count
  <1>9. LayersInv => LayersInv'
    BY <1>1, <1>2, <1>3 DEF LayersInv, Agree, SessionStructs
  <1>10. SharedInv => SharedInv'
    BY <1>1, <1>2, <1>3 DEF SharedInv, SharedSessions
  <1>11. SocketsInv => SocketsInv'
    BY <1>1, <1>2, <1>3 DEF SocketsInv, SocketOwn, Sessionless, Agree, SocketSessions,
       SocketThreads
  <1> QED
    BY <1>1, <1>4, <1>5, <1>6, <1>7, <1>8, <1>9, <1>10, <1>11 DEF SignInInv, Answered

\* ... and after a step of any of them, which answers only what it may.
LEMMA SignInNext ==
  ASSUME SignInInv, [Next]_vars
  PROVE  SignInInv' /\ Answered
  <1>1. program' = program /\ Common
    BY ProgramKept DEF SignInInv
  <1>2. CASE UNCHANGED vars
    BY <1>2, SignInStutter
  <1>3. CASE Restart
    BY <1>3, SignInRestart
  <1>4. CASE program = "threads" /\ Threads!Next
    BY <1>1, <1>4, ThreadsNext DEF SignInInv
  <1>5. CASE program = "turns" /\ Turns!Next
    BY <1>1, <1>5, TurnsNext DEF SignInInv
  <1>6. CASE program = "slots" /\ Slots!Next
    BY <1>1, <1>6, SlotsNext DEF SignInInv
  <1>7. CASE program = "single" /\ Single!Next
    BY <1>1, <1>7, SingleNext DEF SignInInv
  <1>8. CASE program = "layers" /\ Layers!Next
    BY <1>1, <1>8, LayersNext DEF SignInInv
  <1>9. CASE program = "shared" /\ Shared!Next
    BY <1>1, <1>9, SharedNext DEF SignInInv
  <1>10. CASE program = "sockets" /\ Sockets!Next
    BY <1>1, <1>10, SocketsNext DEF SignInInv
  <1> QED
    BY <1>2, <1>3, <1>4, <1>5, <1>6, <1>7, <1>8, <1>9, <1>10 DEF Next

\* What a session, a thread and account.txt hold agrees with what the clients know, at
\* every server: the inductive invariant.
THEOREM SignInInvariant == Spec => []SignInInv
  <1>1. SignInInv /\ [Next]_vars => SignInInv'
    BY SignInNext
  <1> QED
    BY <1>1, SignInInit, PTL DEF Spec

\* Type correctness of the seven servers, whatever the accounts and the connections:
\* account.txt is whole, or empty while a thread writes it, and the codes are the servers'.
THEOREM SignInTypeCorrect == Spec => []TypeOK
  <1>1. SignInInv => TypeOK
    BY DEF SignInInv, Common
  <1> QED
    BY <1>1, SignInInvariant, PTL

\* No account is lost from account.txt, unless a thread has read it while another was
\* writing it or the process has ended there.
THEOREM NoAccountLost == Spec => []AccountsKept
  <1>1. SignInInv => AccountsKept
    <2> SUFFICES ASSUME SignInInv PROVE AccountsKept
      OBVIOUS
    <2>1. program \in {"threads", "turns", "slots", "single", "layers", "shared", "sockets"}
      BY ProgramsAssumption, CommonTypes DEF SignInInv
    <2>2. \A u \in Users : AllActive[u] # "lost"
      BY DEF AllActive
    <2> QED
      BY <2>1, <2>2 DEF SignInInv, AccountsKept, ThreadsInv, TurnsInv, SlotsInv, SingleInv,
         LayersInv, SharedInv, SocketsInv
  <1> QED
    BY <1>1, SignInInvariant, PTL

\* A client whose session is its own is blocked in time: it sends no more wrong passwords in
\* a row than MAX_NUMBER_LOGIN or MAX_LOGIN_FAILED allow, also where sessions are inherited.
THEOREM LockoutInTime == Spec => []LockoutDue
  <1>1. SignInInv => LockoutDue
    <2> SUFFICES ASSUME SignInInv, program \in DOMAIN Limit, NEW c \in Conns \ ghost.robbed
                 PROVE  told[c].tries <= Limit[program]
      BY DEF LockoutDue
    <2>1. /\ program \in {"threads", "turns", "layers", "sockets"}
          /\ program \in {"threads", "turns"} => Limit[program] = 3
          /\ program \in {"layers", "sockets"} => Limit[program] = 4
      BY DEF Limit
    <2>2. CASE program \in {"threads", "turns"}
      BY <2>1, <2>2 DEF SignInInv, ThreadsInv, TurnsInv
    <2>3. conn[c] # "open" => told[c].tries = 0
      BY DEF SignInInv, Common, Newcomer
    <2>4. told[c].tries \in Nat
      BY CommonTypes DEF SignInInv, Told
    <2>5. ASSUME NEW s, Agree(told[c], s), s.failed \in 0..4 PROVE told[c].tries <= 4
      BY <2>4, <2>5 DEF Agree
    <2>6. CASE program = "layers" /\ conn[c] = "open"
      <3>1. LayersInv /\ c \in Open
        BY <2>6 DEF SignInInv, Open
      <3>2. Agree(told[c], sess[1]) /\ sess # <<>> /\ sess \in Seq(SessionStructs)
        BY <3>1 DEF LayersInv
      <3>3. sess[1] \in SessionStructs
        BY <3>2
      <3> QED
        BY <2>1, <2>5, <2>6, <3>2, <3>3 DEF SessionStructs
    <2>7. CASE program = "sockets" /\ conn[c] = "open"
      <3>1. SocketsInv /\ SocketOwn(c) /\ local[c] \in SocketThreads
        BY <2>7 DEF SignInInv, SocketsInv, SocketOwn
      <3>2. CASE local[c].step # "ready"
        BY <2>1, <2>7, <3>1, <3>2 DEF SocketOwn, Newcomer
      <3>3. CASE local[c].step = "ready"
        <4>1. local[c].place \in DOMAIN sess /\ Agree(told[c], sess[local[c].place])
          BY <2>7, <3>1, <3>3 DEF SocketOwn
        <4>2. sess[local[c].place] \in SocketSessions
          BY <3>1, <4>1, Elements DEF SocketsInv
        <4> QED
          BY <2>1, <2>5, <2>7, <4>1, <4>2 DEF SocketSessions
      <3> QED
        BY <3>2, <3>3
    <2> QED
      BY <2>1, <2>2, <2>3, <2>6, <2>7
  <1> QED
    BY <1>1, SignInInvariant, PTL

\* A client is told "10" for the password of the user it has named only, except where
\* week6/ex1_server.c, duc and week5's single server hand it another's session.
THEOREM OnlyOwnPassword == Spec => OwnPassword
  <1> DEFINE A == said'.code = "10" /\ program # "shared" =>
                    IF program = "turns" THEN said'.arg = Asking.first
                    ELSE \/ said'.arg = Asking.named
                         \/ Asking.named = None /\ program \in {"threads", "slots", "single"}
  <1>1. SignInInv /\ [Next]_vars => [A]_said
    <2> SUFFICES ASSUME SignInInv, [Next]_vars, said' # said PROVE A
      OBVIOUS
    <2>1. Deserved(said'.conn, said'.op, said'.arg, said'.code)
      BY SignInNext DEF Answered
    <2> QED
      BY <2>1 DEF Deserved, Asking
  <1> QED
    BY <1>1, SignInInvariant, PTL DEF Spec, OwnPassword

\* The right password of the named user is answered "10", at the servers with a session
\* for each client, whatever the other clients do.
THEOREM RightPasswordSuffices == Spec => PasswordSuffices
  <1> DEFINE A == said'.op = "PASS" /\ program \in {"slots", "layers", "sockets"}
                    /\ said'.conn \notin ghost.robbed
                    /\ said'.arg \in Users \cap {Asking.named} /\ ~Asking.in => said'.code = "10"
  <1>1. SignInInv /\ [Next]_vars => [A]_said
    <2> SUFFICES ASSUME SignInInv, [Next]_vars, said' # said PROVE A
      OBVIOUS
    <2>1. Deserved(said'.conn, said'.op, said'.arg, said'.code)
      BY SignInNext DEF Answered
    <2> QED
      BY <2>1 DEF Deserved, Asking
  <1> QED
    BY <1>1, SignInInvariant, PTL DEF Spec, PasswordSuffices

\* A user blocked for wrong passwords is not told "00" again, over any connection and
\* after any restart, as long as the server has not lost the block.
THEOREM BlocksLast == Spec => BlockHolds
  <1> DEFINE A == said'.op = "USER" /\ said'.code = "00"
                    => said'.arg \notin ghost.struck \ ghost.forgotten
  <1>1. SignInInv /\ [Next]_vars => [A]_said
    <2> SUFFICES ASSUME SignInInv, [Next]_vars, said' # said PROVE A
      OBVIOUS
    <2>1. Deserved(said'.conn, said'.op, said'.arg, said'.code)
      BY SignInNext DEF Answered
    <2> QED
      BY <2>1 DEF Deserved, Held
  <1> QED
    BY <1>1, SignInInvariant, PTL DEF Spec, BlockHolds
=============================================================================
