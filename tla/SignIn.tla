------------------------------- MODULE SignIn -------------------------------
(***************************************************************************)
(* What the sign-in servers of week5 and week6 have in common: clients     *)
(* that send USER, PASS and LOUT over a connection and wait for a code,    *)
(* the accounts in memory and in account.txt, a table of sessions.  Each   *)
(* server is a module of its own over these variables; program says which  *)
(* one a behaviour runs.                                                   *)
(*                                                                         *)
(* A client sends its next request after the reply to the last, so that a  *)
(* request, the server's handler and the reply are one step; the steps of  *)
(* a threaded server's connections interleave, with the reading and the    *)
(* writing of account.txt split where another thread can come between.     *)
(* A password is written as the name of the user whose it is.              *)
(***************************************************************************)
EXTENDS Integers, Sequences, FiniteSets

CONSTANTS Users,     \* the accounts of account.txt
          First,     \* the account in its first line
          Stranger,  \* a name without an account
          Conns,     \* connections, each made once
          None,
          Programs   \* the servers to run

ASSUME AccountsAssumption ==
  First \in Users /\ Stranger \notin Users /\ None \notin Users /\ IsFiniteSet(Conns)
ASSUME ProgramsAssumption ==
  Programs \subseteq {"threads", "turns", "slots", "single", "layers", "shared", "sockets"}

VARIABLES
  program,  \* the server of this behaviour
  up,       \* its process runs
  file,     \* account.txt: the status in each user's line
  users,    \* users[]: the same in memory
  sess,     \* the sessions
  conn,     \* for each connection: new, open, hung (the client waits for a
            \* reply that is not sent) or closed
  local,    \* for each connection: the variables of the handler that serves it
  said,     \* history: the last request and its code
  told,     \* history: what a connection's client knows
  ghost     \* history: struck, the users blocked for wrong passwords; forgotten,
            \* those whose block the server has lost; cut, whether account.txt
            \* has been read, or the process ended, while it was being written;
            \* robbed, the connections in whose session another has been written

vars == <<program, up, file, users, sess, conn, local, said, told, ghost>>

Statuses  == {"active", "blocked", "lost"}
Truncated == [u \in Users |-> "empty"]  \* account.txt between fopen and fclose
AllLost   == [u \in Users |-> "lost"]
Newcomer  == [named |-> None, first |-> None, in |-> FALSE, tries |-> 0]
Silence   == [conn |-> None, op |-> "none", arg |-> None, code |-> "none"]
Limit     == [threads |-> 3, turns |-> 3, layers |-> 4, sockets |-> 4]  \* wrong passwords
                                               \* a client may send before it is blocked
MaxTries  == 5  \* the tries a client's history counts
MaxSessions == [threads |-> 2, single |-> 4]  \* the sessions of servers that keep
                                            \* making them

Init ==
  /\ program \in Programs /\ up = TRUE
  /\ file = [u \in Users |-> "active"]
  /\ users = file
  /\ sess = <<>>
  /\ conn = [c \in Conns |-> "new"] /\ local = [c \in Conns |-> None]
  /\ said = Silence
  /\ told = [c \in Conns |-> Newcomer]
  /\ ghost = [struck |-> {}, forgotten |-> {}, cut |-> FALSE, robbed |-> {}]

Runs(p) == program = p /\ up
Open    == {c \in Conns : conn[c] \in {"open", "hung"}}
Connect(c) == conn[c] = "new" /\ conn' = [conn EXCEPT ![c] = "open"]

\* The client learns a code: the user it has named, whether it is in (where a second
\* PASS is then refused), and how many wrong passwords in a row it has sent.
Learns(t, op, arg, code) ==
  CASE op = "USER" /\ code = "00" ->
         [t EXCEPT !.named = arg, !.in = FALSE,
                   !.first = IF program = "turns" /\ @ = None THEN arg ELSE @]
    [] code = "10" -> [t EXCEPT !.in = program \in {"threads", "layers", "sockets"}, !.tries = 0]
    [] code = "20" -> [t EXCEPT !.named = None, !.in = FALSE, !.tries = 0]
    [] op = "PASS" /\ code = "31" -> [t EXCEPT !.named = None, !.in = FALSE, !.tries = 0]
    [] op = "PASS" /\ code = "11" /\ t.named # None /\ ~t.in
         /\ program \in DOMAIN Limit /\ t.tries < MaxTries -> [t EXCEPT !.tries = @ + 1]
    [] OTHER -> t

\* The request op arg of c is answered with code.  The history keeps the answers the
\* properties speak of: what lets a client on, and what refuses the right password.
Says(c, op, arg, code) ==
  said' = IF code \in {"00", "10"} \/ (op = "PASS" /\ arg = told[c].named)
          THEN [conn |-> c, op |-> op, arg |-> arg, code |-> code] ELSE Silence
Reply(c, op, arg, code) ==
  Says(c, op, arg, code) /\ told' = [told EXCEPT ![c] = Learns(@, op, arg, code)]

\* the connection is closed, by either side
Leaves(c) ==
  conn' = [conn EXCEPT ![c] = "closed"] /\ told' = [told EXCEPT ![c] = Newcomer]

\* a request that is not answered: the client can only leave
Hangs(c) ==
  conn' = [conn EXCEPT ![c] = "hung"] /\ said' = Silence /\ told' = [told EXCEPT ![c] = Newcomer]

\* the whole process ends: every connection is closed, the memory is lost
Exit ==
  /\ up' = FALSE /\ users' = AllLost /\ sess' = <<>>
  /\ conn' = [c \in Conns |-> IF c \in Open THEN "closed" ELSE conn[c]]
  /\ local' = [c \in Conns |-> None]
  /\ said' = Silence /\ told' = [c \in Conns |-> Newcomer]

\* somebody starts it again, and it reads account.txt
Restart ==
  /\ ~up /\ up' = TRUE
  /\ users' = file
  /\ UNCHANGED <<program, file, sess, conn, local, said, told, ghost>>

----------------------------------------------------------------------------
(* Properties.  Each names the servers it is claimed for. *)

\* Type invariant.
Codes == {"none", "00", "01", "10", "11", "12", "20", "21", "31", "41", "sequence"}
TypeOK ==
  /\ program \in Programs /\ up \in BOOLEAN
  /\ file \in [Users -> Statuses] \cup {Truncated} /\ users \in [Users -> Statuses]
  /\ conn \in [Conns -> {"new", "open", "hung", "closed"}]
  /\ said.code \in Codes
  /\ told \in [Conns -> [named : Users \cup {None}, first : Users \cup {None},
                         in : BOOLEAN, tries : 0..MaxTries]]
  /\ ghost.struck \subseteq Users /\ ghost.forgotten \subseteq Users

\* the client that is being answered, as it was before
Asking == told[said'.conn]

\* A client that is told "10" has sent the password of the user it was last told
\* "00" for (at week5/ex1_server.c: first told).  A client told "10" without having
\* named anyone there has inherited a session: by the number of its descriptor
\* (week6/ex1_server.c), by a count that was never set (the two servers with
\* message structs) or because all clients share one (ex22).
OwnPassword ==
  [][said'.code = "10" /\ program # "shared" =>
       IF program = "turns" THEN said'.arg = Asking.first
       ELSE \/ said'.arg = Asking.named
            \/ Asking.named = None /\ program \in {"threads", "slots", "single"}]_said

\* The other way: the right password lets its user in, at the servers that keep one
\* user to a connection, unless another connection's session has been written over it.
PasswordSuffices ==
  [][said'.op = "PASS" /\ program \in {"slots", "layers", "sockets"}
       /\ said'.conn \notin ghost.robbed
       /\ said'.arg \in Users \cap {Asking.named} /\ ~Asking.in => said'.code = "10"]_said

\* A user blocked for wrong passwords is not let in again, by any connection and
\* after any restart, unless the server has forgotten the block.
BlockHolds ==
  [][said'.op = "USER" /\ said'.code = "00"
       => said'.arg \notin ghost.struck \ ghost.forgotten]_said

\* No client with a session of its own may send more wrong passwords in a row than its
\* server's limit.
LockoutDue ==
  program \in DOMAIN Limit => \A c \in Conns \ ghost.robbed : told[c].tries <= Limit[program]

\* No account is lost from account.txt, unless a thread has read it while another
\* was writing it or the process has ended there.
AccountsKept == ghost.cut \/ \A u \in Users : file[u] # "lost"
=============================================================================
