---------------------------- MODULE LoginServer ----------------------------
(***************************************************************************)
(* The login server: clients and the char server connect to one port, and  *)
(* a connection becomes the char server's when it authenticates            *)
(* (intif_auth).  A client's question goes to the char server with the     *)
(* number of the client's descriptor, and the answer comes back with       *)
(* nothing else, at once or through a map server; by then the client may   *)
(* have gone and its descriptor may be another's.  An address with too     *)
(* many connections has all of them closed, whatever they are.             *)
(*                                                                         *)
(* Names and passwords are left out, so 0x04 may or may not find a name;   *)
(* so are the replies that change nothing (version, ping, meta files).     *)
(* A client does not know the char server's name and password; the char    *)
(* server has them or not, as configured.  A 0xFF that is too short makes  *)
(* the session's data and no more (FirstParse).  connect_history, where a  *)
(* lockout is written, is read by connect_check alone, which nothing       *)
(* calls: it is left out.                                                  *)
(***************************************************************************)
EXTENDS Naturals, Sequences, FiniteSetsExt, SequencesExt

CONSTANTS
  MaxFd,        \* bound: descriptors 1..MaxFd
  Addrs,        \* addresses
  CharAddr,     \* where the char server connects from
  MaxSame,      \* 5: more connections than this from an address are too many
  MaxInvalid,   \* 10: failures that lock an address out
  MaxOut,       \* bound: questions and answers under way
  MaxOdd        \* bound: kinds of unusual things in one behaviour

ASSUME LoginAssumption ==
  /\ MaxFd \in Nat \ {0} /\ CharAddr \in Addrs /\ MaxSame \in Nat
  /\ MaxInvalid \in Nat \ {0} /\ MaxOut \in Nat /\ MaxOdd \in Nat

Fds == 1..MaxFd
Kinds == {"name", "create", "login", "passwd"}
Session == [addr : Addrs, peer : {"client", "char"},
            data : BOOLEAN, eof : BOOLEAN, intif : BOOLEAN]
NoSession == [addr |-> "none"]
Question == [fd : Fds, kind : Kinds]
Answer == [fd : Fds, kind : Kinds, wrong : BOOLEAN]

VARIABLES
  session,      \* session[] of the login server
  char_fd,      \* the char server's descriptor, or 0
  link,         \* the descriptor the char server believes in (login_fd), or 0
  questions,    \* 0x1001 to 0x1004 on their way, with descriptor and kind
  atMap,        \* logins a map server has been told of (0x3802)
  answers,      \* 0x2001 to 0x2004 on their way back
  bf_lockout,   \* wrong passwords of an address
  clearing,     \* timers that will clear that count
  Throttles,    \* addresses refused
  throttleTimer,\* Remove_Throttle is still called every ten minutes
  up,           \* the process has dereferenced no null session
  odd           \* history: which unusual things happened

loginVars == <<session, char_fd, link, questions, atMap, answers, bf_lockout,
               clearing, Throttles, throttleTimer, up, odd>>

wire == <<questions, atMap, answers>>
guards == <<bf_lockout, clearing, Throttles, throttleTimer>>

LoginInit ==
  /\ session = [f \in Fds |-> NoSession]
  /\ char_fd = 0 /\ link = 0
  /\ questions = <<>> /\ atMap = <<>> /\ answers = <<>>
  /\ bf_lockout = [a \in Addrs |-> 0] /\ clearing = [a \in Addrs |-> 0]
  /\ Throttles = {} /\ throttleTimer = TRUE
  /\ up = TRUE /\ odd = {}

Free(f) == session[f] = NoSession
From(a) == {f \in Fds : ~Free(f) /\ session[f].addr = a}
IsClient(f) == ~Free(f) /\ session[f].peer = "client"

\* Close these sessions; the char server sees the end of its own.
session_eof(S) ==
  /\ session' = [f \in Fds |-> IF f \in S THEN NoSession ELSE session[f]]
  /\ link' = IF link \in S THEN 0 ELSE link
  /\ questions' = IF link \in S THEN <<>> ELSE questions
  /\ answers' = IF link \in S THEN <<>> ELSE answers
  /\ UNCHANGED atMap

Awaited(f) ==
  \E q \in ToSet(questions) \cup ToSet(atMap) \cup ToSet(answers) : q.fd = f

----------------------------------------------------------------------------
(* connect_client and clif_accept.                                         *)

\* accept() gives the lowest descriptor that is free.  An address that has
\* too many connections already loses them all; otherwise a session begins.
Connect(a, peer) ==
  /\ a \notin Throttles
  /\ \E f \in Fds : Free(f)
  /\ LET f == Min({g \in Fds : Free(g)})
         tooMany == Cardinality(From(a)) > MaxSame
         reused == IF Awaited(f) THEN {"reused"} ELSE {}
         swept == IF \E g \in From(a) : session[g].peer = "char"
                  THEN {"swept"} ELSE {}
         second == IF peer = "char"
                      /\ \E g \in Fds : ~Free(g) /\ session[g].peer = "char"
                   THEN {"second"} ELSE {}
     IN  \/ /\ tooMany
            /\ session_eof(From(a))
            /\ Throttles' = Throttles \cup {a}
            /\ odd' = odd \cup swept
         \/ /\ ~tooMany
            /\ session' = [session EXCEPT ![f] =
                 [addr |-> a, peer |-> peer, data |-> FALSE,
                  eof |-> FALSE, intif |-> FALSE]]
            /\ link' = IF peer = "char" THEN f ELSE link
            /\ odd' = odd \cup reused \cup second
            /\ UNCHANGED <<wire, Throttles>>
  /\ Cardinality(odd') <= MaxOdd
  /\ UNCHANGED <<char_fd, bf_lockout, clearing, throttleTimer, up>>

\* check_connect_login, every ten seconds at the char server.
check_connect_login == link = 0 /\ Connect(CharAddr, "char")

\* The connection breaks and the login server has not noticed.
LinkBreaks ==
  /\ link # 0
  /\ link' = 0 /\ questions' = <<>> /\ answers' = <<>>
  /\ UNCHANGED <<session, char_fd, atMap, guards, up, odd>>

----------------------------------------------------------------------------
(* clif_parse: the packets of one client.                                  *)

\* The session's data are made the first time it is parsed, be it by a packet
\* with a name that is refused.
Parsed(f) == [session EXCEPT ![f].data = TRUE]

FirstParse(f) ==
  /\ IsClient(f) /\ ~session[f].data /\ ~session[f].eof
  /\ session' = Parsed(f)
  /\ UNCHANGED <<char_fd, link, wire, guards, up, odd>>

\* Write a question to char_fd, without a look at what it is by now.
Send(f, kind) ==
  /\ questions' =
       IF char_fd # 0 /\ link = char_fd
       THEN Append(questions, [fd |-> f, kind |-> kind]) ELSE questions
  /\ up' = (char_fd = 0 \/ ~Free(char_fd))
  /\ UNCHANGED <<char_fd, link, atMap, answers, guards, odd>>

CanAsk(f) ==
  /\ IsClient(f) /\ ~session[f].eof
  /\ Len(questions) + Len(atMap) + Len(answers) < MaxOut

\* 0x02, is the name free; 0x03, log in; 0x26, change the password.
AskFor(f, kind) ==
  /\ CanAsk(f)
  /\ session' = Parsed(f)
  /\ Send(f, kind)

\* 0x04: a client that gave no name is closed, and yet the character is asked
\* for.
AskCreate(f) ==
  /\ CanAsk(f)
  /\ \E named \in BOOLEAN :
       session' = [Parsed(f) EXCEPT ![f].eof = ~named]
  /\ Send(f, "create")

\* 0xFF: intif_auth, whoever sends it.  While there is a char server the sender
\* is closed, and RFIFOSKIP then reads its session.
intif_auth(f) ==
  /\ ~Free(f) /\ ~session[f].intif /\ ~session[f].eof
  /\ \/ /\ char_fd > 0
        /\ session_eof({f})
        /\ up' = FALSE
        /\ odd' = odd \cup IF IsClient(f) THEN {"stray"} ELSE {}
        /\ UNCHANGED char_fd
     \/ /\ char_fd = 0 /\ session[f].peer = "char"     \* the password is right
        /\ char_fd' = f
        /\ session' = [session EXCEPT ![f].intif = TRUE, ![f].data = TRUE]
        /\ UNCHANGED <<link, wire, up, odd>>
     \/ /\ char_fd = 0                                 \* or it is wrong
        /\ session' = [Parsed(f) EXCEPT ![f].eof = TRUE]
        /\ UNCHANGED <<char_fd, link, wire, up, odd>>
  /\ Cardinality(odd') <= MaxOdd
  /\ UNCHANGED guards

\* A client leaves, or was marked to be closed.
ClientGone(f) ==
  /\ IsClient(f)
  /\ session_eof({f})
  /\ UNCHANGED <<char_fd, guards, up, odd>>

\* The login server sees the end of a connection of the char server, or
\* closes it as it would a client's (intif_parse).
CharGone_KeepsFd(f) ==
  /\ ~Free(f) /\ session[f].peer = "char" /\ (link # f \/ session[f].eof)
  /\ session_eof({f})
  /\ UNCHANGED <<char_fd, guards, up, odd>>
CharGone(f) ==
  /\ ~Free(f) /\ session[f].peer = "char" /\ (link # f \/ session[f].eof)
  /\ session_eof({f})
  /\ char_fd' = IF session[f].intif THEN 0 ELSE char_fd
  /\ UNCHANGED <<guards, up, odd>>

----------------------------------------------------------------------------
(* The char server's side (logif_parse), and a map server's.               *)

\* A login that is good goes to the map server, when the character is free;
\* the rest is answered, with code 3 for a wrong password.
logif_parse ==
  /\ questions # <<>>
  /\ questions' = Tail(questions)
  /\ LET q == Head(questions)
     IN  \/ /\ \E wrong \in IF q.kind \in {"login", "passwd"}
                            THEN BOOLEAN ELSE {FALSE} :
                 answers' = Append(answers, [fd |-> q.fd, kind |-> q.kind,
                                             wrong |-> wrong])
            /\ UNCHANGED atMap
         \/ /\ q.kind = "login"
            /\ atMap' = Append(atMap, q)
            /\ UNCHANGED answers
  /\ UNCHANGED <<session, char_fd, link, guards, up, odd>>

\* mapif_parse_login: to login_fd as it is now; without one it is lost.
mapif_parse_login ==
  \E i \in DOMAIN atMap :
    /\ atMap' = RemoveAt(atMap, i)
    /\ answers' =
         IF link = 0 \/ link # char_fd THEN answers
         ELSE Append(answers, [fd |-> atMap[i].fd, kind |-> "login",
                               wrong |-> FALSE])
    /\ UNCHANGED <<session, char_fd, link, questions, guards, up, odd>>

----------------------------------------------------------------------------
(* intif_parse: the answers.                                               *)

\* session[] has an entry for the descriptor in an answer.
HasSession(f) == ~Free(f)

\* The first failure of an address starts the timer that forgets them all.
setInvalidCount(a) ==
  /\ bf_lockout[a] <= MaxInvalid      \* bound: the count is an int
  /\ bf_lockout' = [bf_lockout EXCEPT ![a] = @ + 1]
  /\ clearing' = [clearing EXCEPT ![a] = IF bf_lockout[a] = 0 THEN @ + 1
                                                               ELSE @]

\* Whoever has the descriptor by now is told.  For a login with the wrong
\* password the name and password are logged, from the session's data.
intif_parse ==
  /\ answers # <<>>
  /\ link # 0 /\ session[link].intif /\ ~session[link].eof
  /\ answers' = Tail(answers)
  /\ LET ans == Head(answers)
         f == ans.fd
     IN  \/ /\ ~HasSession(f) \/ ~ans.wrong
            /\ up' = (HasSession(f) => ~Free(f))
            /\ UNCHANGED <<session, bf_lockout, clearing>>
         \/ /\ HasSession(f) /\ ~Free(f) /\ ans.wrong
            /\ up' = (ans.kind = "login" => session[f].data)
            /\ setInvalidCount(session[f].addr)
            /\ session' = [session EXCEPT ![f].eof =
                 @ \/ bf_lockout'[session[f].addr] >= MaxInvalid]
  /\ UNCHANGED <<char_fd, link, questions, atMap, Throttles, throttleTimer,
                 odd>>

----------------------------------------------------------------------------
(* Timers of the login server.                                             *)

login_clear_lockout(a) ==
  /\ clearing[a] > 0
  /\ bf_lockout' = [bf_lockout EXCEPT ![a] = 0]
  /\ clearing' = [clearing EXCEPT ![a] = @ - 1]
  /\ UNCHANGED <<session, char_fd, link, wire, Throttles, throttleTimer,
                 up, odd>>

\* It is void, and called for an int that says whether to end the timer.
Remove_Throttle ==
  /\ throttleTimer
  /\ Throttles' = {}
  /\ throttleTimer' \in BOOLEAN
  /\ UNCHANGED <<session, char_fd, link, wire, bf_lockout, clearing,
                 up, odd>>

LoginNext ==
  /\ up
  /\ \/ \E a \in Addrs : Connect(a, "client") \/ login_clear_lockout(a)
     \/ check_connect_login \/ LinkBreaks
     \/ \E f \in Fds : \/ FirstParse(f) \/ AskCreate(f)
                       \/ \E kind \in Kinds \ {"create"} : AskFor(f, kind)
                       \/ intif_auth(f) \/ ClientGone(f) \/ CharGone(f)
     \/ logif_parse \/ mapif_parse_login \/ intif_parse
     \/ Remove_Throttle

LoginSpec == LoginInit /\ [][LoginNext]_loginVars

----------------------------------------------------------------------------
LoginTypeOK ==
  /\ session \in [Fds -> Session \cup {NoSession}]
  /\ char_fd \in Fds \cup {0} /\ link \in Fds \cup {0}
  /\ questions \in Seq(Question) /\ atMap \in Seq(Question)
  /\ answers \in Seq(Answer)
  /\ bf_lockout \in [Addrs -> 0..MaxInvalid + 1] /\ clearing \in [Addrs -> Nat]
  /\ Throttles \subseteq Addrs /\ throttleTimer \in BOOLEAN
  /\ up \in BOOLEAN /\ odd \subseteq {"reused", "swept", "second", "stray"}

\* Questions go to the char server: char_fd is set exactly while a session
\* parsed by intif_parse exists, and is that session, whatever descriptors are
\* closed and handed out again.  The exception: closing all connections of an
\* address the char server shares leaves char_fd as it was.
CharFdIsCharServer ==
  "swept" \in odd \/ ~up \/
  \A f \in Fds : char_fd = f <=> ~Free(f) /\ session[f].intif

\* No question, answer, timer or closing order makes the login server read a
\* session that is not there, but for four orders of events: the char server
\* connects again before its old connection is seen to end; its own connection
\* is closed with the others of its address; a descriptor is taken by a new
\* client while an answer to the old one is under way; or a client sends the
\* char server's 0xFF while there is a char server.
NoSessionMissed ==
  ~up => odd # {}

\* Descriptors that are closed and reused lead nobody astray.
RoutesByDescriptor == CharFdIsCharServer /\ NoSessionMissed
=============================================================================
