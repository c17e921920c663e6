-------------------------- MODULE ServerPartsProofs --------------------------
(***************************************************************************)
(* The login server asks the right connection and reads no session that is *)
(* not there, but after the events NoSessionMissed names, for any number   *)
(* of descriptors, addresses and messages under way.  The inductive        *)
(* invariant adds why: two sessions of the char server at once mean that   *)
(* it connected a second time (Apart), only a char server is parsed by     *)
(* intif_parse (IntifIsChar), and a descriptor that an answer is under way *)
(* to has its session's data, unless it was handed out again meanwhile     *)
(* (AskedHaveData).                                                        *)
(*                                                                         *)
(* What the scans of map_fifo[] find is right, and what they do not find   *)
(* is written to a slot of the table, for a table of any size and any      *)
(* number of map servers that come and go.  A server whose slot was hidden *)
(* by mapif_parse writes to the slot at map_fifo_max.  That this is a slot *)
(* needs an argument: map_fifo_max only grows past slots that are all held *)
(* by connections of their own, so with a hidden server besides it cannot  *)
(* reach the end (HiddenLeavesRoom).                                       *)
(*                                                                         *)
(* Mail keeps its place and its flag, for any number of players, mails and *)
(* requests under way.  Positions never pass the number of posts, so that  *)
(* a highest one exists for the next mail to be put above (PositionsAre);  *)
(* rows are never rewritten to another receiver, so a list that was sent   *)
(* stays a list of its player's mail (RowsAreShown, LinesAreAsked); and an *)
(* answer that clears a flag which new mail has overtaken is followed by   *)
(* the news of that mail (NewsComesBehind).                                *)
(*                                                                         *)
(* Entries are handed out once, for any number of containers, sizes,       *)
(* managers and blocks.  The entries of a manager that were cut from its   *)
(* blocks are its list and what is held of them (AllAreThere), a list has  *)
(* an entry once and none that is held (ListIsFree), and a container holds *)
(* what is of the manager it uses (HeldIsOwn): so when the last user of a  *)
(* manager goes, all that was cut is in the list, no more and no less.     *)
(*                                                                         *)
(* Packets are parsed whole and in the order they were written, for        *)
(* packets of any length and buffers of any size.  What waits in the two   *)
(* buffers and the kernel is what is expected, or its beginning once the   *)
(* writer has closed (Ordered); its first unit names the first packet that *)
(* was not dropped, and behind the units of that one begins what is        *)
(* expected after it (NextPacket).                                         *)
(*                                                                         *)
(* A save is read back as it was written, for arrays of any size.  A save  *)
(* under way knows which of the positions ahead of it have a row, as long  *)
(* as it is the only one (SaveGoesOn), so that no position gets a second   *)
(* row; then nothing is cut off by a LIMIT, and what is read is what the   *)
(* rows say.  The sums in the statements are counted unit by unit          *)
(* (UnitsOf), which makes them cardinalities (SumIsCount).                 *)
(***************************************************************************)
EXTENDS LoginServer, MapFifo, Boards, Ers, SocketFifo, TableSave, Integers, TLAPS,
        WellFoundedInduction, SequenceTheorems, FunctionTheorems, FiniteSetTheorems

IsChar(f) == ~Free(f) /\ session[f].peer = "char"
IsIntif(f) == ~Free(f) /\ session[f].intif

Apart ==
  \A f, g \in Fds : IsChar(f) /\ IsChar(g) => f = g \/ "second" \in odd

IntifIsChar == \A f \in Fds : IsIntif(f) => IsChar(f)

AskedHaveData ==
  \A f \in Fds :
    Awaited(f) /\ ~Free(f) => session[f].data \/ "reused" \in odd

LoginInv ==
  LoginTypeOK /\ Apart /\ IntifIsChar /\ AskedHaveData /\ RoutesByDescriptor

----------------------------------------------------------------------------
(* Descriptors and sessions.                                               *)

\* Of numbers there is a least one.
LEMMA LeastIsThere ==
  ASSUME NEW S, S \subseteq Nat, S # {}
  PROVE  \E x \in S : \A y \in S : x <= y
<1>1. PICK x \in S : \A y \in S : ~(<<y, x>> \in OpToRel(<, Nat))
  BY NatLessThanWellFounded, WFMin
<1>2. ASSUME NEW y \in S PROVE x <= y
  <2>1. x \in Nat /\ y \in Nat
    OBVIOUS
  <2>2. ~(y < x)
    BY <1>1, <2>1 DEF OpToRel
  <2> QED
    BY <2>1, <2>2
<1> QED
  BY <1>2

\* The lowest descriptor that is free is one of them.
LEMMA LowestIsThere ==
  ASSUME NEW S, S \subseteq Nat, S # {}
  PROVE  Min(S) \in S
<1>1. \E x \in S : \A y \in S : x <= y
  BY LeastIsThere
<1>. QED  BY <1>1 DEF Min

\* A session is not the mark of a free descriptor.
LEMMA SessionIsThere == \A s \in Session : s # NoSession
<1>1. \A s \in Session : DOMAIN s = {"addr", "peer", "data", "eof", "intif"}
  BY DEF Session
<1>2. DOMAIN NoSession = {"addr"}
  BY DEF NoSession
<1>3. "peer" \in {"addr", "peer", "data", "eof", "intif"} /\ "peer" \notin {"addr"}
  OBVIOUS
<1>. QED  BY <1>1, <1>2, <1>3

\* What a descriptor that is not free holds.
LEMMA WhatSessionHolds ==
  ASSUME LoginTypeOK, NEW f \in Fds
  PROVE  /\ ~Free(f) <=> session[f] \in Session
         /\ ~Free(f) => /\ session[f].addr \in Addrs
                        /\ session[f].peer \in {"client", "char"}
                        /\ session[f].data \in BOOLEAN
                        /\ session[f].eof \in BOOLEAN
                        /\ session[f].intif \in BOOLEAN
<1>1. ~Free(f) <=> session[f] \in Session
  BY SessionIsThere DEF LoginTypeOK, Free
<1>. QED  BY <1>1 DEF Session

----------------------------------------------------------------------------
(* Messages.                                                               *)

\* Whom a message adds.
LEMMA AppendAwaits ==
  ASSUME NEW S, NEW q \in Seq(S), NEW m \in S
  PROVE  Append(q, m) \in Seq(S) /\ ToSet(Append(q, m)) = ToSet(q) \cup {m}
<1>1. /\ DOMAIN q = 1..Len(q) /\ Len(q) \in Nat
      /\ DOMAIN Append(q, m) = 1..(Len(q) + 1)
      /\ \A i \in 1..Len(q) : Append(q, m)[i] = q[i]
      /\ Append(q, m)[Len(q) + 1] = m
      /\ Append(q, m) \in Seq(S)
  OBVIOUS
<1>2. \A i \in 1..(Len(q) + 1) : i \in 1..Len(q) \/ i = Len(q) + 1
  BY <1>1
<1>3. \A i \in 1..Len(q) : i \in 1..(Len(q) + 1)
  BY <1>1
<1>4. Len(q) + 1 \in 1..(Len(q) + 1)
  BY <1>1
<1>. QED  BY <1>1, <1>2, <1>3, <1>4 DEF ToSet

\* The first message leaves, and was there.
LEMMA TailAwaits ==
  ASSUME NEW S, NEW q \in Seq(S), q # <<>>
  PROVE  /\ Tail(q) \in Seq(S) /\ ToSet(Tail(q)) \subseteq ToSet(q)
         /\ Head(q) \in S /\ Head(q) \in ToSet(q)
<1>1. /\ DOMAIN q = 1..Len(q) /\ Len(q) \in Nat \ {0}
      /\ DOMAIN Tail(q) = 1..(Len(q) - 1)
      /\ \A i \in 1..(Len(q) - 1) : Tail(q)[i] = q[i + 1]
      /\ Tail(q) \in Seq(S) /\ Head(q) = q[1] /\ q[1] \in S
  OBVIOUS
<1>2. \A i \in 1..(Len(q) - 1) : i + 1 \in 1..Len(q)
  BY <1>1
<1>3. 1 \in 1..Len(q)
  BY <1>1
<1>. QED  BY <1>1, <1>2, <1>3 DEF ToSet

\* A message that is taken out of the middle leaves the others.
LEMMA RemoveAwaits ==
  ASSUME NEW S, NEW q \in Seq(S), NEW i \in DOMAIN q
  PROVE  /\ RemoveAt(q, i) \in Seq(S)
         /\ ToSet(RemoveAt(q, i)) \subseteq ToSet(q)
         /\ q[i] \in S /\ q[i] \in ToSet(q)
<1>. DEFINE a == SubSeq(q, 1, i - 1)
            b == SubSeq(q, i + 1, Len(q))
<1>1. /\ DOMAIN q = 1..Len(q) /\ Len(q) \in Nat /\ i \in 1..Len(q)
      /\ \A k \in 1..Len(q) : q[k] \in S
  OBVIOUS
<1>2. a \in Seq(S) /\ \A k \in DOMAIN a : k \in DOMAIN q /\ a[k] = q[k]
  <2>1. 1 \in Int /\ i - 1 \in Int /\ \A k \in 1..(i - 1) : q[k] \in S
    BY <1>1
  <2>2. /\ a \in Seq(S) /\ Len(a) = (IF 1 <= i - 1 THEN i - 1 - 1 + 1 ELSE 0)
        /\ \A k \in 1..(i - 1 - 1 + 1) : a[k] = q[1 + k - 1]
    BY <2>1, SubSeqProperties
  <2>. QED  BY <1>1, <2>2
<1>3. b \in Seq(S) /\ \A k \in DOMAIN b : i + k \in DOMAIN q /\ b[k] = q[i + k]
  <2>1. /\ i + 1 \in Int /\ Len(q) \in Int
        /\ \A k \in (i + 1)..Len(q) : q[k] \in S
    BY <1>1
  <2>2. /\ b \in Seq(S)
        /\ Len(b) = (IF i + 1 <= Len(q) THEN Len(q) - (i + 1) + 1 ELSE 0)
        /\ \A k \in 1..(Len(q) - (i + 1) + 1) : b[k] = q[i + 1 + k - 1]
    BY <2>1, SubSeqProperties
  <2>. QED  BY <1>1, <2>2
<1>. HIDE DEF a, b
<1>4. a \o b \in Seq(S) /\ \A k \in DOMAIN (a \o b) :
        \/ k \in DOMAIN a /\ (a \o b)[k] = a[k]
        \/ k - Len(a) \in DOMAIN b /\ (a \o b)[k] = b[k - Len(a)]
  BY <1>2, <1>3
<1>5. \A k \in DOMAIN (a \o b) : \E j \in DOMAIN q : (a \o b)[k] = q[j]
  BY <1>2, <1>3, <1>4
<1>6. RemoveAt(q, i) = a \o b
  BY DEF RemoveAt, a, b
<1>7. RemoveAt(q, i) \in Seq(S) /\ ToSet(RemoveAt(q, i)) \subseteq ToSet(q)
  BY <1>4, <1>5, <1>6 DEF ToSet
<1>8. q[i] \in S /\ q[i] \in ToSet(q)
  BY <1>1 DEF ToSet
<1>. QED  BY <1>7, <1>8

\* Nobody is awaited in an empty link.
LEMMA NobodyAwaited == ToSet(<<>>) = {}
  BY DEF ToSet

----------------------------------------------------------------------------
(* Steps that neither make a session nor authenticate one.                 *)

\* A session after the step was there before, with the same peer, and kept
\* the data it had.
Older(f) ==
  ~Free(f)' => /\ ~Free(f) /\ session'[f].peer = session[f].peer
               /\ session'[f].intif = session[f].intif
               /\ session[f].data => session'[f].data

\* Such steps keep the invariant, when they close no authenticated session and
\* whom they add to the awaited has data.
LEMMA QuietKeeps ==
  ASSUME LoginInv, LoginTypeOK', odd \subseteq odd', char_fd' = char_fd,
         \A f \in Fds : Older(f),
         \A f \in Fds : IsIntif(f) => ~Free(f)',
         \A f \in Fds : Awaited(f)' /\ ~Free(f)' => Awaited(f) \/ session'[f].data,
         up, ~up' => odd' # {}
  PROVE  LoginInv'
<1>1. \A f \in Fds : IsIntif(f)' <=> IsIntif(f)
  BY DEF IsIntif, Older
<1>2. \A f \in Fds : IsChar(f)' => IsChar(f)
  BY DEF IsChar, Older
<1>3. Apart'
  BY <1>2 DEF LoginInv, Apart
<1>4. IntifIsChar'
  BY <1>1 DEF LoginInv, IntifIsChar, IsIntif, IsChar, Older
<1>5. AskedHaveData'
  BY DEF LoginInv, AskedHaveData, Older
<1>6. CharFdIsCharServer'
  BY <1>1 DEF LoginInv, RoutesByDescriptor, CharFdIsCharServer, IsIntif
<1>7. NoSessionMissed'
  BY DEF NoSessionMissed
<1>. QED  BY <1>3, <1>4, <1>5, <1>6, <1>7 DEF LoginInv, RoutesByDescriptor

\* Closing leaves the other sessions as they are, and types.
LEMMA Closing ==
  ASSUME LoginTypeOK, NEW S, session_eof(S)
  PROVE  /\ \A f \in Fds : Free(f)' <=> Free(f) \/ f \in S
         /\ \A f \in Fds : f \notin S => session'[f] = session[f]
         /\ \A f \in Fds : Older(f)
         /\ \A f \in Fds : Awaited(f)' => Awaited(f)
         /\ session' \in [Fds -> Session \cup {NoSession}]
         /\ link' \in Fds \cup {0}
         /\ questions' \in Seq(Question) /\ atMap' \in Seq(Question)
         /\ answers' \in Seq(Answer)
<1>1. session' = [f \in Fds |-> IF f \in S THEN NoSession ELSE session[f]]
  BY DEF session_eof
<1>2. \A f \in Fds : Free(f)' <=> Free(f) \/ f \in S
  BY <1>1 DEF Free
<1>3. \A f \in Fds : f \notin S => session'[f] = session[f]
  BY <1>1
<1>4. \A f \in Fds : Older(f)
  BY <1>2, <1>3 DEF Older
<1>5. /\ ToSet(questions') \subseteq ToSet(questions) /\ atMap' = atMap
      /\ ToSet(answers') \subseteq ToSet(answers)
      /\ questions' \in Seq(Question) /\ answers' \in Seq(Answer)
  BY NobodyAwaited DEF session_eof, LoginTypeOK
<1>6. \A f \in Fds : Awaited(f)' => Awaited(f)
  BY <1>5 DEF Awaited
<1>7. /\ session' \in [Fds -> Session \cup {NoSession}] /\ link' \in Fds \cup {0}
      /\ atMap' \in Seq(Question)
  BY <1>1, <1>5 DEF LoginTypeOK, session_eof
<1>. QED  BY <1>2, <1>3, <1>4, <1>5, <1>6, <1>7

\* A parsed session has data, and is otherwise as it was.
LEMMA Parsing ==
  ASSUME LoginTypeOK, NEW f \in Fds, ~Free(f), NEW e \in BOOLEAN,
         session' = [Parsed(f) EXCEPT ![f].eof = e] \/ session' = Parsed(f)
  PROVE  /\ session' \in [Fds -> Session \cup {NoSession}]
         /\ \A g \in Fds : Free(g)' <=> Free(g)
         /\ \A g \in Fds : Older(g)
         /\ session'[f].data
<1>1. session \in [Fds -> Session \cup {NoSession}] /\ session[f] \in Session
  BY WhatSessionHolds DEF LoginTypeOK
<1>2. /\ session' \in [Fds -> Session \cup {NoSession}]
      /\ session'[f] \in Session /\ session'[f].data
      /\ session'[f].peer = session[f].peer /\ session'[f].intif = session[f].intif
      /\ \A g \in Fds \ {f} : session'[g] = session[g]
  <2>1. [session[f] EXCEPT !.data = TRUE] \in Session
    BY <1>1 DEF Session
  <2>2. CASE session' = Parsed(f)
    BY <1>1, <2>1, <2>2 DEF Parsed, Session
  <2>3. CASE session' = [Parsed(f) EXCEPT ![f].eof = e]
    BY <1>1, <2>1, <2>3 DEF Parsed, Session
  <2>. QED  BY <2>2, <2>3
<1>3. \A g \in Fds : Free(g)' <=> Free(g)
  BY <1>2, SessionIsThere DEF Free
<1>4. \A g \in Fds : Older(g)
  BY <1>2, <1>3 DEF Older
<1>. QED  BY <1>2, <1>3, <1>4

\* A question is asked by a session with data, of the char server if there is
\* one; else it connected again, or its session was closed with the others of
\* its address.
LEMMA AskKeeps ==
  ASSUME LoginInv, up, NEW f \in Fds, CanAsk(f), NEW kind \in Kinds, Send(f, kind),
         NEW e \in BOOLEAN,
         session' = [Parsed(f) EXCEPT ![f].eof = e] \/ session' = Parsed(f)
  PROVE  LoginInv'
<1>1. LoginTypeOK /\ ~Free(f)
  BY DEF LoginInv, CanAsk, IsClient
<1>2. /\ session' \in [Fds -> Session \cup {NoSession}]
      /\ \A g \in Fds : Free(g)' <=> Free(g)
      /\ \A g \in Fds : Older(g)
      /\ session'[f].data
  BY <1>1, Parsing
<1>3. [fd |-> f, kind |-> kind] \in Question
  BY DEF Question
<1>4. /\ questions' \in Seq(Question)
      /\ ToSet(questions') \subseteq ToSet(questions) \cup {[fd |-> f, kind |-> kind]}
  BY <1>1, <1>3, AppendAwaits DEF Send, LoginTypeOK
<1>5. \A g \in Fds : Awaited(g)' => Awaited(g) \/ g = f
  BY <1>4 DEF Awaited, Send
<1>6. up' \in BOOLEAN
  BY DEF Send
<1>7. LoginTypeOK'
  BY <1>1, <1>2, <1>4, <1>6 DEF LoginTypeOK, Send, guards
<1>8. ~up' => odd # {}
  <2>1. ~up' => char_fd # 0 /\ Free(char_fd)
    BY DEF Send
  <2>2. ~up' => "swept" \in odd
    BY <1>1, <2>1 DEF LoginInv, RoutesByDescriptor, CharFdIsCharServer, LoginTypeOK
  <2>. QED  BY <2>2
<1>9. odd' = odd /\ char_fd' = char_fd
  BY DEF Send
<1>10. \A g \in Fds : Awaited(g)' /\ ~Free(g)' => Awaited(g) \/ session'[g].data
  BY <1>2, <1>5
<1>11. \A g \in Fds : IsIntif(g) => ~Free(g)'
  BY <1>2 DEF IsIntif
<1>. QED  BY <1>2, <1>7, <1>8, <1>9, <1>10, <1>11, QuietKeeps

\* A connection that ends, a client's or one of the char server that was never
\* authenticated.
LEMMA GoneKeeps ==
  ASSUME LoginInv, up, NEW f \in Fds, ~Free(f), ~session[f].intif, session_eof({f}),
         UNCHANGED <<char_fd, guards, up, odd>>
  PROVE  LoginInv'
<1>1. /\ \A g \in Fds : Free(g)' <=> Free(g) \/ g \in {f}
      /\ \A g \in Fds : Older(g)
      /\ \A g \in Fds : Awaited(g)' => Awaited(g)
      /\ session' \in [Fds -> Session \cup {NoSession}]
      /\ link' \in Fds \cup {0}
      /\ questions' \in Seq(Question) /\ atMap' \in Seq(Question)
      /\ answers' \in Seq(Answer)
  BY Closing DEF LoginInv
<1>2. LoginTypeOK'
  BY <1>1 DEF LoginInv, LoginTypeOK, guards
<1>3. \A g \in Fds : IsIntif(g) => ~Free(g)'
  BY <1>1 DEF IsIntif
<1>. QED  BY <1>1, <1>2, <1>3, QuietKeeps

\* Nothing happens to the sessions, and nobody new is awaited.
LEMMA ApartKeeps ==
  ASSUME LoginInv, up, LoginTypeOK', up' = up,
         UNCHANGED <<session, char_fd, odd>>,
         \A f \in Fds : Awaited(f)' => Awaited(f)
  PROVE  LoginInv'
<1>1. /\ \A f \in Fds : Older(f)
      /\ \A f \in Fds : IsIntif(f) => ~Free(f)'
  BY DEF Older, Free, IsIntif
<1>. QED  BY <1>1, QuietKeeps

\* A failure is counted, and the client told, or closed.
LEMMA AnswerKeeps ==
  ASSUME LoginInv, up, intif_parse
  PROVE  LoginInv'
<1>. DEFINE ans == Head(answers)
            f == ans.fd
<1>1. /\ answers \in Seq(Answer) /\ answers # <<>> /\ answers' = Tail(answers)
      /\ UNCHANGED <<char_fd, link, questions, atMap, Throttles, throttleTimer, odd>>
  BY DEF LoginInv, LoginTypeOK, intif_parse
<1>2. /\ answers' \in Seq(Answer) /\ ToSet(answers') \subseteq ToSet(answers)
      /\ ans \in Answer /\ ans \in ToSet(answers)
  BY <1>1, TailAwaits
<1>3. f \in Fds /\ Awaited(f)
  BY <1>2 DEF Answer, Awaited
<1>4. \A g \in Fds : Awaited(g)' => Awaited(g)
  BY <1>1, <1>2 DEF Awaited
<1>5. CASE /\ ~HasSession(f) \/ ~ans.wrong
           /\ up' = (HasSession(f) => ~Free(f))
           /\ UNCHANGED <<session, bf_lockout, clearing>>
  <2>1. up' = TRUE
    BY <1>5 DEF HasSession
  <2>2. up' = up
    BY <2>1 DEF LoginInv, LoginTypeOK
  <2>3. LoginTypeOK'
    BY <1>1, <1>2, <1>5, <2>1 DEF LoginInv, LoginTypeOK
  <2>. QED  BY <1>1, <1>4, <1>5, <2>2, <2>3, ApartKeeps
<1>6. CASE /\ HasSession(f) /\ ~Free(f) /\ ans.wrong
           /\ up' = (ans.kind = "login" => session[f].data)
           /\ setInvalidCount(session[f].addr)
           /\ session' = [session EXCEPT ![f].eof =
                 @ \/ bf_lockout'[session[f].addr] >= MaxInvalid]
  <2>1. LoginTypeOK /\ session[f] \in Session /\ session[f].addr \in Addrs
    BY <1>3, <1>6, WhatSessionHolds DEF LoginInv
  <2>2. PICK e \in BOOLEAN : session' = [session EXCEPT ![f].eof = e]
    BY <1>3, <1>6, <2>1 DEF LoginTypeOK, Session
  <2>3. /\ session' \in [Fds -> Session \cup {NoSession}]
        /\ session'[f] \in Session
        /\ session'[f].data = session[f].data /\ session'[f].peer = session[f].peer
        /\ session'[f].intif = session[f].intif
        /\ \A g \in Fds \ {f} : session'[g] = session[g]
    <3>1. [session[f] EXCEPT !.eof = e] \in Session
      BY <2>1 DEF Session
    <3>. QED  BY <1>3, <2>1, <2>2, <3>1 DEF LoginTypeOK, Session
  <2>4. \A g \in Fds : Free(g)' <=> Free(g)
    BY <2>1, <2>3, SessionIsThere DEF Free
  <2>5. \A g \in Fds : Older(g)
    BY <2>3, <2>4 DEF Older
  <2>6. /\ bf_lockout' \in [Addrs -> 0..MaxInvalid + 1]
        /\ clearing' \in [Addrs -> Nat]
    <3>1. PICK a \in Addrs : a = session[f].addr
      BY <2>1
    <3>2. setInvalidCount(a)
      BY <1>6, <3>1
    <3>3. bf_lockout[a] \in Nat /\ bf_lockout[a] + 1 \in 0..MaxInvalid + 1
      BY <2>1, <3>2, LoginAssumption DEF setInvalidCount, LoginTypeOK
    <3>4. bf_lockout' \in [Addrs -> 0..MaxInvalid + 1]
      BY <2>1, <3>2, <3>3 DEF setInvalidCount, LoginTypeOK
    <3>5. clearing[a] \in Nat /\ clearing[a] + 1 \in Nat
      BY <2>1 DEF LoginTypeOK
    <3>6. clearing' \in [Addrs -> Nat]
      BY <2>1, <3>2, <3>5 DEF setInvalidCount, LoginTypeOK
    <3>. QED  BY <3>4, <3>6
  <2>7. up' \in BOOLEAN
    BY <1>6
  <2>8. LoginTypeOK'
    BY <1>1, <1>2, <2>1, <2>3, <2>6, <2>7 DEF LoginTypeOK
  <2>9. ~up' => odd # {}
    <3>1. ~up' => ~session[f].data
      BY <1>6
    <3>2. ~up' => "reused" \in odd
      BY <1>3, <1>6, <3>1 DEF LoginInv, AskedHaveData
    <3>. QED  BY <3>2
  <2>10. \A g \in Fds : IsIntif(g) => ~Free(g)'
    BY <2>4 DEF IsIntif
  <2>. QED  BY <1>1, <1>4, <2>5, <2>8, <2>9, <2>10, QuietKeeps
<1>. QED  BY <1>5, <1>6 DEF intif_parse

----------------------------------------------------------------------------
(* Steps that make a session, authenticate one or end the char server's.   *)

\* A connection that is accepted, or one too many.
LEMMA ConnectKeeps ==
  ASSUME LoginInv, up, NEW a \in Addrs, NEW peer \in {"client", "char"},
         Connect(a, peer)
  PROVE  LoginInv'
<1>1. PICK f \in Fds : f = Min({g \in Fds : Free(g)}) /\ Free(f)
  <2>1. {g \in Fds : Free(g)} \subseteq Nat /\ {g \in Fds : Free(g)} # {}
    BY LoginAssumption DEF Connect, Fds
  <2>. QED  BY <2>1, LowestIsThere
<1>. DEFINE new == [addr |-> a, peer |-> peer, data |-> FALSE,
                    eof |-> FALSE, intif |-> FALSE]
            swept == IF \E g \in From(a) : session[g].peer = "char"
                     THEN {"swept"} ELSE {}
            reused == IF Awaited(f) THEN {"reused"} ELSE {}
            second == IF peer = "char" /\ \E g \in Fds : IsChar(g)
                      THEN {"second"} ELSE {}
<1>2. UNCHANGED <<char_fd, bf_lockout, clearing, throttleTimer, up>>
  BY DEF Connect
<1>3. CASE /\ session_eof(From(a))
           /\ Throttles' = Throttles \cup {a}
           /\ odd' = odd \cup swept
  <2>1. /\ \A g \in Fds : Free(g)' <=> Free(g) \/ g \in From(a)
        /\ \A g \in Fds : Older(g)
        /\ \A g \in Fds : Awaited(g)' => Awaited(g)
        /\ session' \in [Fds -> Session \cup {NoSession}]
        /\ link' \in Fds \cup {0}
        /\ questions' \in Seq(Question) /\ atMap' \in Seq(Question)
        /\ answers' \in Seq(Answer)
    BY <1>3, Closing DEF LoginInv
  <2>2. LoginTypeOK'
    BY <1>2, <1>3, <2>1 DEF LoginInv, LoginTypeOK
  <2>3. \A g \in Fds : IsChar(g)' => IsChar(g)
    BY <2>1 DEF IsChar, Older
  <2>4. Apart'
    BY <1>3, <2>3 DEF LoginInv, Apart
  <2>5. IntifIsChar'
    BY <2>1 DEF LoginInv, IntifIsChar, IsIntif, IsChar, Older
  <2>6. AskedHaveData'
    BY <1>3, <2>1 DEF LoginInv, AskedHaveData, Older
  <2>7. CharFdIsCharServer'
    <3>1. CASE \E g \in From(a) : session[g].peer = "char"
      BY <1>3, <3>1 DEF CharFdIsCharServer
    <3>2. CASE ~\E g \in From(a) : session[g].peer = "char"
      <4>1. \A g \in Fds : IsIntif(g) => ~Free(g)'
        BY <2>1, <3>2 DEF LoginInv, IntifIsChar, IsIntif, IsChar
      <4>2. \A g \in Fds : IsIntif(g)' <=> IsIntif(g)
        BY <2>1, <4>1 DEF IsIntif, Older
      <4>. QED  BY <1>2, <1>3, <4>2
             DEF LoginInv, RoutesByDescriptor, CharFdIsCharServer, IsIntif
    <3>. QED  BY <3>1, <3>2
  <2>8. NoSessionMissed'
    BY <1>2 DEF NoSessionMissed
  <2>. QED  BY <2>2, <2>4, <2>5, <2>6, <2>7, <2>8 DEF LoginInv, RoutesByDescriptor
<1>4. CASE /\ session' = [session EXCEPT ![f] = new]
           /\ link' = IF peer = "char" THEN f ELSE link
           /\ odd' = odd \cup reused \cup second
           /\ UNCHANGED <<wire, Throttles>>
  <2>1. new \in Session
    BY DEF Session
  <2>2. /\ session' \in [Fds -> Session \cup {NoSession}]
        /\ session'[f] = new /\ \A g \in Fds \ {f} : session'[g] = session[g]
    BY <1>1, <1>4, <2>1 DEF LoginInv, LoginTypeOK
  <2>3. LoginTypeOK'
    BY <1>1, <1>2, <1>4, <2>2 DEF LoginInv, LoginTypeOK, wire
  <2>4. /\ ~Free(f)' /\ \A g \in Fds \ {f} : Free(g)' <=> Free(g)
        /\ \A g \in Fds \ {f} : IsChar(g)' <=> IsChar(g)
        /\ IsChar(f)' <=> peer = "char"
        /\ \A g \in Fds : IsIntif(g)' <=> IsIntif(g)
    <3>1. ~Free(f)'
      BY <2>1, <2>2, SessionIsThere DEF Free
    <3>2. /\ \A g \in Fds \ {f} : Free(g)' <=> Free(g)
          /\ \A g \in Fds \ {f} : IsChar(g)' <=> IsChar(g)
          /\ \A g \in Fds \ {f} : IsIntif(g)' <=> IsIntif(g)
      BY <2>2 DEF Free, IsChar, IsIntif
    <3>3. session'[f].peer = peer /\ ~session'[f].intif
      BY <2>2
    <3>4. (IsChar(f)' <=> peer = "char") /\ ~IsIntif(f)'
      BY <3>1, <3>3 DEF IsChar, IsIntif
    <3>5. ~IsIntif(f)
      BY <1>1 DEF IsIntif
    <3>. QED  BY <3>1, <3>2, <3>4, <3>5
  <2>5. \A g \in Fds : Awaited(g)' <=> Awaited(g)
    BY <1>4 DEF Awaited, wire
  <2>6. Apart'
    <3>. SUFFICES ASSUME NEW g \in Fds, NEW h \in Fds, IsChar(g)', IsChar(h)', g # h
                  PROVE  "second" \in odd'
      BY DEF Apart
    <3>1. CASE g # f /\ h # f
      BY <1>4, <2>4, <3>1 DEF LoginInv, Apart
    <3>2. CASE g = f \/ h = f
      <4>1. peer = "char"
        BY <2>4, <3>2
      <4>2. PICK k \in {g, h} : k # f
        BY <3>2
      <4>3. IsChar(k)
        BY <2>4, <4>2
      <4>. QED  BY <1>4, <4>1, <4>2, <4>3
    <3>. QED  BY <3>1, <3>2
  <2>7. IntifIsChar'
    BY <1>1, <2>4 DEF LoginInv, IntifIsChar, IsIntif
  <2>8. AskedHaveData'
    <3>. SUFFICES ASSUME NEW g \in Fds, Awaited(g)', ~Free(g)'
                  PROVE  session'[g].data \/ "reused" \in odd'
      BY DEF AskedHaveData
    <3>1. CASE g = f
      BY <1>4, <2>5, <3>1
    <3>2. CASE g # f
      BY <1>4, <2>2, <2>4, <2>5, <3>2 DEF LoginInv, AskedHaveData
    <3>. QED  BY <3>1, <3>2
  <2>9. CharFdIsCharServer'
    BY <1>2, <1>4, <2>4 DEF LoginInv, RoutesByDescriptor, CharFdIsCharServer, IsIntif
  <2>10. NoSessionMissed'
    BY <1>2 DEF NoSessionMissed
  <2>. QED  BY <2>3, <2>6, <2>7, <2>8, <2>9, <2>10 DEF LoginInv, RoutesByDescriptor
<1>. QED  BY <1>1, <1>3, <1>4 DEF Connect, IsChar

\* The char server authenticates or is refused, or somebody sends 0xFF while
\* there is a char server: the char server again, which connected a second time
\* or was closed with its address, or a client.
LEMMA LoginAuthKeeps ==
  ASSUME LoginInv, up, NEW f \in Fds, intif_auth(f)
  PROVE  LoginInv'
<1>1. /\ LoginTypeOK /\ ~Free(f) /\ ~session[f].intif
      /\ UNCHANGED guards
  BY DEF LoginInv, intif_auth
<1>2. CASE /\ char_fd > 0
           /\ session_eof({f}) /\ up' = FALSE
           /\ odd' = odd \cup IF IsClient(f) THEN {"stray"} ELSE {}
           /\ UNCHANGED char_fd
  <2>1. odd \subseteq odd' /\ odd' \subseteq odd \cup {"stray"}
    BY <1>2
  <2>2. odd' # {}
    <3>1. CASE IsClient(f)
      BY <1>2, <3>1
    <3>2. CASE "swept" \in odd
      BY <2>1, <3>2
    <3>3. CASE ~IsClient(f) /\ "swept" \notin odd
      <4>1. char_fd \in Fds /\ IsIntif(char_fd)
        BY <1>1, <1>2, <3>3
        DEF LoginInv, LoginTypeOK, RoutesByDescriptor, CharFdIsCharServer, IsIntif
      <4>2. IsChar(f)
        BY <1>1, <3>3, WhatSessionHolds DEF IsClient, IsChar
      <4>3. IsChar(char_fd) /\ char_fd # f
        BY <1>1, <4>1 DEF LoginInv, IntifIsChar, IsIntif
      <4>4. "second" \in odd
        BY <4>1, <4>2, <4>3 DEF LoginInv, Apart
      <4>. QED  BY <2>1, <4>4
    <3>. QED  BY <3>1, <3>2, <3>3
  <2>3. /\ \A g \in Fds : Free(g)' <=> Free(g) \/ g \in {f}
        /\ \A g \in Fds : Older(g)
        /\ \A g \in Fds : Awaited(g)' => Awaited(g)
        /\ session' \in [Fds -> Session \cup {NoSession}]
        /\ link' \in Fds \cup {0}
        /\ questions' \in Seq(Question) /\ atMap' \in Seq(Question)
        /\ answers' \in Seq(Answer)
    BY <1>1, <1>2, Closing
  <2>4. LoginTypeOK'
    BY <1>1, <1>2, <2>1, <2>3 DEF LoginTypeOK, guards
  <2>5. \A g \in Fds : IsIntif(g) => ~Free(g)'
    BY <1>1, <2>3 DEF IsIntif
  <2>. QED  BY <1>1, <1>2, <2>1, <2>2, <2>3, <2>4, <2>5, QuietKeeps
<1>3. CASE /\ char_fd = 0 /\ session[f].peer = "char" /\ char_fd' = f
           /\ session' = [session EXCEPT ![f].intif = TRUE, ![f].data = TRUE]
           /\ UNCHANGED <<link, wire, up, odd>>
  <2>1. /\ char_fd' = f /\ UNCHANGED <<link, wire, up, odd>>
        /\ session' = [session EXCEPT ![f].intif = TRUE, ![f].data = TRUE]
    BY <1>3
  <2>2. char_fd = 0 /\ IsChar(f)
    BY <1>1, <1>3 DEF IsChar
  <2>3. session[f] \in Session
    BY <1>1, WhatSessionHolds
  <2>4. /\ session' \in [Fds -> Session \cup {NoSession}]
        /\ session'[f] \in Session
        /\ session'[f].data /\ session'[f].intif
        /\ session'[f].peer = session[f].peer
        /\ \A g \in Fds \ {f} : session'[g] = session[g]
    <3>1. [session[f] EXCEPT !.intif = TRUE, !.data = TRUE] \in Session
      BY <2>3 DEF Session
    <3>. QED  BY <1>1, <2>1, <2>3, <3>1 DEF LoginTypeOK, Session
  <2>5. LoginTypeOK'
    BY <1>1, <2>1, <2>4 DEF LoginTypeOK, wire, guards
  <2>6. /\ \A g \in Fds : Free(g)' <=> Free(g)
        /\ \A g \in Fds \ {f} : IsIntif(g)' <=> IsIntif(g)
        /\ IsIntif(f)' /\ IsChar(f)'
        /\ \A g \in Fds : IsChar(g)' <=> IsChar(g)
    <3>1. \A g \in Fds : Free(g)' <=> Free(g)
      BY <2>3, <2>4, SessionIsThere DEF Free
    <3>2. \A g \in Fds \ {f} : IsIntif(g)' <=> IsIntif(g)
      BY <2>4, <3>1 DEF IsIntif
    <3>3. \A g \in Fds : IsChar(g)' <=> IsChar(g)
      BY <2>4, <3>1 DEF IsChar
    <3>4. IsIntif(f)' /\ IsChar(f)'
      BY <2>2, <2>4, <3>1, <3>3 DEF IsIntif, IsChar
    <3>. QED  BY <3>1, <3>2, <3>3, <3>4
  <2>7. \A g \in Fds : Awaited(g)' <=> Awaited(g)
    BY <2>1 DEF Awaited, wire
  <2>8. Apart'
    BY <2>1, <2>6 DEF LoginInv, Apart
  <2>9. IntifIsChar'
    BY <2>6 DEF LoginInv, IntifIsChar
  <2>10. AskedHaveData'
    BY <2>1, <2>4, <2>6, <2>7 DEF LoginInv, AskedHaveData
  <2>11. CharFdIsCharServer'
    <3>. SUFFICES ASSUME "swept" \notin odd, NEW g \in Fds
                  PROVE  char_fd' = g <=> IsIntif(g)'
      BY <2>1 DEF CharFdIsCharServer, IsIntif
    <3>1. ~IsIntif(g)
      <4>1. g # 0
        BY LoginAssumption DEF Fds
      <4>. QED  BY <2>2, <4>1 DEF LoginInv, RoutesByDescriptor, CharFdIsCharServer, IsIntif
    <3>. QED  BY <2>1, <2>6, <3>1
  <2>12. NoSessionMissed'
    BY <2>1 DEF NoSessionMissed
  <2>. QED  BY <2>5, <2>8, <2>9, <2>10, <2>11, <2>12 DEF LoginInv, RoutesByDescriptor
<1>4. CASE /\ session' = [Parsed(f) EXCEPT ![f].eof = TRUE]
           /\ UNCHANGED <<char_fd, link, wire, up, odd>>
  <2>1. /\ session' \in [Fds -> Session \cup {NoSession}]
        /\ \A g \in Fds : Free(g)' <=> Free(g)
        /\ \A g \in Fds : Older(g)
    BY <1>1, <1>4, Parsing
  <2>2. LoginTypeOK'
    BY <1>1, <1>4, <2>1 DEF LoginTypeOK, wire, guards
  <2>3. \A g \in Fds : Awaited(g)' => Awaited(g)
    BY <1>4 DEF Awaited, wire
  <2>4. \A g \in Fds : IsIntif(g) => ~Free(g)'
    BY <2>1 DEF IsIntif
  <2>. QED  BY <1>4, <2>1, <2>2, <2>3, <2>4, QuietKeeps
<1>. QED  BY <1>2, <1>3, <1>4 DEF intif_auth

\* The end of the char server's connection clears char_fd, if it was that.
LEMMA CharGoneKeeps ==
  ASSUME LoginInv, up, NEW f \in Fds, CharGone(f)
  PROVE  LoginInv'
<1>1. CASE ~session[f].intif
  BY <1>1, GoneKeeps DEF CharGone
<1>2. CASE session[f].intif
  <2>1. /\ IsIntif(f) /\ session_eof({f}) /\ char_fd' = 0
        /\ UNCHANGED <<guards, up, odd>>
    BY <1>2 DEF CharGone, IsIntif
  <2>2. /\ \A g \in Fds : Free(g)' <=> Free(g) \/ g \in {f}
        /\ \A g \in Fds : Older(g)
        /\ \A g \in Fds : Awaited(g)' => Awaited(g)
        /\ session' \in [Fds -> Session \cup {NoSession}]
        /\ link' \in Fds \cup {0}
        /\ questions' \in Seq(Question) /\ atMap' \in Seq(Question)
        /\ answers' \in Seq(Answer)
    BY <2>1, Closing DEF LoginInv
  <2>3. LoginTypeOK'
    BY <2>1, <2>2 DEF LoginInv, LoginTypeOK, guards
  <2>4. Apart'
    <3>1. \A g \in Fds : IsChar(g)' => IsChar(g)
      BY <2>2 DEF IsChar, Older
    <3>. QED  BY <2>1, <3>1 DEF LoginInv, Apart
  <2>5. IntifIsChar'
    BY <2>2 DEF LoginInv, IntifIsChar, IsIntif, IsChar, Older
  <2>6. AskedHaveData'
    BY <2>1, <2>2 DEF LoginInv, AskedHaveData, Older
  <2>7. CharFdIsCharServer'
    <3>. SUFFICES ASSUME "swept" \notin odd, NEW g \in Fds
                  PROVE  ~IsIntif(g)' /\ g # 0
      BY <2>1 DEF CharFdIsCharServer, IsIntif
    <3>1. IsIntif(g) => g = f
      BY <2>1 DEF LoginInv, RoutesByDescriptor, CharFdIsCharServer, IsIntif
    <3>2. ~IsIntif(g)'
      BY <2>2, <3>1 DEF IsIntif, Older
    <3>. QED  BY <3>2, LoginAssumption DEF Fds
  <2>8. NoSessionMissed'
    BY <2>1 DEF NoSessionMissed
  <2>. QED  BY <2>3, <2>4, <2>5, <2>6, <2>7, <2>8 DEF LoginInv, RoutesByDescriptor
<1>. QED  BY <1>1, <1>2

----------------------------------------------------------------------------
(* The char server's side and the timers.                                  *)

\* A question is answered, or goes on to a map server.
LEMMA AnsweredKeeps ==
  ASSUME LoginInv, up, logif_parse
  PROVE  LoginInv'
<1>. DEFINE q == Head(questions)
<1>1. /\ questions \in Seq(Question) /\ questions # <<>>
      /\ atMap \in Seq(Question) /\ answers \in Seq(Answer)
      /\ questions' = Tail(questions)
      /\ UNCHANGED <<session, char_fd, link, guards, up, odd>>
  BY DEF LoginInv, LoginTypeOK, logif_parse
<1>2. /\ questions' \in Seq(Question) /\ ToSet(questions') \subseteq ToSet(questions)
      /\ q \in Question /\ q \in ToSet(questions)
  BY <1>1, TailAwaits
<1>3. CASE /\ \E wrong \in IF q.kind \in {"login", "passwd"}
                           THEN BOOLEAN ELSE {FALSE} :
                answers' = Append(answers, [fd |-> q.fd, kind |-> q.kind,
                                            wrong |-> wrong])
           /\ UNCHANGED atMap
  <2>1. PICK wrong \in BOOLEAN :
          answers' = Append(answers, [fd |-> q.fd, kind |-> q.kind, wrong |-> wrong])
    BY <1>3
  <2>2. [fd |-> q.fd, kind |-> q.kind, wrong |-> wrong] \in Answer
    BY <1>2 DEF Question, Answer
  <2>3. /\ answers' \in Seq(Answer)
        /\ ToSet(answers') = ToSet(answers)
             \cup {[fd |-> q.fd, kind |-> q.kind, wrong |-> wrong]}
    BY <1>1, <2>1, <2>2, AppendAwaits
  <2>4. LoginTypeOK'
    BY <1>1, <1>2, <1>3, <2>3 DEF LoginInv, LoginTypeOK, guards
  <2>5. \A f \in Fds : Awaited(f)' => Awaited(f)
    BY <1>2, <1>3, <2>3 DEF Awaited
  <2>. QED  BY <1>1, <2>4, <2>5, ApartKeeps
<1>4. CASE atMap' = Append(atMap, q) /\ UNCHANGED answers
  <2>1. atMap' \in Seq(Question) /\ ToSet(atMap') = ToSet(atMap) \cup {q}
    BY <1>1, <1>2, <1>4, AppendAwaits
  <2>2. LoginTypeOK'
    BY <1>1, <1>2, <1>4, <2>1 DEF LoginInv, LoginTypeOK, guards
  <2>3. \A f \in Fds : Awaited(f)' => Awaited(f)
    BY <1>2, <1>4, <2>1 DEF Awaited
  <2>. QED  BY <1>1, <2>2, <2>3, ApartKeeps
<1>. QED  BY <1>3, <1>4 DEF logif_parse

\* A map server's answer goes to the login server as it is now, or is lost.
LEMMA MapAnswersKeeps ==
  ASSUME LoginInv, up, mapif_parse_login
  PROVE  LoginInv'
<1>1. PICK i \in DOMAIN atMap :
        /\ atMap' = RemoveAt(atMap, i)
        /\ answers' =
             IF link = 0 \/ link # char_fd THEN answers
             ELSE Append(answers, [fd |-> atMap[i].fd, kind |-> "login",
                                   wrong |-> FALSE])
        /\ UNCHANGED <<session, char_fd, link, questions, guards, up, odd>>
  BY DEF mapif_parse_login
<1>. DEFINE ans == [fd |-> atMap[i].fd, kind |-> "login", wrong |-> FALSE]
<1>2. /\ atMap \in Seq(Question) /\ answers \in Seq(Answer)
  BY DEF LoginInv, LoginTypeOK
<1>3. /\ atMap' \in Seq(Question) /\ ToSet(atMap') \subseteq ToSet(atMap)
      /\ atMap[i] \in Question /\ atMap[i] \in ToSet(atMap)
  BY <1>1, <1>2, RemoveAwaits
<1>4. ans \in Answer
  BY <1>3 DEF Question, Answer, Kinds
<1>5. /\ answers' \in Seq(Answer) /\ ToSet(answers') \subseteq ToSet(answers) \cup {ans}
  BY <1>1, <1>2, <1>4, AppendAwaits
<1>6. LoginTypeOK'
  BY <1>1, <1>3, <1>5 DEF LoginInv, LoginTypeOK, guards
<1>7. \A f \in Fds : Awaited(f)' => Awaited(f)
  <2>1. questions' = questions /\ ans.fd = atMap[i].fd
    BY <1>1
  <2>. HIDE DEF ans
  <2>. QED  BY <1>3, <1>5, <2>1 DEF Awaited
<1>. QED  BY <1>1, <1>6, <1>7, ApartKeeps

\* The connection breaks, a count is forgotten or a refusal taken back.
LEMMA RestKeeps ==
  ASSUME LoginInv, up,
         \/ LinkBreaks \/ Remove_Throttle
         \/ \E a \in Addrs : login_clear_lockout(a)
  PROVE  LoginInv'
<1>1. CASE LinkBreaks
  <2>1. /\ link' = 0 /\ questions' = <<>> /\ answers' = <<>>
        /\ UNCHANGED <<session, char_fd, atMap, guards, up, odd>>
    BY <1>1 DEF LinkBreaks
  <2>2. LoginTypeOK'
    BY <2>1 DEF LoginInv, LoginTypeOK, guards
  <2>3. \A f \in Fds : Awaited(f)' => Awaited(f)
    BY <2>1, NobodyAwaited DEF Awaited
  <2>. QED  BY <2>1, <2>2, <2>3, ApartKeeps
<1>2. CASE Remove_Throttle
  <2>1. LoginTypeOK'
    BY <1>2 DEF Remove_Throttle, LoginInv, LoginTypeOK, wire
  <2>. QED  BY <1>2, <2>1, ApartKeeps DEF Remove_Throttle, Awaited, wire
<1>3. ASSUME NEW a \in Addrs, login_clear_lockout(a) PROVE LoginInv'
  <2>1. /\ bf_lockout' = [bf_lockout EXCEPT ![a] = 0]
        /\ clearing' = [clearing EXCEPT ![a] = @ - 1] /\ clearing[a] > 0
        /\ bf_lockout \in [Addrs -> 0..MaxInvalid + 1] /\ clearing \in [Addrs -> Nat]
    BY <1>3 DEF login_clear_lockout, LoginInv, LoginTypeOK
  <2>2. 0 \in 0..MaxInvalid + 1 /\ clearing[a] - 1 \in Nat
    BY <2>1, LoginAssumption
  <2>3. bf_lockout' \in [Addrs -> 0..MaxInvalid + 1] /\ clearing' \in [Addrs -> Nat]
    BY <2>1, <2>2
  <2>4. LoginTypeOK'
    BY <1>3, <2>3 DEF login_clear_lockout, LoginInv, LoginTypeOK, wire
  <2>. QED  BY <1>3, <2>4, ApartKeeps DEF login_clear_lockout, Awaited, wire
<1>. QED  BY <1>1, <1>2, <1>3

----------------------------------------------------------------------------
\* The invariant holds at the start and is kept by every step.
THEOREM SpecLoginInv == LoginSpec => []LoginInv
<1>1. LoginInit => LoginInv
  <2>. SUFFICES ASSUME LoginInit PROVE LoginInv
    OBVIOUS
  <2>1. \A f \in Fds : Free(f)
    BY DEF LoginInit, Free
  <2>2. LoginTypeOK
    BY LoginAssumption DEF LoginInit, LoginTypeOK
  <2>3. Apart /\ IntifIsChar /\ AskedHaveData
    BY <2>1 DEF Apart, IntifIsChar, AskedHaveData, IsChar, IsIntif
  <2>4. CharFdIsCharServer
    <3>1. \A f \in Fds : f # 0
      BY LoginAssumption DEF Fds
    <3>. QED  BY <2>1, <3>1 DEF CharFdIsCharServer, LoginInit
  <2>5. NoSessionMissed
    BY DEF NoSessionMissed, LoginInit
  <2>. QED  BY <2>2, <2>3, <2>4, <2>5 DEF LoginInv, RoutesByDescriptor
<1>2. LoginInv /\ [LoginNext]_loginVars => LoginInv'
  <2>. SUFFICES ASSUME LoginInv, [LoginNext]_loginVars PROVE LoginInv'
    OBVIOUS
  <2>1. CASE UNCHANGED loginVars
    BY <2>1 DEF loginVars, LoginInv, LoginTypeOK, Apart, IntifIsChar, AskedHaveData,
                IsChar, IsIntif, Awaited, Free, RoutesByDescriptor,
                CharFdIsCharServer, NoSessionMissed
  <2>2. CASE LoginNext
    <3>1. up
      BY <2>2 DEF LoginNext
    <3>2. ASSUME NEW a \in Addrs, Connect(a, "client") PROVE LoginInv'
      BY <3>1, <3>2, ConnectKeeps
    <3>3. CASE check_connect_login
      BY <3>1, <3>3, ConnectKeeps, LoginAssumption DEF check_connect_login
    <3>4. ASSUME NEW f \in Fds, FirstParse(f) PROVE LoginInv'
      <4>1. /\ ~Free(f) /\ session' = Parsed(f)
            /\ UNCHANGED <<char_fd, link, wire, guards, up, odd>>
        BY <3>4 DEF FirstParse, IsClient
      <4>2. /\ session' \in [Fds -> Session \cup {NoSession}]
            /\ \A g \in Fds : Free(g)' <=> Free(g)
            /\ \A g \in Fds : Older(g)
        BY <4>1, Parsing DEF LoginInv
      <4>3. LoginTypeOK'
        BY <4>1, <4>2 DEF LoginInv, LoginTypeOK, wire, guards
      <4>4. \A g \in Fds : Awaited(g)' => Awaited(g)
        BY <4>1 DEF Awaited, wire
      <4>5. \A g \in Fds : IsIntif(g) => ~Free(g)'
        BY <4>2 DEF IsIntif
      <4>. QED  BY <3>1, <4>1, <4>2, <4>3, <4>4, <4>5, QuietKeeps
    <3>5. ASSUME NEW f \in Fds, AskCreate(f) PROVE LoginInv'
      <4>1. PICK named \in BOOLEAN : session' = [Parsed(f) EXCEPT ![f].eof = ~named]
        BY <3>5 DEF AskCreate
      <4>2. PICK e \in BOOLEAN : e = ~named
        OBVIOUS
      <4>3. "create" \in Kinds /\ CanAsk(f) /\ Send(f, "create")
        BY <3>5 DEF AskCreate, Kinds
      <4>. QED  BY <3>1, <4>1, <4>2, <4>3, AskKeeps
    <3>6. ASSUME NEW f \in Fds, NEW kind \in Kinds \ {"create"}, AskFor(f, kind)
          PROVE  LoginInv'
      <4>1. session' = Parsed(f) /\ CanAsk(f) /\ Send(f, kind) /\ TRUE \in BOOLEAN
        BY <3>6 DEF AskFor
      <4>. QED  BY <3>1, <4>1, AskKeeps
    <3>7. ASSUME NEW f \in Fds, intif_auth(f) PROVE LoginInv'
      BY <3>1, <3>7, LoginAuthKeeps
    <3>8. ASSUME NEW f \in Fds, ClientGone(f) PROVE LoginInv'
      <4>1. ~Free(f) /\ ~session[f].intif
        BY <3>8 DEF ClientGone, IsClient, LoginInv, IntifIsChar, IsIntif, IsChar
      <4>. QED  BY <3>1, <3>8, <4>1, GoneKeeps DEF ClientGone
    <3>9. ASSUME NEW f \in Fds, CharGone(f) PROVE LoginInv'
      BY <3>1, <3>9, CharGoneKeeps
    <3>10. CASE logif_parse
      BY <3>1, <3>10, AnsweredKeeps
    <3>11. CASE mapif_parse_login
      BY <3>1, <3>11, MapAnswersKeeps
    <3>12. CASE intif_parse
      BY <3>1, <3>12, AnswerKeeps
    <3>13. CASE \/ LinkBreaks \/ Remove_Throttle
                \/ \E a \in Addrs : login_clear_lockout(a)
      BY <3>1, <3>13, RestKeeps
    <3>. QED  BY <2>2, <3>2, <3>3, <3>4, <3>5, <3>6, <3>7, <3>8, <3>9, <3>10,
                 <3>11, <3>12, <3>13 DEF LoginNext
  <2>. QED  BY <2>1, <2>2
<1>. QED  BY <1>1, <1>2, PTL DEF LoginSpec

\* Counts, descriptors and messages keep their types, and odd its four kinds.
THEOREM SpecLoginTypeOK == LoginSpec => []LoginTypeOK
<1>1. LoginInv => LoginTypeOK
  BY DEF LoginInv
<1>. QED  BY <1>1, SpecLoginInv, PTL

\* Descriptors that are closed and handed out again lead nobody astray: char_fd
\* is the char server's session, and no session that is gone is read, but after
\* the events the property names.
THEOREM SpecRoutesByDescriptor == LoginSpec => []RoutesByDescriptor
<1>1. LoginInv => RoutesByDescriptor
  BY DEF LoginInv
<1>. QED  BY <1>1, SpecLoginInv, PTL

----------------------------------------------------------------------------
Visible(fd) == \E i \in Below : map_fifo[i].fd = fd

HiddenLeavesRoom ==
  \A fd \in MapFds :
    Accepted(fd) /\ ~Visible(fd) => map_fifo_max < MAX_MAP_SERVER

FewConnected ==
  IsFiniteSet(Connected) /\ Cardinality(Connected) <= MAX_MAP_SERVER

MapFifoInv ==
  /\ MapFifoTypeOK /\ FewConnected /\ HiddenLeavesRoom
  /\ VisibleIsAccepted /\ AnnouncedRoute

----------------------------------------------------------------------------
(* Scans.                                                                  *)

\* A scan stops at a slot that satisfies its test, or at map_fifo_max.
LEMMA ScanStops ==
  ASSUME MapFifoTypeOK, NEW hits, hits \subseteq Below
  PROVE  /\ FirstSlot(hits) \in 0..map_fifo_max
         /\ hits = {} => FirstSlot(hits) = map_fifo_max
         /\ hits # {} => FirstSlot(hits) \in hits
<1>1. Below \subseteq Nat /\ \A i \in Below : i < map_fifo_max
  BY DEF Below, Slots
<1>2. map_fifo_max \in Nat
  BY DEF MapFifoTypeOK
<1>3. CASE hits = {}
  BY <1>2, <1>3 DEF FirstSlot
<1>4. CASE hits # {}
  <2>1. FirstSlot(hits) \in hits
    BY <1>1, <1>4, LowestIsThere DEF FirstSlot
  <2>2. FirstSlot(hits) \in Nat /\ FirstSlot(hits) < map_fifo_max
    BY <1>1, <2>1
  <2>3. FirstSlot(hits) \in 0..map_fifo_max
    BY <1>2, <2>2
  <2>. QED  BY <1>4, <2>1, <2>3
<1>. QED  BY <1>3, <1>4

\* The slot a packet is taken to be from: the sender's, when it is visible.
LEMMA IdIs ==
  ASSUME MapFifoTypeOK, NEW fd \in MapFds
  PROVE  /\ id(fd) \in 0..map_fifo_max
         /\ Visible(fd) => id(fd) \in Below /\ map_fifo[id(fd)].fd = fd
         /\ ~Visible(fd) => id(fd) = map_fifo_max
<1>. DEFINE hits == {i \in Below : map_fifo[i].fd = fd}
<1>1. /\ FirstSlot(hits) \in 0..map_fifo_max
      /\ hits = {} => FirstSlot(hits) = map_fifo_max
      /\ hits # {} => FirstSlot(hits) \in hits
  BY ScanStops
<1>. QED  BY <1>1 DEF id, Visible

\* The slot a new server takes: a free one, or the one at map_fifo_max when
\* every visible slot is held.
LEMMA FreeSlotIs ==
  ASSUME MapFifoTypeOK
  PROVE  \/ FreeSlot \in Below /\ map_fifo[FreeSlot].fd = NoFd
         \/ /\ FreeSlot = map_fifo_max
            /\ \A i \in Below : map_fifo[i].fd # NoFd
<1>. DEFINE hits == {i \in Below : map_fifo[i].fd = NoFd}
<1>1. /\ hits = {} => FirstSlot(hits) = map_fifo_max
      /\ hits # {} => FirstSlot(hits) \in hits
  BY ScanStops
<1>. QED  BY <1>1 DEF FreeSlot

\* When every visible slot is held, there are as many other connections as
\* slots: a connection without a visible slot finds the table not at its end,
\* and two of them find room for one more.
LEMMA RoomLeft ==
  ASSUME MapFifoInv, \A i \in Below : map_fifo[i].fd # NoFd,
         NEW a \in Connected, ~Visible(a)
  PROVE  /\ map_fifo_max < MAX_MAP_SERVER
         /\ \A b \in Connected : ~Visible(b) /\ a # b =>
              map_fifo_max + 1 < MAX_MAP_SERVER
<1>1. /\ map_fifo_max \in 0..MAX_MAP_SERVER /\ MAX_MAP_SERVER \in Nat
      /\ Below = 0..(map_fifo_max - 1)
  BY MapFifoAssumption DEF MapFifoInv, MapFifoTypeOK, Below, Slots
<1>2. IsFiniteSet(Below) /\ Cardinality(Below) = map_fifo_max
  BY <1>1, FS_Interval
<1>3. /\ IsFiniteSet(Connected) /\ Cardinality(Connected) \in Nat
      /\ Cardinality(Connected) <= MAX_MAP_SERVER
  BY FS_CardinalityType DEF MapFifoInv, FewConnected
<1>. DEFINE holder == [i \in Below |-> map_fifo[i].fd]
<1>4. \A i \in Below : map_fifo[i].fd \in Connected
  BY DEF MapFifoInv, MapFifoTypeOK, VisibleIsAccepted, Accepted, Connected, Below
<1>5. \A i, j \in Below : map_fifo[i].fd = map_fifo[j].fd => i = j
  BY DEF MapFifoInv, VisibleIsAccepted
<1>6. ASSUME NEW T, T \subseteq Connected, \A t \in T : ~Visible(t)
      PROVE  map_fifo_max <= Cardinality(Connected \ T)
  <2>1. \A i \in Below : map_fifo[i].fd \in Connected \ T
    BY <1>4, <1>6 DEF Visible
  <2>2. holder \in Injection(Below, Connected \ T)
    BY <1>5, <2>1 DEF Injection, IsInjective
  <2>3. IsFiniteSet(Connected \ T)
    BY <1>3, FS_Difference
  <2>. QED  BY <1>2, <2>2, <2>3, FS_Injection
<1>7. IsFiniteSet(Connected \ {a})
      /\ Cardinality(Connected \ {a}) = Cardinality(Connected) - 1
  BY <1>3, FS_RemoveElement
<1>8. map_fifo_max <= Cardinality(Connected \ {a})
  BY <1>6
<1>9. ASSUME NEW b \in Connected, ~Visible(b), a # b
      PROVE  map_fifo_max + 1 < MAX_MAP_SERVER
  <2>1. (Connected \ {a}) \ {b} = Connected \ {a, b}
    OBVIOUS
  <2>2. Cardinality(Connected \ {a, b}) = Cardinality(Connected) - 2
    <3>1. b \in Connected \ {a} /\ Cardinality(Connected \ {a}) = Cardinality(Connected) - 1
      BY <1>7, <1>9
    <3>2. Cardinality((Connected \ {a}) \ {b}) = Cardinality(Connected \ {a}) - 1
      BY <1>7, <3>1, FS_RemoveElement
    <3>. QED  BY <1>3, <2>1, <3>1, <3>2
  <2>3. map_fifo_max <= Cardinality(Connected \ {a, b})
    BY <1>6, <1>9
  <2>. QED  BY <1>1, <1>3, <2>2, <2>3
<1>. QED  BY <1>1, <1>3, <1>7, <1>8, <1>9

----------------------------------------------------------------------------
(* Steps.                                                                  *)

\* A connection begins, ends, or is told to end: the slots stay, and no server
\* is accepted or stops to be.
LEMMA SlotsStay ==
  ASSUME MapFifoInv, UNCHANGED <<map_fifo, map_fifo_max>>, MapFifoTypeOK', FewConnected',
         \A fd \in MapFds : Accepted(fd)' <=> Accepted(fd),
         \A fd \in MapFds : Accepted(fd) =>
           /\ map_session'[fd].state = map_session[fd].state
           /\ map_session'[fd].hosts = map_session[fd].hosts
  PROVE  MapFifoInv'
<1>1. HiddenLeavesRoom'
  BY DEF MapFifoInv, HiddenLeavesRoom, Visible, Below
<1>2. VisibleIsAccepted'
  BY DEF MapFifoInv, VisibleIsAccepted, Below, MapFifoTypeOK
<1>3. AnnouncedRoute'
  <2>. SUFFICES ASSUME NEW m \in Maps, NEW i \in Below, map_fifo[i].fd # NoFd,
                       m \in map_fifo[i].map,
                       map_session'[map_fifo[i].fd].state = "ready"
                PROVE  m \in map_session'[map_fifo[i].fd].hosts
    BY DEF AnnouncedRoute, mapfifo_from_mapid, Below
  <2>1. map_fifo[i].fd \in MapFds /\ Accepted(map_fifo[i].fd)
    BY DEF MapFifoInv, MapFifoTypeOK, VisibleIsAccepted, Below
  <2>. QED  BY <2>1 DEF MapFifoInv, AnnouncedRoute, mapfifo_from_mapid
<1>. QED  BY <1>1, <1>2, <1>3 DEF MapFifoInv

\* Those connected, when one session changes.
LEMMA ConnectedAfter ==
  ASSUME MapFifoTypeOK, NEW fd \in MapFds, NEW s,
         map_session' = [map_session EXCEPT ![fd] = s]
  PROVE  Connected' = IF s.state = "free" THEN Connected \ {fd}
                                          ELSE Connected \cup {fd}
  BY DEF Connected, MapFifoTypeOK

\* There are no more connections than there were.
LEMMA FewerConnected ==
  ASSUME FewConnected, Connected' \subseteq Connected
  PROVE  FewConnected'
<1>1. IsFiniteSet(Connected') /\ Cardinality(Connected') <= Cardinality(Connected)
  BY FS_Subset DEF FewConnected
<1>2. Cardinality(Connected') \in Nat /\ Cardinality(Connected) \in Nat
  BY <1>1, FS_CardinalityType DEF FewConnected
<1>. QED  BY <1>1, <1>2, MapFifoAssumption DEF FewConnected

\* A connection begins.
LEMMA ConnectsKeeps ==
  ASSUME MapFifoInv, NEW fd \in MapFds, NEW hosts \in SUBSET Maps,
         ServerConnects(fd, hosts)
  PROVE  MapFifoInv'
<1>. DEFINE s == [state |-> "auth", hosts |-> hosts, eof |-> FALSE]
<1>1. /\ MapFifoTypeOK /\ map_session[fd].state = "free"
      /\ map_session' = [map_session EXCEPT ![fd] = s]
      /\ UNCHANGED <<map_fifo, map_fifo_max>>
      /\ Cardinality(Connected) < MAX_MAP_SERVER
  BY DEF MapFifoInv, ServerConnects
<1>2. Connected' = Connected \cup {fd}
  <2>1. s.state # "free"
    OBVIOUS
  <2>. HIDE DEF s
  <2>2. Connected' = IF s.state = "free" THEN Connected \ {fd}
                                        ELSE Connected \cup {fd}
    BY <1>1, ConnectedAfter
  <2>. QED  BY <2>1, <2>2
<1>3. FewConnected'
  <2>1. IsFiniteSet(Connected) /\ Cardinality(Connected) \in Nat
    BY FS_CardinalityType DEF MapFifoInv, FewConnected
  <2>2. /\ IsFiniteSet(Connected \cup {fd})
        /\ Cardinality(Connected \cup {fd}) =
             IF fd \in Connected THEN Cardinality(Connected)
                                 ELSE Cardinality(Connected) + 1
    BY <2>1, FS_AddElement
  <2>. QED  BY <1>1, <1>2, <2>1, <2>2, MapFifoAssumption DEF FewConnected
<1>4. MapFifoTypeOK'
  BY <1>1 DEF MapFifoTypeOK
<1>5. \A g \in MapFds : /\ Accepted(g)' <=> Accepted(g)
                        /\ Accepted(g) => map_session'[g] = map_session[g]
  BY <1>1 DEF Accepted, MapFifoTypeOK
<1>. QED  BY <1>1, <1>3, <1>4, <1>5, SlotsStay

\* A connection is lost, and the server has not noticed.
LEMMA LostKeeps ==
  ASSUME MapFifoInv, NEW fd \in MapFds, ServerLost(fd)
  PROVE  MapFifoInv'
<1>1. /\ MapFifoTypeOK
      /\ map_session' = [map_session EXCEPT ![fd].eof = TRUE]
      /\ UNCHANGED <<map_fifo, map_fifo_max>>
  BY DEF MapFifoInv, ServerLost
<1>2. \A g \in MapFds : /\ map_session'[g].state = map_session[g].state
                        /\ map_session'[g].hosts = map_session[g].hosts
  BY <1>1 DEF MapFifoTypeOK
<1>3. Connected' = Connected
  BY <1>2 DEF Connected
<1>4. MapFifoTypeOK'
  BY <1>1 DEF MapFifoTypeOK
<1>5. FewConnected'
  BY <1>3, FewerConnected DEF MapFifoInv
<1>6. \A g \in MapFds : Accepted(g)' <=> Accepted(g)
  BY <1>2 DEF Accepted
<1>. QED  BY <1>1, <1>2, <1>4, <1>5, <1>6, SlotsStay

\* A connection that never authenticated ends.
LEMMA AuthEofKeeps ==
  ASSUME MapFifoInv, NEW fd \in MapFds, mapif_parse_auth_eof(fd)
  PROVE  MapFifoInv'
<1>1. /\ MapFifoTypeOK /\ map_session[fd].state = "auth"
      /\ map_session' = [map_session EXCEPT ![fd] = NoServer]
      /\ UNCHANGED <<map_fifo, map_fifo_max>>
  BY DEF MapFifoInv, mapif_parse_auth_eof
<1>2. Connected' = Connected \ {fd}
  <2>1. NoServer.state = "free"
    BY DEF NoServer
  <2>2. Connected' = IF NoServer.state = "free" THEN Connected \ {fd}
                                               ELSE Connected \cup {fd}
    BY <1>1, ConnectedAfter
  <2>. QED  BY <2>1, <2>2
<1>3. FewConnected'
  BY <1>2, FewerConnected DEF MapFifoInv
<1>4. MapFifoTypeOK'
  BY <1>1 DEF MapFifoTypeOK, NoServer
<1>5. \A g \in MapFds : /\ Accepted(g)' <=> Accepted(g)
                        /\ Accepted(g) => map_session'[g] = map_session[g]
  BY <1>1 DEF Accepted, MapFifoTypeOK, NoServer
<1>. QED  BY <1>1, <1>3, <1>4, <1>5, SlotsStay

\* A server that authenticates takes a slot that was free or hidden, and the
\* table has room for it.
LEMMA AuthKeeps ==
  ASSUME MapFifoInv, NEW fd \in MapFds, mapif_parse_auth(fd)
  PROVE  MapFifoInv'
<1>1. PICK i \in Nat : i = FreeSlot
  BY FreeSlotIs DEF MapFifoInv, Below, Slots, MapFifoTypeOK
<1>2. /\ MapFifoTypeOK /\ map_session[fd].state = "auth"
      /\ map_fifo_max' = IF i >= map_fifo_max THEN map_fifo_max + 1
                                              ELSE map_fifo_max
      /\ map_fifo' = [map_fifo EXCEPT ![i].fd = fd]
      /\ map_session' = [map_session EXCEPT ![fd].state = "accepted"]
  BY <1>1 DEF MapFifoInv, mapif_parse_auth
<1>3. /\ map_fifo_max \in 0..MAX_MAP_SERVER /\ MAX_MAP_SERVER \in Nat
      /\ \A k : k \in Below <=> k \in Nat /\ k < map_fifo_max
      /\ \A k : k \in Slots <=> k \in Nat /\ k < MAX_MAP_SERVER
  BY <1>2, MapFifoAssumption DEF MapFifoTypeOK, Below, Slots
<1>4. fd \in Connected /\ ~Accepted(fd) /\ ~Visible(fd)
  BY <1>2, MapFifoAssumption
  DEF Connected, Accepted, Visible, MapFifoInv, VisibleIsAccepted
<1>5. \/ i \in Below /\ map_fifo[i].fd = NoFd /\ map_fifo_max' = map_fifo_max
      \/ /\ i = map_fifo_max /\ map_fifo_max' = map_fifo_max + 1
         /\ \A k \in Below : map_fifo[k].fd # NoFd
         /\ map_fifo_max < MAX_MAP_SERVER
         /\ \A b \in Connected : ~Visible(b) /\ b # fd =>
              map_fifo_max + 1 < MAX_MAP_SERVER
  <2>1. CASE i \in Below /\ map_fifo[i].fd = NoFd
    BY <1>2, <1>3, <2>1
  <2>2. CASE i = map_fifo_max /\ \A k \in Below : map_fifo[k].fd # NoFd
    BY <1>2, <1>3, <1>4, <2>2, RoomLeft
  <2>. QED  BY <1>1, <1>2, <2>1, <2>2, FreeSlotIs
<1>6. /\ i \in Slots /\ map_fifo_max' \in 0..MAX_MAP_SERVER
      /\ \A k \in Slots : k < map_fifo_max' <=> k \in Below \/ k = i
  BY <1>3, <1>5
<1>7. /\ map_fifo' \in [Slots -> [fd : MapFds \cup {NoFd}, map : SUBSET Maps]]
      /\ map_fifo'[i].fd = fd
      /\ \A k \in Slots \ {i} : map_fifo'[k] = map_fifo[k]
  BY <1>2, <1>6 DEF MapFifoTypeOK
<1>8. /\ map_session' \in
           [MapFds -> [state : {"free", "auth", "accepted", "ready"},
                       hosts : SUBSET Maps, eof : BOOLEAN]]
      /\ map_session'[fd].state = "accepted"
      /\ \A g \in MapFds \ {fd} : map_session'[g] = map_session[g]
  BY <1>2 DEF MapFifoTypeOK
<1>9. MapFifoTypeOK'
  BY <1>6, <1>7, <1>8 DEF MapFifoTypeOK
<1>10. \A k : k \in Below' <=> k \in Below \/ k = i
  BY <1>3, <1>6 DEF Below
<1>11. \A g \in MapFds : Accepted(g)' <=> Accepted(g) \/ g = fd
  BY <1>8 DEF Accepted
<1>12. FewConnected'
  <2>1. Connected' = Connected
    BY <1>4, <1>8 DEF Connected
  <2>. QED  BY <2>1, FewerConnected DEF MapFifoInv
<1>13. \A k \in Below : k # i => map_fifo'[k] = map_fifo[k]
  BY <1>3, <1>7
<1>14. HiddenLeavesRoom'
  <2>. SUFFICES ASSUME NEW g \in MapFds, Accepted(g)', ~Visible(g)'
                PROVE  map_fifo_max' < MAX_MAP_SERVER
    BY DEF HiddenLeavesRoom
  <2>1. g # fd
    BY <1>7, <1>10 DEF Visible
  <2>2. Accepted(g) /\ g \in Connected
    BY <1>11, <2>1 DEF Accepted, Connected
  <2>3. ~Visible(g)
    <3>. SUFFICES ASSUME NEW k \in Below, map_fifo[k].fd = g PROVE FALSE
      BY DEF Visible
    <3>1. k = i
      BY <1>10, <1>13 DEF Visible
    <3>2. map_fifo[i].fd = NoFd
      BY <1>3, <1>5, <3>1
    <3>. QED  BY <3>1, <3>2, MapFifoAssumption
  <2>4. CASE map_fifo_max' = map_fifo_max
    BY <2>2, <2>3, <2>4 DEF MapFifoInv, HiddenLeavesRoom
  <2>5. CASE map_fifo_max' # map_fifo_max
    BY <1>5, <2>1, <2>2, <2>3, <2>5
  <2>. QED  BY <2>4, <2>5
<1>15. VisibleIsAccepted'
  <2>. SUFFICES ASSUME NEW k \in Below', map_fifo'[k].fd # NoFd
                PROVE  /\ Accepted(map_fifo[k].fd)'
                       /\ \A j \in Below' : map_fifo'[j].fd = map_fifo'[k].fd => k = j
    BY DEF VisibleIsAccepted
  <2>1. \A j \in Below' : j = i \/ (j \in Below /\ map_fifo'[j] = map_fifo[j])
    BY <1>10, <1>13
  <2>2. \A j \in Below : map_fifo[j].fd # fd
    BY <1>4 DEF Visible
  <2>3. CASE k = i
    <3>1. Accepted(map_fifo[k].fd)'
      BY <1>7, <1>8, <2>3 DEF Accepted
    <3>2. \A j \in Below' : map_fifo'[j].fd = map_fifo'[k].fd => k = j
      BY <1>7, <2>1, <2>2, <2>3
    <3>. QED  BY <3>1, <3>2
  <2>4. CASE k # i
    <3>1. k \in Below /\ map_fifo'[k] = map_fifo[k]
      BY <2>1, <2>4
    <3>2. map_fifo[k].fd \in MapFds /\ Accepted(map_fifo[k].fd)
      BY <1>3, <1>6, <3>1 DEF MapFifoInv, VisibleIsAccepted, MapFifoTypeOK
    <3>3. \A j \in Below' : map_fifo'[j].fd = map_fifo'[k].fd => k = j
      BY <1>7, <2>1, <2>2, <3>1 DEF MapFifoInv, VisibleIsAccepted
    <3>4. Accepted(map_fifo[k].fd)'
      BY <1>8, <3>1, <3>2, <1>4 DEF Accepted
    <3>. QED  BY <3>3, <3>4
  <2>. QED  BY <2>3, <2>4
<1>16. AnnouncedRoute'
  <2>. SUFFICES ASSUME NEW m \in Maps, NEW k \in Below', map_fifo'[k].fd # NoFd,
                       m \in map_fifo'[k].map,
                       map_session'[map_fifo'[k].fd].state = "ready"
                PROVE  m \in map_session'[map_fifo'[k].fd].hosts
    BY DEF AnnouncedRoute, mapfifo_from_mapid
  <2>1. k # i
    BY <1>7, <1>8
  <2>2. k \in Below /\ map_fifo'[k] = map_fifo[k]
    BY <1>10, <1>13, <2>1
  <2>3. map_fifo[k].fd \in MapFds \ {fd}
    BY <1>3, <1>4, <2>2 DEF Visible, MapFifoTypeOK, MapFifoInv, Below
  <2>. QED  BY <1>8, <2>2, <2>3 DEF MapFifoInv, AnnouncedRoute, mapfifo_from_mapid
<1>. QED  BY <1>9, <1>12, <1>14, <1>15, <1>16 DEF MapFifoInv

\* A server that announces its maps writes them to its slot; one that is
\* hidden writes to a slot that nobody sees.
LEMMA MapsetKeeps ==
  ASSUME MapFifoInv, NEW fd \in MapFds, mapif_parse_mapset(fd)
  PROVE  MapFifoInv'
<1>1. PICK i \in Nat :
        /\ i = id(fd)
        /\ Visible(fd) => i \in Below /\ map_fifo[i].fd = fd
        /\ ~Visible(fd) => i = map_fifo_max
  BY IdIs DEF MapFifoInv, MapFifoTypeOK
<1>2. /\ MapFifoTypeOK /\ map_session[fd].state = "accepted"
      /\ map_fifo' = [map_fifo EXCEPT ![i].map = map_session[fd].hosts]
      /\ map_session' = [map_session EXCEPT ![fd].state = "ready"]
      /\ map_fifo_max' = map_fifo_max
  BY <1>1 DEF MapFifoInv, mapif_parse_mapset
<1>3. /\ map_fifo' \in [Slots -> [fd : MapFds \cup {NoFd}, map : SUBSET Maps]]
      /\ \A k \in Slots : map_fifo'[k].fd = map_fifo[k].fd
      /\ \A k \in Slots : k # i => map_fifo'[k] = map_fifo[k]
      /\ i \in Slots => map_fifo'[i].map = map_session[fd].hosts
  <2>1. map_session[fd].hosts \in SUBSET Maps
    BY <1>2 DEF MapFifoTypeOK
  <2>2. CASE i \in Slots
    <3>. DEFINE r == [map_fifo[i] EXCEPT !.map = map_session[fd].hosts]
    <3>1. map_fifo' = [map_fifo EXCEPT ![i] = r]
      BY <1>2
    <3>2. map_fifo[i] \in [fd : MapFds \cup {NoFd}, map : SUBSET Maps]
      BY <1>2, <2>2 DEF MapFifoTypeOK
    <3>3. /\ r \in [fd : MapFds \cup {NoFd}, map : SUBSET Maps]
          /\ r.fd = map_fifo[i].fd /\ r.map = map_session[fd].hosts
      BY <2>1, <3>2
    <3>. HIDE DEF r
    <3>. QED  BY <1>2, <2>2, <3>1, <3>3 DEF MapFifoTypeOK
  <2>3. CASE i \notin Slots
    BY <1>2, <2>3 DEF MapFifoTypeOK
  <2>. QED  BY <2>2, <2>3
<1>4. /\ map_session' \in
           [MapFds -> [state : {"free", "auth", "accepted", "ready"},
                       hosts : SUBSET Maps, eof : BOOLEAN]]
      /\ map_session'[fd].state = "ready"
      /\ \A g \in MapFds : map_session'[g].hosts = map_session[g].hosts
      /\ \A g \in MapFds \ {fd} : map_session'[g] = map_session[g]
  BY <1>2 DEF MapFifoTypeOK
<1>5. MapFifoTypeOK'
  BY <1>2, <1>3, <1>4 DEF MapFifoTypeOK
<1>6. \A g \in MapFds : Accepted(g)' <=> Accepted(g)
  BY <1>2, <1>4 DEF Accepted
<1>7. FewConnected'
  <2>1. Connected' = Connected
    BY <1>2, <1>4 DEF Connected
  <2>. QED  BY <2>1, FewerConnected DEF MapFifoInv
<1>8. Below' = Below /\ Below \subseteq Slots /\ \A k \in Below : k # map_fifo_max
  BY <1>2 DEF Below, Slots
<1>9. HiddenLeavesRoom'
  BY <1>2, <1>3, <1>6, <1>8 DEF MapFifoInv, HiddenLeavesRoom, Visible
<1>10. VisibleIsAccepted'
  <2>. SUFFICES ASSUME NEW k \in Below, map_fifo'[k].fd # NoFd
                PROVE  /\ Accepted(map_fifo[k].fd)'
                       /\ \A j \in Below : map_fifo'[j].fd = map_fifo'[k].fd => k = j
    BY <1>8 DEF VisibleIsAccepted
  <2>1. map_fifo[k].fd \in MapFds /\ Accepted(map_fifo[k].fd)
    BY <1>3, <1>8 DEF MapFifoInv, VisibleIsAccepted, MapFifoTypeOK
  <2>2. \A j \in Below : map_fifo'[j].fd = map_fifo'[k].fd => k = j
    BY <1>3, <1>8 DEF MapFifoInv, VisibleIsAccepted
  <2>3. map_fifo'[k].fd = map_fifo[k].fd
    BY <1>3, <1>8
  <2>4. Accepted(map_fifo[k].fd)'
    BY <1>4, <2>1, <2>3 DEF Accepted
  <2>. QED  BY <2>2, <2>4
<1>11. AnnouncedRoute'
  <2>. SUFFICES ASSUME NEW m \in Maps, NEW k \in Below, map_fifo'[k].fd # NoFd,
                       m \in map_fifo'[k].map,
                       map_session'[map_fifo'[k].fd].state = "ready"
                PROVE  m \in map_session'[map_fifo'[k].fd].hosts
    BY <1>8 DEF AnnouncedRoute, mapfifo_from_mapid
  <2>1. map_fifo'[k].fd = map_fifo[k].fd /\ map_fifo[k].fd \in MapFds
    BY <1>2, <1>3, <1>8 DEF MapFifoTypeOK
  <2>2. CASE map_fifo[k].fd = fd
    <3>1. i \in Below /\ map_fifo[i].fd = fd
      BY <1>1, <2>2 DEF Visible
    <3>2. k = i
      BY <2>1, <2>2, <3>1, MapFifoAssumption DEF MapFifoInv, VisibleIsAccepted
    <3>. QED  BY <1>3, <1>4, <1>8, <2>1, <2>2, <3>2
  <2>3. CASE map_fifo[k].fd # fd
    <3>1. k # i
      BY <1>1, <1>8, <2>3
    <3>2. map_fifo'[k] = map_fifo[k]
      BY <1>3, <1>8, <3>1
    <3>3. map_session[map_fifo[k].fd].state = "ready"
      BY <1>4, <2>1, <2>3
    <3>. QED  BY <1>4, <2>1, <3>2, <3>3 DEF MapFifoInv, AnnouncedRoute, mapfifo_from_mapid
  <2>. QED  BY <2>2, <2>3
<1>. QED  BY <1>5, <1>7, <1>9, <1>10, <1>11 DEF MapFifoInv

\* A server that is lost frees its slot, and may hide all the others.
LEMMA EofKeeps ==
  ASSUME MapFifoInv, NEW fd \in MapFds, mapif_parse_eof(fd)
  PROVE  MapFifoInv'
<1>1. PICK i \in Nat :
        /\ i = id(fd)
        /\ Visible(fd) => i \in Below /\ map_fifo[i].fd = fd
        /\ ~Visible(fd) => i = map_fifo_max
  BY IdIs DEF MapFifoInv, MapFifoTypeOK
<1>2. /\ MapFifoTypeOK /\ Accepted(fd)
      /\ map_fifo' = [map_fifo EXCEPT ![i].fd = NoFd]
      /\ map_fifo_max' = IF i + 1 = map_fifo_max THEN 0 ELSE map_fifo_max
      /\ map_session' = [map_session EXCEPT ![fd] = NoServer]
  BY <1>1 DEF MapFifoInv, mapif_parse_eof
<1>3. /\ map_fifo' \in [Slots -> [fd : MapFds \cup {NoFd}, map : SUBSET Maps]]
      /\ \A k \in Slots : k # i => map_fifo'[k] = map_fifo[k]
      /\ i \in Slots => map_fifo'[i].fd = NoFd
  BY <1>2 DEF MapFifoTypeOK
<1>4. /\ map_session' \in
           [MapFds -> [state : {"free", "auth", "accepted", "ready"},
                       hosts : SUBSET Maps, eof : BOOLEAN]]
      /\ map_session'[fd].state = "free"
      /\ \A g \in MapFds \ {fd} : map_session'[g] = map_session[g]
  BY <1>2 DEF MapFifoTypeOK, NoServer
<1>5. map_fifo_max \in 0..MAX_MAP_SERVER /\ MAX_MAP_SERVER \in Nat
  BY <1>2, MapFifoAssumption DEF MapFifoTypeOK
<1>6. /\ map_fifo_max' \in 0..MAX_MAP_SERVER
      /\ Below' \subseteq Below /\ Below \subseteq Slots
      /\ \A k \in Below : k # map_fifo_max
      /\ Below' = Below \/ (Below' = {} /\ map_fifo_max' = 0 /\ MAX_MAP_SERVER > 0)
  <2>1. CASE i + 1 = map_fifo_max
    BY <1>2, <1>5, <2>1 DEF Below, Slots
  <2>2. CASE i + 1 # map_fifo_max
    BY <1>2, <1>5, <2>2 DEF Below, Slots
  <2>. QED  BY <2>1, <2>2
<1>7. MapFifoTypeOK'
  BY <1>3, <1>4, <1>6 DEF MapFifoTypeOK
<1>8. \A g \in MapFds : Accepted(g)' <=> Accepted(g) /\ g # fd
  BY <1>4 DEF Accepted
<1>9. FewConnected'
  <2>1. Connected' \subseteq Connected
    BY <1>4 DEF Connected
  <2>. QED  BY <2>1, FewerConnected DEF MapFifoInv
<1>10. HiddenLeavesRoom'
  <2>. SUFFICES ASSUME NEW g \in MapFds, Accepted(g)', ~Visible(g)'
                PROVE  map_fifo_max' < MAX_MAP_SERVER
    BY DEF HiddenLeavesRoom
  <2>1. CASE map_fifo_max' = 0 /\ MAX_MAP_SERVER > 0
    BY <2>1
  <2>2. CASE Below' = Below /\ ~(map_fifo_max' = 0 /\ MAX_MAP_SERVER > 0)
    <3>1. map_fifo_max' = map_fifo_max
      BY <1>2, <1>5, <2>2
    <3>2. ~Visible(g)
      <4>. SUFFICES ASSUME NEW k \in Below, map_fifo[k].fd = g PROVE FALSE
        BY DEF Visible
      <4>1. k # i
        BY <1>1, <1>6, <1>8
      <4>. QED  BY <1>3, <1>6, <2>2, <4>1 DEF Visible
    <3>. QED  BY <1>8, <3>1, <3>2 DEF MapFifoInv, HiddenLeavesRoom
  <2>. QED  BY <1>6, <2>1, <2>2
<1>11. \A k \in Below' : map_fifo'[k].fd # NoFd =>
         /\ k \in Below /\ map_fifo'[k] = map_fifo[k]
         /\ map_fifo[k].fd \in MapFds \ {fd}
  <2>. SUFFICES ASSUME NEW k \in Below', map_fifo'[k].fd # NoFd
                PROVE  /\ k \in Below /\ map_fifo'[k] = map_fifo[k]
                       /\ map_fifo[k].fd \in MapFds \ {fd}
    OBVIOUS
  <2>1. k \in Below /\ k \in Slots /\ k # i
    BY <1>3, <1>6
  <2>2. map_fifo'[k] = map_fifo[k] /\ map_fifo[k].fd \in MapFds
    BY <1>2, <1>3, <2>1 DEF MapFifoTypeOK
  <2>3. map_fifo[k].fd # fd
    <3>. SUFFICES ASSUME map_fifo[k].fd = fd PROVE FALSE
      OBVIOUS
    <3>1. i \in Below /\ map_fifo[i].fd = fd
      BY <1>1, <2>1 DEF Visible
    <3>. QED  BY <2>1, <3>1, MapFifoAssumption DEF MapFifoInv, VisibleIsAccepted
  <2>. QED  BY <2>1, <2>2, <2>3
<1>12. VisibleIsAccepted'
  <2>. SUFFICES ASSUME NEW k \in Below', map_fifo'[k].fd # NoFd
                PROVE  /\ Accepted(map_fifo[k].fd)'
                       /\ \A j \in Below' : map_fifo'[j].fd = map_fifo'[k].fd => k = j
    BY DEF VisibleIsAccepted
  <2>1. /\ k \in Below /\ map_fifo'[k] = map_fifo[k]
        /\ map_fifo[k].fd \in MapFds \ {fd} /\ Accepted(map_fifo[k].fd)
    BY <1>11 DEF MapFifoInv, VisibleIsAccepted
  <2>2. Accepted(map_fifo[k].fd)'
    BY <1>4, <2>1 DEF Accepted
  <2>3. \A j \in Below' : map_fifo'[j].fd = map_fifo'[k].fd => k = j
    BY <1>11, <2>1 DEF MapFifoInv, VisibleIsAccepted
  <2>. QED  BY <2>2, <2>3
<1>13. AnnouncedRoute'
  <2>. SUFFICES ASSUME NEW m \in Maps, NEW k \in Below', map_fifo'[k].fd # NoFd,
                       m \in map_fifo'[k].map,
                       map_session'[map_fifo'[k].fd].state = "ready"
                PROVE  m \in map_session'[map_fifo'[k].fd].hosts
    BY DEF AnnouncedRoute, mapfifo_from_mapid
  <2>1. /\ k \in Below /\ map_fifo'[k] = map_fifo[k]
        /\ map_fifo[k].fd \in MapFds \ {fd}
    BY <1>11
  <2>2. map_session'[map_fifo[k].fd] = map_session[map_fifo[k].fd]
    BY <1>4, <2>1
  <2>. QED  BY <2>1, <2>2 DEF MapFifoInv, AnnouncedRoute, mapfifo_from_mapid
<1>. QED  BY <1>7, <1>9, <1>10, <1>12, <1>13 DEF MapFifoInv

----------------------------------------------------------------------------
\* The invariant holds at the start and is kept by every step.
THEOREM SpecMapFifoInv == MapFifoSpec => []MapFifoInv
<1>1. MapFifoInit => MapFifoInv
  <2>. SUFFICES ASSUME MapFifoInit PROVE MapFifoInv
    OBVIOUS
  <2>1. MapFifoTypeOK
    BY MapFifoAssumption DEF MapFifoInit, MapFifoTypeOK, NoServer
  <2>2. Connected = {} /\ Below = {}
    BY DEF MapFifoInit, Connected, NoServer, Below, Slots
  <2>3. FewConnected
    BY <2>2, FS_EmptySet, MapFifoAssumption DEF FewConnected
  <2>4. \A fd \in MapFds : ~Accepted(fd)
    BY DEF MapFifoInit, NoServer, Accepted
  <2>. QED  BY <2>1, <2>2, <2>3, <2>4
         DEF MapFifoInv, HiddenLeavesRoom, VisibleIsAccepted, AnnouncedRoute,
             mapfifo_from_mapid
<1>2. MapFifoInv /\ [MapFifoNext]_mapFifoVars => MapFifoInv'
  <2>. SUFFICES ASSUME MapFifoInv, [MapFifoNext]_mapFifoVars PROVE MapFifoInv'
    OBVIOUS
  <2>1. CASE UNCHANGED mapFifoVars
    <3>1. UNCHANGED <<map_fifo, map_fifo_max, map_session>>
      BY <2>1 DEF mapFifoVars
    <3>2. MapFifoTypeOK' /\ Connected' = Connected
      BY <3>1 DEF MapFifoInv, MapFifoTypeOK, Connected
    <3>3. FewConnected'
      BY <3>2, FewerConnected DEF MapFifoInv
    <3>4. \A fd \in MapFds : Accepted(fd)' <=> Accepted(fd)
      BY <3>1 DEF Accepted
    <3>. QED  BY <3>1, <3>2, <3>3, <3>4, SlotsStay
  <2>2. CASE MapFifoNext
    BY <2>2, ConnectsKeeps, LostKeeps, AuthKeeps, AuthEofKeeps, MapsetKeeps,
       EofKeeps DEF MapFifoNext
  <2>. QED  BY <2>1, <2>2
<1>. QED  BY <1>1, <1>2, PTL DEF MapFifoSpec

\* map_fifo_max stays inside the table, and slots and sessions keep their types.
THEOREM SpecMapFifoTypeOK == MapFifoSpec => []MapFifoTypeOK
<1>1. MapFifoInv => MapFifoTypeOK
  BY DEF MapFifoInv
<1>. QED  BY <1>1, SpecMapFifoInv, PTL

\* A server is sent nothing that is meant for another or for nobody, a map
\* leads to a server that hosts it, and no write leaves the table.
THEOREM SpecTableIsRight == MapFifoSpec => []TableIsRight
<1>1. MapFifoInv => WritesInTable
  <2>. SUFFICES ASSUME MapFifoInv, NEW fd \in MapFds
                PROVE  /\ Accepted(fd) => id(fd) \in Slots
                       /\ map_session[fd].state = "auth" => FreeSlot \in Slots
    BY DEF WritesInTable
  <2>1. /\ map_fifo_max \in Nat /\ Below \subseteq Slots
        /\ map_fifo_max < MAX_MAP_SERVER => map_fifo_max \in Slots
    BY MapFifoAssumption DEF MapFifoInv, MapFifoTypeOK, Below, Slots
  <2>2. Accepted(fd) => id(fd) \in Slots
    BY <2>1, IdIs DEF MapFifoInv, HiddenLeavesRoom
  <2>3. ASSUME map_session[fd].state = "auth" PROVE FreeSlot \in Slots
    <3>1. fd \in Connected /\ ~Visible(fd)
      BY <2>3, MapFifoAssumption
      DEF Connected, Accepted, Visible, MapFifoInv, VisibleIsAccepted
    <3>2. CASE FreeSlot \in Below
      BY <2>1, <3>2
    <3>3. CASE FreeSlot = map_fifo_max /\ \A i \in Below : map_fifo[i].fd # NoFd
      BY <2>1, <3>1, <3>3, RoomLeft
    <3>. QED  BY <3>2, <3>3, FreeSlotIs DEF MapFifoInv
  <2>. QED  BY <2>2, <2>3
<1>2. MapFifoInv => TableIsRight
  BY <1>1 DEF MapFifoInv, TableIsRight
<1>. QED  BY <1>2, SpecMapFifoInv, PTL

----------------------------------------------------------------------------
(* Boards.                                                                 *)

\* What a request carries besides its position.
Mores == Nat \cup Authors \cup {Nobody} \cup [candel : BOOLEAN, line : Nat]

Post == [board : BoardIds, to : Authors \cup {Nobody},
         by : Authors \cup {Nobody}, gone : BOOLEAN, pos : Nat \ {0},
         new : BOOLEAN]
Desk == [name : Authors \cup {Nobody}, flag : BOOLEAN, board : BoardIds,
         lines : SUBSET Nat]
Request == [fd : Socks, name : Authors,
            kind : {"show", "read", "post", "write", "delete"},
            board : BoardIds, pos : Nat, more : Mores]
MailAnswer == [fd : Socks, name : Authors,
           what : {"list", "body", "said", "setmp", "newmp"},
           board : BoardIds, lines : SUBSET Nat]

BoardTypes ==
  /\ posts \in Seq(Post) /\ desk \in [Socks -> Desk]
  /\ asks \in Seq(Request) /\ replies \in Seq(MailAnswer)
  /\ misled \subseteq Socks

\* The rows of a list, and whether a name has new mail.
RowsOf(ps, b, n) ==
  {i \in DOMAIN ps : ps[i].board = b /\ (b = Mail => ps[i].to = n)}
NewIn(ps, n) == \E i \in RowsOf(ps, Mail, n) : ps[i].new

\* There are no more positions than posts, and what is gone is not new.
PositionsAre ==
  \A i \in Ids : At(i) <= Len(posts) /\ (posts[i].gone => ~posts[i].new)

\* Windows and answers show rows of the list they are of.
RowsAreShown ==
  /\ \A f \in Socks : desk[f].lines \subseteq RowsOf(posts, desk[f].board, desk[f].name)
  /\ \A k \in DOMAIN replies :
       replies[k].lines \subseteq RowsOf(posts, replies[k].board, replies[k].name)

\* A request to delete carries the position of the line that was chosen.
LinesAreAsked ==
  \A k \in DOMAIN asks : asks[k].kind = "delete" =>
    /\ asks[k].more.line \in RowsOf(posts, asks[k].board, asks[k].name)
    /\ asks[k].pos = At(asks[k].more.line)

\* News for n is among answers from the k-th on.
NewsIn(rs, k, n) ==
  \E m \in DOMAIN rs : m >= k /\ rs[m].what = "newmp" /\ rs[m].name = n

\* When nothing was new as an answer was sent to clear the flag, and now
\* something is, the news of it comes behind.
NewsComesBehind ==
  \A k \in DOMAIN replies :
    replies[k].what = "setmp" /\ NewIn(posts, replies[k].name)
    => NewsIn(replies, k, replies[k].name)

BoardInv ==
  /\ BoardTypes /\ PositionsAre /\ OnePerPosition /\ RowsAreShown
  /\ LinesAreAsked /\ NewMailIsFlagged /\ NewsComesBehind

----------------------------------------------------------------------------
(* Boards: rows and positions.                                             *)

\* Of posts, what the fields are.
LEMMA PostIs ==
  ASSUME posts \in Seq(Post)
  PROVE  /\ Len(posts) \in Nat /\ Ids = 1 .. Len(posts)
         /\ \A i \in Ids : posts[i] \in Post /\ At(i) \in Nat \ {0}
<1>1. Len(posts) \in Nat /\ DOMAIN posts = 1 .. Len(posts)
  BY LenProperties
<1>2. ASSUME NEW i \in Ids PROVE posts[i] \in Post
  BY <1>1, ElementOfSeq DEF Ids
<1> QED
  BY <1>1, <1>2 DEF Ids, At, Post

\* The highest position of some rows is that of one of them.
LEMMA HighestIs ==
  ASSUME posts \in Seq(Post), \A i \in Ids : At(i) <= Len(posts),
         NEW S, S \subseteq Ids
  PROVE  /\ Highest(S) \in 0 .. Len(posts)
         /\ \A i \in S : At(i) <= Highest(S)
         /\ S # {} => \E i \in S : At(i) = Highest(S)
<1>1. /\ Len(posts) \in Nat
      /\ \A i \in S : At(i) \in Nat /\ At(i) <= Len(posts)
  BY PostIs
<1>2. CASE S = {}
  BY <1>1, <1>2 DEF Highest
<1>3. CASE S # {}
  <2> DEFINE B == {m \in Nat : \A i \in S : At(i) <= m}
  <2>1. PICK m \in B : \A k \in B : m <= k
    <3>1. Len(posts) \in B
      BY <1>1
    <3> QED
      BY <3>1, LeastIsThere
  <2>2. \E i \in S : At(i) = m
    <3>1. SUFFICES ASSUME \A i \in S : At(i) # m PROVE FALSE
      OBVIOUS
    <3>2. PICK j \in S : TRUE
      BY <1>3
    <3>3. m \in Nat /\ At(j) \in Nat /\ At(j) <= m /\ At(j) # m
      BY <1>1, <3>1
    <3>4. m - 1 \in Nat
      BY <3>3
    <3>5. \A i \in S : At(i) <= m - 1
      BY <1>1, <3>1, <3>3
    <3>6. m - 1 \in B
      BY <3>4, <3>5
    <3> QED
      BY <2>1, <3>3, <3>6
  <2>3. \E i \in S : \A j \in S : At(j) <= At(i)
    BY <2>1, <2>2
  <2> DEFINE top == CHOOSE i \in S : \A j \in S : At(j) <= At(i)
  <2>4. top \in S /\ \A j \in S : At(j) <= At(top)
    BY <2>3
  <2>5. Highest(S) = At(top)
    BY <1>3 DEF Highest
  <2> HIDE DEF top
  <2> QED
    BY <1>1, <2>4, <2>5
<1> QED
  BY <1>2, <1>3

\* A change of posts that takes none away and moves none.
PostsGrow ==
  \A i \in Ids :
    /\ i \in Ids' /\ posts'[i].board = posts[i].board
    /\ posts'[i].to = posts[i].to /\ posts'[i].pos = posts[i].pos

\* The model's names for rows and new mail.
LEMMA RowsAre ==
  /\ \A b, n : Rows(b, n) = RowsOf(posts, b, n)
  /\ \A n : HasNew(n) = NewIn(posts, n)
<1>1. \A b, n : Rows(b, n) = RowsOf(posts, b, n)
  BY DEF Rows, RowsOf, Ids
<1> QED
  BY <1>1 DEF HasNew, NewIn

\* Then rows stay in their list.
LEMMA RowsGrow ==
  ASSUME PostsGrow, NEW b, NEW n
  PROVE  RowsOf(posts, b, n) \subseteq RowsOf(posts', b, n)
  BY DEF PostsGrow, RowsOf, Ids

\* Some posts are marked, as read or as deleted.
PostsMarked(e) ==
  /\ e \in [Ids -> Post]
  /\ \A i \in Ids :
       /\ e[i].board = posts[i].board /\ e[i].to = posts[i].to
       /\ e[i].pos = posts[i].pos
       /\ posts[i].gone => e[i].gone
       /\ e[i].new => posts[i].new
       /\ e[i].gone => ~e[i].new

\* Which leaves rows and positions as they are.
LEMMA MarkingKeeps ==
  ASSUME BoardInv, NEW e, PostsMarked(e), posts' = e
  PROVE  /\ posts' \in Seq(Post) /\ Ids' = Ids /\ PostsGrow
         /\ PositionsAre' /\ OnePerPosition'
         /\ \A n : NewIn(posts', n) => NewIn(posts, n)
<1>1. posts \in Seq(Post) /\ PositionsAre /\ OnePerPosition
  BY DEF BoardInv, BoardTypes
<1>2. Len(posts) \in Nat /\ Ids = 1 .. Len(posts)
  BY <1>1, PostIs
<1>3. posts' \in Seq(Post) /\ Len(posts') = Len(posts) /\ DOMAIN posts' = 1 .. Len(posts)
  <2>1. posts' \in [1 .. Len(posts) -> Post]
    BY <1>2 DEF PostsMarked
  <2> QED
    BY <1>2, <2>1, SeqDef
<1>4. Ids' = Ids
  BY <1>2, <1>3 DEF Ids
<1>5. PostsGrow
  BY <1>4 DEF PostsGrow, PostsMarked
<1>6. PositionsAre'
  <2>1. ASSUME NEW i \in Ids
        PROVE  posts'[i].pos <= Len(posts') /\ (posts'[i].gone => ~posts'[i].new)
    BY <1>1, <1>3 DEF PostsMarked, PositionsAre, At
  <2> QED
    BY <1>4, <2>1 DEF PositionsAre, At
<1>7. OnePerPosition'
  <2>1. ASSUME NEW i \in Ids, NEW j \in Ids,
               posts'[i].board = posts'[j].board, posts'[i].pos = posts'[j].pos,
               posts'[i].to = posts'[j].to, i # j
        PROVE  posts'[i].board # Mail /\ (posts'[i].gone \/ posts'[j].gone)
    <3>1. posts[i].board # Mail /\ (posts[i].gone \/ posts[j].gone)
      BY <1>1, <2>1 DEF PostsMarked, OnePerPosition
    <3> QED
      BY <3>1 DEF PostsMarked
  <2> QED
    BY <1>4, <2>1 DEF OnePerPosition
<1>8. ASSUME NEW n, NewIn(posts', n) PROVE NewIn(posts, n)
  <2>1. PICK i \in DOMAIN posts' : /\ posts'[i].board = Mail /\ posts'[i].to = n
                                  /\ posts'[i].new
    BY <1>8 DEF NewIn, RowsOf
  <2>2. i \in DOMAIN posts
    BY <1>4 DEF Ids
  <2> QED
    BY <2>1, <2>2 DEF NewIn, RowsOf, PostsMarked, Ids
<1> QED
  BY <1>3, <1>4, <1>5, <1>6, <1>7, <1>8

\* A post is written.
LEMMA WritingKeeps ==
  ASSUME BoardInv, NEW b \in BoardIds, NEW to \in Authors \cup {Nobody},
         NEW by \in Authors \cup {Nobody}, Written(b, to, by)
  PROVE  /\ posts' \in Seq(Post) /\ PostsGrow
         /\ PositionsAre' /\ OnePerPosition'
         /\ \A i \in Ids : posts'[i] = posts[i]
         /\ \A n : NewIn(posts', n) => NewIn(posts, n) \/ (b = Mail /\ n = to)
<1> DEFINE top == Highest(IF b = Mail THEN RowsOf(posts, b, to) ELSE Listed(b, to))
           new == [board |-> b, to |-> to, by |-> by, gone |-> FALSE,
                   pos |-> NextPosition(b, to), new |-> b = Mail]
           n1 == Len(posts) + 1
<1>1. posts \in Seq(Post) /\ PositionsAre /\ OnePerPosition
  BY DEF BoardInv, BoardTypes
<1>2. Len(posts) \in Nat /\ Ids = 1 .. Len(posts)
  BY <1>1, PostIs
<1>3. \A i \in Ids : posts[i] \in Post /\ At(i) \in Nat \ {0} /\ At(i) <= Len(posts)
  BY <1>1, PostIs DEF PositionsAre
<1>4. RowsOf(posts, b, to) \subseteq Ids /\ Listed(b, to) \subseteq Ids
  BY RowsAre DEF RowsOf, Listed, Ids
<1>5. /\ top \in 0 .. Len(posts)
      /\ \A i \in (IF b = Mail THEN RowsOf(posts, b, to) ELSE Listed(b, to)) : At(i) <= top
  BY <1>1, <1>3, <1>4, HighestIs
<1>6. new.pos = top + 1
  BY RowsAre DEF NextPosition
<1>7. posts' = Append(posts, new)
  BY DEF Written
<1>8. top \in Nat /\ top <= Len(posts)
  BY <1>2, <1>5
<1> HIDE DEF top
<1>9. new \in Post
  <2>1. NextPosition(b, to) \in Nat \ {0}
    BY <1>6, <1>8
  <2> QED
    BY <2>1 DEF Post
<1>10. /\ new.board = b /\ new.to = to /\ ~new.gone /\ (new.new <=> b = Mail)
       /\ new.pos = top + 1
  BY <1>6
<1> HIDE DEF new
<1>11. /\ posts' \in Seq(Post) /\ Len(posts') = n1 /\ DOMAIN posts' = 1 .. n1
       /\ \A i \in 1 .. Len(posts) : posts'[i] = posts[i]
       /\ posts'[n1] = new
  BY <1>1, <1>2, <1>7, <1>9, AppendProperties
<1>12. \A i \in Ids' : i \in Ids \/ i = n1
  BY <1>2, <1>11 DEF Ids
<1>13. \A i \in Ids : i \in Ids' /\ i # n1 /\ posts'[i] = posts[i]
  BY <1>2, <1>11 DEF Ids
<1>14. PostsGrow
  BY <1>13 DEF PostsGrow
<1>15. PositionsAre'
  <2>1. ASSUME NEW i \in Ids
        PROVE  posts'[i].pos <= Len(posts') /\ (posts'[i].gone => ~posts'[i].new)
    <3>1. /\ posts[i].pos <= Len(posts) /\ posts[i].pos \in Nat
          /\ (posts[i].gone => ~posts[i].new)
      BY <1>1, <1>3 DEF PositionsAre, At
    <3> QED
      BY <1>2, <1>11, <1>13, <3>1
  <2>2. posts'[n1].pos <= Len(posts') /\ (posts'[n1].gone => ~posts'[n1].new)
    BY <1>2, <1>8, <1>10, <1>11
  <2> QED
    BY <1>12, <2>1, <2>2 DEF PositionsAre, At
<1>16. OnePerPosition'
  <2>1. ASSUME NEW i \in Ids,
               posts[i].board = b, posts[i].pos = new.pos, posts[i].to = to
        PROVE  b # Mail /\ posts[i].gone
    <3>1. i \in RowsOf(posts, b, to)
      BY <2>1 DEF RowsOf, Ids
    <3>2. ~(At(i) <= top)
      BY <1>3, <1>8, <1>10, <2>1 DEF At
    <3>3. b # Mail
      BY <1>5, <3>1, <3>2
    <3>4. i \notin Listed(b, to)
      BY <1>5, <3>2, <3>3
    <3> QED
      BY <3>1, <3>3, <3>4, RowsAre DEF Listed
  <2>2. ASSUME NEW i \in Ids', NEW j \in Ids',
               posts'[i].board = posts'[j].board, posts'[i].pos = posts'[j].pos,
               posts'[i].to = posts'[j].to, i # j
        PROVE  posts'[i].board # Mail /\ (posts'[i].gone \/ posts'[j].gone)
    <3>1. CASE i \in Ids /\ j \in Ids
      BY <1>1, <1>13, <2>2, <3>1 DEF OnePerPosition
    <3>2. CASE i = n1 /\ j \in Ids
      <4>1. posts[j].board = b /\ posts[j].pos = new.pos /\ posts[j].to = to
        BY <1>10, <1>11, <1>13, <2>2, <3>2
      <4> QED
        BY <1>10, <1>11, <1>13, <2>1, <3>2, <4>1
    <3>3. CASE j = n1 /\ i \in Ids
      <4>1. posts[i].board = b /\ posts[i].pos = new.pos /\ posts[i].to = to
        BY <1>10, <1>11, <1>13, <2>2, <3>3
      <4> QED
        BY <1>10, <1>11, <1>13, <2>1, <3>3, <4>1
    <3> QED
      BY <1>12, <2>2, <3>1, <3>2, <3>3
  <2> QED
    BY <2>2 DEF OnePerPosition
<1>17. ASSUME NEW n, NewIn(posts', n) PROVE NewIn(posts, n) \/ (b = Mail /\ n = to)
  <2>1. PICK i \in Ids' : /\ posts'[i].board = Mail /\ posts'[i].to = n
                          /\ posts'[i].new
    BY <1>17 DEF NewIn, RowsOf, Ids
  <2>2. CASE i \in Ids
    BY <1>13, <2>1, <2>2 DEF NewIn, RowsOf, Ids
  <2>3. CASE i = n1
    BY <1>10, <1>11, <2>1, <2>3
  <2> QED
    BY <1>12, <2>2, <2>3
<1> QED
  BY <1>11, <1>13, <1>14, <1>15, <1>16, <1>17

----------------------------------------------------------------------------
(* Boards: requests and answers.                                           *)

\* The first of a queue, and what comes behind it.
LEMMA TakenIs ==
  ASSUME NEW S, NEW s \in Seq(S), s # <<>>
  PROVE  /\ Head(s) \in S /\ Head(s) = s[1] /\ 1 \in DOMAIN s
         /\ Tail(s) \in Seq(S)
         /\ \A k \in DOMAIN Tail(s) : k + 1 \in DOMAIN s /\ Tail(s)[k] = s[k + 1]
         /\ \A k \in DOMAIN s : k > 1 => k - 1 \in DOMAIN Tail(s) /\ Tail(s)[k - 1] = s[k]
<1>1. Len(s) \in Nat \ {0} /\ DOMAIN s = 1 .. Len(s)
  BY LenProperties, EmptySeq
<1>2. /\ Head(s) \in S /\ Tail(s) \in Seq(S)
      /\ Len(Tail(s)) = Len(s) - 1
      /\ \A i \in 1 .. Len(Tail(s)) : Tail(s)[i] = s[i + 1]
  BY HeadTailProperties
<1>3. DOMAIN Tail(s) = 1 .. Len(s) - 1
  BY <1>2
<1>4. Head(s) = s[1] /\ 1 \in DOMAIN s
  BY <1>1
<1>5. ASSUME NEW k \in DOMAIN Tail(s)
      PROVE  k + 1 \in DOMAIN s /\ Tail(s)[k] = s[k + 1]
  BY <1>1, <1>2, <1>3
<1>6. ASSUME NEW k \in DOMAIN s, k > 1
      PROVE  k - 1 \in DOMAIN Tail(s) /\ Tail(s)[k - 1] = s[k]
  <2>1. k - 1 \in DOMAIN Tail(s) /\ (k - 1) + 1 = k
    BY <1>1, <1>3, <1>6
  <2> QED
    BY <1>5, <2>1
<1> QED
  BY <1>2, <1>4, <1>5, <1>6

\* A queue with others behind it.
LEMMA QueueIs ==
  ASSUME NEW S, NEW s \in Seq(S), NEW t \in Seq(S)
  PROVE  /\ s \o t \in Seq(S)
         /\ \A k \in DOMAIN s : k \in DOMAIN (s \o t) /\ (s \o t)[k] = s[k]
         /\ \A k \in DOMAIN t : /\ Len(s) + k \in DOMAIN (s \o t)
                                /\ (s \o t)[Len(s) + k] = t[k]
         /\ \A k \in DOMAIN (s \o t) :
              k \in DOMAIN s \/ (k - Len(s) \in DOMAIN t /\ (s \o t)[k] = t[k - Len(s)])
         /\ \A k \in DOMAIN s : k <= Len(s)
<1> DEFINE st == s \o t
<1>1. /\ Len(s) \in Nat /\ DOMAIN s = 1 .. Len(s)
      /\ Len(t) \in Nat /\ DOMAIN t = 1 .. Len(t)
  BY LenProperties
<1>2. /\ st \in Seq(S) /\ Len(st) = Len(s) + Len(t)
      /\ \A i \in 1 .. Len(s) + Len(t) :
           st[i] = IF i <= Len(s) THEN s[i] ELSE t[i - Len(s)]
  BY ConcatProperties
<1> HIDE DEF st
<1>3. DOMAIN st = 1 .. Len(s) + Len(t)
  BY <1>2
<1>4. \A k \in DOMAIN s : k \in DOMAIN st /\ st[k] = s[k] /\ k <= Len(s)
  BY <1>1, <1>2, <1>3
<1>5. ASSUME NEW k \in DOMAIN t
      PROVE  Len(s) + k \in DOMAIN st /\ st[Len(s) + k] = t[k]
  <2>1. /\ Len(s) + k \in 1 .. Len(s) + Len(t) /\ ~(Len(s) + k <= Len(s))
        /\ (Len(s) + k) - Len(s) = k
    BY <1>1
  <2> QED
    BY <1>2, <1>3, <2>1
<1>6. ASSUME NEW k \in DOMAIN st
      PROVE  k \in DOMAIN s \/ (k - Len(s) \in DOMAIN t /\ st[k] = t[k - Len(s)])
  <2>1. k \in 1 .. Len(s) + Len(t)
    BY <1>3
  <2>2. CASE k <= Len(s)
    BY <1>1, <2>1, <2>2
  <2>3. CASE ~(k <= Len(s))
    BY <1>1, <1>2, <2>1, <2>3
  <2> QED
    BY <2>2, <2>3
<1> QED
  BY <1>2, <1>4, <1>5, <1>6 DEF st

\* The request that is taken, and those behind it.
LEMMA RequestTaken ==
  ASSUME BoardInv, NEW kind, Asked(kind), Taken, PostsGrow
  PROVE  /\ Head(asks) \in Request /\ Head(asks).kind = kind
         /\ kind = "delete" =>
              /\ Head(asks).more.line \in RowsOf(posts, Head(asks).board, Head(asks).name)
              /\ Head(asks).pos = At(Head(asks).more.line)
         /\ asks' \in Seq(Request) /\ LinesAreAsked'
<1>1. asks \in Seq(Request) /\ asks # <<>> /\ Head(asks).kind = kind /\ LinesAreAsked
  BY DEF BoardInv, BoardTypes, Asked
<1>2. /\ Head(asks) \in Request /\ Head(asks) = asks[1] /\ 1 \in DOMAIN asks
      /\ asks' \in Seq(Request)
      /\ \A k \in DOMAIN asks' : k + 1 \in DOMAIN asks /\ asks'[k] = asks[k + 1]
  BY <1>1, TakenIs DEF Taken
<1>3. ASSUME NEW k \in DOMAIN asks, asks[k].kind = "delete"
      PROVE  /\ asks[k].more.line \in RowsOf(posts, asks[k].board, asks[k].name)
             /\ asks[k].pos = At(asks[k].more.line)
  BY <1>1, <1>3 DEF LinesAreAsked
<1>4. ASSUME NEW k \in DOMAIN asks', asks'[k].kind = "delete"
      PROVE  /\ asks'[k].more.line \in RowsOf(posts', asks'[k].board, asks'[k].name)
             /\ asks'[k].pos = posts'[asks'[k].more.line].pos
  <2>1. PICK l \in DOMAIN asks : asks'[k] = asks[l]
    BY <1>2
  <2>2. /\ asks[l].more.line \in RowsOf(posts, asks[l].board, asks[l].name)
        /\ asks[l].pos = At(asks[l].more.line)
    BY <1>3, <1>4, <2>1
  <2>3. asks[l].more.line \in Ids
    BY <2>2 DEF RowsOf, Ids
  <2>4. RowsOf(posts, asks[l].board, asks[l].name) \subseteq {i \in Ids' :
          posts'[i].board = asks[l].board
             /\ (asks[l].board = Mail => posts'[i].to = asks[l].name)}
    BY DEF PostsGrow, RowsOf, Ids
  <2>5. /\ asks[l].more.line \in {i \in Ids' :
             posts'[i].board = asks[l].board
             /\ (asks[l].board = Mail => posts'[i].to = asks[l].name)}
        /\ asks[l].pos = posts'[asks[l].more.line].pos
    BY <2>2, <2>3, <2>4 DEF PostsGrow, At
  <2> QED
    BY <2>1, <2>5 DEF RowsOf, Ids
<1>5. LinesAreAsked'
  BY <1>4 DEF LinesAreAsked, At, RowsOf
<1> QED
  BY <1>1, <1>2, <1>3, <1>5

\* The flag of a window, or the news under way.
FlagKnown(ps, rs, dk, ms, f) ==
  dk[f].name # Nobody /\ NewIn(ps, dk[f].name) /\ ~dk[f].flag
  => f \in ms \/ NewsIn(rs, 1, dk[f].name)

\* This is what NewMailIsFlagged says of each window.
LEMMA FlagsKnown ==
  ASSUME NEW rs \in Seq(MailAnswer), NEW n
  PROVE  (\E k \in 1 .. Len(rs) : rs[k].what = "newmp" /\ rs[k].name = n)
         <=> NewsIn(rs, 1, n)
<1>1. Len(rs) \in Nat /\ DOMAIN rs = 1 .. Len(rs)
  BY LenProperties
<1> QED
  BY <1>1 DEF NewsIn

\* What is to be shown of each window after a step.
LEMMA NewFlagged ==
  ASSUME \A f \in Socks :
           desk'[f].name # Nobody /\ NewIn(posts', desk'[f].name) /\ ~desk'[f].flag
             /\ f \notin misled'
           => NewsIn(replies', 1, desk'[f].name),
         \A n : NewsIn(replies', 1, n) =>
           \E k \in 1 .. Len(replies') : replies'[k].what = "newmp" /\ replies'[k].name = n
  PROVE  NewMailIsFlagged'
<1>1. ASSUME NEW f \in Socks, desk'[f].name # Nobody, HasNew(desk[f].name)', ~desk'[f].flag
      PROVE  f \in misled' \/ \E k \in 1 .. Len(replies') :
                              replies'[k].what = "newmp" /\ replies'[k].name = desk'[f].name
  <2>1. NewIn(posts', desk'[f].name)
    BY <1>1 DEF HasNew, Rows, NewIn, RowsOf, Ids
  <2> QED
    BY <1>1, <2>1
<1> QED
  BY <1>1 DEF NewMailIsFlagged

\* The char server takes a request and sends answers that say what they show,
\* and news of what is new.
LEMMA ServingKeeps ==
  ASSUME BoardInv, NEW kind, Asked(kind), Taken, PostsGrow,
         posts' \in Seq(Post), PositionsAre', OnePerPosition',
         UNCHANGED <<desk, misled>>,
         NEW new \in Seq(MailAnswer), replies' = replies \o new,
         \A k \in DOMAIN new : new[k].lines \subseteq RowsOf(posts, new[k].board, new[k].name),
         \A n : NewIn(posts', n) => \/ NewIn(posts, n)
                              \/ \E k \in DOMAIN new : new[k].what = "newmp" /\ new[k].name = n,
         \A k \in DOMAIN new : new[k].what = "setmp" => ~NewIn(posts', new[k].name)
  PROVE  BoardInv'
<1>1. /\ replies \in Seq(MailAnswer) /\ desk \in [Socks -> Desk] /\ misled \subseteq Socks
      /\ RowsAreShown /\ NewMailIsFlagged /\ NewsComesBehind
  BY DEF BoardInv, BoardTypes
<1>2. asks' \in Seq(Request) /\ LinesAreAsked'
  BY RequestTaken
<1>3. /\ replies' \in Seq(MailAnswer)
      /\ \A k \in DOMAIN replies : k \in DOMAIN replies' /\ replies'[k] = replies[k]
      /\ \A k \in DOMAIN new : /\ Len(replies) + k \in DOMAIN replies'
                               /\ replies'[Len(replies) + k] = new[k]
      /\ \A k \in DOMAIN replies' :
           k \in DOMAIN replies \/ (k - Len(replies) \in DOMAIN new
                                    /\ replies'[k] = new[k - Len(replies)])
  BY <1>1, QueueIs
<1>4. /\ Len(replies) \in Nat /\ DOMAIN replies = 1 .. Len(replies)
      /\ Len(new) \in Nat /\ DOMAIN new = 1 .. Len(new)
  BY <1>1
<1>5. BoardTypes'
  BY <1>1, <1>2, <1>3 DEF BoardTypes
<1>6. RowsAreShown'
  <2>1. ASSUME NEW f \in Socks
        PROVE  desk'[f].lines \subseteq RowsOf(posts', desk'[f].board, desk'[f].name)
    <3>1. desk[f].lines \subseteq RowsOf(posts, desk[f].board, desk[f].name)
      BY <1>1 DEF RowsAreShown
    <3> QED
      BY <3>1, RowsGrow
  <2>2. ASSUME NEW k \in DOMAIN replies'
        PROVE  replies'[k].lines \subseteq RowsOf(posts', replies'[k].board, replies'[k].name)
    <3>1. replies'[k].lines \subseteq RowsOf(posts, replies'[k].board, replies'[k].name)
      <4>1. CASE k \in DOMAIN replies
        BY <1>1, <1>3, <4>1 DEF RowsAreShown
      <4>2. CASE k - Len(replies) \in DOMAIN new /\ replies'[k] = new[k - Len(replies)]
        BY <4>2
      <4> QED
        BY <1>3, <4>1, <4>2
    <3> QED
      BY <3>1, RowsGrow
  <2> QED
    BY <2>1, <2>2 DEF RowsAreShown, RowsOf
<1>7. ASSUME NEW k \in Nat, NEW n, NewsIn(replies, k, n) PROVE NewsIn(replies', k, n)
  BY <1>3, <1>7 DEF NewsIn
<1>8. ASSUME NEW k \in 0 .. Len(replies) + 1, NEW n, NewIn(posts', n), ~NewIn(posts, n)
      PROVE NewsIn(replies', k, n)
  <2>1. PICK m \in DOMAIN new : new[m].what = "newmp" /\ new[m].name = n
    BY <1>8
  <2>2. Len(replies) + m >= k
    BY <1>4
  <2> QED
    BY <1>3, <2>1, <2>2 DEF NewsIn
<1>9. NewMailIsFlagged'
  <2>1. ASSUME NEW f \in Socks, desk[f].name # Nobody, NewIn(posts', desk[f].name),
               ~desk[f].flag, f \notin misled
        PROVE  NewsIn(replies', 1, desk[f].name)
    <3>1. CASE NewIn(posts, desk[f].name)
      <4>1. \E k \in 1 .. Len(replies) :
              replies[k].what = "newmp" /\ replies[k].name = desk[f].name
        BY <1>1, <2>1, <3>1, RowsAre DEF NewMailIsFlagged
      <4>2. NewsIn(replies, 1, desk[f].name)
        BY <1>1, <4>1, FlagsKnown
      <4> QED
        BY <1>7, <4>2
    <3>2. CASE ~NewIn(posts, desk[f].name)
      <4>1. 1 \in 0 .. Len(replies) + 1
        BY <1>4
      <4> QED
        BY <1>8, <2>1, <3>2, <4>1
    <3> QED
      BY <3>1, <3>2
  <2>3. \A n : NewsIn(replies', 1, n) =>
          \E k \in 1 .. Len(replies') : replies'[k].what = "newmp" /\ replies'[k].name = n
    BY <1>3, FlagsKnown
  <2> QED
    BY <2>1, <2>3, NewFlagged
<1>10. NewsComesBehind'
  <2>1. ASSUME NEW k \in DOMAIN replies', replies'[k].what = "setmp",
               NewIn(posts', replies'[k].name)
        PROVE  NewsIn(replies', k, replies'[k].name)
    <3>1. CASE k \in DOMAIN replies /\ NewIn(posts, replies[k].name)
      <4>1. k \in Nat /\ replies'[k] = replies[k] /\ NewsIn(replies, k, replies[k].name)
        BY <1>1, <1>3, <1>4, <2>1, <3>1 DEF NewsComesBehind
      <4> QED
        BY <1>7, <4>1
    <3>2. CASE k \in DOMAIN replies /\ ~NewIn(posts, replies[k].name)
      <4>1. k \in 0 .. Len(replies) + 1 /\ replies'[k] = replies[k]
        BY <1>3, <1>4, <3>2
      <4> QED
        BY <1>8, <2>1, <3>2, <4>1
    <3>3. CASE k - Len(replies) \in DOMAIN new /\ replies'[k] = new[k - Len(replies)]
      BY <2>1, <3>3 DEF NewIn, RowsOf
    <3> QED
      BY <1>3, <3>1, <3>2, <3>3
  <2> QED
    BY <2>1 DEF NewsComesBehind, NewsIn, NewIn, RowsOf
<1> QED
  BY <1>2, <1>5, <1>6, <1>9, <1>10 DEF BoardInv

\* The map server takes an answer.
LEMMA AnswerTakenKeeps ==
  ASSUME BoardInv, replies # <<>>, replies' = Tail(replies),
         UNCHANGED <<posts, asks>>,
         desk' \in [Socks -> Desk], misled' \subseteq Socks,
         \A f \in Socks : desk'[f].lines \subseteq RowsOf(posts, desk'[f].board, desk'[f].name),
         \A f \in Socks :
           desk'[f].name # Nobody /\ NewIn(posts, desk'[f].name) /\ ~desk'[f].flag
           => f \in misled' \/ NewsIn(replies, 2, desk'[f].name)
  PROVE  BoardInv'
<1>1. /\ replies \in Seq(MailAnswer) /\ posts \in Seq(Post) /\ asks \in Seq(Request)
      /\ PositionsAre /\ OnePerPosition /\ LinesAreAsked
      /\ RowsAreShown /\ NewsComesBehind
  BY DEF BoardInv, BoardTypes
<1>2. /\ replies' \in Seq(MailAnswer)
      /\ \A k \in DOMAIN replies' : k + 1 \in DOMAIN replies /\ replies'[k] = replies[k + 1]
      /\ \A k \in DOMAIN replies : k > 1 =>
           k - 1 \in DOMAIN replies' /\ replies'[k - 1] = replies[k]
  BY <1>1, TakenIs
<1>3. /\ Len(replies) \in Nat /\ DOMAIN replies = 1 .. Len(replies)
      /\ Len(replies') \in Nat /\ DOMAIN replies' = 1 .. Len(replies')
  BY <1>1, <1>2
<1>4. BoardTypes'
  BY <1>1, <1>2 DEF BoardTypes
<1>5. PositionsAre' /\ OnePerPosition' /\ LinesAreAsked'
  BY <1>1 DEF PositionsAre, OnePerPosition, LinesAreAsked, RowsOf, At, Ids
<1>6. RowsAreShown'
  <2>1. \A k \in DOMAIN replies' :
          replies'[k].lines \subseteq RowsOf(posts, replies'[k].board, replies'[k].name)
    BY <1>1, <1>2 DEF RowsAreShown
  <2> QED
    BY <2>1 DEF RowsAreShown, RowsOf
<1>7. ASSUME NEW k \in Nat, NEW n, NewsIn(replies, k + 1, n), k >= 1 PROVE NewsIn(replies', k, n)
  <2>1. PICK m \in DOMAIN replies :
          m >= k + 1 /\ replies[m].what = "newmp" /\ replies[m].name = n
    BY <1>7 DEF NewsIn
  <2>2. m > 1 /\ m - 1 >= k
    BY <1>3, <1>7, <2>1
  <2>3. m - 1 \in DOMAIN replies' /\ replies'[m - 1] = replies[m]
    BY <1>2, <2>2
  <2> QED
    BY <2>1, <2>2, <2>3 DEF NewsIn
<1>8. NewMailIsFlagged'
  <2>1. ASSUME NEW f \in Socks, desk'[f].name # Nobody, NewIn(posts', desk'[f].name),
               ~desk'[f].flag, f \notin misled'
        PROVE  NewsIn(replies', 1, desk'[f].name)
    <3>1. NewsIn(replies, 1 + 1, desk'[f].name)
      BY <2>1
    <3> QED
      BY <1>7, <3>1
  <2>2. \A n : NewsIn(replies', 1, n) =>
          \E k \in 1 .. Len(replies') : replies'[k].what = "newmp" /\ replies'[k].name = n
    BY <1>2, FlagsKnown
  <2> QED
    BY <2>1, <2>2, NewFlagged
<1>9. NewsComesBehind'
  <2>1. ASSUME NEW k \in DOMAIN replies', replies'[k].what = "setmp", NewIn(posts, replies'[k].name)
        PROVE  NewsIn(replies', k, replies'[k].name)
    <3>1. /\ k \in Nat /\ k >= 1 /\ k + 1 \in DOMAIN replies
          /\ replies'[k] = replies[k + 1]
      BY <1>2, <1>3
    <3>2. NewsIn(replies, k + 1, replies'[k].name)
      BY <1>1, <2>1, <3>1 DEF NewsComesBehind
    <3> QED
      BY <1>7, <3>1, <3>2
  <2> QED
    BY <2>1 DEF NewsComesBehind, NewsIn, NewIn, RowsOf
<1> QED
  BY <1>4, <1>5, <1>6, <1>8, <1>9 DEF BoardInv

----------------------------------------------------------------------------
(* Boards: windows.                                                        *)

\* What the flags of windows say before a step.
LEMMA FlagsAre ==
  ASSUME BoardInv
  PROVE  \A f \in Socks :
           desk[f].name # Nobody /\ NewIn(posts, desk[f].name) /\ ~desk[f].flag
             /\ f \notin misled
           => NewsIn(replies, 1, desk[f].name)
<1>1. replies \in Seq(MailAnswer) /\ NewMailIsFlagged
  BY DEF BoardInv, BoardTypes
<1>2. ASSUME NEW f \in Socks, desk[f].name # Nobody, NewIn(posts, desk[f].name),
             ~desk[f].flag, f \notin misled
      PROVE  NewsIn(replies, 1, desk[f].name)
  <2>1. \E k \in 1 .. Len(replies) :
          replies[k].what = "newmp" /\ replies[k].name = desk[f].name
    BY <1>1, <1>2, RowsAre DEF NewMailIsFlagged
  <2> QED
    BY <1>1, <2>1, FlagsKnown
<1> QED
  BY <1>2

\* Windows change, and nothing else.
LEMMA WindowsKeep ==
  ASSUME BoardInv, UNCHANGED <<posts, asks, replies>>,
         desk' \in [Socks -> Desk], misled' \subseteq Socks,
         \A f \in Socks : desk'[f].lines \subseteq RowsOf(posts, desk'[f].board, desk'[f].name),
         \A f \in Socks :
           desk'[f].name # Nobody /\ NewIn(posts, desk'[f].name) /\ ~desk'[f].flag
             /\ f \notin misled'
           => NewsIn(replies, 1, desk'[f].name)
  PROVE  BoardInv'
<1>1. /\ replies \in Seq(MailAnswer) /\ posts \in Seq(Post) /\ asks \in Seq(Request)
      /\ PositionsAre /\ OnePerPosition /\ LinesAreAsked
      /\ RowsAreShown /\ NewsComesBehind
  BY DEF BoardInv, BoardTypes
<1>2. BoardTypes'
  BY <1>1 DEF BoardTypes
<1>3. PositionsAre' /\ OnePerPosition' /\ LinesAreAsked' /\ NewsComesBehind'
  BY <1>1 DEF PositionsAre, OnePerPosition, LinesAreAsked, At, Ids, NewsComesBehind
<1>4. RowsAreShown'
  BY <1>1 DEF RowsAreShown
<1>5. NewMailIsFlagged'
  <2>1. \A n : NewsIn(replies, 1, n) =>
          \E k \in 1 .. Len(replies) : replies[k].what = "newmp" /\ replies[k].name = n
    BY <1>1, FlagsKnown
  <2> QED
    BY <2>1, NewFlagged
<1> QED
  BY <1>2, <1>3, <1>4, <1>5 DEF BoardInv

\* One window is written.
LEMMA DeskIs ==
  ASSUME desk \in [Socks -> Desk], NEW f \in Socks, NEW d \in Desk
  PROVE  /\ [desk EXCEPT ![f] = d] \in [Socks -> Desk]
         /\ [desk EXCEPT ![f] = d][f] = d
         /\ \A g \in Socks : g # f => [desk EXCEPT ![f] = d][g] = desk[g]
  OBVIOUS

\* The flag of a window is written.
LEMMA FlagIs ==
  ASSUME NEW d \in Desk, NEW b \in BOOLEAN
  PROVE  /\ [d EXCEPT !.flag = b] \in Desk /\ [d EXCEPT !.flag = b].flag = b
         /\ [d EXCEPT !.flag = b].name = d.name /\ [d EXCEPT !.flag = b].board = d.board
         /\ [d EXCEPT !.flag = b].lines = d.lines
  BY DEF Desk

Flagged(d, b) == [d EXCEPT !.flag = b]

\* The same of a window by its name.
LEMMA FlaggedIs ==
  ASSUME NEW d \in Desk, NEW b \in BOOLEAN
  PROVE  /\ Flagged(d, b) \in Desk /\ Flagged(d, b).flag = b
         /\ Flagged(d, b).name = d.name /\ Flagged(d, b).board = d.board
         /\ Flagged(d, b).lines = d.lines
  BY FlagIs DEF Flagged

\* A window that shows the lines l of the board b, and what it keeps.
Shown(o, b, l) == [o EXCEPT !.board = b, !.lines = l]

\* What a window shows is written.
LEMMA LinesIs ==
  ASSUME NEW o \in Desk, NEW b \in BoardIds, NEW l \in SUBSET Nat
  PROVE  /\ Shown(o, b, l) \in Desk
         /\ Shown(o, b, l).board = b /\ Shown(o, b, l).lines = l
         /\ Shown(o, b, l).name = o.name /\ Shown(o, b, l).flag = o.flag
  BY DEF Desk, Shown

\* Nobody's window.
LEMMA NoDeskIs == NoDesk \in Desk /\ NoDesk.lines = {} /\ NoDesk.name = Nobody
  BY DEF NoDesk, Desk, BoardIds

\* The window of a player who just came.
LEMMA NewDeskIs ==
  ASSUME NEW n \in Authors, NEW b \in BOOLEAN
  PROVE  LET e == [NoDesk EXCEPT !.name = n, !.flag = b]
         IN  e \in Desk /\ e.lines = {} /\ e.name = n /\ e.flag = b
<1> DEFINE d == [NoDesk EXCEPT !.name = n]
           e == [NoDesk EXCEPT !.name = n, !.flag = b]
<1>1. d \in Desk /\ d.lines = {} /\ d.name = n
  BY NoDeskIs DEF Desk
<1>2. e = [d EXCEPT !.flag = b]
  OBVIOUS
<1> HIDE DEF d, e
<1>3. e \in Desk /\ e.lines = {} /\ e.name = n /\ e.flag = b
  BY <1>1, <1>2, FlagIs
<1> QED
  BY <1>3 DEF e

\* One window changes.
LEMMA WindowKeeps ==
  ASSUME BoardInv, UNCHANGED <<posts, asks, replies>>,
         NEW f \in Socks, NEW d \in Desk, desk' = [desk EXCEPT ![f] = d],
         misled' \in {misled, misled \ {f}},
         d.lines \subseteq RowsOf(posts, d.board, d.name),
         d.name # Nobody => d.flag = NewIn(posts, d.name)
  PROVE  BoardInv'
<1>1. desk \in [Socks -> Desk] /\ misled \subseteq Socks /\ RowsAreShown
  BY DEF BoardInv, BoardTypes
<1>2. /\ desk' \in [Socks -> Desk] /\ desk'[f] = d
      /\ \A g \in Socks : g # f => desk'[g] = desk[g]
  BY <1>1, DeskIs
<1>3. misled' \subseteq Socks /\ \A g \in Socks : g # f => (g \in misled => g \in misled')
  BY <1>1
<1>4. ASSUME NEW g \in Socks
      PROVE  desk'[g].lines \subseteq RowsOf(posts, desk'[g].board, desk'[g].name)
  BY <1>1, <1>2 DEF RowsAreShown
<1>5. ASSUME NEW g \in Socks, desk'[g].name # Nobody, NewIn(posts, desk'[g].name),
             ~desk'[g].flag, g \notin misled'
      PROVE  NewsIn(replies, 1, desk'[g].name)
  <2>1. g # f
    BY <1>2, <1>5
  <2> QED
    BY <1>2, <1>3, <1>5, <2>1, FlagsAre
<1> QED
  BY <1>2, <1>3, <1>4, <1>5, WindowsKeep

\* A player comes.
LEMMA LoginStep ==
  ASSUME BoardInv, NEW f \in Socks, NEW n \in Authors, Login(f, n)
  PROVE  BoardInv'
<1> DEFINE d == [NoDesk EXCEPT !.name = n, !.flag = HasNew(n)]
<1>1. HasNew(n) \in BOOLEAN
  BY DEF HasNew
<1>2. d \in Desk /\ d.lines = {} /\ d.name = n /\ d.flag = HasNew(n)
  BY <1>1, NewDeskIs
<1>3. desk' = [desk EXCEPT ![f] = d] /\ UNCHANGED <<posts, asks, replies, misled>>
  BY DEF Login
<1> HIDE DEF d
<1>4. d.flag = NewIn(posts, d.name)
  BY <1>2, RowsAre
<1> QED
  BY <1>2, <1>3, <1>4, WindowKeeps

\* A player goes.
LEMMA LogoutStep ==
  ASSUME BoardInv, NEW f \in Socks, Logout(f)
  PROVE  BoardInv'
<1>1. /\ desk' = [desk EXCEPT ![f] = NoDesk] /\ misled' = misled \ {f}
      /\ UNCHANGED <<posts, asks, replies>>
  BY DEF Logout
<1> QED
  BY <1>1, NoDeskIs, WindowKeeps

\* The minute's look for new mail.
LEMMA TimerStep ==
  ASSUME BoardInv, NEW f \in Socks, pc_timer(f)
  PROVE  BoardInv'
<1> DEFINE d == [desk[f] EXCEPT !.flag = pc_requestmp(f)]
<1>1. desk \in [Socks -> Desk] /\ RowsAreShown
  BY DEF BoardInv, BoardTypes
<1>2. pc_requestmp(f) \in BOOLEAN /\ pc_requestmp(f) = NewIn(posts, desk[f].name)
  BY RowsAre DEF pc_requestmp, HasNew
<1>3. /\ d \in Desk /\ d.flag = pc_requestmp(f) /\ d.name = desk[f].name
      /\ d.board = desk[f].board /\ d.lines = desk[f].lines
  BY <1>1, <1>2, FlagIs
<1>4. /\ desk' = [desk EXCEPT ![f] = d] /\ misled' = misled \ {f}
      /\ UNCHANGED <<posts, asks, replies>>
  BY DEF pc_timer
<1> HIDE DEF d
<1>5. d.lines \subseteq RowsOf(posts, d.board, d.name)
  BY <1>1, <1>3 DEF RowsAreShown
<1> QED
  BY <1>2, <1>3, <1>4, <1>5, WindowKeeps

----------------------------------------------------------------------------
(* Boards: what players ask.                                               *)

\* A request is sent; one to delete names a row and its position.
LEMMA PlayerAskKeeps ==
  ASSUME BoardInv, NEW f \in Socks,
         NEW kind \in {"show", "read", "post", "write", "delete"},
         NEW b \in BoardIds, NEW p \in Nat, NEW more \in Mores,
         Ask(f, kind, b, p, more),
         kind = "delete" => /\ more.line \in RowsOf(posts, b, desk[f].name)
                            /\ p = At(more.line)
  PROVE  BoardInv'
<1> DEFINE r == [fd |-> f, name |-> desk[f].name, kind |-> kind,
                 board |-> b, pos |-> p, more |-> more]
<1>1. /\ replies \in Seq(MailAnswer) /\ posts \in Seq(Post) /\ asks \in Seq(Request)
      /\ desk \in [Socks -> Desk]
      /\ PositionsAre /\ OnePerPosition /\ LinesAreAsked
      /\ RowsAreShown /\ NewsComesBehind /\ NewMailIsFlagged
  BY DEF BoardInv, BoardTypes
<1>2. /\ desk[f].name # Nobody /\ asks' = Append(asks, r)
      /\ UNCHANGED <<posts, desk, replies, misled>>
  BY DEF Ask
<1>3. desk[f].name \in Authors
  BY <1>1, <1>2 DEF Desk
<1>4. /\ r \in Request /\ r.kind = kind /\ r.more = more /\ r.pos = p
      /\ r.board = b /\ r.name = desk[f].name
  BY <1>3 DEF Request
<1> HIDE DEF r
<1>5. /\ Len(asks) \in Nat /\ DOMAIN asks = 1 .. Len(asks)
      /\ asks' \in Seq(Request) /\ Len(asks') = Len(asks) + 1
      /\ \A k \in 1 .. Len(asks) : asks'[k] = asks[k]
      /\ asks'[Len(asks) + 1] = r
  BY <1>1, <1>2, <1>4, AppendProperties
<1>6. \A k \in DOMAIN asks' : \/ k \in DOMAIN asks /\ asks'[k] = asks[k]
                              \/ asks'[k] = r
  BY <1>5
<1>7. LinesAreAsked'
  <2>1. ASSUME NEW k \in DOMAIN asks', asks'[k].kind = "delete"
        PROVE  /\ asks'[k].more.line \in RowsOf(posts, asks'[k].board, asks'[k].name)
               /\ asks'[k].pos = At(asks'[k].more.line)
    BY <1>1, <1>4, <1>6, <2>1 DEF LinesAreAsked
  <2> QED
    BY <1>2, <2>1 DEF LinesAreAsked, At
<1>8. BoardTypes'
  BY <1>1, <1>2, <1>5 DEF BoardInv, BoardTypes
<1>9. PositionsAre' /\ OnePerPosition' /\ RowsAreShown' /\ NewsComesBehind'
  BY <1>1, <1>2 DEF PositionsAre, OnePerPosition, RowsAreShown, At, Ids, NewsComesBehind
<1>10. NewMailIsFlagged'
  BY <1>1, <1>2 DEF NewMailIsFlagged, HasNew, Rows, Ids
<1> QED
  BY <1>7, <1>8, <1>9, <1>10 DEF BoardInv

\* Lists and bodies are asked for, posts and mails are sent.
LEMMA AskStep ==
  ASSUME BoardsAssumption, BoardInv, NEW f \in Socks,
         \/ boards_post(f)
         \/ \E to \in Authors \cup {Nobody} : nmail_write(f, to)
         \/ \E b \in BoardIds :
              \/ \E page \in 0..1 : boards_showposts(f, b, page)
              \/ \E p \in 1..MaxPosts : boards_readpost(f, b, p)
  PROVE  BoardInv'
<1>1. CASE boards_post(f)
  BY <1>1, PlayerAskKeeps DEF boards_post, BoardIds, Mores
<1>2. ASSUME NEW to \in Authors \cup {Nobody}, nmail_write(f, to) PROVE BoardInv'
  BY <1>2, PlayerAskKeeps DEF nmail_write, BoardIds, Mores
<1>3. ASSUME NEW b \in BoardIds, NEW page \in 0..1, boards_showposts(f, b, page)
      PROVE  BoardInv'
  <2>1. page \in Nat /\ page \in Mores
    BY DEF Mores
  <2> QED
    BY <1>3, <2>1, PlayerAskKeeps DEF boards_showposts
<1>4. ASSUME NEW b \in BoardIds, NEW p \in 1..MaxPosts, boards_readpost(f, b, p)
      PROVE  BoardInv'
  <2>1. p \in Nat /\ 0 \in Mores
    BY DEF BoardsAssumption, Mores
  <2> QED
    BY <1>4, <2>1, PlayerAskKeeps DEF boards_readpost
<1> QED
  BY <1>1, <1>2, <1>3, <1>4

\* A line is chosen to be deleted.
LEMMA AskDeleteStep ==
  ASSUME BoardInv, NEW f \in Socks, NEW i \in Ids, NEW may \in BOOLEAN,
         boards_delete(f, i, may)
  PROVE  BoardInv'
<1> DEFINE more == [candel |-> may, line |-> i]
<1>1. desk \in [Socks -> Desk] /\ posts \in Seq(Post) /\ RowsAreShown
  BY DEF BoardInv, BoardTypes
<1>2. i \in desk[f].lines /\ Ask(f, "delete", desk[f].board, At(i), more)
  BY DEF boards_delete
<1>3. i \in RowsOf(posts, desk[f].board, desk[f].name)
  BY <1>1, <1>2 DEF RowsAreShown
<1>4. desk[f].board \in BoardIds
  BY <1>1 DEF Desk
<1>5. At(i) \in Nat /\ i \in Nat
  BY <1>1, PostIs
<1>6. more \in Mores /\ more.line = i
  BY <1>5 DEF Mores
<1> HIDE DEF more
<1> QED
  BY <1>2, <1>3, <1>4, <1>5, <1>6, PlayerAskKeeps

----------------------------------------------------------------------------
(* Boards: the char server.                                                *)

\* Posts that were there stay what they were.
LEMMA PostsLeft ==
  ASSUME \A i \in Ids : posts'[i] = posts[i]
  PROVE  DeletesTheLine /\ OnlyReadIsMarked
  BY DEF DeletesTheLine, OnlyReadIsMarked

\* What an answer is.
LEMMA AnswerIs ==
  ASSUME NEW a \in Request, NEW b \in BoardIds, NEW lines \in SUBSET Nat,
         NEW what \in {"list", "body", "said", "setmp", "newmp"}
  PROVE  /\ To(a, what, b, lines) \in MailAnswer
         /\ To(a, what, b, lines).what = what /\ To(a, what, b, lines).board = b
         /\ To(a, what, b, lines).lines = lines /\ To(a, what, b, lines).name = a.name
         /\ To(a, what, b, lines).fd = a.fd
  BY DEF To, MailAnswer, Request

\* A queue of one.
LEMMA OneAnswer ==
  ASSUME NEW r \in MailAnswer
  PROVE  /\ <<r>> \in Seq(MailAnswer) /\ 1 \in DOMAIN <<r>>
         /\ \A k \in DOMAIN <<r>> : <<r>>[k] = r
  OBVIOUS

\* Each of two answers is one of them.
LEMMA TwoAnswers ==
  ASSUME NEW r \in MailAnswer, NEW s \in MailAnswer
  PROVE  /\ <<r, s>> \in Seq(MailAnswer) /\ 1 \in DOMAIN <<r, s>> /\ 2 \in DOMAIN <<r, s>>
         /\ <<r, s>>[1] = r /\ <<r, s>>[2] = s
         /\ \A k \in DOMAIN <<r, s>> : <<r, s>>[k] = r \/ <<r, s>>[k] = s
  OBVIOUS

\* Two queues of one make one of two.
LEMMA TwoIsConcat ==
  ASSUME NEW r \in MailAnswer, NEW s \in MailAnswer
  PROVE  <<r>> \o <<s>> = <<r, s>>
<1> DEFINE x == <<r>>
           y == <<s>>
           z == <<r, s>>
<1>1. /\ x \in Seq(MailAnswer) /\ Len(x) = 1 /\ x[1] = r
      /\ y \in Seq(MailAnswer) /\ Len(y) = 1 /\ y[1] = s
      /\ z \in Seq(MailAnswer) /\ Len(z) = 2 /\ z[1] = r /\ z[2] = s
  OBVIOUS
<1> HIDE DEF x, y, z
<1>2. /\ x \o y \in Seq(MailAnswer) /\ Len(x \o y) = Len(x) + Len(y)
      /\ \A i \in 1 .. Len(x) + Len(y) :
           (x \o y)[i] = IF i <= Len(x) THEN x[i] ELSE y[i - Len(x)]
  BY <1>1, ConcatProperties
<1>3. Len(x \o y) = 2 /\ (x \o y)[1] = r /\ (x \o y)[2] = s
  BY <1>1, <1>2
<1>4. \A i \in 1 .. 2 : (x \o y)[i] = z[i]
  BY <1>1, <1>3
<1>5. x \o y = z
  BY <1>1, <1>2, <1>3, <1>4, SeqEqual
<1> QED
  BY <1>5 DEF x, y, z

\* The char server answers once, or twice, and posts stay as they are.
LEMMA AnsweringKeeps ==
  ASSUME BoardInv, NEW kind, Asked(kind), Taken,
         UNCHANGED <<posts, desk, misled>>,
         NEW r \in MailAnswer, replies' = Append(replies, r), r.what # "setmp",
         r.lines \subseteq RowsOf(posts, r.board, r.name)
  PROVE  BoardInv' /\ DeletesTheLine /\ OnlyReadIsMarked
<1>1. /\ replies \in Seq(MailAnswer) /\ posts \in Seq(Post)
      /\ PositionsAre /\ OnePerPosition
  BY DEF BoardInv, BoardTypes
<1>2. PostsGrow
  BY DEF PostsGrow, Ids
<1>3. posts' \in Seq(Post) /\ PositionsAre' /\ OnePerPosition'
  BY <1>1 DEF PositionsAre, OnePerPosition, Ids, At
<1> DEFINE new == <<r>>
<1>4. new \in Seq(MailAnswer) /\ \A k \in DOMAIN new : new[k] = r
  BY OneAnswer
<1>5. replies' = replies \o new
  BY <1>1, AppendIsConcat
<1> HIDE DEF new
<1>6. /\ \A k \in DOMAIN new : new[k].lines \subseteq RowsOf(posts, new[k].board, new[k].name)
      /\ \A k \in DOMAIN new : new[k].what = "setmp" => ~NewIn(posts', new[k].name)
  BY <1>4
<1>7. \A n : NewIn(posts', n) => \/ NewIn(posts, n)
                                \/ \E k \in DOMAIN new : new[k].what = "newmp" /\ new[k].name = n
  OBVIOUS
<1>8. BoardInv'
  BY <1>2, <1>3, <1>4, <1>5, <1>6, <1>7, ServingKeeps
<1> QED
  BY <1>8, PostsLeft

\* A list is read.
LEMMA ShowStep ==
  ASSUME BoardInv, mapif_parse_showposts
  PROVE  BoardInv' /\ DeletesTheLine /\ OnlyReadIsMarked
<1> DEFINE a == Head(asks)
           listed == Listed(a.board, a.name)
           above(i) == Cardinality({j \in listed : At(j) > At(i)})
           lines == {i \in listed : /\ above(i) >= a.more * PageSize
                                  /\ above(i) < (a.more + 1) * PageSize}
           r == To(a, "list", a.board, lines)
<1>1. /\ Asked("show") /\ Taken /\ UNCHANGED <<posts, desk, misled>>
      /\ replies' = Append(replies, r)
  BY DEF mapif_parse_showposts, Reply
<1>2. PostsGrow
  BY <1>1 DEF PostsGrow, Ids
<1>3. a \in Request
  BY <1>1, <1>2, RequestTaken
<1>4. a.board \in BoardIds
  BY <1>3 DEF Request
<1>5. posts \in Seq(Post)
  BY DEF BoardInv, BoardTypes
<1>6. lines \subseteq listed /\ listed \subseteq RowsOf(posts, a.board, a.name)
  BY RowsAre DEF Listed
<1>7. listed \subseteq Nat
  BY <1>5, PostIs DEF Listed, Rows
<1>8. lines \in SUBSET Nat /\ lines \subseteq RowsOf(posts, a.board, a.name)
  BY <1>6, <1>7
<1> HIDE DEF a, listed, lines
<1>9. /\ r \in MailAnswer /\ r.what = "list" /\ r.lines = lines /\ r.board = a.board
      /\ r.name = a.name
  BY <1>3, <1>4, <1>8, AnswerIs
<1> HIDE DEF r
<1>10. r.what # "setmp" /\ r.lines \subseteq RowsOf(posts, r.board, r.name)
  BY <1>8, <1>9
<1> QED
  BY <1>1, <1>9, <1>10, AnsweringKeeps

\* Which post is found: there is one, and a listed one at the position asked
\* for is the one.
LEMMA FoundIs ==
  ASSUME posts \in Seq(Post), \A i \in Ids : At(i) <= Len(posts),
         NEW listed, listed \subseteq Ids, listed # {}, NEW pos \in Nat,
         NEW from, from = IF pos > Highest(listed) THEN 1 ELSE pos,
         NEW i, i = CHOOSE j \in listed :
                      /\ At(j) >= from
                      /\ \A k \in listed : At(k) >= from => At(j) <= At(k)
  PROVE  i \in listed /\ \A j \in listed : At(j) = from => At(i) = from
<1>1. \A j \in listed : At(j) \in Nat \ {0}
  BY PostIs
<1>2. PICK top \in listed : At(top) = Highest(listed)
  BY HighestIs
<1>3. from \in Nat /\ At(top) >= from
  <2>1. CASE pos > Highest(listed)
    BY <1>1, <1>2, <2>1
  <2>2. CASE ~(pos > Highest(listed))
    BY <1>1, <1>2, <2>2
  <2> QED
    BY <2>1, <2>2
<1> DEFINE B == {m \in Nat : \E j \in listed : At(j) = m /\ m >= from}
<1>4. PICK m \in B : \A k \in B : m <= k
  <2>1. At(top) \in B
    BY <1>1, <1>3
  <2> QED
    BY <2>1, LeastIsThere
<1>5. PICK l \in listed : At(l) = m /\ m >= from
  BY <1>4
<1>6. \A k \in listed : At(k) >= from => At(l) <= At(k)
  <2>1. \A k \in listed : At(k) >= from => At(k) \in B
    BY <1>1
  <2> QED
    BY <1>4, <1>5, <2>1
<1>7. \E j \in listed : /\ At(j) >= from
                      /\ \A k \in listed : At(k) >= from => At(j) <= At(k)
  BY <1>5, <1>6
<1>8. /\ i \in listed /\ At(i) >= from
      /\ \A k \in listed : At(k) >= from => At(i) <= At(k)
  BY <1>7, Zenon
<1>9. ASSUME NEW j \in listed, At(j) = from PROVE At(i) = from
  <2>1. At(i) <= from /\ At(i) >= from /\ At(i) \in Nat
    BY <1>1, <1>3, <1>8, <1>9
  <2> QED
    BY <1>3, <2>1
<1> QED
  BY <1>8, <1>9

\* The marks of a post are written.
LEMMA MarksAre ==
  ASSUME NEW p \in Post, NEW g \in BOOLEAN, NEW n \in BOOLEAN
  PROVE  /\ [p EXCEPT !.gone = g, !.new = n] \in Post
         /\ [p EXCEPT !.gone = g, !.new = n].gone = g
         /\ [p EXCEPT !.gone = g, !.new = n].new = n
         /\ [p EXCEPT !.gone = g, !.new = n].board = p.board
         /\ [p EXCEPT !.gone = g, !.new = n].to = p.to
         /\ [p EXCEPT !.gone = g, !.new = n].pos = p.pos
<1>1. [p EXCEPT !.gone = g, !.new = n] = [[p EXCEPT !.gone = g] EXCEPT !.new = n]
  BY DEF Post
<1> DEFINE q == [p EXCEPT !.gone = g]
<1>2. /\ q \in Post /\ q.gone = g /\ q.board = p.board /\ q.to = p.to /\ q.pos = p.pos
  BY DEF Post
<1> HIDE DEF q
<1> DEFINE e == [q EXCEPT !.new = n]
<1>3. /\ e \in Post /\ e.gone = q.gone /\ e.new = n /\ e.board = q.board
      /\ e.to = q.to /\ e.pos = q.pos
  BY <1>2 DEF Post
<1>4. [p EXCEPT !.gone = g, !.new = n] = e
  BY <1>1 DEF q
<1> HIDE DEF e
<1> QED
  BY <1>2, <1>3, <1>4

\* The mark of what is new is written.
LEMMA NewMarkIs ==
  ASSUME NEW p \in Post, NEW n \in BOOLEAN
  PROVE  /\ [p EXCEPT !.new = n] \in Post
         /\ [p EXCEPT !.new = n].gone = p.gone
         /\ [p EXCEPT !.new = n].new = n
         /\ [p EXCEPT !.new = n].board = p.board
         /\ [p EXCEPT !.new = n].to = p.to
         /\ [p EXCEPT !.new = n].pos = p.pos
  BY DEF Post

\* A post of a board is read.
LEMMA ReadPostStep ==
  ASSUME BoardInv, mapif_parse_readpost, Head(asks).board # Mail
  PROVE  BoardInv' /\ DeletesTheLine /\ OnlyReadIsMarked
<1> DEFINE a == Head(asks)
           listed == Listed(a.board, a.name)
           from == IF a.pos > Highest(listed) THEN 1 ELSE a.pos
           i == CHOOSE j \in listed :
                  /\ At(j) >= from
                  /\ \A k \in listed : At(k) >= from => At(j) <= At(k)
           r == To(a, "body", 1, {i})
<1>1. /\ Asked("read") /\ Taken /\ UNCHANGED <<posts, desk, misled>>
      /\ UNCHANGED replies \/ (listed # {} /\ replies' = Append(replies, r))
  BY DEF mapif_parse_readpost, Reply
<1>2. PostsGrow
  BY <1>1 DEF PostsGrow, Ids
<1>3. a \in Request
  BY <1>1, <1>2, RequestTaken
<1>4. a.board = 1 /\ 1 \in BoardIds /\ a.pos \in Nat
  BY <1>3 DEF Request, BoardIds
<1>5. /\ posts \in Seq(Post) /\ \A j \in Ids : At(j) <= Len(posts)
      /\ PositionsAre /\ OnePerPosition /\ replies \in Seq(MailAnswer)
  BY DEF BoardInv, BoardTypes, PositionsAre
<1>6. listed \subseteq RowsOf(posts, a.board, a.name) /\ listed \subseteq Ids
  BY RowsAre DEF Listed, Rows
<1>7. CASE listed # {} /\ replies' = Append(replies, r)
  <2>1. i \in listed
    <3>1. listed # {}
      BY <1>7
    <3> HIDE DEF r
    <3>2. /\ posts \in Seq(Post) /\ \A j \in Ids : At(j) <= Len(posts)
          /\ listed \subseteq Ids /\ a.pos \in Nat
      BY <1>4, <1>5, <1>6
    <3> QED
      BY <3>1, <3>2, FoundIs
  <2>2. Ids \subseteq Nat
    BY <1>5, PostIs
  <2> HIDE DEF i, from, listed, a
  <2>3. {i} \in SUBSET Nat /\ {i} \subseteq RowsOf(posts, a.board, a.name)
    BY <1>6, <2>1, <2>2
  <2>4. /\ r \in MailAnswer /\ r.what = "body" /\ r.lines = {i} /\ r.board = 1
        /\ r.name = a.name
    BY <1>3, <1>4, <2>3, AnswerIs
  <2> HIDE DEF r
  <2>5. r.what # "setmp" /\ r.lines \subseteq RowsOf(posts, r.board, r.name)
    BY <1>4, <2>3, <2>4
  <2> QED
    BY <1>1, <1>7, <2>4, <2>5, AnsweringKeeps
<1>8. CASE UNCHANGED replies
  <2>1. posts' \in Seq(Post) /\ PositionsAre' /\ OnePerPosition'
    BY <1>1, <1>5 DEF PositionsAre, OnePerPosition, Ids, At
  <2> DEFINE new == <<>>
  <2>2. new \in Seq(MailAnswer) /\ DOMAIN new = {}
    OBVIOUS
  <2>3. replies' = replies \o new
    BY <1>5, <1>8, ConcatEmptySeq
  <2> HIDE DEF new
  <2>4. \A n : NewIn(posts', n) => NewIn(posts, n)
    BY <1>1
  <2>5. BoardInv'
    BY <1>1, <1>2, <2>1, <2>2, <2>3, <2>4, ServingKeeps
  <2> QED
    BY <1>1, <2>5, PostsLeft
<1> QED
  BY <1>1, <1>7, <1>8

\* A mail is read: nothing new is marked but the mail that is sent.
LEMMA ReadMailStep ==
  ASSUME BoardInv, mapif_parse_readpost, Head(asks).board = Mail
  PROVE  BoardInv' /\ DeletesTheLine /\ OnlyReadIsMarked
<1> DEFINE a == Head(asks)
           listed == Listed(a.board, a.name)
           from == IF a.pos > Highest(listed) THEN 1 ELSE a.pos
           i == CHOOSE j \in listed :
                  /\ At(j) >= from
                  /\ \A k \in listed : At(k) >= from => At(j) <= At(k)
           read == [j \in Ids |->
                      IF j \in Rows(Mail, a.name) /\ At(j) = from
                      THEN [posts[j] EXCEPT !.new = FALSE] ELSE posts[j]]
           rest == {j \in Rows(Mail, a.name) : read[j].new}
           r == To(a, "body", Mail, {i})
           s == To(a, "setmp", Mail, {})
<1>1. /\ Asked("read") /\ Taken /\ UNCHANGED <<desk, misled>>
      /\ \/ UNCHANGED <<posts, replies>>
         \/ /\ listed # {} /\ posts' = read
            /\ replies' = Append(replies, r) \o (IF rest = {} THEN <<s>> ELSE <<>>)
  BY DEF mapif_parse_readpost
<1>2. /\ posts \in Seq(Post) /\ \A j \in Ids : At(j) <= Len(posts)
      /\ PositionsAre /\ OnePerPosition /\ replies \in Seq(MailAnswer) /\ asks \in Seq(Request)
  BY DEF BoardInv, BoardTypes, PositionsAre
<1>3. a \in Request
  BY <1>1, <1>2, TakenIs DEF Asked
<1>4. a.board = Mail /\ Mail \in BoardIds /\ a.pos \in Nat
  BY <1>3 DEF Request, BoardIds
<1>5. listed \subseteq RowsOf(posts, Mail, a.name) /\ listed \subseteq Ids /\ Ids \subseteq Nat
  BY <1>2, <1>4, RowsAre, PostIs DEF Listed, Rows
<1>6. CASE UNCHANGED <<posts, replies>>
  <2>1. posts' \in Seq(Post) /\ PositionsAre' /\ OnePerPosition' /\ PostsGrow
    BY <1>2, <1>6 DEF PositionsAre, OnePerPosition, Ids, At, PostsGrow
  <2> DEFINE new == <<>>
  <2>2. new \in Seq(MailAnswer) /\ DOMAIN new = {}
    OBVIOUS
  <2>3. replies' = replies \o new
    BY <1>2, <1>6, ConcatEmptySeq
  <2> HIDE DEF new
  <2>4. \A n : NewIn(posts', n) => NewIn(posts, n)
    BY <1>6
  <2>5. BoardInv'
    BY <1>1, <2>1, <2>2, <2>3, <2>4, ServingKeeps
  <2> QED
    BY <1>6, <2>5, PostsLeft
<1>7. CASE /\ listed # {} /\ posts' = read
           /\ replies' = Append(replies, r) \o (IF rest = {} THEN <<s>> ELSE <<>>)
  <2>1. i \in listed /\ \A j \in listed : At(j) = from => At(i) = from
    <3>1. listed # {}
      BY <1>7
    <3> HIDE DEF read, rest, r, s
    <3>2. /\ posts \in Seq(Post) /\ \A j \in Ids : At(j) <= Len(posts)
          /\ listed \subseteq Ids /\ a.pos \in Nat
      BY <1>2, <1>4, <1>5
    <3> QED
      BY <3>1, <3>2, FoundIs
  <2> HIDE DEF i, from
  <2>2. ASSUME NEW j \in Ids
        PROVE  /\ read[j] \in Post /\ read[j].board = posts[j].board
               /\ read[j].to = posts[j].to /\ read[j].pos = posts[j].pos
               /\ read[j].gone = posts[j].gone
               /\ read[j].new => posts[j].new
               /\ posts[j].new /\ ~read[j].new => j \in Rows(Mail, a.name) /\ At(j) = from
    <3>1. posts[j] \in Post
      BY <1>2, PostIs
    <3>2. CASE j \in Rows(Mail, a.name) /\ At(j) = from
      <4>1. read[j] = [posts[j] EXCEPT !.new = FALSE]
        BY <3>2
      <4> QED
        BY <3>1, <3>2, <4>1, FALSE \in BOOLEAN, NewMarkIs
    <3>3. CASE ~(j \in Rows(Mail, a.name) /\ At(j) = from)
      BY <3>1, <3>3
    <3> QED
      BY <3>2, <3>3
  <2>3. DOMAIN read = Ids
    OBVIOUS
  <2>4. read = [j \in Ids |-> read[j]]
    OBVIOUS
  <2>5. rest = {j \in Rows(Mail, a.name) : read[j].new}
    OBVIOUS
  <2> HIDE DEF read, rest, listed, a
  <2>6. PostsMarked(read)
    <3>1. read \in [Ids -> Post]
      BY <2>2, <2>4
    <3> QED
      BY <1>2, <2>2, <3>1 DEF PostsMarked, PositionsAre
  <2>7. /\ posts' \in Seq(Post) /\ Ids' = Ids /\ PostsGrow
        /\ PositionsAre' /\ OnePerPosition'
        /\ \A n : NewIn(posts', n) => NewIn(posts, n)
    BY <1>7, <2>6, MarkingKeeps
  <2>8. {i} \in SUBSET Nat /\ {i} \subseteq RowsOf(posts, Mail, a.name) /\ {} \in SUBSET Nat
    BY <1>5, <2>1
  <2>9. /\ r \in MailAnswer /\ r.what = "body" /\ r.lines = {i} /\ r.board = Mail
        /\ r.name = a.name
        /\ s \in MailAnswer /\ s.what = "setmp" /\ s.lines = {} /\ s.name = a.name
    BY <1>3, <1>4, <2>8, AnswerIs
  <2> HIDE DEF r, s
  <2>10. rest = {} => ~NewIn(posts', a.name)
    <3>1. \A j \in DOMAIN posts' : j \in Ids /\ posts'[j] = read[j]
      BY <1>7, <2>3
    <3>2. ASSUME rest = {}, NEW j \in RowsOf(posts', Mail, a.name), posts'[j].new PROVE FALSE
      <4>1. /\ j \in Ids /\ posts[j].board = Mail /\ posts[j].to = a.name /\ read[j].new
        BY <2>2, <3>1, <3>2 DEF RowsOf
      <4>2. j \in Rows(Mail, a.name)
        BY <4>1 DEF Rows
      <4> QED
        BY <2>5, <3>2, <4>1, <4>2
    <3> QED
      BY <3>2 DEF NewIn
  <2>11. \E new \in Seq(MailAnswer) :
           /\ replies' = replies \o new
           /\ \A k \in DOMAIN new : new[k] = r \/ (new[k] = s /\ rest = {})
           /\ 1 \in DOMAIN new /\ new[1] = r
    <3>1. CASE rest = {}
      <4>1. replies' = Append(replies, r) \o <<s>>
        BY <1>7, <3>1
      <4>2. Append(replies, r) = replies \o <<r>> /\ <<r>> \in Seq(MailAnswer) /\ <<s>> \in Seq(MailAnswer)
        BY <1>2, <2>9, AppendIsConcat
      <4>3. replies' = replies \o (<<r>> \o <<s>>)
        BY <1>2, <4>1, <4>2, ConcatAssociative
      <4>4. <<r>> \o <<s>> = <<r, s>>
        BY <2>9, TwoIsConcat
      <4>5. replies' = replies \o <<r, s>>
        BY <4>3, <4>4
      <4>6. /\ <<r, s>> \in Seq(MailAnswer)
            /\ \A k \in DOMAIN <<r, s>> : <<r, s>>[k] = r \/ (<<r, s>>[k] = s /\ rest = {})
            /\ 1 \in DOMAIN <<r, s>> /\ <<r, s>>[1] = r
        BY <2>9, <3>1, TwoAnswers
      <4> QED
        BY <4>5, <4>6
    <3>2. CASE rest # {}
      <4>1. Append(replies, r) = replies \o <<r>> /\ <<r>> \in Seq(MailAnswer)
        BY <1>2, <2>9, AppendIsConcat
      <4>2. replies' = Append(replies, r)
        BY <1>2, <1>7, <2>9, <3>2, AppendProperties, ConcatEmptySeq
      <4>3. /\ \A k \in DOMAIN <<r>> : <<r>>[k] = r
            /\ 1 \in DOMAIN <<r>> /\ <<r>>[1] = r
        BY <2>9, OneAnswer
      <4> QED
        BY <4>1, <4>2, <4>3
    <3> QED
      BY <3>1, <3>2
  <2>12. PICK new \in Seq(MailAnswer) :
           /\ replies' = replies \o new
           /\ \A k \in DOMAIN new : new[k] = r \/ (new[k] = s /\ rest = {})
           /\ 1 \in DOMAIN new /\ new[1] = r
    BY <2>11
  <2>13. /\ \A k \in DOMAIN new : new[k].lines \subseteq RowsOf(posts, new[k].board, new[k].name)
         /\ \A k \in DOMAIN new : new[k].what = "setmp" => ~NewIn(posts', new[k].name)
    BY <2>8, <2>9, <2>10, <2>12
  <2>14. BoardInv'
    BY <1>1, <2>7, <2>12, <2>13, ServingKeeps
  <2>15. DeletesTheLine
    BY <1>7, <2>2 DEF DeletesTheLine
  <2>16. OnlyReadIsMarked
    <3>1. ASSUME NEW j \in Ids, posts[j].new, ~posts'[j].new
          PROVE  \E k \in 1 .. Len(replies') : replies'[k].what = "body" /\ replies'[k].lines = {j}
      <4>1. j \in Rows(Mail, a.name) /\ At(j) = from
        BY <1>7, <2>2, <3>1
      <4>2. ~posts[j].gone
        BY <1>2, <3>1 DEF PositionsAre
      <4>3. j \in listed
        BY <1>4, <4>1, <4>2 DEF listed, Listed, a
      <4>4. At(i) = At(j) /\ i \in Ids
        BY <1>5, <2>1, <4>1, <4>3
      <4>5. posts[i].board = Mail /\ posts[i].to = a.name
        BY <1>5, <2>1 DEF RowsOf
      <4>6. posts[j].board = Mail /\ posts[j].to = a.name
        BY <4>1 DEF Rows
      <4>7. i = j
        BY <1>2, <4>4, <4>5, <4>6 DEF OnePerPosition, At
      <4>8. /\ Len(replies) + 1 \in DOMAIN replies' /\ replies'[Len(replies) + 1] = r
        BY <1>2, <2>12, QueueIs
      <4>9. DOMAIN replies' = 1 .. Len(replies')
        BY <1>2, <2>12, ConcatProperties
      <4> QED
        BY <2>9, <4>7, <4>8, <4>9
    <3> QED
      BY <3>1 DEF OnlyReadIsMarked
  <2> QED
    BY <2>14, <2>15, <2>16
<1> QED
  BY <1>1, <1>6, <1>7

\* A post is written to the board.
LEMMA BoardPostStep ==
  ASSUME BoardInv, mapif_parse_boardpost
  PROVE  BoardInv' /\ DeletesTheLine /\ OnlyReadIsMarked
<1> DEFINE a == Head(asks)
           r == To(a, "said", 1, {})
<1>1. /\ Asked("post") /\ Taken /\ Written(1, Nobody, a.name)
      /\ replies' = Append(replies, r) /\ UNCHANGED <<desk, misled>>
  BY DEF mapif_parse_boardpost, Reply
<1>2. replies \in Seq(MailAnswer) /\ asks \in Seq(Request)
  BY DEF BoardInv, BoardTypes
<1>3. a \in Request
  BY <1>1, <1>2, TakenIs DEF Asked
<1>4. /\ a.name \in Authors \cup {Nobody} /\ Nobody \in Authors \cup {Nobody}
      /\ 1 \in BoardIds /\ 1 # Mail /\ {} \in SUBSET Nat
  BY <1>3 DEF Request, BoardIds, Mail
<1> HIDE DEF a
<1>5. /\ posts' \in Seq(Post) /\ PostsGrow /\ PositionsAre' /\ OnePerPosition'
      /\ \A i \in Ids : posts'[i] = posts[i]
      /\ \A n : NewIn(posts', n) => NewIn(posts, n) \/ (1 = Mail /\ n = Nobody)
  BY <1>1, <1>4, WritingKeeps
<1>6. r \in MailAnswer /\ r.what = "said" /\ r.lines = {}
  BY <1>3, <1>4, AnswerIs
<1> HIDE DEF r
<1> DEFINE new == <<r>>
<1>7. new \in Seq(MailAnswer) /\ \A k \in DOMAIN new : new[k] = r
  BY <1>6, OneAnswer
<1>8. replies' = replies \o new
  BY <1>1, <1>2, <1>6, AppendIsConcat
<1> HIDE DEF new
<1>9. /\ \A k \in DOMAIN new : new[k].lines \subseteq RowsOf(posts, new[k].board, new[k].name)
      /\ \A k \in DOMAIN new : new[k].what = "setmp" => ~NewIn(posts', new[k].name)
  BY <1>6, <1>7
<1>10. \A n : NewIn(posts', n) => NewIn(posts, n)
  BY <1>4, <1>5
<1>11. BoardInv'
  BY <1>1, <1>5, <1>7, <1>8, <1>9, <1>10, ServingKeeps
<1> QED
  BY <1>5, <1>11, PostsLeft

\* A mail is written, and its receiver is told.
LEMMA WriteMailStep ==
  ASSUME BoardInv, mapif_parse_nmailwrite
  PROVE  BoardInv' /\ DeletesTheLine /\ OnlyReadIsMarked
<1> DEFINE a == Head(asks)
           r == To(a, "said", Mail, {})
           q == To(a, "newmp", Mail, {})
           s == [q EXCEPT !.name = a.more]
<1>1. /\ Asked("write") /\ Taken /\ UNCHANGED <<desk, misled>>
      /\ \/ /\ a.more \in Authors /\ Written(Mail, a.more, Nobody)
            /\ replies' = replies \o <<r, s>>
         \/ replies' = Append(replies, r) /\ UNCHANGED posts
  BY DEF mapif_parse_nmailwrite, Reply
<1>2. replies \in Seq(MailAnswer) /\ asks \in Seq(Request)
  BY DEF BoardInv, BoardTypes
<1>3. a \in Request
  BY <1>1, <1>2, TakenIs DEF Asked
<1>4. Mail \in BoardIds /\ {} \in SUBSET Nat /\ Nobody \in Authors \cup {Nobody}
  BY DEF BoardIds
<1> HIDE DEF a
<1>5. /\ r \in MailAnswer /\ r.what = "said" /\ r.lines = {}
      /\ q \in MailAnswer /\ q.what = "newmp" /\ q.lines = {}
  BY <1>3, <1>4, AnswerIs
<1> HIDE DEF r, q
<1>6. CASE replies' = Append(replies, r) /\ UNCHANGED posts
  BY <1>1, <1>5, <1>6, AnsweringKeeps
<1>7. CASE /\ a.more \in Authors /\ Written(Mail, a.more, Nobody)
           /\ replies' = replies \o <<r, s>>
  <2>1. /\ posts' \in Seq(Post) /\ PostsGrow /\ PositionsAre' /\ OnePerPosition'
        /\ \A i \in Ids : posts'[i] = posts[i]
        /\ \A n : NewIn(posts', n) => NewIn(posts, n) \/ (Mail = Mail /\ n = a.more)
    BY <1>4, <1>7, WritingKeeps
  <2>2. s \in MailAnswer /\ s.what = "newmp" /\ s.lines = {} /\ s.name = a.more
    BY <1>5, <1>7 DEF MailAnswer
  <2> HIDE DEF s
  <2> DEFINE new == <<r, s>>
  <2>3. /\ new \in Seq(MailAnswer) /\ 2 \in DOMAIN new /\ new[2] = s
        /\ \A k \in DOMAIN new : new[k] = r \/ new[k] = s
    BY <1>5, <2>2, TwoAnswers
  <2>4. replies' = replies \o new
    BY <1>7
  <2> HIDE DEF new
  <2>5. /\ \A k \in DOMAIN new : new[k].lines \subseteq RowsOf(posts, new[k].board, new[k].name)
        /\ \A k \in DOMAIN new : new[k].what = "setmp" => ~NewIn(posts', new[k].name)
    BY <1>5, <2>2, <2>3
  <2>6. \A n : NewIn(posts', n) => \/ NewIn(posts, n)
                                  \/ \E k \in DOMAIN new : new[k].what = "newmp" /\ new[k].name = n
    BY <2>1, <2>2, <2>3
  <2>7. BoardInv'
    BY <1>1, <2>1, <2>3, <2>4, <2>5, <2>6, ServingKeeps
  <2> QED
    BY <2>1, <2>7, PostsLeft
<1> QED
  BY <1>1, <1>6, <1>7

\* A line is deleted: of mail, the one that was chosen.
LEMMA DeleteStep ==
  ASSUME BoardInv, mapif_parse_deletepost
  PROVE  BoardInv' /\ DeletesTheLine /\ OnlyReadIsMarked
<1> DEFINE a == Head(asks)
           listed == {i \in Rows(a.board, a.name) : At(i) = a.pos /\ ~posts[i].gone}
           S == IF a.board = Mail \/ a.more.candel \/ (\E i \in listed : posts[i].by = a.name)
                THEN listed ELSE {}
           e == [i \in Ids |-> IF i \in S
                               THEN [posts[i] EXCEPT !.gone = TRUE, !.new = FALSE]
                               ELSE posts[i]]
           r == To(a, "said", a.board, {})
<1>1. /\ Asked("delete") /\ Taken /\ UNCHANGED <<desk, misled>>
      /\ posts' = e /\ replies' = Append(replies, r)
  BY DEF mapif_parse_deletepost, Reply, Deleted
<1>2. /\ replies \in Seq(MailAnswer) /\ asks \in Seq(Request) /\ posts \in Seq(Post)
      /\ PositionsAre /\ OnePerPosition
  BY DEF BoardInv, BoardTypes
<1>3. a \in Request
  BY <1>1, <1>2, TakenIs DEF Asked
<1>4. S \subseteq listed /\ listed \subseteq Ids
  BY DEF Rows
<1>5. \A i \in listed : i \in Rows(a.board, a.name) /\ At(i) = a.pos
  OBVIOUS
<1> HIDE DEF listed, S
<1>6. ASSUME NEW i \in Ids
      PROVE  /\ e[i] \in Post /\ e[i].board = posts[i].board
             /\ e[i].to = posts[i].to /\ e[i].pos = posts[i].pos
             /\ i \in S => e[i].gone /\ ~e[i].new
             /\ i \notin S => e[i] = posts[i]
  <2>1. posts[i] \in Post
    BY <1>2, PostIs
  <2>2. CASE i \in S
    <3>1. e[i] = [posts[i] EXCEPT !.gone = TRUE, !.new = FALSE]
      BY <2>2
    <3> QED
      BY <2>1, <2>2, <3>1, TRUE \in BOOLEAN, FALSE \in BOOLEAN, MarksAre
  <2>3. CASE i \notin S
    BY <2>1, <2>3
  <2> QED
    BY <2>2, <2>3
<1>7. e = [i \in Ids |-> e[i]]
  OBVIOUS
<1> HIDE DEF e
<1>8. PostsMarked(e)
  <2>1. e \in [Ids -> Post]
    BY <1>6, <1>7
  <2> QED
    BY <1>2, <1>6, <2>1 DEF PostsMarked, PositionsAre
<1>9. /\ posts' \in Seq(Post) /\ Ids' = Ids /\ PostsGrow
      /\ PositionsAre' /\ OnePerPosition'
      /\ \A n : NewIn(posts', n) => NewIn(posts, n)
  BY <1>1, <1>8, MarkingKeeps
<1>10. /\ a.more.line \in Rows(a.board, a.name) /\ a.pos = At(a.more.line)
  BY <1>1, <1>9, RequestTaken, RowsAre
<1>11. a.board \in BoardIds /\ {} \in SUBSET Nat
  BY <1>3 DEF Request
<1>12. DeletesTheLine
  <2>1. ASSUME NEW i \in Ids, posts[i].board = Mail, posts'[i].gone, ~posts[i].gone
        PROVE  a.more.line = i
    <3>1. i \in S
      BY <1>1, <1>6, <2>1
    <3>2. i \in Rows(a.board, a.name) /\ At(i) = At(a.more.line)
      BY <1>4, <1>5, <1>10, <3>1
    <3>3. /\ posts[i].board = a.board /\ a.more.line \in Ids
          /\ posts[a.more.line].board = a.board
      BY <1>10, <3>2 DEF Rows
    <3>4. posts[i].to = a.name /\ posts[a.more.line].to = a.name
      BY <1>10, <2>1, <3>2, <3>3 DEF Rows
    <3> QED
      BY <1>2, <2>1, <3>2, <3>3, <3>4 DEF OnePerPosition, At
  <2> QED
    BY <2>1 DEF DeletesTheLine
<1>13. OnlyReadIsMarked
  <2>1. ASSUME NEW i \in Ids, posts[i].new, ~posts'[i].new PROVE posts'[i].gone
    BY <1>1, <1>6, <2>1
  <2> QED
    BY <2>1 DEF OnlyReadIsMarked
<1> HIDE DEF a
<1>14. r \in MailAnswer /\ r.what = "said" /\ r.lines = {}
  BY <1>3, <1>11, AnswerIs
<1> HIDE DEF r
<1> DEFINE new == <<r>>
<1>15. new \in Seq(MailAnswer) /\ \A k \in DOMAIN new : new[k] = r
  BY <1>14, OneAnswer
<1>16. replies' = replies \o new
  BY <1>1, <1>2, <1>14, AppendIsConcat
<1> HIDE DEF new
<1>17. /\ \A k \in DOMAIN new : new[k].lines \subseteq RowsOf(posts, new[k].board, new[k].name)
       /\ \A k \in DOMAIN new : new[k].what = "setmp" => ~NewIn(posts', new[k].name)
  BY <1>14, <1>15
<1>18. BoardInv'
  BY <1>1, <1>9, <1>15, <1>16, <1>17, ServingKeeps
<1> QED
  BY <1>12, <1>13, <1>18

----------------------------------------------------------------------------
(* Boards: the map server takes the answers.                               *)

\* The answer that is taken.
LEMMA AnswerTaken ==
  ASSUME BoardInv, replies # <<>>
  PROVE  /\ Head(replies) \in MailAnswer
         /\ Head(replies).lines \subseteq
              RowsOf(posts, Head(replies).board, Head(replies).name)
         /\ Head(replies).what = "setmp" /\ NewIn(posts, Head(replies).name)
            => NewsIn(replies, 2, Head(replies).name)
         /\ \A n : NewsIn(replies, 1, n) =>
              \/ NewsIn(replies, 2, n)
              \/ Head(replies).what = "newmp" /\ Head(replies).name = n
<1>1. replies \in Seq(MailAnswer) /\ RowsAreShown /\ NewsComesBehind
  BY DEF BoardInv, BoardTypes
<1>2. /\ Head(replies) \in MailAnswer /\ Head(replies) = replies[1] /\ 1 \in DOMAIN replies
      /\ DOMAIN replies \subseteq Nat \ {0}
  BY <1>1, TakenIs, LenProperties
<1>3. Head(replies).lines \subseteq RowsOf(posts, Head(replies).board, Head(replies).name)
  BY <1>1, <1>2 DEF RowsAreShown
<1>4. ASSUME NEW n, NewsIn(replies, 1, n),
             ~(replies[1].what = "newmp" /\ replies[1].name = n)
      PROVE  NewsIn(replies, 2, n)
  <2>1. PICK m \in DOMAIN replies : replies[m].what = "newmp" /\ replies[m].name = n
    BY <1>4 DEF NewsIn
  <2>2. m # 1
    BY <1>4, <2>1
  <2>3. m >= 2
    BY <1>2, <2>2
  <2> QED
    BY <2>1, <2>3 DEF NewsIn
<1>5. ASSUME replies[1].what = "setmp", NewIn(posts, replies[1].name)
      PROVE  NewsIn(replies, 2, replies[1].name)
  <2>1. NewsIn(replies, 1, replies[1].name)
    BY <1>1, <1>2, <1>5 DEF NewsComesBehind
  <2>2. replies[1].what # "newmp"
    BY <1>5
  <2> QED
    BY <1>4, <2>1, <2>2
<1> QED
  BY <1>2, <1>3, <1>4, <1>5

\* A window shows what came.
LEMMA ShownStep ==
  ASSUME BoardInv, intif_parse_showpostresponse \/ intif_parse_readpost
  PROVE  BoardInv'
<1> DEFINE r == Head(replies)
           d == [desk[r.fd] EXCEPT !.board = r.board, !.lines = r.lines]
<1>1. /\ replies # <<>> /\ replies' = Tail(replies) /\ r.what \in {"list", "body"}
      /\ UNCHANGED <<posts, asks, misled>>
      /\ \/ UNCHANGED desk
         \/ /\ desk[r.fd].name = r.name
            /\ desk' = [desk EXCEPT ![r.fd].board = r.board, ![r.fd].lines = r.lines]
  BY DEF intif_parse_showpostresponse, intif_parse_readpost, Answered, ForThisPlayer
<1>2. desk \in [Socks -> Desk] /\ misled \subseteq Socks /\ RowsAreShown
  BY DEF BoardInv, BoardTypes
<1>3. /\ r \in MailAnswer /\ r.lines \subseteq RowsOf(posts, r.board, r.name)
      /\ \A n : NewsIn(replies, 1, n) => NewsIn(replies, 2, n)
  BY <1>1, AnswerTaken
<1>4. r.fd \in Socks /\ r.board \in BoardIds /\ r.lines \in SUBSET Nat
  BY <1>3 DEF MailAnswer
<1> HIDE DEF r
<1>5. /\ d \in Desk /\ d.board = r.board /\ d.lines = r.lines
      /\ d.name = desk[r.fd].name /\ d.flag = desk[r.fd].flag
  <2> DEFINE o == desk[r.fd]
             b == r.board
             l == r.lines
  <2>1. o \in Desk /\ b \in BoardIds /\ l \in SUBSET Nat
    BY <1>2, <1>4
  <2>2. d = Shown(o, b, l)
    BY DEF Shown
  <2> HIDE DEF o, b, l, d
  <2>3. d \in Desk /\ d.board = b /\ d.lines = l /\ d.name = o.name /\ d.flag = o.flag
    BY <2>1, <2>2, LinesIs
  <2> QED
    BY <2>3 DEF o, b, l
<1>6. /\ desk' \in [Socks -> Desk]
      /\ \A f \in Socks : \/ desk'[f] = desk[f]
                          \/ f = r.fd /\ desk'[f] = d /\ desk[f].name = r.name
  <2>1. CASE UNCHANGED desk
    BY <1>2, <2>1
  <2>2. CASE /\ desk[r.fd].name = r.name
             /\ desk' = [desk EXCEPT ![r.fd].board = r.board, ![r.fd].lines = r.lines]
    <3>1. desk' = [desk EXCEPT ![r.fd] = d]
      BY <1>2, <1>4, <2>2
    <3> HIDE DEF d
    <3> QED
      BY <1>2, <1>4, <1>5, <2>2, <3>1
  <2> QED
    BY <1>1, <2>1, <2>2
<1> HIDE DEF d
<1>7. ASSUME NEW f \in Socks
      PROVE  /\ desk'[f].lines \subseteq RowsOf(posts, desk'[f].board, desk'[f].name)
             /\ desk'[f].name = desk[f].name /\ desk'[f].flag = desk[f].flag
  <2>1. CASE desk'[f] = desk[f]
    BY <1>2, <2>1 DEF RowsAreShown
  <2>2. CASE f = r.fd /\ desk'[f] = d /\ desk[f].name = r.name
    BY <1>3, <1>5, <2>2
  <2> QED
    BY <1>6, <2>1, <2>2
<1>8. ASSUME NEW f \in Socks, desk'[f].name # Nobody, NewIn(posts, desk'[f].name),
             ~desk'[f].flag
      PROVE  f \in misled' \/ NewsIn(replies, 2, desk'[f].name)
  BY <1>1, <1>3, <1>7, <1>8, FlagsAre
<1> QED
  BY <1>1, <1>2, <1>6, <1>7, <1>8, AnswerTakenKeeps

\* A player is told of what the char server did.
LEMMA SaidStep ==
  ASSUME BoardInv, intif_parse_said
  PROVE  BoardInv'
<1>1. /\ replies # <<>> /\ replies' = Tail(replies) /\ Head(replies).what = "said"
      /\ UNCHANGED <<posts, asks, desk, misled>>
  BY DEF intif_parse_said, Answered
<1>2. desk \in [Socks -> Desk] /\ misled \subseteq Socks /\ RowsAreShown
  BY DEF BoardInv, BoardTypes
<1>3. \A n : NewsIn(replies, 1, n) => NewsIn(replies, 2, n)
  BY <1>1, AnswerTaken
<1>4. ASSUME NEW f \in Socks, desk'[f].name # Nobody, NewIn(posts, desk'[f].name),
             ~desk'[f].flag
      PROVE  f \in misled' \/ NewsIn(replies, 2, desk'[f].name)
  BY <1>1, <1>3, <1>4, FlagsAre
<1>5. \A f \in Socks : desk'[f].lines \subseteq RowsOf(posts, desk'[f].board, desk'[f].name)
  BY <1>1, <1>2 DEF RowsAreShown
<1> QED
  BY <1>1, <1>2, <1>4, <1>5, AnswerTakenKeeps

\* A flag is cleared, if somebody is there.
LEMMA ClearedIs ==
  ASSUME NEW dk \in [Socks -> Desk], NEW f \in Socks
  PROVE  /\ Cleared(dk, f) \in [Socks -> Desk]
         /\ \A g \in Socks : /\ Cleared(dk, f)[g].name = dk[g].name
                             /\ Cleared(dk, f)[g].board = dk[g].board
                             /\ Cleared(dk, f)[g].lines = dk[g].lines
                             /\ g # f => Cleared(dk, f)[g] = dk[g]
                             /\ dk[g].name = Nobody => Cleared(dk, f)[g] = dk[g]
<1> DEFINE d == [dk[f] EXCEPT !.flag = FALSE]
           e == [dk EXCEPT ![f] = d]
<1>1. /\ d \in Desk /\ d.name = dk[f].name /\ d.board = dk[f].board
      /\ d.lines = dk[f].lines
  BY FALSE \in BOOLEAN, FlagIs
<1>2. Cleared(dk, f) = IF dk[f].name = Nobody THEN dk ELSE e
  BY DEF Cleared
<1> HIDE DEF d
<1>3. e \in [Socks -> Desk] /\ e[f] = d /\ \A g \in Socks : g # f => e[g] = dk[g]
  BY <1>1
<1> HIDE DEF e
<1>4. CASE dk[f].name = Nobody
  BY <1>2, <1>4
<1>5. CASE dk[f].name # Nobody
  <2>1. Cleared(dk, f) = e
    BY <1>2, <1>5
  <2> QED
    BY <1>1, <1>3, <1>5, <2>1
<1> QED
  BY <1>4, <1>5

\* The flag of a descriptor is cleared: its player has nothing new, or it was
\* not asked for.
LEMMA ClearStep ==
  ASSUME BoardInv, intif_parse_setmp
  PROVE  BoardInv'
<1> DEFINE r == Head(replies)
<1>1. /\ replies # <<>> /\ replies' = Tail(replies) /\ r.what = "setmp"
      /\ UNCHANGED <<posts, asks>>
      /\ desk' = Cleared(desk, r.fd)
      /\ misled' = IF desk[r.fd].name \in {Nobody, r.name} THEN misled
                   ELSE misled \cup {r.fd}
  BY DEF intif_parse_setmp, Answered
<1>2. desk \in [Socks -> Desk] /\ misled \subseteq Socks /\ RowsAreShown
  BY DEF BoardInv, BoardTypes
<1>3. /\ r \in MailAnswer
      /\ NewIn(posts, r.name) => NewsIn(replies, 2, r.name)
      /\ \A n : NewsIn(replies, 1, n) => NewsIn(replies, 2, n)
  BY <1>1, AnswerTaken
<1>4. r.fd \in Socks
  BY <1>3 DEF MailAnswer
<1> HIDE DEF r
<1>5. /\ desk' \in [Socks -> Desk]
      /\ \A g \in Socks : /\ desk'[g].name = desk[g].name
                          /\ desk'[g].board = desk[g].board
                          /\ desk'[g].lines = desk[g].lines
                          /\ g # r.fd => desk'[g] = desk[g]
  BY <1>1, <1>2, <1>4, ClearedIs
<1>6. misled' \subseteq Socks /\ misled \subseteq misled'
  BY <1>1, <1>2, <1>4
<1>7. ASSUME NEW f \in Socks, desk'[f].name # Nobody, NewIn(posts, desk'[f].name),
             ~desk'[f].flag
      PROVE  f \in misled' \/ NewsIn(replies, 2, desk'[f].name)
  <2>1. CASE f # r.fd
    BY <1>3, <1>5, <1>6, <1>7, <2>1, FlagsAre
  <2>2. CASE f = r.fd /\ desk[f].name = r.name
    BY <1>3, <1>5, <1>7, <2>2
  <2>3. CASE f = r.fd /\ desk[f].name # r.name
    <3>1. desk[r.fd].name \notin {Nobody, r.name}
      BY <1>5, <1>7, <2>3
    <3> QED
      BY <1>1, <2>3, <3>1
  <2> QED
    BY <2>1, <2>2, <2>3
<1>8. \A f \in Socks : desk'[f].lines \subseteq RowsOf(posts, desk'[f].board, desk'[f].name)
  BY <1>2, <1>5 DEF RowsAreShown
<1> QED
  BY <1>1, <1>5, <1>6, <1>7, <1>8, AnswerTakenKeeps

\* News of a mail arrives, and is taken for something else behind it.
LEMMA NewsStep ==
  ASSUME BoardInv, intif_parse_findmp
  PROVE  BoardInv'
<1> DEFINE r == Head(replies)
           flagged == [f \in Socks |-> IF desk[f].name = r.name
                                       THEN [desk[f] EXCEPT !.flag = TRUE]
                                       ELSE desk[f]]
           told == {f \in Socks : desk[f].name = r.name}
           hit == {f \in Socks : f = ChaId[r.name] /\ desk[f].name # Nobody}
<1>1. /\ replies # <<>> /\ replies' = Tail(replies) /\ r.what = "newmp"
      /\ UNCHANGED <<posts, asks>>
      /\ desk' = [f \in Socks |-> IF f \in hit THEN Cleared(flagged, f)[f] ELSE flagged[f]]
      /\ misled' = (misled \ told) \cup hit
  BY DEF intif_parse_findmp, Answered
<1>2. desk \in [Socks -> Desk] /\ misled \subseteq Socks /\ RowsAreShown
  BY DEF BoardInv, BoardTypes
<1>3. \A n : NewsIn(replies, 1, n) => NewsIn(replies, 2, n) \/ r.name = n
  BY <1>1, AnswerTaken
<1>4. told \subseteq Socks /\ hit \subseteq Socks
      /\ \A f \in Socks : f \in told <=> desk[f].name = r.name
  OBVIOUS
<1> HIDE DEF r, told, hit
<1>5. ASSUME NEW f \in Socks
      PROVE  /\ flagged[f] \in Desk /\ flagged[f].name = desk[f].name
             /\ flagged[f].board = desk[f].board /\ flagged[f].lines = desk[f].lines
             /\ f \in told => flagged[f].flag
             /\ f \notin told => flagged[f] = desk[f]
  <2>1. CASE f \in told
    <3>1. flagged[f] = [desk[f] EXCEPT !.flag = TRUE]
      BY <1>4, <2>1
    <3> DEFINE o == desk[f]
               e == flagged[f]
    <3>2. o \in Desk /\ e = Flagged(o, TRUE)
      BY <1>2, <3>1 DEF Flagged
    <3>3. TRUE \in BOOLEAN
      OBVIOUS
    <3> HIDE DEF o, e
    <3>4. /\ e \in Desk /\ e.flag /\ e.name = o.name
          /\ e.board = o.board /\ e.lines = o.lines
      BY <3>2, <3>3, FlaggedIs
    <3> QED
      BY <2>1, <3>4 DEF o, e
  <2>2. CASE f \notin told
    BY <1>2, <1>4, <2>2
  <2> QED
    BY <2>1, <2>2
<1>6. flagged \in [Socks -> Desk]
  BY <1>5
<1> HIDE DEF flagged
<1>7. ASSUME NEW f \in Socks
      PROVE  /\ desk'[f] \in Desk /\ desk'[f].name = desk[f].name
             /\ desk'[f].board = desk[f].board /\ desk'[f].lines = desk[f].lines
             /\ f \notin hit => desk'[f] = flagged[f]
  <2>1. CASE f \in hit
    <3>1. desk'[f] = Cleared(flagged, f)[f]
      BY <1>1, <2>1
    <3> QED
      BY <1>5, <1>6, <2>1, <3>1, ClearedIs
  <2>2. CASE f \notin hit
    BY <1>1, <1>5, <2>2
  <2> QED
    BY <2>1, <2>2
<1>8. desk' \in [Socks -> Desk]
  BY <1>1, <1>7
<1>9. misled' \subseteq Socks
  BY <1>1, <1>2, <1>4
<1>10. ASSUME NEW f \in Socks, desk'[f].name # Nobody, NewIn(posts, desk'[f].name),
              ~desk'[f].flag
       PROVE  f \in misled' \/ NewsIn(replies, 2, desk'[f].name)
  <2>1. CASE f \in hit
    BY <1>1, <2>1
  <2>2. CASE f \notin hit
    <3>1. f \notin told /\ desk'[f] = desk[f]
      BY <1>5, <1>7, <1>10, <2>2
    <3>2. desk[f].name # r.name
      BY <1>4, <3>1
    <3>3. f \in misled => f \in misled'
      BY <1>1, <3>1
    <3> QED
      BY <1>3, <1>10, <3>1, <3>2, <3>3, FlagsAre
  <2> QED
    BY <2>1, <2>2
<1>11. \A f \in Socks : desk'[f].lines \subseteq RowsOf(posts, desk'[f].board, desk'[f].name)
  BY <1>2, <1>7 DEF RowsAreShown
<1> QED
  BY <1>1, <1>8, <1>9, <1>10, <1>11, AnswerTakenKeeps

----------------------------------------------------------------------------
(* Boards: the specification.                                              *)

\* At first there is nothing.
LEMMA BoardInitInv ==
  ASSUME BoardInit
  PROVE  BoardInv
<1>1. /\ posts = <<>> /\ asks = <<>> /\ replies = <<>> /\ misled = {}
      /\ desk = [f \in Socks |-> NoDesk]
  BY DEF BoardInit
<1>2. \A f \in Socks : desk[f] = NoDesk
  BY <1>1
<1>3. BoardTypes
  <2>1. desk \in [Socks -> Desk]
    BY <1>1, NoDeskIs
  <2>2. posts \in Seq(Post) /\ asks \in Seq(Request) /\ replies \in Seq(MailAnswer)
    BY <1>1
  <2> QED
    BY <1>1, <2>1, <2>2 DEF BoardTypes
<1>4. DOMAIN posts = {} /\ DOMAIN asks = {} /\ DOMAIN replies = {}
  BY <1>1
<1>5. PositionsAre /\ OnePerPosition /\ LinesAreAsked /\ NewsComesBehind
  BY <1>4 DEF PositionsAre, OnePerPosition, LinesAreAsked, NewsComesBehind, Ids
<1>6. RowsAreShown
  BY <1>2, <1>4, NoDeskIs DEF RowsAreShown
<1>7. NewMailIsFlagged
  BY <1>2, NoDeskIs DEF NewMailIsFlagged
<1> QED
  BY <1>3, <1>5, <1>6, <1>7 DEF BoardInv

\* Every step keeps the invariant and what steps promise.
LEMMA BoardNextInv ==
  ASSUME BoardsAssumption, BoardInv, [BoardNext]_boardVars
  PROVE  BoardInv' /\ [DeletesTheLine /\ OnlyReadIsMarked]_boardVars
<1>1. ASSUME \E f \in Socks :
               \/ \E n \in Authors : Login(f, n)
               \/ Logout(f) \/ pc_timer(f) \/ boards_post(f)
               \/ \E to \in Authors \cup {Nobody} : nmail_write(f, to)
               \/ \E b \in BoardIds :
                    \/ \E page \in 0..1 : boards_showposts(f, b, page)
                    \/ \E p \in 1..MaxPosts : boards_readpost(f, b, p)
               \/ \E i \in Ids, may \in BOOLEAN : boards_delete(f, i, may)
      PROVE  BoardInv' /\ DeletesTheLine /\ OnlyReadIsMarked
  <2>1. UNCHANGED posts
    BY <1>1 DEF Login, Logout, pc_timer, boards_post, nmail_write, boards_showposts,
                boards_readpost, boards_delete, Ask
  <2>2. DeletesTheLine /\ OnlyReadIsMarked
    BY <2>1, PostsLeft
  <2>3. BoardInv'
    BY <1>1, LoginStep, LogoutStep, TimerStep, AskStep, AskDeleteStep
  <2> QED
    BY <2>2, <2>3
<1>2. CASE mapif_parse_showposts
  BY <1>2, ShowStep
<1>3. CASE mapif_parse_readpost
  BY <1>3, ReadPostStep, ReadMailStep
<1>4. CASE mapif_parse_boardpost
  BY <1>4, BoardPostStep
<1>5. CASE mapif_parse_nmailwrite
  BY <1>5, WriteMailStep
<1>6. CASE mapif_parse_deletepost
  BY <1>6, DeleteStep
<1>7. ASSUME \/ intif_parse_showpostresponse \/ intif_parse_readpost \/ intif_parse_said
             \/ intif_parse_setmp \/ intif_parse_findmp
      PROVE  BoardInv' /\ DeletesTheLine /\ OnlyReadIsMarked
  <2>1. UNCHANGED posts
    BY <1>7 DEF intif_parse_showpostresponse, intif_parse_readpost, intif_parse_said,
                intif_parse_setmp, intif_parse_findmp
  <2>2. DeletesTheLine /\ OnlyReadIsMarked
    BY <2>1, PostsLeft
  <2>3. BoardInv'
    BY <1>7, ShownStep, SaidStep, ClearStep, NewsStep
  <2> QED
    BY <2>2, <2>3
<1>8. CASE UNCHANGED boardVars
  <2>1. UNCHANGED <<posts, desk, asks, replies, misled>>
    BY <1>8 DEF boardVars
  <2>2. desk \in [Socks -> Desk] /\ misled \subseteq Socks /\ RowsAreShown
    BY DEF BoardInv, BoardTypes
  <2>3. BoardInv'
    BY <2>1, <2>2, FlagsAre, WindowsKeep DEF RowsAreShown
  <2> QED
    BY <1>8, <2>3
<1> QED
  BY <1>1, <1>2, <1>3, <1>4, <1>5, <1>6, <1>7, <1>8 DEF BoardNext

\* The invariant holds in every state.
LEMMA BoardInvHolds == BoardSpec => []BoardInv
<1>1. BoardInit => BoardInv
  BY BoardInitInv
<1>2. BoardInv /\ [BoardNext]_boardVars => BoardInv'
  BY BoardNextInv, BoardsAssumption
<1> QED
  BY <1>1, <1>2, PTL DEF BoardSpec

\* What is shown, deleted, marked and told (map/board_db.c, char/mapif.c,
\* map/intif.c): a position names one mail of its receiver for ever; a window
\* shows its player's mail, and the line deleted is the one that was chosen,
\* however late the request; new mail is flagged, or the news is on its way,
\* but for who was misled by an answer that was for another.
THEOREM SpecMailSound == BoardSpec => MailSound
<1>1. BoardInv => OnePerPosition /\ OwnMailIsShown /\ NewMailIsFlagged
  <2>1. ASSUME BoardInv PROVE OwnMailIsShown
    BY <2>1 DEF BoardInv, RowsAreShown, RowsOf, OwnMailIsShown
  <2> QED
    BY <2>1 DEF BoardInv
<1>2. BoardInv /\ [BoardNext]_boardVars => [DeletesTheLine /\ OnlyReadIsMarked]_boardVars
  BY BoardNextInv, BoardsAssumption
<1> QED
  BY <1>1, <1>2, BoardInvHolds, PTL DEF BoardSpec, MailSound

ManagerRecords ==
  [size : Nat, destroy : Int, reuse : Seq(Entries),
   free : 0..ERS_BLOCK_ENTRIES - 1, num : 0..MaxBlocks, max : Nat]

\* An entry that was cut from the blocks of a manager once.
CutIn(obj, e) ==
  \/ e.block < obj.num - 1
  \/ e.block = obj.num - 1 /\ e.at >= obj.free

\* What containers hold is cut from the manager they use, and nobody else's.
HeldIsOwn ==
  \A c \in Containers : \A e \in held[c] :
    /\ uses[c] # 0 /\ e.manager = uses[c] /\ CutIn(managers[uses[c]], e)
    /\ \A d \in Containers \ {c} : e \notin held[d]

\* What is in the list of a manager was cut from it, is there once, and is held
\* by nobody.
ListIsFree ==
  \A m \in 1..MaxManagers :
    \A i \in DOMAIN managers[m].reuse :
      /\ managers[m].reuse[i].manager = m
      /\ CutIn(managers[m], managers[m].reuse[i])
      /\ ~Holds(managers[m].reuse[i])
      /\ \A j \in DOMAIN managers[m].reuse :
           managers[m].reuse[i] = managers[m].reuse[j] => i = j

HeldOf(m) == {e \in Entries : e.manager = m /\ Holds(e)}

\* What was cut is in the list or held, and the blocks are within the array.
AllAreThere ==
  \A m \in 1..MaxManagers :
    /\ IsFiniteSet(HeldOf(m))
    /\ CutFrom(managers[m]) = Len(managers[m].reuse) + Cardinality(HeldOf(m))
    /\ managers[m].num <= managers[m].max
    /\ managers[m].num = 0 => managers[m].free = 0

\* Managers are made one after the other.
MadeInTurn ==
  /\ \A m \in 1..MaxManagers : m > made => managers[m] = Fresh(0)
  /\ \A i \in DOMAIN ers_root : ers_root[i] <= made

ErsInv ==
  /\ ErsTypeOK /\ HeldIsOwn /\ ListIsFree /\ AllAreThere /\ MadeInTurn
  /\ ManagersStand /\ ersFaults = {}

\* What a new manager is.
LEMMA FreshIs ==
  ASSUME NEW size \in Nat
  PROVE  /\ Fresh(size) \in ManagerRecords /\ Fresh(size).size = size
         /\ Fresh(size).destroy = 1 /\ Fresh(size).reuse = <<>>
         /\ Fresh(size).free = 0 /\ Fresh(size).num = 0 /\ Fresh(size).max = 0
BY ErsAssumption DEF Fresh, ManagerRecords

\* A manager whose list alone is another.
LEMMA WithList ==
  ASSUME NEW obj \in ManagerRecords, NEW v \in Seq(Entries)
  PROVE  \E r \in ManagerRecords :
              /\ r = [obj EXCEPT !.reuse = v]
              /\ r.size = obj.size
              /\ r.destroy = obj.destroy
              /\ r.reuse = v
              /\ r.free = obj.free
              /\ r.num = obj.num
              /\ r.max = obj.max
<1>. DEFINE r == [obj EXCEPT !.reuse = v]
<1>1. r \in ManagerRecords
  BY DEF ManagerRecords
<1>2. r.size = obj.size /\ r.destroy = obj.destroy /\ r.reuse = v
  BY DEF ManagerRecords
<1>3. r.free = obj.free /\ r.num = obj.num /\ r.max = obj.max
  BY DEF ManagerRecords
<1>4. r = [obj EXCEPT !.reuse = v]
  OBVIOUS
<1>. HIDE DEF r
<1>. QED  BY <1>1, <1>2, <1>3, <1>4

\* A manager with another number of free entries.
LEMMA WithFree ==
  ASSUME NEW obj \in ManagerRecords, NEW v \in 0..ERS_BLOCK_ENTRIES - 1
  PROVE  \E r \in ManagerRecords :
              /\ r = [obj EXCEPT !.free = v]
              /\ r.size = obj.size
              /\ r.destroy = obj.destroy
              /\ r.reuse = obj.reuse
              /\ r.free = v
              /\ r.num = obj.num
              /\ r.max = obj.max
<1>. DEFINE r == [obj EXCEPT !.free = v]
<1>1. r \in ManagerRecords
  BY DEF ManagerRecords
<1>2. r.size = obj.size /\ r.destroy = obj.destroy /\ r.reuse = obj.reuse
  BY DEF ManagerRecords
<1>3. r.free = v /\ r.num = obj.num /\ r.max = obj.max
  BY DEF ManagerRecords
<1>4. r = [obj EXCEPT !.free = v]
  OBVIOUS
<1>. HIDE DEF r
<1>. QED  BY <1>1, <1>2, <1>3, <1>4

\* A manager with another number of blocks.
LEMMA WithBlocks ==
  ASSUME NEW obj \in ManagerRecords, NEW v \in 0..MaxBlocks
  PROVE  \E r \in ManagerRecords :
              /\ r = [obj EXCEPT !.num = v]
              /\ r.size = obj.size
              /\ r.destroy = obj.destroy
              /\ r.reuse = obj.reuse
              /\ r.free = obj.free
              /\ r.num = v
              /\ r.max = obj.max
<1>. DEFINE r == [obj EXCEPT !.num = v]
<1>1. r \in ManagerRecords
  BY DEF ManagerRecords
<1>2. r.size = obj.size /\ r.destroy = obj.destroy /\ r.reuse = obj.reuse
  BY DEF ManagerRecords
<1>3. r.free = obj.free /\ r.num = v /\ r.max = obj.max
  BY DEF ManagerRecords
<1>4. r = [obj EXCEPT !.num = v]
  OBVIOUS
<1>. HIDE DEF r
<1>. QED  BY <1>1, <1>2, <1>3, <1>4

\* A manager with another array of blocks.
LEMMA WithArray ==
  ASSUME NEW obj \in ManagerRecords, NEW v \in Nat
  PROVE  \E r \in ManagerRecords :
              /\ r = [obj EXCEPT !.max = v]
              /\ r.size = obj.size
              /\ r.destroy = obj.destroy
              /\ r.reuse = obj.reuse
              /\ r.free = obj.free
              /\ r.num = obj.num
              /\ r.max = v
<1>. DEFINE r == [obj EXCEPT !.max = v]
<1>1. r \in ManagerRecords
  BY DEF ManagerRecords
<1>2. r.size = obj.size /\ r.destroy = obj.destroy /\ r.reuse = obj.reuse
  BY DEF ManagerRecords
<1>3. r.free = obj.free /\ r.num = obj.num /\ r.max = v
  BY DEF ManagerRecords
<1>4. r = [obj EXCEPT !.max = v]
  OBVIOUS
<1>. HIDE DEF r
<1>. QED  BY <1>1, <1>2, <1>3, <1>4

\* A manager with another number of users.
LEMMA WithUsers ==
  ASSUME NEW obj \in ManagerRecords, NEW v \in Int
  PROVE  \E r \in ManagerRecords :
              /\ r = [obj EXCEPT !.destroy = v]
              /\ r.size = obj.size
              /\ r.destroy = v
              /\ r.reuse = obj.reuse
              /\ r.free = obj.free
              /\ r.num = obj.num
              /\ r.max = obj.max
<1>. DEFINE r == [obj EXCEPT !.destroy = v]
<1>1. r \in ManagerRecords
  BY DEF ManagerRecords
<1>2. r.size = obj.size /\ r.destroy = v /\ r.reuse = obj.reuse
  BY DEF ManagerRecords
<1>3. r.free = obj.free /\ r.num = obj.num /\ r.max = obj.max
  BY DEF ManagerRecords
<1>4. r = [obj EXCEPT !.destroy = v]
  OBVIOUS
<1>. HIDE DEF r
<1>. QED  BY <1>1, <1>2, <1>3, <1>4

\* The number of entries that were cut is a number.
LEMMA CutTypes ==
  ASSUME NEW obj \in ManagerRecords
  PROVE  /\ CutFrom(obj) \in Int
         /\ CutFrom(obj) = obj.num * ERS_BLOCK_ENTRIES - obj.free
BY ErsAssumption DEF CutFrom, ManagerRecords

\* An entry is of the manager, the block and the place it was cut at.
LEMMA EntryIs ==
  ASSUME NEW m \in 1..MaxManagers, NEW b \in 0..MaxBlocks - 1,
         NEW i \in 0..ERS_BLOCK_ENTRIES - 1
  PROVE  /\ Entry(m, b, i) \in Entries /\ Entry(m, b, i).manager = m
         /\ Entry(m, b, i).block = b /\ Entry(m, b, i).at = i
BY DEF Entry, Entries

\* Everybody's manager is in the table.
LEMMA UsedIs ==
  ASSUME ErsInv, NEW c \in Containers, uses[c] # 0
  PROVE  /\ uses[c] \in 1..MaxManagers /\ uses[c] <= made
         /\ managers[uses[c]] \in ManagerRecords
         /\ \E i \in DOMAIN ers_root : ers_root[i] = uses[c]
<1>1. uses[c] \in 1..MaxManagers
  BY DEF ErsInv, ErsTypeOK
<1>2. c \in UsersOf(uses[c])
  BY DEF UsersOf
<1>3. \E i \in DOMAIN ers_root : ers_root[i] = uses[c]
  BY <1>1, <1>2 DEF ErsInv, ManagersStand
<1>. QED  BY <1>1, <1>3 DEF ErsInv, ErsTypeOK, MadeInTurn, ManagerRecords

\* In the beginning there is no manager.
LEMMA ErsInitHolds == ErsInit => ErsInv
<1>. SUFFICES ASSUME ErsInit PROVE ErsInv
  OBVIOUS
<1>1. /\ ers_root = <<>> /\ made = 0 /\ ersFaults = {}
      /\ managers = [m \in 1..MaxManagers |-> Fresh(0)]
      /\ \A m \in 1..MaxManagers : managers[m] = Fresh(0)
      /\ \A c \in Containers : uses[c] = 0 /\ held[c] = {}
  BY DEF ErsInit
<1>2. /\ Fresh(0) \in ManagerRecords /\ Fresh(0).reuse = <<>>
      /\ Fresh(0).free = 0 /\ Fresh(0).num = 0 /\ Fresh(0).max = 0
  BY FreshIs
<1>3. ErsTypeOK
  <2>1. managers \in [1..MaxManagers -> ManagerRecords]
    BY <1>1, <1>2
  <2>2. uses \in [Containers -> 0..MaxManagers]
        /\ held \in [Containers -> SUBSET Entries] /\ made \in 0..MaxManagers
    BY <1>1, ErsAssumption DEF ErsInit
  <2>3. ers_root \in Seq(1..MaxManagers)
    BY <1>1
  <2>. QED  BY <1>1, <2>1, <2>2, <2>3 DEF ErsTypeOK, ManagerRecords
<1>4. HeldIsOwn /\ ListIsFree /\ MadeInTurn
  BY <1>1, <1>2 DEF HeldIsOwn, ListIsFree, MadeInTurn
<1>5. AllAreThere
  <2>1. \A m : HeldOf(m) = {}
    BY <1>1 DEF HeldOf, Holds
  <2>2. Cardinality({}) = 0 /\ IsFiniteSet({})
    BY FS_EmptySet
  <2>3. CutFrom(Fresh(0)) = 0
    BY <1>2, ErsAssumption DEF CutFrom
  <2>4. Len(Fresh(0).reuse) = 0
    BY <1>2
  <2>5. ASSUME NEW m \in 1..MaxManagers
        PROVE  /\ IsFiniteSet(HeldOf(m))
               /\ CutFrom(managers[m]) = Len(managers[m].reuse) + Cardinality(HeldOf(m))
               /\ managers[m].num <= managers[m].max
               /\ managers[m].num = 0 => managers[m].free = 0
    <3>1. managers[m] = Fresh(0)
      BY <1>1
    <3>2. managers[m].num = 0 /\ managers[m].max = 0 /\ managers[m].free = 0
      BY <1>2, <3>1
    <3>3. CutFrom(managers[m]) = 0 /\ Len(managers[m].reuse) = 0
      BY <2>3, <2>4, <3>1
    <3>4. HeldOf(m) = {} /\ Cardinality(HeldOf(m)) = 0 /\ IsFiniteSet(HeldOf(m))
      BY <2>1, <2>2
    <3>. QED  BY <3>2, <3>3, <3>4
  <2>. QED  BY <2>5 DEF AllAreThere
<1>6. ManagersStand
  <2>1. \A m \in 1..MaxManagers : UsersOf(m) = {}
    BY <1>1 DEF UsersOf
  <2>2. DOMAIN ers_root = {}
    BY <1>1
  <2>. QED  BY <2>1, <2>2 DEF ManagersStand
<1>. QED  BY <1>1, <1>3, <1>4, <1>5, <1>6 DEF ErsInv

----------------------------------------------------------------------------

\* Entry e is cut from a manager or taken from its list, and the rest stays.
FromIts(obj, e, rest) ==
  /\ rest.size = obj.size /\ rest.destroy = obj.destroy
  /\ rest.num <= rest.max /\ (rest.num = 0 => rest.free = 0)
  /\ CutIn(rest, e) /\ \A x \in Entries : CutIn(obj, x) => CutIn(rest, x)
  /\ \A i \in DOMAIN rest.reuse :
       /\ rest.reuse[i] # e
       /\ \E k \in DOMAIN obj.reuse : rest.reuse[i] = obj.reuse[k]
       /\ \A j \in DOMAIN rest.reuse : rest.reuse[i] = rest.reuse[j] => i = j
  /\ CutFrom(rest) - Len(rest.reuse) = CutFrom(obj) - Len(obj.reuse) + 1

\* What is gone from the list is with its holder.
LEMMA Balance ==
  ASSUME NEW a \in Int, NEW b \in Int, NEW p \in Int, NEW q \in Int,
         NEW h \in Int, a - b = p - q + 1, p = q + h
  PROVE  a = b + (h + 1)
OBVIOUS

\* What is in a list is of the set that the list is of.
LEMMA ListsAre ==
  ASSUME NEW S, NEW s \in Seq(S)
  PROVE  \A i \in DOMAIN s : s[i] \in S
OBVIOUS

\* An entry is handed out that nobody holds.
LEMMA GivenKeeps ==
  ASSUME ErsInv, NEW c \in Containers, uses[c] # 0, NEW e \in Entries,
         NEW rest \in ManagerRecords, Given(c, e, rest), UNCHANGED ersFaults,
         e.manager = uses[c], ~Holds(e), FromIts(managers[uses[c]], e, rest)
  PROVE  ErsInv'
<1>1. PICK m \in 1..MaxManagers : m = uses[c]
  BY UsedIs
<1>2. PICK obj \in ManagerRecords : obj = managers[m]
  BY <1>1, UsedIs
<1>3. /\ held' = [held EXCEPT ![c] = @ \cup {e}]
      /\ managers' = [managers EXCEPT ![m] = rest]
      /\ UNCHANGED <<ers_root, made, uses, ersFaults>>
  BY <1>1 DEF Given
<1>4. /\ \A d \in Containers :
           held'[d] = IF d = c THEN held[c] \cup {e} ELSE held[d]
      /\ \A k \in 1..MaxManagers :
           managers'[k] = IF k = m THEN rest ELSE managers[k]
  BY <1>3 DEF ErsInv, ErsTypeOK
<1>5. ErsTypeOK'
  <2>1. managers' \in [1..MaxManagers -> ManagerRecords]
    BY <1>3 DEF ErsInv, ErsTypeOK, ManagerRecords
  <2>2. held' \in [Containers -> SUBSET Entries]
    BY <1>3 DEF ErsInv, ErsTypeOK
  <2>. QED  BY <1>3, <2>1, <2>2 DEF ErsInv, ErsTypeOK, ManagerRecords
<1>6. \A x \in Entries : Holds(x)' <=> Holds(x) \/ x = e
  BY <1>4 DEF Holds
<1>7. HeldIsOwn'
  <2>1. SUFFICES ASSUME NEW d \in Containers, NEW x \in held'[d]
        PROVE  /\ uses[d] # 0 /\ x.manager = uses[d]
               /\ CutIn(managers'[uses[d]], x)
               /\ \A f \in Containers \ {d} : x \notin held'[f]
    BY <1>3 DEF HeldIsOwn, CutIn
  <2>2. x \in Entries
    BY <1>5, <2>1 DEF ErsTypeOK
  <2>3. CASE x = e
    <3>1. d = c /\ \A f \in Containers : e \notin held[f]
      BY <1>4, <2>1, <2>3 DEF Holds
    <3>. QED  BY <1>1, <1>4, <2>3, <3>1 DEF FromIts
  <2>4. CASE x # e
    <3>1. x \in held[d] /\ \A f \in Containers : x \in held'[f] => x \in held[f]
      BY <1>4, <2>1, <2>4
    <3>2. uses[d] # 0 /\ x.manager = uses[d] /\ CutIn(managers[uses[d]], x)
          /\ \A f \in Containers \ {d} : x \notin held[f]
      BY <3>1 DEF ErsInv, HeldIsOwn
    <3>3. CutIn(managers'[uses[d]], x)
      <4>1. uses[d] \in 1..MaxManagers
        BY <3>2 DEF ErsInv, ErsTypeOK
      <4>. QED  BY <1>1, <1>4, <2>2, <3>2, <4>1 DEF FromIts
    <3>. QED  BY <3>1, <3>2, <3>3
  <2>. QED  BY <2>3, <2>4
<1>8. ListIsFree'
  <2>1. SUFFICES ASSUME NEW k \in 1..MaxManagers, NEW i \in DOMAIN managers'[k].reuse
        PROVE  /\ managers'[k].reuse[i].manager = k
               /\ CutIn(managers'[k], managers'[k].reuse[i])
               /\ \A d \in Containers : managers'[k].reuse[i] \notin held'[d]
               /\ \A j \in DOMAIN managers'[k].reuse :
                    managers'[k].reuse[i] = managers'[k].reuse[j] => i = j
    BY DEF ListIsFree, CutIn, Holds
  <2>2. CASE k = m
    <3>1. managers'[k] = rest
      BY <1>4, <2>2
    <3>2. PICK x \in Entries : x = rest.reuse[i]
      BY <2>1, <3>1 DEF ManagerRecords
    <3>3. x # e /\ \E l \in DOMAIN managers[m].reuse : x = managers[m].reuse[l]
      BY <1>1, <2>1, <3>1, <3>2 DEF FromIts
    <3>4. x.manager = m /\ CutIn(managers[m], x) /\ ~Holds(x)
      BY <3>3 DEF ErsInv, ListIsFree
    <3>5. CutIn(rest, x) /\ \A d \in Containers : x \notin held'[d]
      BY <1>1, <1>4, <3>3, <3>4 DEF Holds, FromIts
    <3>6. \A j \in DOMAIN rest.reuse : rest.reuse[i] = rest.reuse[j] => i = j
      BY <2>1, <3>1 DEF FromIts
    <3>. QED  BY <2>2, <3>1, <3>2, <3>4, <3>5, <3>6
  <2>3. CASE k # m
    <3>1. managers'[k] = managers[k]
      BY <1>4, <2>3
    <3>2. /\ managers[k].reuse[i].manager = k
          /\ CutIn(managers[k], managers[k].reuse[i])
          /\ ~Holds(managers[k].reuse[i])
          /\ \A j \in DOMAIN managers[k].reuse :
               managers[k].reuse[i] = managers[k].reuse[j] => i = j
      BY <2>1, <3>1 DEF ErsInv, ListIsFree
    <3>6. managers[k].reuse \in Seq(Entries)
      BY DEF ErsInv, ErsTypeOK
    <3>3. PICK x \in Entries : x = managers[k].reuse[i]
      BY <2>1, <3>1, <3>6
    <3>4. x.manager = k /\ ~Holds(x) /\ x # e
      BY <1>1, <2>3, <3>2, <3>3
    <3>5. \A d \in Containers : x \notin held'[d]
      BY <1>4, <3>4 DEF Holds
    <3>. QED  BY <3>1, <3>2, <3>3, <3>5
  <2>. QED  BY <2>2, <2>3
<1>9. AllAreThere'
  <2>1. SUFFICES ASSUME NEW k \in 1..MaxManagers
        PROVE  /\ IsFiniteSet(HeldOf(k)')
               /\ CutFrom(managers'[k]) =
                    Len(managers'[k].reuse) + Cardinality(HeldOf(k)')
               /\ managers'[k].num <= managers'[k].max
               /\ managers'[k].num = 0 => managers'[k].free = 0
    BY DEF AllAreThere, CutFrom
  <2>2. /\ IsFiniteSet(HeldOf(k)) /\ Cardinality(HeldOf(k)) \in Nat
        /\ CutFrom(managers[k]) = Len(managers[k].reuse) + Cardinality(HeldOf(k))
        /\ managers[k].num <= managers[k].max
        /\ managers[k].num = 0 => managers[k].free = 0
    BY FS_CardinalityType DEF ErsInv, AllAreThere
  <2>3. CASE k = m
    <3>1. HeldOf(k)' = HeldOf(k) \cup {e} /\ e \notin HeldOf(k)
      BY <1>1, <1>6, <2>3 DEF HeldOf
    <3>2. PICK h : h = HeldOf(k)
      OBVIOUS
    <3>3. IsFiniteSet(h \cup {e}) /\ Cardinality(h \cup {e}) = Cardinality(h) + 1
      BY <2>2, <3>1, <3>2, FS_AddElement
    <3>4. managers'[k] = rest /\ managers[k] = obj
      BY <1>2, <1>4, <2>3
    <3>5. /\ CutFrom(rest) - Len(rest.reuse) = CutFrom(obj) - Len(obj.reuse) + 1
          /\ rest.num <= rest.max /\ (rest.num = 0 => rest.free = 0)
      BY <1>1, <1>2 DEF FromIts
    <3>6. /\ CutFrom(rest) \in Int /\ CutFrom(obj) \in Int
          /\ Len(rest.reuse) \in Int /\ Len(obj.reuse) \in Int
      <4>1. rest.reuse \in Seq(Entries) /\ obj.reuse \in Seq(Entries)
        BY DEF ManagerRecords
      <4>. QED  BY <4>1, CutTypes
    <3>7. CutFrom(obj) = Len(obj.reuse) + Cardinality(h)
      BY <2>2, <3>2, <3>4
    <3>8. Cardinality(h) \in Int
      BY <2>2, <3>2
    <3>9. CutFrom(rest) = Len(rest.reuse) + (Cardinality(h) + 1)
      BY <3>5, <3>6, <3>7, <3>8, Balance
    <3>. QED  BY <3>1, <3>2, <3>3, <3>4, <3>5, <3>9
  <2>4. CASE k # m
    <3>1. HeldOf(k)' = HeldOf(k)
      BY <1>1, <1>6, <2>4 DEF HeldOf
    <3>. QED  BY <1>4, <2>2, <2>4, <3>1
  <2>. QED  BY <2>3, <2>4
<1>10. MadeInTurn'
  <2>1. m <= made
    BY <1>1, UsedIs
  <2>. QED  BY <1>3, <1>4, <2>1 DEF ErsInv, ErsTypeOK, MadeInTurn
<1>11. ManagersStand'
  <2>1. \A k \in 1..MaxManagers : /\ managers'[k].size = managers[k].size
                                 /\ managers'[k].destroy = managers[k].destroy
    BY <1>1, <1>4 DEF FromIts
  <2>2. \A k : UsersOf(k)' = UsersOf(k)
    BY <1>3 DEF UsersOf
  <2>4. ers_root \in Seq(1..MaxManagers)
    BY DEF ErsInv, ErsTypeOK
  <2>3. \A i \in DOMAIN ers_root : ers_root[i] \in 1..MaxManagers
    BY <2>4, ListsAre
  <2>. QED  BY <1>3, <2>1, <2>2, <2>3 DEF ErsInv, ManagersStand
<1>. QED  BY <1>3, <1>5, <1>7, <1>8, <1>9, <1>10, <1>11 DEF ErsInv

\* The entry that was freed last is handed out again.
LEMMA ReusedKeeps ==
  ASSUME ErsInv, NEW c \in Containers, alloc_reused(c)
  PROVE  ErsInv'
<1>1. PICK m \in 1..MaxManagers : m = uses[c] /\ uses[c] # 0
  BY UsedIs DEF alloc_reused
<1>2. PICK obj \in ManagerRecords : obj = managers[m]
  BY <1>1, UsedIs
<1>3. PICK q \in Seq(Entries) : q = obj.reuse /\ q # <<>>
  BY <1>1, <1>2 DEF alloc_reused, ManagerRecords
<1>4. /\ Len(q) \in Nat \ {0} /\ DOMAIN q = 1..Len(q)
      /\ Tail(q) \in Seq(Entries) /\ Len(Tail(q)) = Len(q) - 1
      /\ DOMAIN Tail(q) = 1..Len(q) - 1
      /\ \A i \in 1..Len(q) - 1 : Tail(q)[i] = q[i + 1]
      /\ Head(q) = q[1] /\ 1 \in DOMAIN q
  BY <1>3, EmptySeq
<1>5. PICK e \in Entries : e = q[1]
  BY <1>4
<1>6. PICK rest \in ManagerRecords :
        /\ rest = [obj EXCEPT !.reuse = Tail(q)]
        /\ rest.size = obj.size /\ rest.destroy = obj.destroy
        /\ rest.num = obj.num /\ rest.max = obj.max /\ rest.free = obj.free
        /\ rest.reuse = Tail(q)
  <2>1. Tail(q) \in Seq(Entries)
    BY <1>4
  <2>. QED  BY <2>1, WithList
<1>7. Given(c, e, rest)
  <2>1. /\ Given(c, Head(managers[uses[c]].reuse),
                 [managers[uses[c]] EXCEPT !.reuse = Tail(managers[uses[c]].reuse)])
    BY DEF alloc_reused
  <2>2. managers[uses[c]] = obj /\ obj.reuse = q
    BY <1>1, <1>2, <1>3
  <2>3. e = Head(managers[uses[c]].reuse)
    BY <1>4, <1>5, <2>2
  <2>4. rest = [managers[uses[c]] EXCEPT !.reuse = Tail(managers[uses[c]].reuse)]
    BY <1>6, <2>2
  <2>. QED  BY <2>1, <2>3, <2>4
<1>8. /\ e.manager = m /\ CutIn(obj, e) /\ ~Holds(e)
      /\ \A i, j \in DOMAIN q : q[i] = q[j] => i = j
  BY <1>2, <1>3, <1>4, <1>5 DEF ErsInv, ListIsFree
<1>9. UNCHANGED ersFaults
  BY <1>1, <1>2, <1>3, <1>4, <1>5, <1>8 DEF alloc_reused, Twice
<1>10. FromIts(obj, e, rest)
  <2>1. rest.num <= rest.max /\ (rest.num = 0 => rest.free = 0)
    BY <1>2, <1>6 DEF ErsInv, AllAreThere
  <2>2. \A x \in Entries : CutIn(rest, x) <=> CutIn(obj, x)
    BY <1>6 DEF CutIn
  <2>3. ASSUME NEW i \in DOMAIN rest.reuse
        PROVE  /\ rest.reuse[i] # e
               /\ \E k \in DOMAIN obj.reuse : rest.reuse[i] = obj.reuse[k]
               /\ \A j \in DOMAIN rest.reuse : rest.reuse[i] = rest.reuse[j] => i = j
    <3>1. i \in 1..Len(q) - 1 /\ i + 1 \in DOMAIN q /\ i + 1 # 1
          /\ rest.reuse[i] = q[i + 1]
      BY <1>4, <1>6, <2>3
    <3>2. ASSUME NEW j \in DOMAIN rest.reuse, rest.reuse[i] = rest.reuse[j]
          PROVE  i = j
      <4>1. j \in 1..Len(q) - 1 /\ j + 1 \in DOMAIN q /\ rest.reuse[j] = q[j + 1]
        BY <1>4, <1>6, <3>2
      <4>2. i + 1 = j + 1
        BY <1>8, <3>1, <3>2, <4>1
      <4>. QED  BY <1>4, <3>1, <4>1, <4>2
    <3>. QED  BY <1>3, <1>4, <1>5, <1>8, <3>1, <3>2
  <2>4. CutFrom(rest) - Len(rest.reuse) = CutFrom(obj) - Len(obj.reuse) + 1
    <3>1. CutFrom(rest) = CutFrom(obj)
      BY <1>6 DEF CutFrom
    <3>2. CutFrom(obj) \in Int
      BY CutTypes
    <3>. QED  BY <1>3, <1>4, <1>6, <3>1, <3>2
  <2>. QED  BY <1>6, <1>8, <2>1, <2>2, <2>3, <2>4 DEF FromIts
<1>. QED  BY <1>1, <1>2, <1>7, <1>8, <1>9, <1>10, GivenKeeps

\* What nobody has cut yet is neither held nor in the list.
LEMMA UncutIs ==
  ASSUME ErsInv, NEW m \in 1..MaxManagers, NEW e \in Entries, e.manager = m,
         ~CutIn(managers[m], e)
  PROVE  /\ ~Holds(e) /\ Twice(e) = {}
         /\ \A i \in DOMAIN managers[m].reuse : managers[m].reuse[i] # e
<1>1. ~Holds(e)
  BY DEF ErsInv, HeldIsOwn, Holds
<1>. QED  BY <1>1 DEF ErsInv, ListIsFree, Twice

\* The next entry of a block is cut, or the first of a new one.
LEMMA CutKeeps ==
  ASSUME ErsInv, NEW c \in Containers, uses[c] # 0, NEW e \in Entries,
         NEW rest \in ManagerRecords, Given(c, e, rest),
         ersFaults' = ersFaults \cup Twice(e), e.manager = uses[c],
         ~CutIn(managers[uses[c]], e),
         managers[uses[c]].reuse = <<>>, rest.reuse = <<>>,
         rest.size = managers[uses[c]].size,
         rest.destroy = managers[uses[c]].destroy,
         rest.num <= rest.max, rest.num # 0,
         CutIn(rest, e),
         \A x \in Entries : CutIn(managers[uses[c]], x) => CutIn(rest, x),
         CutFrom(rest) = CutFrom(managers[uses[c]]) + 1
  PROVE  ErsInv'
<1>1. PICK m \in 1..MaxManagers : m = uses[c]
  BY UsedIs
<1>2. PICK obj \in ManagerRecords : obj = managers[m]
  BY <1>1, UsedIs
<1>3. ~Holds(e) /\ Twice(e) = {}
  BY <1>1, UncutIs
<1>4. FromIts(obj, e, rest)
  <2>1. CutFrom(rest) - Len(rest.reuse) = CutFrom(obj) - Len(obj.reuse) + 1
    <3>1. CutFrom(obj) \in Int /\ CutFrom(rest) = CutFrom(obj) + 1
      BY <1>1, <1>2, CutTypes
    <3>2. Len(rest.reuse) = 0 /\ Len(obj.reuse) = 0
      BY <1>1, <1>2
    <3>. QED  BY <3>1, <3>2
  <2>2. DOMAIN rest.reuse = {}
    OBVIOUS
  <2>. QED  BY <1>1, <1>2, <2>1, <2>2 DEF FromIts
<1>. QED  BY <1>1, <1>2, <1>3, <1>4, GivenKeeps

\* The next entry of the last block is handed out.
LEMMA UnusedKeeps ==
  ASSUME ErsInv, NEW c \in Containers, alloc_unused(c)
  PROVE  ErsInv'
<1>1. PICK m \in 1..MaxManagers : m = uses[c] /\ uses[c] # 0
  BY UsedIs DEF alloc_unused
<1>2. PICK obj \in ManagerRecords :
        obj = managers[m] /\ obj.reuse = <<>> /\ obj.free > 0
  BY <1>1, UsedIs DEF alloc_unused
<1>3. /\ obj.num \in 0..MaxBlocks /\ obj.free \in 0..ERS_BLOCK_ENTRIES - 1
      /\ obj.max \in Nat /\ obj.num <= obj.max /\ obj.num # 0
      /\ MaxBlocks \in Nat /\ ERS_BLOCK_ENTRIES \in Nat
  <2>1. obj.num = 0 => obj.free = 0
    BY <1>2 DEF ErsInv, AllAreThere
  <2>2. obj.num <= obj.max
    BY <1>2 DEF ErsInv, AllAreThere
  <2>. QED  BY <1>2, <2>1, <2>2, ErsAssumption DEF ManagerRecords
<1>4. PICK e \in Entries : /\ e = Entry(m, obj.num - 1, obj.free - 1)
                          /\ e.manager = m /\ e.block = obj.num - 1
                          /\ e.at = obj.free - 1
  <2>1. obj.num - 1 \in 0..MaxBlocks - 1 /\ obj.free - 1 \in 0..ERS_BLOCK_ENTRIES - 1
    BY <1>2, <1>3
  <2>. QED  BY <2>1, EntryIs
<1>5. PICK rest \in ManagerRecords :
        /\ rest = [obj EXCEPT !.free = @ - 1]
        /\ rest.size = obj.size /\ rest.destroy = obj.destroy
        /\ rest.num = obj.num /\ rest.max = obj.max /\ rest.free = obj.free - 1
        /\ rest.reuse = obj.reuse
  <2>1. obj.free - 1 \in 0..ERS_BLOCK_ENTRIES - 1
    BY <1>2, <1>3
  <2>. QED  BY <2>1, WithFree
<1>6. Given(c, e, rest) /\ ersFaults' = ersFaults \cup Twice(e)
  BY <1>1, <1>2, <1>4, <1>5 DEF alloc_unused
<1>7. ~CutIn(obj, e) /\ CutIn(rest, e)
  BY <1>3, <1>4, <1>5 DEF CutIn
<1>8. ASSUME NEW x \in Entries, CutIn(obj, x) PROVE CutIn(rest, x)
  <2>1. x.block \in Int /\ x.at \in Int
    BY DEF Entries
  <2>. QED  BY <1>3, <1>5, <1>8, <2>1 DEF CutIn
<1>9. CutFrom(rest) = CutFrom(obj) + 1
  BY <1>3, <1>5 DEF CutFrom
<1>10. rest.num <= rest.max /\ rest.num # 0
  BY <1>3, <1>5
<1>11. /\ managers[uses[c]] = obj /\ uses[c] # 0 /\ e.manager = uses[c]
       /\ obj.reuse = <<>> /\ rest.reuse = <<>>
       /\ rest.size = obj.size /\ rest.destroy = obj.destroy
  BY <1>1, <1>2, <1>4, <1>5
<1>. QED  BY <1>6, <1>7, <1>8, <1>9, <1>10, <1>11, CutKeeps

\* The last entry of a new block is handed out.
LEMMA BlockKeeps ==
  ASSUME ErsInv, NEW c \in Containers, alloc_block(c)
  PROVE  ErsInv'
<1>1. PICK m \in 1..MaxManagers : m = uses[c] /\ uses[c] # 0
  BY UsedIs DEF alloc_block
<1>2. PICK obj \in ManagerRecords :
        /\ obj = managers[m] /\ obj.reuse = <<>> /\ obj.free = 0
        /\ obj.num < MaxBlocks
  BY <1>1, UsedIs DEF alloc_block
<1>3. /\ obj.num \in 0..MaxBlocks - 1 /\ obj.max \in Nat /\ obj.num <= obj.max
      /\ MaxBlocks \in Nat /\ ERS_BLOCK_ENTRIES \in Nat /\ ERS_BLOCK_ENTRIES > 0
  <2>1. obj.num <= obj.max
    BY <1>2 DEF ErsInv, AllAreThere
  <2>. QED  BY <1>2, <2>1, ErsAssumption DEF ManagerRecords
<1>4. PICK e \in Entries : /\ e = Entry(m, obj.num, ERS_BLOCK_ENTRIES - 1)
                          /\ e.manager = m /\ e.block = obj.num
                          /\ e.at = ERS_BLOCK_ENTRIES - 1
  <2>1. obj.num \in 0..MaxBlocks - 1
        /\ ERS_BLOCK_ENTRIES - 1 \in 0..ERS_BLOCK_ENTRIES - 1
    BY <1>3
  <2>. QED  BY <2>1, EntryIs
<1>5. PICK grown \in Nat : /\ grown = IF obj.num = obj.max THEN obj.max * 4 + 3
                                      ELSE obj.max
                          /\ obj.num < grown
  BY <1>3
<1>6. PICK rest \in ManagerRecords :
        /\ rest = [obj EXCEPT !.free = ERS_BLOCK_ENTRIES - 1, !.num = @ + 1,
                              !.max = grown]
        /\ rest.size = obj.size /\ rest.destroy = obj.destroy
        /\ rest.num = obj.num + 1 /\ rest.max = grown
        /\ rest.free = ERS_BLOCK_ENTRIES - 1
        /\ rest.reuse = obj.reuse
  <2>1. obj.num + 1 \in 0..MaxBlocks
        /\ ERS_BLOCK_ENTRIES - 1 \in 0..ERS_BLOCK_ENTRIES - 1
    BY <1>3
  <2>2. PICK one \in ManagerRecords :
          /\ one = [obj EXCEPT !.free = ERS_BLOCK_ENTRIES - 1]
          /\ one.size = obj.size /\ one.destroy = obj.destroy
          /\ one.num = obj.num /\ one.max = obj.max
          /\ one.free = ERS_BLOCK_ENTRIES - 1 /\ one.reuse = obj.reuse
    BY <2>1, WithFree
  <2>3. PICK two \in ManagerRecords :
          /\ two = [one EXCEPT !.num = @ + 1]
          /\ two.size = one.size /\ two.destroy = one.destroy
          /\ two.num = one.num + 1 /\ two.max = one.max
          /\ two.free = one.free /\ two.reuse = one.reuse
    <3>1. one.num + 1 \in 0..MaxBlocks
      BY <2>1, <2>2
    <3>. QED  BY <3>1, WithBlocks
  <2>4. PICK three \in ManagerRecords :
          /\ three = [two EXCEPT !.max = grown]
          /\ three.size = two.size /\ three.destroy = two.destroy
          /\ three.num = two.num /\ three.max = grown
          /\ three.free = two.free /\ three.reuse = two.reuse
    BY WithArray
  <2>. QED  BY <2>2, <2>3, <2>4
<1>7. Given(c, e, rest) /\ ersFaults' = ersFaults \cup Twice(e)
  <2>1. Given(c, e, rest)
    BY <1>1, <1>2, <1>4, <1>5, <1>6 DEF alloc_block
  <2>2. ersFaults' = ersFaults \cup Twice(e) \cup (IF obj.num < grown THEN {} ELSE {"outside"})
    BY <1>1, <1>2, <1>4, <1>5 DEF alloc_block
  <2>. QED  BY <1>5, <2>1, <2>2
<1>8. ~CutIn(obj, e) /\ CutIn(rest, e)
  BY <1>3, <1>4, <1>6 DEF CutIn
<1>9. ASSUME NEW x \in Entries, CutIn(obj, x) PROVE CutIn(rest, x)
  <2>1. x.block \in Int /\ x.at \in Int
    BY DEF Entries
  <2>. QED  BY <1>3, <1>6, <1>9, <2>1 DEF CutIn
<1>10. CutFrom(rest) = CutFrom(obj) + 1
  <2>1. (obj.num + 1) * ERS_BLOCK_ENTRIES = obj.num * ERS_BLOCK_ENTRIES + ERS_BLOCK_ENTRIES
        /\ obj.num * ERS_BLOCK_ENTRIES \in Int
    BY <1>3
  <2>. QED  BY <1>2, <1>3, <1>6, <2>1 DEF CutFrom
<1>11. rest.num <= rest.max /\ rest.num # 0
  BY <1>3, <1>5, <1>6
<1>12. /\ managers[uses[c]] = obj /\ uses[c] # 0 /\ e.manager = uses[c]
       /\ managers[uses[c]].reuse = <<>> /\ rest.reuse = <<>>
       /\ rest.size = managers[uses[c]].size
       /\ rest.destroy = managers[uses[c]].destroy
  BY <1>1, <1>2, <1>4, <1>6
<1>13. /\ ~CutIn(managers[uses[c]], e)
       /\ \A x \in Entries : CutIn(managers[uses[c]], x) => CutIn(rest, x)
       /\ CutFrom(rest) = CutFrom(managers[uses[c]]) + 1
  BY <1>8, <1>9, <1>10, <1>12
<1>. QED  BY <1>7, <1>8, <1>11, <1>12, <1>13, CutKeeps

\* A list with an entry put before it.
LEMMA PutFirst ==
  ASSUME NEW S, NEW q \in Seq(S), NEW e \in S
  PROVE  /\ <<e>> \o q \in Seq(S) /\ Len(<<e>> \o q) = Len(q) + 1
         /\ (<<e>> \o q)[1] = e
         /\ \A i \in 2..Len(q) + 1 : (<<e>> \o q)[i] = q[i - 1]
<1>1. <<e>> \in Seq(S) /\ Len(<<e>>) = 1 /\ Len(q) \in Nat
  OBVIOUS
<1>. QED  BY <1>1, ConcatProperties

\* An entry goes back to the list of its manager.
LEMMA FreeKeeps ==
  ASSUME ErsInv, NEW c \in Containers, NEW e \in held[c], ers_free(c, e)
  PROVE  ErsInv'
<1>1. /\ uses[c] # 0 /\ e.manager = uses[c] /\ CutIn(managers[uses[c]], e)
      /\ \A d \in Containers \ {c} : e \notin held[d]
  BY DEF ErsInv, HeldIsOwn
<1>2. PICK m \in 1..MaxManagers : m = uses[c]
  BY <1>1, UsedIs
<1>3. PICK obj \in ManagerRecords : obj = managers[m]
  BY <1>1, <1>2, UsedIs
<1>4. e \in Entries /\ Holds(e)
  BY DEF ErsInv, ErsTypeOK, Holds
<1>5. PICK q \in Seq(Entries) : q = obj.reuse
  BY DEF ManagerRecords
<1>6. PICK p \in Seq(Entries) :
        /\ p = <<e>> \o q /\ Len(p) = Len(q) + 1 /\ p[1] = e
        /\ \A i \in 2..Len(q) + 1 : p[i] = q[i - 1]
  <2>. DEFINE r == <<e>> \o q
  <2>1. /\ r \in Seq(Entries) /\ Len(r) = Len(q) + 1 /\ r[1] = e
        /\ \A i \in 2..Len(q) + 1 : r[i] = q[i - 1]
    BY <1>4, PutFirst
  <2>2. r = <<e>> \o q
    OBVIOUS
  <2>. HIDE DEF r
  <2>. QED  BY <2>1, <2>2
<1>7. PICK rest \in ManagerRecords :
        /\ rest = [obj EXCEPT !.reuse = p]
        /\ rest.size = obj.size /\ rest.destroy = obj.destroy
        /\ rest.num = obj.num /\ rest.max = obj.max /\ rest.free = obj.free
        /\ rest.reuse = p
  BY WithList
<1>8. /\ held' = [held EXCEPT ![c] = @ \ {e}]
      /\ managers' = [managers EXCEPT ![m] = rest]
      /\ UNCHANGED <<ers_root, made, uses, ersFaults>>
  <2>1. managers' = [managers EXCEPT ![m] = [managers[m] EXCEPT !.reuse = <<e>> \o managers[m].reuse]]
    BY <1>2 DEF ers_free
  <2>. QED  BY <1>3, <1>5, <1>6, <1>7, <2>1 DEF ers_free
<1>9. /\ \A d \in Containers :
           held'[d] = IF d = c THEN held[c] \ {e} ELSE held[d]
      /\ \A k \in 1..MaxManagers :
           managers'[k] = IF k = m THEN rest ELSE managers[k]
  BY <1>8 DEF ErsInv, ErsTypeOK
<1>10. ErsTypeOK'
  <2>1. managers' \in [1..MaxManagers -> ManagerRecords]
    BY <1>8 DEF ErsInv, ErsTypeOK, ManagerRecords
  <2>2. held' \in [Containers -> SUBSET Entries]
    BY <1>8 DEF ErsInv, ErsTypeOK
  <2>. QED  BY <1>8, <2>1, <2>2 DEF ErsInv, ErsTypeOK, ManagerRecords
<1>11. \A x \in Entries : Holds(x)' <=> Holds(x) /\ x # e
  BY <1>1, <1>9 DEF Holds
<1>12. \A k \in 1..MaxManagers :
         /\ managers'[k].size = managers[k].size
         /\ managers'[k].destroy = managers[k].destroy
         /\ managers'[k].num = managers[k].num /\ managers'[k].max = managers[k].max
         /\ managers'[k].free = managers[k].free
  BY <1>3, <1>7, <1>9
<1>13. \A k \in 1..MaxManagers : \A x \in Entries :
         CutIn(managers'[k], x) <=> CutIn(managers[k], x)
  BY <1>12 DEF CutIn
<1>14. HeldIsOwn'
  <2>1. SUFFICES ASSUME NEW d \in Containers, NEW x \in held'[d]
        PROVE  /\ uses[d] # 0 /\ x.manager = uses[d]
               /\ CutIn(managers'[uses[d]], x)
               /\ \A f \in Containers \ {d} : x \notin held'[f]
    BY <1>8 DEF HeldIsOwn, CutIn
  <2>2. x \in Entries /\ x \in held[d]
        /\ \A f \in Containers : x \in held'[f] => x \in held[f]
    BY <1>9, <2>1 DEF ErsInv, ErsTypeOK
  <2>3. uses[d] # 0 /\ x.manager = uses[d] /\ CutIn(managers[uses[d]], x)
        /\ \A f \in Containers \ {d} : x \notin held[f]
    BY <2>2 DEF ErsInv, HeldIsOwn
  <2>4. uses[d] \in 1..MaxManagers
    BY <2>3 DEF ErsInv, ErsTypeOK
  <2>. QED  BY <1>13, <2>2, <2>3, <2>4
<1>15. \A k \in 1..MaxManagers : \A i, j \in DOMAIN managers[k].reuse :
         /\ managers[k].reuse[i] \in Entries
         /\ managers[k].reuse[i].manager = k
         /\ CutIn(managers[k], managers[k].reuse[i])
         /\ ~Holds(managers[k].reuse[i])
         /\ managers[k].reuse[i] = managers[k].reuse[j] => i = j
  <2>1. ASSUME NEW k \in 1..MaxManagers, NEW i \in DOMAIN managers[k].reuse
        PROVE  managers[k].reuse[i] \in Entries
    <3>1. managers[k].reuse \in Seq(Entries)
      BY DEF ErsInv, ErsTypeOK
    <3>. QED  BY <2>1, <3>1, ListsAre
  <2>. QED  BY <2>1 DEF ErsInv, ListIsFree
<1>16. ListIsFree'
  <2>1. SUFFICES ASSUME NEW k \in 1..MaxManagers, NEW i \in DOMAIN managers'[k].reuse
        PROVE  /\ managers'[k].reuse[i].manager = k
               /\ CutIn(managers'[k], managers'[k].reuse[i])
               /\ \A d \in Containers : managers'[k].reuse[i] \notin held'[d]
               /\ \A j \in DOMAIN managers'[k].reuse :
                    managers'[k].reuse[i] = managers'[k].reuse[j] => i = j
    BY DEF ListIsFree, CutIn, Holds
  <2>2. CASE k # m
    <3>1. managers'[k] = managers[k]
      BY <1>9, <2>2
    <3>2. \A d \in Containers : managers[k].reuse[i] \notin held'[d]
      BY <1>9, <1>15, <2>1, <3>1 DEF Holds
    <3>. QED  BY <1>15, <2>1, <3>1, <3>2
  <2>3. CASE k = m
    <3>1. managers'[k].reuse = p /\ managers[k].reuse = q
      BY <1>3, <1>5, <1>7, <1>9, <2>3
    <3>2. /\ DOMAIN p = 1..Len(q) + 1 /\ DOMAIN q = 1..Len(q) /\ Len(q) \in Nat
          /\ i \in 1..Len(q) + 1
      BY <1>6, <2>1, <3>1
    <3>3. /\ \A j \in 1..Len(q) + 1 : j # 1 => j - 1 \in DOMAIN q
          /\ \A j \in 1..Len(q) + 1 : j # 1 => p[j] = q[j - 1]
          /\ p[1] = e
      BY <1>6, <3>2
    <3>4. /\ \A j \in DOMAIN q : /\ q[j] # e /\ q[j].manager = m /\ q[j] \in Entries
                               /\ CutIn(managers[m], q[j]) /\ ~Holds(q[j])
          /\ \A j, l \in DOMAIN q : q[j] = q[l] => j = l
      BY <1>4, <1>15, <2>3, <3>1
    <3>5. p[i] \in Entries /\ p[i].manager = m /\ CutIn(managers[m], p[i])
          /\ (p[i] = e \/ ~Holds(p[i]))
      <4>1. CASE i = 1
        BY <1>1, <1>2, <1>4, <3>3, <4>1
      <4>2. CASE i # 1
        <5>1. PICK j \in DOMAIN q : p[i] = q[j]
          BY <3>2, <3>3, <4>2
        <5>. QED  BY <3>4, <5>1
      <4>. QED  BY <4>1, <4>2
    <3>6. \A d \in Containers : p[i] \notin held'[d]
      BY <1>1, <1>9, <3>5 DEF Holds
    <3>7. ASSUME NEW j \in 1..Len(q) + 1, p[i] = p[j] PROVE i = j
      <4>1. CASE i = 1 /\ j # 1
        <5>1. j - 1 \in DOMAIN q /\ p[j] = q[j - 1] /\ p[i] = e
          BY <3>3, <3>7, <4>1
        <5>. QED  BY <3>4, <3>7, <5>1
      <4>2. CASE i # 1 /\ j = 1
        <5>1. i - 1 \in DOMAIN q /\ p[i] = q[i - 1] /\ p[j] = e
          BY <3>2, <3>3, <4>2
        <5>. QED  BY <3>4, <3>7, <5>1
      <4>3. CASE i # 1 /\ j # 1
        <5>1. /\ i - 1 \in DOMAIN q /\ p[i] = q[i - 1]
              /\ j - 1 \in DOMAIN q /\ p[j] = q[j - 1]
          BY <3>2, <3>3, <3>7, <4>3
        <5>2. i - 1 = j - 1
          BY <3>4, <3>7, <5>1
        <5>. QED  BY <3>2, <3>7, <5>2
      <4>. QED  BY <4>1, <4>2, <4>3
    <3>8. CutIn(managers'[k], p[i])
      BY <1>13, <2>3, <3>5
    <3>. QED  BY <2>3, <3>1, <3>2, <3>5, <3>6, <3>7, <3>8
  <2>. QED  BY <2>2, <2>3
<1>17. AllAreThere'
  <2>1. SUFFICES ASSUME NEW k \in 1..MaxManagers
        PROVE  /\ IsFiniteSet(HeldOf(k)')
               /\ CutFrom(managers'[k]) =
                    Len(managers'[k].reuse) + Cardinality(HeldOf(k)')
               /\ managers'[k].num <= managers'[k].max
               /\ managers'[k].num = 0 => managers'[k].free = 0
    BY DEF AllAreThere, CutFrom
  <2>2. /\ IsFiniteSet(HeldOf(k)) /\ Cardinality(HeldOf(k)) \in Nat
        /\ CutFrom(managers[k]) = Len(managers[k].reuse) + Cardinality(HeldOf(k))
        /\ managers[k].num <= managers[k].max
        /\ managers[k].num = 0 => managers[k].free = 0
    BY FS_CardinalityType DEF ErsInv, AllAreThere
  <2>3. CutFrom(managers'[k]) = CutFrom(managers[k])
    BY <1>12 DEF CutFrom
  <2>4. CASE k = m
    <3>1. HeldOf(k)' = HeldOf(k) \ {e} /\ e \in HeldOf(k)
      BY <1>1, <1>2, <1>4, <1>11, <2>4 DEF HeldOf
    <3>2. PICK h : h = HeldOf(k)
      OBVIOUS
    <3>3. IsFiniteSet(h \ {e}) /\ Cardinality(h \ {e}) = Cardinality(h) - 1
      BY <2>2, <3>1, <3>2, FS_RemoveElement
    <3>4. Len(managers'[k].reuse) = Len(q) + 1 /\ Len(managers[k].reuse) = Len(q)
      BY <1>3, <1>5, <1>6, <1>7, <1>9, <2>4
    <3>5. Len(q) \in Int /\ Cardinality(h) \in Int
      BY <2>2, <3>2
    <3>6. CutFrom(managers'[k]) = Len(q) + Cardinality(h)
      BY <2>2, <2>3, <3>2, <3>4
    <3>7. CutFrom(managers'[k]) = (Len(q) + 1) + (Cardinality(h) - 1)
      BY <3>5, <3>6
    <3>. QED  BY <1>12, <2>2, <3>1, <3>2, <3>3, <3>4, <3>7
  <2>5. CASE k # m
    <3>1. HeldOf(k)' = HeldOf(k)
      BY <1>1, <1>2, <1>11, <2>5 DEF HeldOf
    <3>. QED  BY <1>9, <2>2, <2>5, <3>1
  <2>. QED  BY <2>4, <2>5
<1>18. MadeInTurn'
  <2>1. m <= made
    BY <1>1, <1>2, UsedIs
  <2>. QED  BY <1>8, <1>9, <2>1 DEF ErsInv, ErsTypeOK, MadeInTurn
<1>19. ManagersStand'
  <2>2. \A k : UsersOf(k)' = UsersOf(k)
    BY <1>8 DEF UsersOf
  <2>3. \A i \in DOMAIN ers_root : ers_root[i] \in 1..MaxManagers
    <3>1. ers_root \in Seq(1..MaxManagers)
      BY DEF ErsInv, ErsTypeOK
    <3>. QED  BY <3>1, ListsAre
  <2>. QED  BY <1>8, <1>12, <2>2, <2>3 DEF ErsInv, ManagersStand
<1>. QED  BY <1>8, <1>10, <1>14, <1>16, <1>17, <1>18, <1>19 DEF ErsInv

\* What a change of the users of managers leaves as it was: neither lists nor
\* what is held nor blocks.
LEMMA ListsStay ==
  ASSUME ErsInv, UNCHANGED held,
         \A c \in Containers : held[c] # {} => uses'[c] = uses[c],
         \A k \in 1..MaxManagers :
           /\ managers'[k].reuse = managers[k].reuse
           /\ managers'[k].free = managers[k].free
           /\ managers'[k].num = managers[k].num
           /\ managers'[k].max = managers[k].max
  PROVE  HeldIsOwn' /\ ListIsFree' /\ AllAreThere'
<1>1. \A k \in 1..MaxManagers : \A x \in Entries :
        CutIn(managers'[k], x) <=> CutIn(managers[k], x)
  BY DEF CutIn
<1>2. HeldIsOwn'
  <2>1. SUFFICES ASSUME NEW d \in Containers, NEW x \in held[d]
        PROVE  /\ uses'[d] # 0 /\ x.manager = uses'[d]
               /\ CutIn(managers'[uses'[d]], x)
               /\ \A f \in Containers \ {d} : x \notin held[f]
    BY DEF HeldIsOwn, CutIn
  <2>2. x \in Entries /\ uses'[d] = uses[d]
    BY <2>1 DEF ErsInv, ErsTypeOK
  <2>3. uses[d] # 0 /\ x.manager = uses[d] /\ CutIn(managers[uses[d]], x)
        /\ \A f \in Containers \ {d} : x \notin held[f]
    BY <2>1 DEF ErsInv, HeldIsOwn
  <2>4. uses[d] \in 1..MaxManagers
    BY <2>3 DEF ErsInv, ErsTypeOK
  <2>5. CutIn(managers'[uses[d]], x)
    BY <1>1, <2>2, <2>3, <2>4
  <2>. QED  BY <2>2, <2>3, <2>5
<1>3. ListIsFree'
  <2>1. SUFFICES ASSUME NEW k \in 1..MaxManagers, NEW i \in DOMAIN managers[k].reuse
        PROVE  /\ managers[k].reuse[i].manager = k
               /\ CutIn(managers'[k], managers[k].reuse[i])
               /\ \A d \in Containers : managers[k].reuse[i] \notin held[d]
               /\ \A j \in DOMAIN managers[k].reuse :
                    managers[k].reuse[i] = managers[k].reuse[j] => i = j
    BY DEF ListIsFree, CutIn, Holds
  <2>2. managers[k].reuse[i] \in Entries
    <3>1. managers[k].reuse \in Seq(Entries)
      BY DEF ErsInv, ErsTypeOK
    <3>. QED  BY <2>1, <3>1, ListsAre
  <2>. QED  BY <1>1, <2>1, <2>2 DEF ErsInv, ListIsFree, Holds
<1>4. AllAreThere'
  <2>1. \A k : HeldOf(k)' = HeldOf(k)
    BY DEF HeldOf, Holds
  <2>2. \A k \in 1..MaxManagers : CutFrom(managers'[k]) = CutFrom(managers[k])
    BY DEF CutFrom
  <2>3. SUFFICES ASSUME NEW k \in 1..MaxManagers
        PROVE  /\ IsFiniteSet(HeldOf(k)')
               /\ CutFrom(managers'[k]) =
                    Len(managers'[k].reuse) + Cardinality(HeldOf(k)')
               /\ managers'[k].num <= managers'[k].max
               /\ managers'[k].num = 0 => managers'[k].free = 0
    BY DEF AllAreThere, CutFrom
  <2>. QED  BY <2>1, <2>2 DEF ErsInv, AllAreThere
<1>. QED  BY <1>2, <1>3, <1>4

\* The users of a manager can be counted.
LEMMA UsersAre ==
  ASSUME NEW m
  PROVE  IsFiniteSet(UsersOf(m)) /\ Cardinality(UsersOf(m)) \in Nat
<1>1. UsersOf(m) \subseteq Containers
  BY DEF UsersOf
<1>. QED  BY <1>1, ErsAssumption, FS_Subset, FS_CardinalityType

\* A container shares a manager of the size it needs.
LEMMA ShareKeeps ==
  ASSUME ErsInv, NEW c \in Containers, uses[c] = 0, NEW i \in DOMAIN ers_root,
         managers' = [managers EXCEPT ![ers_root[i]].destroy = @ + 1],
         uses' = [uses EXCEPT ![c] = ers_root[i]],
         UNCHANGED <<ers_root, made, held, ersFaults>>
  PROVE  ErsInv'
<1>1. \A j \in DOMAIN ers_root : ers_root[j] \in 1..MaxManagers
  <2>1. ers_root \in Seq(1..MaxManagers)
    BY DEF ErsInv, ErsTypeOK
  <2>. QED  BY <2>1, ListsAre
<1>2. PICK m \in 1..MaxManagers : m = ers_root[i]
  BY <1>1
<1>3. PICK obj \in ManagerRecords : obj = managers[m]
  BY DEF ErsInv, ErsTypeOK, ManagerRecords
<1>4. PICK rest \in ManagerRecords :
        /\ rest = [obj EXCEPT !.destroy = obj.destroy + 1]
        /\ rest.size = obj.size /\ rest.destroy = obj.destroy + 1
        /\ rest.num = obj.num /\ rest.max = obj.max /\ rest.free = obj.free
        /\ rest.reuse = obj.reuse
  <2>1. obj.destroy + 1 \in Int
    BY DEF ManagerRecords
  <2>. QED  BY <2>1, WithUsers
<1>5. managers' = [managers EXCEPT ![m] = rest]
  BY <1>2, <1>3, <1>4
<1>6. /\ \A d \in Containers : uses'[d] = IF d = c THEN m ELSE uses[d]
      /\ \A k \in 1..MaxManagers :
           managers'[k] = IF k = m THEN rest ELSE managers[k]
  BY <1>2, <1>5 DEF ErsInv, ErsTypeOK
<1>7. ErsTypeOK'
  <2>1. managers' \in [1..MaxManagers -> ManagerRecords]
    BY <1>5 DEF ErsInv, ErsTypeOK, ManagerRecords
  <2>2. uses' \in [Containers -> 0..MaxManagers]
    BY <1>2 DEF ErsInv, ErsTypeOK
  <2>. QED  BY <2>1, <2>2 DEF ErsInv, ErsTypeOK, ManagerRecords
<1>8. held[c] = {}
  BY DEF ErsInv, HeldIsOwn
<1>9. HeldIsOwn' /\ ListIsFree' /\ AllAreThere'
  BY <1>3, <1>4, <1>6, <1>8, ListsStay
<1>10. MadeInTurn'
  <2>1. m <= made
    BY <1>2 DEF ErsInv, MadeInTurn
  <2>. QED  BY <1>6, <2>1 DEF ErsInv, ErsTypeOK, MadeInTurn
<1>11. ManagersStand'
  <2>1. \A k \in 1..MaxManagers : managers'[k].size = managers[k].size
    BY <1>3, <1>4, <1>6
  <2>2. \A k \in 1..MaxManagers :
          UsersOf(k)' = IF k = m THEN UsersOf(k) \cup {c} ELSE UsersOf(k)
    BY <1>6 DEF UsersOf
  <2>3. c \notin UsersOf(m) /\ obj.destroy = Cardinality(UsersOf(m))
    BY <1>2, <1>3 DEF ErsInv, ManagersStand, UsersOf
  <2>4. PICK U : U = UsersOf(m)
    OBVIOUS
  <2>5. Cardinality(U \cup {c}) = Cardinality(U) + 1
    BY <2>3, <2>4, UsersAre, FS_AddElement
  <2>6. \A k \in 1..MaxManagers :
          (\E j \in DOMAIN ers_root : ers_root[j] = k) <=> UsersOf(k)' # {}
    BY <1>2, <2>2 DEF ErsInv, ManagersStand
  <2>7. \A j \in DOMAIN ers_root :
          managers'[ers_root[j]].destroy = Cardinality(UsersOf(ers_root[j])')
    <3>1. SUFFICES ASSUME NEW j \in DOMAIN ers_root, NEW k \in 1..MaxManagers,
                          k = ers_root[j]
          PROVE  managers'[k].destroy = Cardinality(UsersOf(k)')
      BY <1>1 DEF UsersOf
    <3>2. CASE k = m
      BY <1>4, <1>6, <2>2, <2>3, <2>4, <2>5, <3>2
    <3>3. CASE k # m
      BY <1>6, <2>2, <3>1, <3>3 DEF ErsInv, ManagersStand
    <3>. QED  BY <3>2, <3>3
  <2>8. \A j, k \in DOMAIN ers_root :
          managers'[ers_root[j]].size = managers'[ers_root[k]].size => j = k
    BY <1>1, <2>1 DEF ErsInv, ManagersStand
  <2>. QED  BY <2>6, <2>7, <2>8 DEF ManagersStand, UsersOf
<1>. QED  BY <1>7, <1>9, <1>10, <1>11 DEF ErsInv

\* A manager is made for a size that none handles.
LEMMA MakeKeeps ==
  ASSUME ErsInv, NEW c \in Containers, uses[c] = 0, NEW size \in Nat,
         Handling(size) = {}, made < MaxManagers, made' = made + 1,
         managers' = [managers EXCEPT ![made + 1] = Fresh(size)],
         ers_root' = Append(ers_root, made + 1),
         uses' = [uses EXCEPT ![c] = made + 1],
         UNCHANGED <<held, ersFaults>>
  PROVE  ErsInv'
<1>1. ers_root \in Seq(1..MaxManagers) /\ made \in Nat /\ MaxManagers \in Nat
  BY ErsAssumption DEF ErsInv, ErsTypeOK
<1>2. \A j \in DOMAIN ers_root : ers_root[j] \in 1..MaxManagers /\ ers_root[j] <= made
  BY <1>1, ListsAre DEF ErsInv, MadeInTurn
<1>3. PICK m \in 1..MaxManagers : m = made + 1
  BY <1>1
<1>4. PICK n \in Nat : n = Len(ers_root) /\ DOMAIN ers_root = 1..n
  BY <1>1
<1>14. /\ \A j \in 1..n : ers_root[j] \in 1..MaxManagers /\ ers_root[j] # m
       /\ n + 1 \in 1..n + 1
       /\ \A j \in 1..n + 1 : j \in 1..n \/ j = n + 1
  <2>1. \A j \in 1..n : ers_root[j] \in 1..MaxManagers /\ ers_root[j] <= made
    BY <1>2, <1>4
  <2>2. ~(m <= made)
    BY <1>1, <1>3
  <2>. QED  BY <2>1, <2>2
<1>5. /\ ers_root' \in Seq(1..MaxManagers) /\ DOMAIN ers_root' = 1..n + 1
      /\ ers_root'[n + 1] = m
      /\ \A j \in 1..n : ers_root'[j] = ers_root[j]
  BY <1>1, <1>3, <1>4
<1>6. PICK rest \in ManagerRecords :
        /\ rest = Fresh(size) /\ rest.size = size /\ rest.destroy = 1
        /\ rest.reuse = <<>> /\ rest.free = 0 /\ rest.num = 0 /\ rest.max = 0
  BY FreshIs
<1>7. /\ managers[m].reuse = <<>> /\ managers[m].free = 0
      /\ managers[m].num = 0 /\ managers[m].max = 0
  <2>1. managers[m] = Fresh(0) /\ 0 \in Nat
    BY <1>1, <1>3 DEF ErsInv, MadeInTurn
  <2>. QED  BY <2>1, FreshIs
<1>8. /\ \A d \in Containers : uses'[d] = IF d = c THEN m ELSE uses[d]
      /\ managers' = [managers EXCEPT ![m] = rest]
      /\ \A k \in 1..MaxManagers :
           managers'[k] = IF k = m THEN rest ELSE managers[k]
  BY <1>3, <1>6 DEF ErsInv, ErsTypeOK
<1>9. ErsTypeOK'
  <2>1. managers' \in [1..MaxManagers -> ManagerRecords]
    BY <1>8 DEF ErsInv, ErsTypeOK, ManagerRecords
  <2>2. uses' \in [Containers -> 0..MaxManagers]
    BY <1>3 DEF ErsInv, ErsTypeOK
  <2>3. made' \in 0..MaxManagers
    BY <1>1
  <2>. QED  BY <1>5, <2>1, <2>2, <2>3 DEF ErsInv, ErsTypeOK, ManagerRecords
<1>10. held[c] = {}
  BY DEF ErsInv, HeldIsOwn
<1>11. HeldIsOwn' /\ ListIsFree' /\ AllAreThere'
  BY <1>6, <1>7, <1>8, <1>10, ListsStay
<1>12. MadeInTurn'
  <2>1. \A k \in 1..MaxManagers : k > made' => managers'[k] = Fresh(0)
    BY <1>1, <1>3, <1>8 DEF ErsInv, MadeInTurn
  <2>2. \A j \in 1..n + 1 : ers_root'[j] <= made'
    <3>1. \A j \in 1..n : ers_root'[j] <= made + 1
      <4>1. SUFFICES ASSUME NEW j \in 1..n PROVE ers_root'[j] <= made + 1
        OBVIOUS
      <4>2. ers_root'[j] = ers_root[j]
        BY <1>5
      <4>3. PICK k \in 1..MaxManagers : k = ers_root[j] /\ k <= made
        BY <1>2, <1>4
      <4>4. k <= made + 1
        BY <1>1, <4>3
      <4>. QED  BY <4>2, <4>3, <4>4
    <3>2. ers_root'[n + 1] = made + 1 /\ made + 1 <= made + 1
      BY <1>1, <1>3, <1>5
    <3>3. \A j \in 1..n + 1 : j \in 1..n \/ j = n + 1
      BY <1>14
    <3>. QED  BY <3>1, <3>2, <3>3
  <2>3. \A j \in DOMAIN ers_root' : ers_root'[j] <= made'
    BY <1>5, <2>2
  <2>. QED  BY <2>1, <2>3 DEF MadeInTurn, Fresh
<1>13. ManagersStand'
  <2>1. \A d \in Containers : uses[d] # m
    <3>1. SUFFICES ASSUME NEW d \in Containers, uses[d] = m PROVE FALSE
      OBVIOUS
    <3>2. uses[d] # 0
      BY <1>1, <1>3, <3>1
    <3>3. uses[d] <= made
      BY <3>2, UsedIs
    <3>. QED  BY <1>1, <1>3, <3>1, <3>3
  <2>2. UsersOf(m)' = {c}
    BY <1>8, <2>1 DEF UsersOf
  <2>3. \A k \in 1..MaxManagers : k # m => UsersOf(k)' = UsersOf(k)
    <3>1. uses[c] = 0
      OBVIOUS
    <3>. QED  BY <1>8, <3>1 DEF UsersOf
  <2>4. \A k \in 1..MaxManagers :
          (\E j \in 1..n + 1 : ers_root'[j] = k) <=> UsersOf(k)' # {}
    <3>1. SUFFICES ASSUME NEW k \in 1..MaxManagers
          PROVE  (\E j \in 1..n + 1 : ers_root'[j] = k) <=> UsersOf(k)' # {}
      BY DEF UsersOf
    <3>2. CASE k = m
      <4>1. \E j \in 1..n + 1 : ers_root'[j] = k
        BY <1>5, <1>14, <3>2
      <4>. QED  BY <2>2, <3>2, <4>1
    <3>3. CASE k # m
      <4>1. (\E j \in 1..n + 1 : ers_root'[j] = k) <=> (\E j \in 1..n : ers_root[j] = k)
        BY <1>4, <1>5, <3>3
      <4>. QED  BY <1>4, <2>3, <3>3, <4>1 DEF ErsInv, ManagersStand
    <3>. QED  BY <3>2, <3>3
  <2>5. \A j \in 1..n + 1 :
          managers'[ers_root'[j]].destroy = Cardinality(UsersOf(ers_root[j])')
    <3>1. SUFFICES ASSUME NEW j \in 1..n + 1, NEW k \in 1..MaxManagers,
                          k = ers_root'[j]
          PROVE  managers'[k].destroy = Cardinality(UsersOf(k)')
      <4>1. \A j \in 1..n + 1 : ers_root'[j] \in 1..MaxManagers
        BY <1>5, ListsAre
      <4>. QED  BY <4>1 DEF UsersOf
    <3>2. CASE k = m
      BY <1>6, <1>8, <2>2, <3>2, FS_Singleton
    <3>3. CASE k # m
      <4>1. j \in 1..n /\ k = ers_root[j]
        BY <1>5, <1>14, <3>1, <3>3
      <4>. QED  BY <1>4, <1>8, <2>3, <3>3, <4>1 DEF ErsInv, ManagersStand
    <3>. QED  BY <3>2, <3>3
  <2>6. ASSUME NEW j \in 1..n + 1, NEW k \in 1..n + 1,
               managers'[ers_root'[j]].size = managers'[ers_root'[k]].size
        PROVE  j = k
    <3>2. \A l \in 1..n : managers'[ers_root'[l]].size = managers[ers_root[l]].size
      BY <1>5, <1>8, <1>14
    <3>3. managers'[ers_root'[n + 1]].size = size
      BY <1>5, <1>6, <1>8
    <3>4. \A l \in 1..n : managers[ers_root[l]].size # size
      BY <1>4 DEF Handling
    <3>5. CASE j \in 1..n /\ k \in 1..n
      BY <1>4, <2>6, <3>2, <3>5 DEF ErsInv, ManagersStand
    <3>6. CASE j = n + 1 \/ k = n + 1
      BY <1>14, <2>6, <3>2, <3>3, <3>4, <3>6
    <3>. QED  BY <1>14, <2>6, <3>5, <3>6
  <2>7. /\ \A k \in 1..MaxManagers :
             (\E j \in DOMAIN ers_root' : ers_root'[j] = k) <=> UsersOf(k)' # {}
        /\ \A j \in DOMAIN ers_root' :
             managers'[ers_root'[j]].destroy = Cardinality(UsersOf(ers_root[j])')
        /\ \A j, k \in DOMAIN ers_root' :
             managers'[ers_root'[j]].size = managers'[ers_root'[k]].size => j = k
    <3>1. DOMAIN ers_root' = 1..n + 1
      BY <1>5
    <3>2. \A j, k \in 1..n + 1 :
            managers'[ers_root'[j]].size = managers'[ers_root'[k]].size => j = k
      BY <2>6
    <3>3. \A j \in 1..n + 1 :
            managers'[ers_root'[j]].destroy = Cardinality(UsersOf(ers_root[j])')
      BY <2>5
    <3>. QED  BY ONLY <2>4, <3>1, <3>2, <3>3
  <2>. QED  BY <2>7, Zenon DEF ManagersStand, UsersOf
<1>. QED  BY <1>9, <1>11, <1>12, <1>13 DEF ErsInv

\* A container gets a manager, its own or one that others use.
LEMMA NewKeeps ==
  ASSUME ErsInv, NEW c \in Containers, NEW size \in EntrySizes, ers_new(c, size)
  PROVE  ErsInv'
<1>1. RealSize(size) \in Nat
  BY ErsAssumption DEF RealSize
<1>2. \A i \in Handling(RealSize(size)) : i \in DOMAIN ers_root
  BY DEF Handling
<1>3. uses[c] = 0 /\ UNCHANGED <<held, ersFaults>>
  BY DEF ers_new
<1>4. ASSUME NEW i \in DOMAIN ers_root,
             managers' = [managers EXCEPT ![ers_root[i]].destroy = @ + 1],
             uses' = [uses EXCEPT ![c] = ers_root[i]],
             UNCHANGED <<ers_root, made>>
      PROVE  ErsInv'
  BY <1>3, <1>4, ShareKeeps
<1>5. CASE /\ Handling(RealSize(size)) = {}
           /\ made < MaxManagers /\ made' = made + 1
           /\ managers' = [managers EXCEPT ![made + 1] = Fresh(RealSize(size))]
           /\ ers_root' = Append(ers_root, made + 1)
           /\ uses' = [uses EXCEPT ![c] = made + 1]
  BY <1>1, <1>3, <1>5, MakeKeeps
<1>. QED  BY <1>2, <1>4, <1>5 DEF ers_new

\* A function on the first k numbers is a list.
LEMMA FunctionsAreLists ==
  ASSUME NEW S, NEW k \in Nat, NEW f \in [1..k -> S]
  PROVE  f \in Seq(S)
OBVIOUS

\* Whose manager goes is out of the table, the others are in it once.
LEMMA WithoutIs ==
  ASSUME ErsInv, NEW p \in DOMAIN ers_root, NEW m, m = ers_root[p],
         NEW n \in Nat, n = Len(ers_root)
  PROVE  /\ WithoutManager(m) \in Seq(1..MaxManagers)
         /\ DOMAIN WithoutManager(m) = 1..n - 1
         /\ \A j \in 1..n - 1 : WithoutManager(m)[j] = ers_root[IF j = p THEN n ELSE j]
<1>1. ers_root \in Seq(1..MaxManagers)
  BY DEF ErsInv, ErsTypeOK
<1>2. DOMAIN ers_root = 1..n /\ p \in 1..n
  BY <1>1
<1>3. \A j \in 1..n : ers_root[j] \in 1..MaxManagers
  BY <1>1, <1>2, ListsAre
<1>4. \A j \in 1..n : ers_root[j] = m => j = p
  BY <1>2 DEF ErsInv, ManagersStand
<1>. DEFINE t == [j \in 1..n - 1 |-> IF ers_root[j] = m THEN ers_root[n] ELSE ers_root[j]]
<1>5. WithoutManager(m) = t
  BY DEF WithoutManager
<1>6. \A j \in 1..n - 1 : j \in 1..n /\ n \in 1..n
  OBVIOUS
<1>7. t \in [1..n - 1 -> 1..MaxManagers]
  BY <1>3, <1>6
<1>8. \A j \in 1..n - 1 : t[j] = ers_root[IF j = p THEN n ELSE j]
  BY <1>4, <1>6
<1>9. DOMAIN t = 1..n - 1
  OBVIOUS
<1>. HIDE DEF t
<1>10. t \in Seq(1..MaxManagers)
  <2>1. PICK k \in Nat : k = n - 1
    BY <1>2
  <2>2. t \in [1..k -> 1..MaxManagers]
    BY <1>7, <2>1
  <2>. QED  BY ONLY <2>1, <2>2, FunctionsAreLists
<1>. QED  BY <1>5, <1>8, <1>9, <1>10

\* A container that holds nothing leaves its manager.
LEMMA DestroyKeeps ==
  ASSUME ErsInv, NEW c \in Containers, ers_destroy(c)
  PROVE  ErsInv'
<1>1. uses[c] # 0 /\ held[c] = {} /\ UNCHANGED <<made, held>>
  BY DEF ers_destroy
<1>2. PICK m \in 1..MaxManagers, p \in DOMAIN ers_root : m = uses[c] /\ ers_root[p] = m
  BY <1>1, UsedIs
<1>3. PICK obj \in ManagerRecords : obj = managers[m]
  BY DEF ErsInv, ErsTypeOK, ManagerRecords
<1>4. PICK n \in Nat : n = Len(ers_root) /\ DOMAIN ers_root = 1..n
  <2>1. ers_root \in Seq(1..MaxManagers)
    BY DEF ErsInv, ErsTypeOK
  <2>. QED  BY <2>1
<1>5. PICK rest \in ManagerRecords :
        /\ rest = [obj EXCEPT !.destroy = obj.destroy - 1]
        /\ rest.size = obj.size /\ rest.destroy = obj.destroy - 1
        /\ rest.num = obj.num /\ rest.max = obj.max /\ rest.free = obj.free
        /\ rest.reuse = obj.reuse
  <2>1. obj.destroy - 1 \in Int
    BY DEF ManagerRecords
  <2>. QED  BY <2>1, WithUsers
<1>6. /\ managers' = [managers EXCEPT ![m] = rest]
      /\ uses' = [uses EXCEPT ![c] = 0]
  <2>1. managers' = [managers EXCEPT ![m].destroy = @ - 1]
        /\ uses' = [uses EXCEPT ![c] = 0]
    BY <1>2 DEF ers_destroy
  <2>. QED  BY <1>3, <1>5, <2>1
<1>7. /\ \A d \in Containers : uses'[d] = IF d = c THEN 0 ELSE uses[d]
      /\ \A k \in 1..MaxManagers :
           managers'[k] = IF k = m THEN rest ELSE managers[k]
  BY <1>6 DEF ErsInv, ErsTypeOK
<1>8. \A k \in 1..MaxManagers : managers'[k].size = managers[k].size
  BY <1>3, <1>5, <1>7
<1>9. \A k \in 1..MaxManagers :
        UsersOf(k)' = IF k = m THEN UsersOf(k) \ {c} ELSE UsersOf(k)
  BY <1>2, <1>7 DEF UsersOf
<1>10. PICK U : /\ U = UsersOf(m) /\ c \in U /\ IsFiniteSet(U)
                /\ Cardinality(U) \in Nat /\ obj.destroy = Cardinality(U)
                /\ Cardinality(U \ {c}) = Cardinality(U) - 1
                /\ IsFiniteSet(U \ {c}) /\ UsersOf(m)' = U \ {c}
  <2>. DEFINE V == UsersOf(m)
  <2>1. c \in V /\ IsFiniteSet(V) /\ Cardinality(V) \in Nat
    BY <1>2, UsersAre DEF UsersOf
  <2>2. obj.destroy = Cardinality(V)
    BY <1>2, <1>3 DEF ErsInv, ManagersStand
  <2>3. UsersOf(m)' = V \ {c}
    BY <1>9
  <2>4. V = UsersOf(m)
    OBVIOUS
  <2>. HIDE DEF V
  <2>5. Cardinality(V \ {c}) = Cardinality(V) - 1 /\ IsFiniteSet(V \ {c})
    BY <2>1, FS_RemoveElement
  <2>. QED  BY <2>1, <2>2, <2>3, <2>4, <2>5
<1>11. HeldIsOwn' /\ ListIsFree' /\ AllAreThere'
  BY <1>1, <1>3, <1>5, <1>7, ListsStay
<1>12. managers' \in [1..MaxManagers -> ManagerRecords]
       /\ uses' \in [Containers -> 0..MaxManagers]
  <2>1. managers' \in [1..MaxManagers -> ManagerRecords]
    BY <1>6 DEF ErsInv, ErsTypeOK, ManagerRecords
  <2>2. uses' \in [Containers -> 0..MaxManagers]
    <3>1. 0 \in 0..MaxManagers
      BY ErsAssumption
    <3>. QED  BY <1>6, <3>1 DEF ErsInv, ErsTypeOK
  <2>. QED  BY <2>1, <2>2
<1>13. m <= made
  BY <1>2, <1>1, UsedIs
\* Others use it still.
<1>14. CASE obj.destroy > 1
  <2>1. UNCHANGED <<ers_root, ersFaults>>
    BY <1>2, <1>3, <1>14 DEF ers_destroy
  <2>2. ErsTypeOK'
    BY <1>1, <1>12, <2>1 DEF ErsInv, ErsTypeOK, ManagerRecords
  <2>3. MadeInTurn'
    BY <1>1, <1>7, <1>13, <2>1 DEF ErsInv, ErsTypeOK, MadeInTurn
  <2>4. ManagersStand'
    <3>1. \A j \in DOMAIN ers_root : ers_root[j] \in 1..MaxManagers
      <4>1. ers_root \in Seq(1..MaxManagers)
        BY DEF ErsInv, ErsTypeOK
      <4>. QED  BY <4>1, ListsAre
    <3>2. UsersOf(m)' # {}
      <4>1. Cardinality(U \ {c}) # 0
        BY <1>10, <1>14
      <4>. QED  BY <1>10, <4>1, FS_EmptySet
    <3>3. \A k \in 1..MaxManagers :
            (\E j \in DOMAIN ers_root : ers_root[j] = k) <=> UsersOf(k)' # {}
      BY <1>2, <1>9, <3>2 DEF ErsInv, ManagersStand
    <3>4. \A j \in DOMAIN ers_root :
            managers'[ers_root[j]].destroy = Cardinality(UsersOf(ers_root[j])')
      <4>1. SUFFICES ASSUME NEW j \in DOMAIN ers_root, NEW k \in 1..MaxManagers,
                            k = ers_root[j]
            PROVE  managers'[k].destroy = Cardinality(UsersOf(k)')
        BY <2>1, <3>1 DEF UsersOf
      <4>2. CASE k = m
        BY <1>5, <1>7, <1>10, <4>2
      <4>3. CASE k # m
        BY <1>7, <1>9, <4>1, <4>3 DEF ErsInv, ManagersStand
      <4>. QED  BY <4>2, <4>3
    <3>5. \A j, k \in DOMAIN ers_root :
            managers'[ers_root[j]].size = managers'[ers_root[k]].size => j = k
      BY <1>8, <3>1 DEF ErsInv, ManagersStand
    <3>. QED  BY <2>1, <3>3, <3>4, <3>5 DEF ManagersStand, UsersOf
  <2>. QED  BY <1>11, <2>1, <2>2, <2>3, <2>4 DEF ErsInv
\* It was the last user.
<1>15. CASE ~(obj.destroy > 1)
  <2>1. UsersOf(m)' = {} /\ U = {c}
    <3>1. Cardinality(U \ {c}) = 0
      <4>1. Cardinality(U) # 0
        BY <1>10, FS_EmptySet
      <4>. QED  BY <1>10, <1>15, <4>1
    <3>. QED  BY <1>10, <3>1, FS_EmptySet
  <2>2. HeldOf(m) = {}
    <3>1. ASSUME NEW e \in HeldOf(m) PROVE FALSE
      <4>1. PICK d \in Containers : e \in held[d] /\ e.manager = m
        BY <3>1 DEF HeldOf, Holds
      <4>2. d \in U
        BY <1>10, <4>1 DEF ErsInv, HeldIsOwn, UsersOf
      <4>. QED  BY <1>1, <2>1, <4>1, <4>2
    <3>. QED  BY <3>1
  <2>3. CutFrom(obj) = Len(obj.reuse) /\ Len(obj.reuse) \in Nat
    <3>1. CutFrom(obj) = Len(obj.reuse) + Cardinality(HeldOf(m))
      BY <1>3 DEF ErsInv, AllAreThere
    <3>2. obj.reuse \in Seq(Entries)
      BY DEF ManagerRecords
    <3>3. Cardinality(HeldOf(m)) = 0
      BY <2>2, FS_EmptySet
    <3>. QED  BY <3>1, <3>2, <3>3
  <2>4. PICK t : /\ t = WithoutManager(m) /\ t \in Seq(1..MaxManagers)
                 /\ DOMAIN t = 1..n - 1
                 /\ \A j \in 1..n - 1 : t[j] = ers_root[IF j = p THEN n ELSE j]
    <3>. DEFINE r == WithoutManager(m)
    <3>1. /\ r \in Seq(1..MaxManagers) /\ DOMAIN r = 1..n - 1
          /\ \A j \in 1..n - 1 : r[j] = ers_root[IF j = p THEN n ELSE j]
      BY <1>2, <1>4, WithoutIs
    <3>2. r = WithoutManager(m)
      OBVIOUS
    <3>. HIDE DEF r
    <3>. QED  BY <3>1, <3>2
  <2>5. ers_root' = t /\ ersFaults' = ersFaults
    <3>1. /\ ers_root' = WithoutManager(m)
          /\ ersFaults' = ersFaults
               \cup (IF CutFrom(obj) > Len(obj.reuse) THEN {"missing"} ELSE {})
               \cup (IF CutFrom(obj) < Len(obj.reuse) THEN {"extra"} ELSE {})
      BY <1>2, <1>3, <1>15 DEF ers_destroy
    <3>2. ~(CutFrom(obj) > Len(obj.reuse)) /\ ~(CutFrom(obj) < Len(obj.reuse))
      BY <2>3
    <3>. QED  BY <2>4, <3>1, <3>2
  <2>6. ErsTypeOK'
    BY <1>1, <1>12, <2>4, <2>5 DEF ErsInv, ErsTypeOK, ManagerRecords
  \* Where each slot of the new table comes from, and where the old ones go.
  <2>7. /\ p \in 1..n
        /\ \A j \in 1..n - 1 : \E q \in 1..n : /\ q = IF j = p THEN n ELSE j
                                              /\ q # p /\ t[j] = ers_root[q]
        /\ \A q \in 1..n : q # p => \E j \in 1..n - 1 : t[j] = ers_root[q]
    <3>1. p \in 1..n
      BY <1>4
    <3>2. ASSUME NEW j \in 1..n - 1
          PROVE  \E q \in 1..n : /\ q = IF j = p THEN n ELSE j
                               /\ q # p /\ t[j] = ers_root[q]
      BY <2>4, <3>1, <3>2
    <3>3. ASSUME NEW q \in 1..n, q # p
          PROVE  \E j \in 1..n - 1 : t[j] = ers_root[q]
      <4>1. CASE q = n
        <5>1. p \in 1..n - 1
          BY <3>1, <3>3, <4>1
        <5>. QED  BY <2>4, <4>1, <5>1
      <4>2. CASE q # n
        <5>1. q \in 1..n - 1
          BY <3>3, <4>2
        <5>. QED  BY <2>4, <3>3, <5>1
      <4>. QED  BY <4>1, <4>2
    <3>. QED  BY <3>1, <3>2, <3>3
  <2>8. /\ \A j \in 1..n : ers_root[j] \in 1..MaxManagers
        /\ \A j, k \in 1..n : managers[ers_root[j]].size = managers[ers_root[k]].size => j = k
        /\ \A k \in 1..MaxManagers : (\E j \in 1..n : ers_root[j] = k) <=> UsersOf(k) # {}
        /\ \A j \in 1..n : managers[ers_root[j]].destroy = Cardinality(UsersOf(ers_root[j]))
        /\ \A j \in 1..n : ers_root[j] <= made
    <3>1. ers_root \in Seq(1..MaxManagers)
      BY DEF ErsInv, ErsTypeOK
    <3>2. \A j \in 1..n : ers_root[j] \in 1..MaxManagers
      BY <1>4, <3>1, ListsAre
    <3>. QED  BY <1>4, <3>2 DEF ErsInv, ManagersStand, MadeInTurn
  <2>9. MadeInTurn'
    <3>1. \A j \in 1..n - 1 : t[j] <= made
      BY <2>7, <2>8
    <3>. QED  BY <1>1, <1>7, <1>13, <2>4, <2>5, <3>1 DEF ErsInv, ErsTypeOK, MadeInTurn
  <2>10. ManagersStand'
    <3>1. ASSUME NEW j \in 1..n - 1, NEW k \in 1..n - 1,
                 managers'[t[j]].size = managers'[t[k]].size
          PROVE  j = k
      <4>1. PICK q \in 1..n : /\ q = (IF j = p THEN n ELSE j)
                              /\ q # p /\ t[j] = ers_root[q]
        BY <2>7
      <4>2. PICK r \in 1..n : /\ r = (IF k = p THEN n ELSE k)
                              /\ r # p /\ t[k] = ers_root[r]
        BY <2>7
      <4>3. q = r
        BY <1>8, <2>8, <3>1, <4>1, <4>2
      <4>4. j # n /\ k # n
        OBVIOUS
      <4>. QED  BY <4>1, <4>2, <4>3, <4>4
    <3>2. ASSUME NEW k \in 1..MaxManagers
          PROVE  (\E j \in 1..n - 1 : t[j] = k) <=> UsersOf(k)' # {}
      <4>1. CASE k = m
        <5>1. \A j \in 1..n - 1 : t[j] # m
          BY <1>2, <2>7, <2>8
        <5>. QED  BY <2>1, <4>1, <5>1
      <4>2. CASE k # m
        <5>1. (\E j \in 1..n - 1 : t[j] = k) <=> (\E q \in 1..n : ers_root[q] = k)
          BY <1>2, <2>7, <4>2
        <5>. QED  BY <1>9, <2>8, <4>2, <5>1
      <4>. QED  BY <4>1, <4>2
    <3>3. ASSUME NEW j \in 1..n - 1, NEW k \in 1..MaxManagers, k = t[j]
          PROVE  managers'[k].destroy = Cardinality(UsersOf(k)')
      <4>1. PICK q \in 1..n : q # p /\ k = ers_root[q]
        BY <2>7, <3>3
      <4>2. k # m
        BY <1>2, <2>7, <2>8, <4>1
      <4>. QED  BY <1>7, <1>9, <2>8, <4>1, <4>2
    <3>4. \A j \in 1..n - 1 : t[j] \in 1..MaxManagers
      BY <2>4, ListsAre
    <3>5. DOMAIN ers_root' = 1..n - 1 /\ \A j : ers_root'[j] = t[j]
      BY <2>4, <2>5
    <3>6. \A k \in 1..MaxManagers :
            (\E j \in DOMAIN ers_root' : ers_root'[j] = k) <=> UsersOf(k)' # {}
      BY <3>2, <3>5
    <3>7. \A j \in DOMAIN ers_root' :
            managers'[ers_root'[j]].destroy = Cardinality(UsersOf(ers_root[j])')
      <4>1. ASSUME NEW j \in 1..n - 1, NEW k \in 1..MaxManagers, k = t[j]
            PROVE  managers'[k].destroy = Cardinality({d \in Containers : uses'[d] = k})
        BY <3>3, <4>1 DEF UsersOf
      <4>2. \A j \in 1..n - 1 :
              managers'[t[j]].destroy =
                Cardinality({d \in Containers : uses'[d] = t[j]})
        BY <3>4, <4>1
      <4>3. \A j \in DOMAIN ers_root' : j \in 1..n - 1 /\ ers_root'[j] = t[j]
        BY <3>5
      <4>. QED  BY <4>2, <4>3 DEF UsersOf
    <3>8. \A j, k \in DOMAIN ers_root' :
            managers'[ers_root'[j]].size = managers'[ers_root'[k]].size => j = k
      BY <3>1, <3>5
    <3>. QED  BY <3>6, <3>7, <3>8, Zenon DEF ManagersStand, UsersOf
  <2>. QED  BY <1>11, <2>5, <2>6, <2>9, <2>10 DEF ErsInv
<1>. QED  BY <1>14, <1>15

\* Every step of the managers keeps the invariant.
LEMMA ErsStepHolds == ErsInv /\ [ErsNext]_ersVars => ErsInv'
<1>. SUFFICES ASSUME ErsInv, [ErsNext]_ersVars PROVE ErsInv'
  OBVIOUS
<1>1. CASE UNCHANGED ersVars
  <2>1. ErsTypeOK' /\ MadeInTurn' /\ ManagersStand'
    <3>1. ErsTypeOK'
      BY <1>1 DEF ersVars, ErsInv, ErsTypeOK
    <3>2. MadeInTurn'
      BY <1>1 DEF ersVars, ErsInv, MadeInTurn
    <3>3. \A m : UsersOf(m)' = UsersOf(m)
      BY <1>1 DEF ersVars, UsersOf
    <3>4. ManagersStand'
      BY <1>1, <3>3 DEF ersVars, ErsInv, ManagersStand
    <3>. QED  BY <3>1, <3>2, <3>4
  <2>2. HeldIsOwn' /\ ListIsFree' /\ AllAreThere'
    BY <1>1, ListsStay DEF ersVars
  <2>. QED  BY <1>1, <2>1, <2>2 DEF ersVars, ErsInv
<1>2. CASE ErsNext
  BY <1>2, NewKeeps, ReusedKeeps, UnusedKeeps, BlockKeeps, FreeKeeps, DestroyKeeps
     DEF ErsNext
<1>. QED  BY <1>1, <1>2

\* No entry is ever handed out that somebody holds, no manager goes while
\* entries are out or while somebody uses it, and no block is written behind the
\* array: for any number of containers, sizes, managers and blocks.
THEOREM SpecEntriesSound == ErsSpec => [](ErsTypeOK /\ EntriesSound)
<1>1. ErsInv => ErsTypeOK /\ EntriesSound
  BY DEF ErsInv, EntriesSound
<1>. QED  BY <1>1, ErsInitHolds, ErsStepHolds, PTL DEF ErsSpec

----------------------------------------------------------------------------
(* The buffers of sockets.                                                 *)

Joined(U) == \A a, b, c \in Seq(U) : (a \o b) \o c = a \o (b \o c)

\* Lists are joined in any order.
LEMMA ListsJoin ==
  ASSUME NEW U
  PROVE  Joined(U)
BY ConcatAssociative DEF Joined

----------------------------------------------------------------------------
(* Lists of lists, one after the other.                                    *)

\* What is flat of the first i lists of s.
Flat(s, f) == f = [i \in 1..Len(s) |-> IF i = 1 THEN s[i] ELSE f[i - 1] \o s[i]]

Flattened(s) == CHOOSE f : Flat(s, f)

\* What is flat of all of them is the last.
LEMMA FlattenIs ==
  ASSUME NEW s, Len(s) # 0
  PROVE  FlattenSeq(s) = Flattened(s)[Len(s)]
BY DEF FlattenSeq, Flattened, Flat

\* There is such a function.
LEMMA FlatExists ==
  ASSUME NEW U, NEW s \in Seq(Seq(U))
  PROVE  \E f : Flat(s, f)
<1>. PICK n \in Nat : n = Len(s) /\ s \in [1..n -> Seq(U)]
  OBVIOUS
<1> DEFINE Has(m) ==
      \E f \in [1..m -> Seq(U)] :
         \A i \in 1..m : f[i] = IF i = 1 THEN s[i] ELSE f[i - 1] \o s[i]
<1> DEFINE Lacks == {m \in 0..n : ~Has(m)}
<1>1. Lacks = {}
  <2>1. SUFFICES ASSUME Lacks # {} PROVE FALSE
    OBVIOUS
  <2>2. PICK m \in Lacks : \A y \in Lacks : m <= y
    <3>1. Lacks \subseteq Nat
      OBVIOUS
    <3>. QED  BY <2>1, <3>1, LeastIsThere
  <2>3. m \in 0..n /\ ~Has(m)
    BY <2>2
  <2>4. CASE m = 0
    <3>1. PICK f : f = [i \in 1..0 |-> <<>>]
      OBVIOUS
    <3>2. f \in [1..0 -> Seq(U)] /\ \A i \in 1..0 : FALSE
      BY <3>1
    <3>3. Has(0)
      BY <3>2
    <3>. QED  BY <2>3, <2>4, <3>3
  <2>5. CASE m # 0
    <3>1. m - 1 \in 0..n /\ m - 1 < m /\ m \in 1..n
      BY <2>3, <2>5
    <3>2. Has(m - 1)
      <4>. HIDE DEF Has
      <4>. QED  BY <2>2, <3>1
    <3>3. PICK f \in [1..m - 1 -> Seq(U)] :
            \A i \in 1..m - 1 : f[i] = IF i = 1 THEN s[i] ELSE f[i - 1] \o s[i]
      BY <3>2
    <3>4. PICK last \in Seq(U) : last = IF m = 1 THEN s[m] ELSE f[m - 1] \o s[m]
      <4>1. s[m] \in Seq(U)
        BY <3>1
      <4>2. CASE m = 1
        BY <4>1, <4>2
      <4>3. CASE m # 1
        <5>1. f[m - 1] \in Seq(U)
          BY <3>1, <3>3, <4>3
        <5>2. f[m - 1] \o s[m] \in Seq(U)
          BY <4>1, <5>1, ConcatProperties
        <5>. QED  BY <4>3, <5>2
      <4>. QED  BY <4>2, <4>3
    <3>5. PICK h : h = [i \in 1..m |-> IF i = m THEN last ELSE f[i]]
      OBVIOUS
    <3>6. h \in [1..m -> Seq(U)] /\ h[m] = last /\ \A i \in 1..m - 1 : h[i] = f[i]
      BY <3>1, <3>3, <3>4, <3>5
    <3>7. ASSUME NEW i \in 1..m PROVE h[i] = IF i = 1 THEN s[i] ELSE h[i - 1] \o s[i]
      <4>1. CASE i = m
        <5>1. i # 1 => m - 1 \in 1..m - 1
          BY <3>1, <4>1
        <5>2. i # 1 => h[i - 1] = f[m - 1]
          BY <3>6, <4>1, <5>1
        <5>. QED  BY <3>4, <3>6, <4>1, <5>2
      <4>2. CASE i # m
        <5>1. i \in 1..m - 1 /\ (i # 1 => i - 1 \in 1..m - 1)
          BY <3>1, <3>7, <4>2
        <5>2. h[i] = f[i] /\ (i # 1 => h[i - 1] = f[i - 1])
          BY <3>6, <5>1
        <5>. QED  BY <3>3, <5>1, <5>2
      <4>. QED  BY <4>1, <4>2
    <3>8. Has(m)
      BY <3>6, <3>7
    <3>. QED  BY <2>3, <3>8
  <2>. QED  BY <2>4, <2>5
<1>2. Has(n)
  <2>1. n \in 0..n
    OBVIOUS
  <2>. HIDE DEF Has
  <2>. QED  BY <1>1, <2>1
<1>3. PICK f \in [1..n -> Seq(U)] :
        \A i \in 1..n : f[i] = IF i = 1 THEN s[i] ELSE f[i - 1] \o s[i]
  BY <1>2
<1>4. f = [i \in 1..n |-> IF i = 1 THEN s[i] ELSE f[i - 1] \o s[i]]
  BY <1>3
<1>5. Flat(s, f)
  BY <1>4 DEF Flat
<1>. QED  BY <1>5

\* What holds of 1, and of i with i - 1, holds of all up to n.
LEMMA UpTo ==
  ASSUME NEW n \in Nat, NEW Good,
         \A i \in 1..n : i = 1 \/ i - 1 \in Good => i \in Good
  PROVE  \A i \in 1..n : i \in Good
<1> DEFINE Bad == {i \in 1..n : i \notin Good}
<1>1. SUFFICES ASSUME Bad # {} PROVE FALSE
  OBVIOUS
<1>2. Bad \subseteq Nat
  OBVIOUS
<1>3. PICK m \in Bad : \A y \in Bad : m <= y
  BY <1>1, <1>2, LeastIsThere
<1>4. m \in 1..n /\ m \notin Good
  BY <1>3
<1>5. m # 1 /\ m - 1 \in 1..n /\ m - 1 \notin Good
  BY <1>4
<1>6. m - 1 \in Bad
  BY <1>5
<1>. QED  BY <1>3, <1>4, <1>6

\* What is flat, step by step.
LEMMA FlattenedIs ==
  ASSUME NEW U, NEW s \in Seq(Seq(U))
  PROVE  \A i \in 1..Len(s) :
            /\ Flattened(s)[i] \in Seq(U)
            /\ Flattened(s)[i] = IF i = 1 THEN s[i] ELSE Flattened(s)[i - 1] \o s[i]
<1>1. PICK n \in Nat : n = Len(s) /\ s \in [1..n -> Seq(U)]
  OBVIOUS
<1>2. \E f : Flat(s, f)
  BY FlatExists
<1>3. PICK f : f = Flattened(s) /\ Flat(s, f)
  BY <1>2 DEF Flattened
<1>4. \A i \in 1..n : f[i] = IF i = 1 THEN s[i] ELSE f[i - 1] \o s[i]
  BY <1>1, <1>3 DEF Flat
<1> DEFINE Good == {i \in 1..n : f[i] \in Seq(U)}
<1>5. ASSUME NEW i \in 1..n, i = 1 \/ i - 1 \in Good PROVE i \in Good
  <2>1. s[i] \in Seq(U)
    BY <1>1
  <2>2. CASE i = 1
    BY <1>4, <2>1, <2>2
  <2>3. CASE i # 1
    <3>1. f[i - 1] \in Seq(U)
      BY <1>5, <2>3
    <3>2. f[i - 1] \o s[i] \in Seq(U)
      BY <2>1, <3>1, ConcatProperties
    <3>. QED  BY <1>4, <2>3, <3>2
  <2>. QED  BY <2>2, <2>3
<1>6. \A i \in 1..n : i \in Good
  <2>. HIDE DEF Good
  <2>. QED  BY <1>5, UpTo
<1>. QED  BY <1>1, <1>3, <1>4, <1>6

\* One list more.
LEMMA FlattenAppend ==
  ASSUME NEW U, NEW s \in Seq(Seq(U)), NEW x \in Seq(U)
  PROVE  FlattenSeq(Append(s, x)) = FlattenSeq(s) \o x
<1>1. PICK n \in Nat : n = Len(s) /\ s \in [1..n -> Seq(U)]
  OBVIOUS
<1>2. PICK t \in Seq(Seq(U)) : t = Append(s, x)
  BY AppendProperties
<1>3. Len(t) = n + 1 /\ t[n + 1] = x /\ \A i \in 1..n : t[i] = s[i]
  BY <1>1, <1>2
<1>4. PICK f : f = Flattened(s)
  OBVIOUS
<1>5. PICK g : g = Flattened(t)
  OBVIOUS
<1>6. \A i \in 1..n : f[i] \in Seq(U) /\ f[i] = IF i = 1 THEN s[i] ELSE f[i - 1] \o s[i]
  BY <1>1, <1>4, FlattenedIs
<1>7. \A i \in 1..n + 1 : g[i] = IF i = 1 THEN t[i] ELSE g[i - 1] \o t[i]
  <2>1. \A i \in 1..Len(t) :
          /\ Flattened(t)[i] \in Seq(U)
          /\ Flattened(t)[i] = IF i = 1 THEN t[i] ELSE Flattened(t)[i - 1] \o t[i]
    BY FlattenedIs
  <2>. QED  BY <1>3, <1>5, <2>1
<1> DEFINE Good == {i \in 1..n : g[i] = f[i]}
<1>8. ASSUME NEW i \in 1..n, i = 1 \/ i - 1 \in Good PROVE i \in Good
  <2>1. i \in 1..n + 1 /\ t[i] = s[i]
    BY <1>3
  <2>. QED  BY <1>6, <1>7, <1>8, <2>1
<1>9. \A i \in 1..n : i \in Good
  <2>. HIDE DEF Good
  <2>. QED  BY <1>8, UpTo
<1>10. FlattenSeq(t) = g[n + 1]
  BY <1>3, <1>5, FlattenIs
<1>11. CASE n = 0
  <2>1. FlattenSeq(s) = << >>
    BY <1>1, <1>11 DEF FlattenSeq
  <2>2. g[n + 1] = x
    BY <1>3, <1>7, <1>11
  <2>. QED  BY <1>2, <1>10, <2>1, <2>2, ConcatEmptySeq
<1>12. CASE n # 0
  <2>1. FlattenSeq(s) = f[n]
    BY <1>1, <1>4, <1>12, FlattenIs
  <2>2. n \in 1..n /\ n + 1 \in 1..n + 1 /\ n + 1 # 1 /\ (n + 1) - 1 = n
    BY <1>12
  <2>3. g[n] = f[n]
    BY <1>9, <2>2
  <2>4. g[n + 1] = g[n] \o x
    BY <1>3, <1>7, <2>2
  <2>. QED  BY <1>2, <1>10, <2>1, <2>3, <2>4
<1>. QED  BY <1>11, <1>12

\* Nothing but empty lists is nothing.
LEMMA FlattenEmpty ==
  ASSUME NEW U, NEW s \in Seq(Seq(U)), \A i \in 1..Len(s) : s[i] = << >>
  PROVE  FlattenSeq(s) = << >>
<1>1. PICK n \in Nat : n = Len(s) /\ s \in [1..n -> Seq(U)]
  OBVIOUS
<1>2. PICK f : f = Flattened(s)
  OBVIOUS
<1>3. \A i \in 1..n : f[i] = IF i = 1 THEN s[i] ELSE f[i - 1] \o s[i]
  BY <1>1, <1>2, FlattenedIs
<1> DEFINE Good == {i \in 1..n : f[i] = << >>}
<1>4. ASSUME NEW i \in 1..n, i = 1 \/ i - 1 \in Good PROVE i \in Good
  <2>1. s[i] = << >>
    BY <1>1
  <2>2. << >> \o << >> = << >>
    OBVIOUS
  <2>. QED  BY <1>3, <1>4, <2>1, <2>2
<1>5. \A i \in 1..n : i \in Good
  <2>. HIDE DEF Good
  <2>. QED  BY <1>4, UpTo
<1>6. CASE n = 0
  BY <1>1, <1>6 DEF FlattenSeq
<1>7. CASE n # 0
  <2>1. FlattenSeq(s) = f[n]
    BY <1>1, <1>2, <1>7, FlattenIs
  <2>. QED  BY <1>5, <1>7, <2>1
<1>. QED  BY <1>6, <1>7

\* The lists before the k-th of s are empty, and t is s with that one emptied.
EmptiedTo(s, t, k) ==
  /\ Len(t) = Len(s)
  /\ \A i \in 1..k - 1 : s[i] = << >>
  /\ \A i \in 1..k : t[i] = << >>
  /\ \A i \in k + 1..Len(s) : t[i] = s[i]

\* What is flat begins with the first list that is not empty.
LEMMA FlattenFirst ==
  ASSUME NEW U, NEW s \in Seq(Seq(U)), NEW t \in Seq(Seq(U)),
         NEW k \in 1..Len(s), EmptiedTo(s, t, k)
  PROVE  /\ FlattenSeq(t) \in Seq(U)
         /\ FlattenSeq(s) = s[k] \o FlattenSeq(t)
<1>14. Joined(U)
  BY ListsJoin
<1>1. PICK n \in Nat : n = Len(s) /\ k \in 1..n /\ s \in [1..n -> Seq(U)]
  OBVIOUS
<1>12. Len(t) = n
  BY <1>1 DEF EmptiedTo
<1>13. t \in [1..n -> Seq(U)]
  BY <1>12

<1>2. PICK f : f = Flattened(s)
  OBVIOUS
<1>3. PICK g : g = Flattened(t)
  OBVIOUS
<1>4. \A i \in 1..n : f[i] = IF i = 1 THEN s[i] ELSE f[i - 1] \o s[i]
  BY <1>1, <1>2, FlattenedIs
<1>5. \A i \in 1..n : g[i] \in Seq(U) /\ g[i] = IF i = 1 THEN t[i] ELSE g[i - 1] \o t[i]
  <2>1. \A i \in 1..Len(t) :
          /\ Flattened(t)[i] \in Seq(U)
          /\ Flattened(t)[i] = IF i = 1 THEN t[i] ELSE Flattened(t)[i - 1] \o t[i]
    BY FlattenedIs
  <2>. QED  BY <1>3, <1>12, <2>1
<1>6. PICK sk \in Seq(U) : sk = s[k]
  BY <1>1
<1>7. << >> \o << >> = << >> /\ << >> \o sk = sk /\ sk \o << >> = sk
  BY ConcatEmptySeq
<1> DEFINE Good == {i \in 1..n : /\ i < k => f[i] = << >>
                                 /\ i <= k => g[i] = << >>
                                 /\ i >= k => f[i] = sk \o g[i]}
<1>8. ASSUME NEW i \in 1..n, i = 1 \/ i - 1 \in Good PROVE i \in Good
  <2>1. CASE i < k
    <3>1. s[i] = << >> /\ t[i] = << >>
      BY <1>1, <2>1 DEF EmptiedTo
    <3>2. i # 1 => f[i - 1] = << >> /\ g[i - 1] = << >>
      BY <1>1, <1>8, <2>1
    <3>3. f[i] = << >>
      BY <1>4, <1>7, <3>1, <3>2
    <3>4. g[i] = << >>
      BY <1>5, <1>7, <3>1, <3>2
    <3>. QED  BY <1>1, <2>1, <3>3, <3>4
  <2>2. CASE i = k
    <3>1. s[i] = sk /\ t[i] = << >>
      BY <1>1, <1>6, <2>2 DEF EmptiedTo
    <3>2. CASE i = 1
      <4>1. f[i] = sk
        BY <1>4, <3>1, <3>2
      <4>2. g[i] = << >>
        BY <1>5, <3>1, <3>2
      <4>. QED  BY <1>7, <2>2, <4>1, <4>2
    <3>3. CASE i # 1
      <4>1. f[i - 1] = << >> /\ g[i - 1] = << >>
        BY <1>1, <1>8, <2>2, <3>3
      <4>2. f[i] = sk
        BY <1>4, <1>7, <3>1, <3>3, <4>1
      <4>3. g[i] = << >>
        BY <1>5, <1>7, <3>1, <3>3, <4>1
      <4>. QED  BY <1>7, <2>2, <4>2, <4>3
    <3>. QED  BY <3>2, <3>3
  <2>3. CASE i > k
    <3>1. i # 1 /\ i - 1 \in 1..n /\ i - 1 >= k /\ i \in k + 1..n
      BY <1>1, <2>3
    <3>2. t[i] = s[i] /\ s[i] \in Seq(U) /\ g[i - 1] \in Seq(U)
      BY <1>1, <1>5, <3>1 DEF EmptiedTo
    <3>3. f[i - 1] = sk \o g[i - 1]
      BY <1>8, <3>1
    <3>4. f[i] = (sk \o g[i - 1]) \o s[i] /\ g[i] = g[i - 1] \o s[i]
      BY <1>4, <1>5, <3>1, <3>2, <3>3
    <3>5. (sk \o g[i - 1]) \o s[i] = sk \o (g[i - 1] \o s[i])
      BY <1>14, <3>2 DEF Joined
    <3>6. f[i] = sk \o g[i]
      BY <3>4, <3>5
    <3>. QED  BY <1>1, <2>3, <3>6
  <2>. QED  BY <1>1, <2>1, <2>2, <2>3
<1>9. n \in Good
  <2>1. \A i \in 1..n : i \in Good
    <3>. HIDE DEF Good
    <3>. QED  BY <1>8, UpTo
  <2>2. n \in 1..n
    BY <1>1
  <2>. QED  BY <2>1, <2>2
<1>10. f[n] = sk \o g[n] /\ g[n] \in Seq(U)
  BY <1>1, <1>5, <1>9
<1>11. FlattenSeq(s) = f[n] /\ FlattenSeq(t) = g[n]
  BY <1>1, <1>2, <1>3, <1>12, FlattenIs
<1>. QED  BY <1>6, <1>10, <1>11

\* A list in two pieces.
LEMMA CutInTwo ==
  ASSUME NEW U, NEW s \in Seq(U), NEW k \in 0..Len(s)
  PROVE  /\ SubSeq(s, 1, k) \in Seq(U) /\ Len(SubSeq(s, 1, k)) = k
         /\ SubSeq(s, k + 1, Len(s)) \in Seq(U)
         /\ Len(SubSeq(s, k + 1, Len(s))) = Len(s) - k
         /\ \A i \in 1..k : SubSeq(s, 1, k)[i] = s[i]
         /\ SubSeq(s, 1, k) \o SubSeq(s, k + 1, Len(s)) = s
<1>1. Len(s) \in Nat /\ \A i \in 1..Len(s) : s[i] \in U
  OBVIOUS
<1>2. /\ SubSeq(s, 1, k) \in Seq(U) /\ Len(SubSeq(s, 1, k)) = k
      /\ \A i \in 1..k : SubSeq(s, 1, k)[i] = s[i]
  BY <1>1, SubSeqProperties
<1>3. /\ SubSeq(s, k + 1, Len(s)) \in Seq(U)
      /\ Len(SubSeq(s, k + 1, Len(s))) = Len(s) - k
  BY <1>1, SubSeqProperties
<1>4. SubSeq(s, 1, k) \o SubSeq(s, k + 1, Len(s)) = SubSeq(s, 1, Len(s))
  <2>1. 1 \in 1..Len(s) + 1 /\ k \in 1 - 1..Len(s) /\ Len(s) \in k..Len(s)
    BY <1>1
  <2>. QED  BY <2>1, ConcatAdjacentSubSeq
<1>5. SubSeq(s, 1, Len(s)) = s
  BY SubSeqFull
<1>. QED  BY <1>2, <1>3, <1>4, <1>5

\* What a list begins with.
LEMMA PrefixIs ==
  ASSUME NEW U, NEW a \in Seq(U), NEW b \in Seq(U)
  PROVE  IsPrefix(a, b) <=> \E u \in Seq(U) : b = a \o u
<1>1. Len(a) \in Nat /\ Len(b) \in Nat /\ SubSeq(a, 1, Len(a)) = a
  BY SubSeqFull
<1>2. ASSUME IsPrefix(a, b) PROVE \E u \in Seq(U) : b = a \o u
  <2>1. Len(a) <= Len(b) /\ SubSeq(b, 1, Len(a)) = a
    BY <1>1, <1>2 DEF IsPrefix
  <2>2. Len(a) \in 0..Len(b)
    BY <1>1, <2>1
  <2>3. /\ SubSeq(b, Len(a) + 1, Len(b)) \in Seq(U)
        /\ SubSeq(b, 1, Len(a)) \o SubSeq(b, Len(a) + 1, Len(b)) = b
    BY <2>2, CutInTwo
  <2>. QED  BY <2>1, <2>3
<1>3. ASSUME NEW u \in Seq(U), b = a \o u PROVE IsPrefix(a, b)
  <2>1. Len(b) = Len(a) + Len(u) /\ Len(u) \in Nat
    BY <1>3, ConcatProperties
  <2>2. \A i \in 1..Len(a) : b[i] = a[i]
    BY <1>1, <1>3, <2>1, ConcatProperties
  <2>3. Len(a) \in 0..Len(b)
    BY <1>1, <2>1
  <2>4. PICK c \in Seq(U) : c = SubSeq(b, 1, Len(a))
    BY <2>3, CutInTwo
  <2>5. Len(c) = Len(a) /\ \A i \in 1..Len(a) : c[i] = b[i]
    BY <2>3, <2>4, CutInTwo
  <2>6. c = a
    BY <2>2, <2>5, SeqEqual
  <2>. QED  BY <1>1, <2>1, <2>4, <2>6 DEF IsPrefix
<1>. QED  BY <1>2, <1>3

\* Lists joined, by a name the provers do not look into.
Cat(a, b) == a \o b

----------------------------------------------------------------------------
(* What the reader should still parse.                                     *)

\* One packet, of len units.
Packet(len, k) == [j \in 1..len |-> k]

\* The packets after p, of the lengths l, without those of d.
SegmentsOf(l, p, d) ==
  [i \in 1..Len(l) |-> IF i <= p \/ i \in d THEN << >> ELSE Packet(l[i], i)]

ExpectedOf(l, p, d) == FlattenSeq(SegmentsOf(l, p, d))

\* Expected, by that name.
LEMMA ExpectedIs == Expected = ExpectedOf(lens, parsed, dropped)
BY DEF Expected, ExpectedOf, SegmentsOf, Packet

\* The units of each packet that is expected, as a list of lists.
SegmentsFit(l, p, d) ==
  /\ SegmentsOf(l, p, d) \in Seq(Seq(Nat))
  /\ Len(SegmentsOf(l, p, d)) = Len(l)
  /\ \A i \in 1..Len(l) :
       SegmentsOf(l, p, d)[i] = IF i <= p \/ i \in d THEN << >> ELSE Packet(l[i], i)

\* Each packet is a list of its units.
LEMMA SegmentsAre ==
  ASSUME NEW M \in Nat, NEW l \in Seq(1..M), NEW p \in Nat, NEW d
  PROVE  SegmentsFit(l, p, d)
<1>1. PICK n \in Nat : n = Len(l)
  OBVIOUS
<1>2. PICK s : s = SegmentsOf(l, p, d)
  OBVIOUS
<1>3. s = [i \in 1..n |-> IF i <= p \/ i \in d THEN << >> ELSE Packet(l[i], i)]
  BY <1>1, <1>2 DEF SegmentsOf
<1>4. ASSUME NEW i \in 1..n
      PROVE  (IF i <= p \/ i \in d THEN << >> ELSE Packet(l[i], i)) \in Seq(Nat)
  <2>1. << >> \in Seq(Nat)
    OBVIOUS
  <2>2. PICK k \in Nat : k = l[i]
    BY <1>1
  <2>3. PICK f : f = [j \in 1..k |-> i]
    OBVIOUS
  <2>4. f \in [1..k -> Nat]
    BY <2>3
  <2>5. f \in Seq(Nat)
    BY <2>4, FunctionsAreLists
  <2>. QED  BY <2>1, <2>2, <2>3, <2>5 DEF Packet
<1>5. s \in [1..n -> Seq(Nat)]
  BY <1>3, <1>4
<1>6. s \in Seq(Seq(Nat)) /\ Len(s) = n
  BY <1>5, FunctionsAreLists
<1>. QED  BY <1>1, <1>2, <1>3, <1>6 DEF SegmentsFit

\* A packet is a list of its number.
LEMMA PacketIs ==
  ASSUME NEW len \in Nat, NEW k
  PROVE  /\ \A U : k \in U => Packet(len, k) \in Seq(U)
         /\ Len(Packet(len, k)) = len
         /\ \A j \in 1..len : Packet(len, k)[j] = k
<1>1. PICK f : f = [j \in 1..len |-> k]
  OBVIOUS
<1>2. Len(f) = len /\ \A j \in 1..len : f[j] = k
  <2>1. f \in [1..len -> {k}]
    BY <1>1
  <2>2. f \in Seq({k})
    BY <2>1, FunctionsAreLists
  <2>. QED  BY <1>1, <2>1, <2>2
<1>3. ASSUME NEW U, k \in U PROVE f \in Seq(U)
  <2>1. f \in [1..len -> U]
    BY <1>1, <1>3
  <2>. QED  BY <2>1, FunctionsAreLists
<1>. QED  BY <1>1, <1>2, <1>3 DEF Packet

\* Nothing, or the next packet that was not dropped and what comes then.
LEMMA ExpectedFirst ==
  ASSUME NEW M \in Nat, NEW l \in Seq(1..M), NEW p \in 0..Len(l), NEW d
  PROVE  \/ ExpectedOf(l, p, d) = << >>
         \/ \E k \in p + 1..Len(l) :
               /\ ExpectedOf(l, k, d) \in Seq(Nat)
               /\ ExpectedOf(l, p, d) = Packet(l[k], k) \o ExpectedOf(l, k, d)
<1>1. PICK n \in Nat : n = Len(l)
  OBVIOUS
<1>2. p \in Nat /\ p <= n
  BY <1>1
<1>6. /\ SegmentsOf(l, p, d) \in Seq(Seq(Nat))
      /\ Len(SegmentsOf(l, p, d)) = Len(l)
      /\ \A i \in 1..Len(l) :
           SegmentsOf(l, p, d)[i] = IF i <= p \/ i \in d THEN << >> ELSE Packet(l[i], i)
  <2>1. SegmentsFit(l, p, d)
    BY <1>2, SegmentsAre
  <2>. QED  BY <2>1 DEF SegmentsFit
<1>7. PICK s \in Seq(Seq(Nat)) : s = SegmentsOf(l, p, d)
  BY <1>6
<1>3. /\ Len(s) = n
      /\ \A i \in 1..n : s[i] = IF i <= p \/ i \in d THEN << >> ELSE Packet(l[i], i)
  BY <1>1, <1>6, <1>7
<1> DEFINE Left == {i \in p + 1..n : i \notin d}
<1>4. CASE Left = {}
  <2>1. \A i \in 1..n : s[i] = << >>
    BY <1>1, <1>3, <1>4
  <2>2. FlattenSeq(s) = << >>
    BY <1>3, <2>1, FlattenEmpty
  <2>. QED  BY <1>7, <2>2 DEF ExpectedOf
<1>5. CASE Left # {}
  <2>1. Left \subseteq Nat
    BY <1>1
  <2>2. PICK k \in Left : \A y \in Left : k <= y
    BY <1>5, <2>1, LeastIsThere
  <2>3. k \in p + 1..n /\ k \notin d /\ k \in 1..n /\ k \in Nat /\ ~(k <= p)
    BY <1>1, <2>2
  <2>9. /\ SegmentsOf(l, k, d) \in Seq(Seq(Nat))
        /\ Len(SegmentsOf(l, k, d)) = Len(l)
        /\ \A i \in 1..Len(l) :
             SegmentsOf(l, k, d)[i] = IF i <= k \/ i \in d THEN << >> ELSE Packet(l[i], i)
    <3>1. SegmentsFit(l, k, d)
      BY <2>3, SegmentsAre
    <3>. QED  BY <3>1 DEF SegmentsFit
  <2>4. PICK t \in Seq(Seq(Nat)) : t = SegmentsOf(l, k, d)
    BY <2>9
  <2>5. /\ Len(t) = n
        /\ \A i \in 1..n : t[i] = IF i <= k \/ i \in d THEN << >> ELSE Packet(l[i], i)
    BY <1>1, <2>4, <2>9
  <2>6. EmptiedTo(s, t, k)
    <3>1. Len(t) = Len(s)
      BY <1>3, <2>5
    <3>2. ASSUME NEW i \in 1..k - 1 PROVE s[i] = << >>
      <4>1. i \in 1..n /\ i < k
        BY <1>1, <2>3
      <4>2. i <= p \/ i \in d
        BY <1>1, <2>2, <2>3, <4>1
      <4>. QED  BY <1>3, <4>1, <4>2
    <3>3. ASSUME NEW i \in 1..k PROVE t[i] = << >>
      <4>1. i \in 1..n /\ i <= k
        BY <1>1, <2>3
      <4>. QED  BY <2>5, <4>1
    <3>4. ASSUME NEW i \in k + 1..Len(s) PROVE t[i] = s[i]
      <4>1. i \in 1..n /\ ~(i <= k) /\ ~(i <= p)
        BY <1>1, <1>3, <2>3
      <4>. QED  BY <1>3, <2>5, <4>1
    <3>. QED  BY <3>1, <3>2, <3>3, <3>4 DEF EmptiedTo
  <2>7. k \in 1..Len(s) /\ s[k] = Packet(l[k], k)
    BY <1>3, <2>3
  <2>8. FlattenSeq(t) \in Seq(Nat) /\ FlattenSeq(s) = s[k] \o FlattenSeq(t)
    BY <2>6, <2>7, FlattenFirst
  <2>. QED  BY <1>1, <1>7, <2>3, <2>4, <2>7, <2>8 DEF ExpectedOf
<1>. QED  BY <1>4, <1>5

\* What is expected is a list.
LEMMA ExpectedIsList ==
  ASSUME NEW M \in Nat, NEW l \in Seq(1..M), NEW p \in 0..Len(l), NEW d
  PROVE  ExpectedOf(l, p, d) \in Seq(Nat)
<1>1. CASE ExpectedOf(l, p, d) = << >>
  BY <1>1
<1>2. CASE ExpectedOf(l, p, d) # << >>
  <2>1. PICK k \in p + 1..Len(l) :
          /\ ExpectedOf(l, k, d) \in Seq(Nat)
          /\ ExpectedOf(l, p, d) = Packet(l[k], k) \o ExpectedOf(l, k, d)
    BY <1>2, ExpectedFirst
  <2>2. l[k] \in Nat /\ k \in Nat
    BY <2>1
  <2>3. Packet(l[k], k) \in Seq(Nat)
    BY <2>2, PacketIs
  <2>. QED  BY <2>1, <2>3, ConcatProperties
<1>. QED  BY <1>1, <1>2

\* Packet n, of len units, unless it is one of d.
UnlessDropped(len, n, d) == IF n \in d THEN << >> ELSE Packet(len, n)

\* Packet n is written behind those of l, or is dropped.
OneMore(M, l, p, d, len, n, e) ==
  /\ M \in Nat /\ l \in Seq(1..M) /\ p \in 0..Len(l) /\ d \subseteq 1..Len(l)
  /\ len \in 1..M /\ n = Len(l) + 1 /\ e \in {d, d \cup {n}}

\* One packet more is expected behind the others, unless it is dropped.
LEMMA ExpectedMore ==
  ASSUME NEW M, NEW l, NEW p, NEW d, NEW len, NEW n, NEW e, OneMore(M, l, p, d, len, n, e)
  PROVE  ExpectedOf(Append(l, len), p, e) =
           Cat(ExpectedOf(l, p, d), UnlessDropped(len, n, e))
<1>. USE DEF OneMore
<1>1. n \in Nat /\ Len(l) \in Nat /\ n \notin d /\ p \in Nat /\ ~(n <= p)
  OBVIOUS
<1>2. PICK x \in Seq(Nat) : x = IF n \in e THEN << >> ELSE Packet(len, n)
  <2>1. Packet(len, n) \in Seq(Nat)
    <3>1. len \in Nat
      OBVIOUS
    <3>. QED  BY <1>1, <3>1, PacketIs
  <2>2. << >> \in Seq(Nat)
    OBVIOUS
  <2>. QED  BY <2>1, <2>2
<1>3. PICK m \in Seq(1..M) :
        /\ m = Append(l, len) /\ Len(m) = n /\ m[n] = len
        /\ \A i \in 1..Len(l) : m[i] = l[i]
  <2>1. /\ Append(l, len) \in Seq(1..M) /\ Len(Append(l, len)) = Len(l) + 1
        /\ \A i \in 1..Len(l) : Append(l, len)[i] = l[i]
        /\ Append(l, len)[Len(l) + 1] = len
    BY AppendProperties
  <2>. QED  BY <2>1
<1>4. /\ SegmentsOf(l, p, d) \in Seq(Seq(Nat))
      /\ Len(SegmentsOf(l, p, d)) = Len(l)
      /\ \A i \in 1..Len(l) :
           SegmentsOf(l, p, d)[i] = IF i <= p \/ i \in d THEN << >> ELSE Packet(l[i], i)
  <2>1. SegmentsFit(l, p, d)
    BY <1>1, SegmentsAre
  <2>. QED  BY <2>1 DEF SegmentsFit
<1>5. PICK s \in Seq(Seq(Nat)) : s = SegmentsOf(l, p, d)
  BY <1>4
<1>6. /\ SegmentsOf(m, p, e) \in Seq(Seq(Nat))
      /\ Len(SegmentsOf(m, p, e)) = Len(m)
      /\ \A i \in 1..Len(m) :
           SegmentsOf(m, p, e)[i] = IF i <= p \/ i \in e THEN << >> ELSE Packet(m[i], i)
  <2>1. p \in Nat
    BY <1>1
  <2>2. SegmentsFit(m, p, e)
    BY <2>1, SegmentsAre
  <2>. QED  BY <2>2 DEF SegmentsFit
<1>7. PICK t \in Seq(Seq(Nat)) : t = SegmentsOf(m, p, e)
  BY <1>6
<1>8. PICK u \in Seq(Seq(Nat)) :
        /\ u = Append(s, x) /\ Len(u) = Len(s) + 1 /\ u[Len(s) + 1] = x
        /\ \A i \in 1..Len(s) : u[i] = s[i]
  <2>1. /\ Append(s, x) \in Seq(Seq(Nat)) /\ Len(Append(s, x)) = Len(s) + 1
        /\ \A i \in 1..Len(s) : Append(s, x)[i] = s[i]
        /\ Append(s, x)[Len(s) + 1] = x
    BY AppendProperties
  <2>. QED  BY <2>1
<1>9. Len(s) = Len(l) /\ Len(t) = n /\ Len(u) = n
  BY <1>3, <1>4, <1>5, <1>6, <1>7, <1>8
<1>10. ASSUME NEW i \in 1..n PROVE t[i] = u[i]
  <2>1. CASE i = n
    <3>1. u[i] = x
      BY <1>1, <1>8, <1>9, <2>1
    <3>2. t[i] = IF n \in e THEN << >> ELSE Packet(len, n)
      BY <1>1, <1>3, <1>6, <1>7, <2>1
    <3>. QED  BY <1>2, <3>1, <3>2
  <2>2. CASE i # n
    <3>1. i \in 1..Len(l) /\ (i \in e <=> i \in d)
      BY <1>1, <2>2
    <3>2. u[i] = s[i] /\ m[i] = l[i]
      BY <1>3, <1>8, <1>9, <3>1
    <3>3. s[i] = IF i <= p \/ i \in d THEN << >> ELSE Packet(l[i], i)
      BY <1>4, <1>5, <3>1
    <3>4. t[i] = IF i <= p \/ i \in e THEN << >> ELSE Packet(m[i], i)
      BY <1>3, <1>6, <1>7
    <3>. QED  BY <3>1, <3>2, <3>3, <3>4
  <2>. QED  BY <2>1, <2>2
<1>11. t = u
  BY <1>9, <1>10, SeqEqual
<1>12. FlattenSeq(u) = FlattenSeq(s) \o x
  BY <1>8, FlattenAppend
<1>. QED  BY <1>2, <1>3, <1>5, <1>7, <1>11, <1>12 DEF ExpectedOf, UnlessDropped, Cat

----------------------------------------------------------------------------
(* What waits: to be read (a), in the kernel (b) and unsent (c).           *)

CatIsJoin(U) ==
  /\ \A a, b \in Seq(U) : Cat(a, b) \in Seq(U)
  /\ \A a, b, c \in Seq(U) : Cat(Cat(a, b), c) = Cat(a, Cat(b, c))
  /\ \A a, b, c \in Seq(U) : Cat(a, b) = Cat(a, c) => b = c
  /\ \A a, b \in Seq(U) : IsPrefix(a, b) <=> \E u \in Seq(U) : b = Cat(a, u)

\* What is needed of it.
LEMMA CatIs ==
  ASSUME NEW U
  PROVE  CatIsJoin(U)
<1>1. \A a, b \in Seq(U) : Cat(a, b) \in Seq(U)
  BY ConcatProperties DEF Cat
<1>2. \A a, b, c \in Seq(U) : Cat(Cat(a, b), c) = Cat(a, Cat(b, c))
  BY ConcatAssociative DEF Cat
<1>3. \A a, b, c \in Seq(U) : Cat(a, b) = Cat(a, c) => b = c
  <2>1. \A S : \A s, t, v \in Seq(S) : s \o t = s \o v => t = v
    BY ConcatSimplifications
  <2>. QED  BY <2>1 DEF Cat
<1>4. \A a, b \in Seq(U) : IsPrefix(a, b) <=> \E u \in Seq(U) : b = Cat(a, u)
  BY PrefixIs DEF Cat
<1>. QED  BY <1>1, <1>2, <1>3, <1>4 DEF CatIsJoin

\* The two pieces of a list.
LEMMA CatPieces ==
  ASSUME NEW U, NEW s \in Seq(U), NEW k \in 0..Len(s)
  PROVE  /\ SubSeq(s, 1, k) \in Seq(U) /\ SubSeq(s, k + 1, Len(s)) \in Seq(U)
         /\ Cat(SubSeq(s, 1, k), SubSeq(s, k + 1, Len(s))) = s
BY CutInTwo DEF Cat

\* What is sent or received is only moved.
LEMMA Moved ==
  ASSUME NEW U, NEW a \in Seq(U), NEW b \in Seq(U), NEW c \in Seq(U), NEW d \in Seq(U)
  PROVE  /\ Cat(Cat(a, Cat(b, c)), d) = Cat(Cat(a, b), Cat(c, d))
         /\ Cat(Cat(Cat(a, b), c), d) = Cat(Cat(a, Cat(b, c)), d)
BY CatIs DEF CatIsJoin

\* The beginning of a beginning.
LEMMA PrefixShorter ==
  ASSUME NEW U, NEW a \in Seq(U), NEW c \in Seq(U), NEW e \in Seq(U), IsPrefix(Cat(a, c), e)
  PROVE  IsPrefix(a, e)
<1>1. PICK u \in Seq(U) : e = Cat(Cat(a, c), u)
  BY CatIs DEF CatIsJoin
<1>2. e = Cat(a, Cat(c, u)) /\ Cat(c, u) \in Seq(U)
  BY <1>1, CatIs DEF CatIsJoin
<1>. QED  BY <1>2, CatIs DEF CatIsJoin

\* Without what both begin with.
LEMMA PrefixRest ==
  ASSUME NEW U, NEW q \in Seq(U), NEW a \in Seq(U), NEW e \in Seq(U)
  PROVE  /\ IsPrefix(Cat(q, a), Cat(q, e)) => IsPrefix(a, e)
         /\ Cat(q, a) = Cat(q, e) => a = e
<1>1. Cat(q, a) \in Seq(U) /\ Cat(q, e) \in Seq(U)
  BY CatIs DEF CatIsJoin
<1>2. ASSUME IsPrefix(Cat(q, a), Cat(q, e)) PROVE IsPrefix(a, e)
  <2>1. PICK u \in Seq(U) : Cat(q, e) = Cat(Cat(q, a), u)
    BY <1>1, <1>2, CatIs DEF CatIsJoin
  <2>2. Cat(Cat(q, a), u) = Cat(q, Cat(a, u)) /\ Cat(a, u) \in Seq(U)
    BY CatIs DEF CatIsJoin
  <2>3. Cat(a, u) = e
    BY <2>1, <2>2, CatIs DEF CatIsJoin
  <2>. QED  BY <2>2, <2>3, CatIs DEF CatIsJoin
<1>. QED  BY <1>2, CatIs DEF CatIsJoin

\* Equal lists begin with each other.
LEMMA PrefixSelf ==
  ASSUME NEW U, NEW a \in Seq(U)
  PROVE  IsPrefix(a, a)
BY DEF IsPrefix

\* A list joined begins with the first of the two.
LEMMA CatFront ==
  ASSUME NEW U, NEW a \in Seq(U), NEW b \in Seq(U)
  PROVE  /\ Len(Cat(a, b)) >= Len(a)
         /\ \A i \in 1..Len(a) : Cat(a, b)[i] = a[i]
<1>1. Len(a) \in Nat /\ Len(b) \in Nat
  OBVIOUS
<1>2. /\ Len(a \o b) = Len(a) + Len(b)
      /\ \A i \in 1..Len(a) + Len(b) :
           (a \o b)[i] = IF i <= Len(a) THEN a[i] ELSE b[i - Len(a)]
  BY ConcatProperties
<1>. QED  BY <1>1, <1>2 DEF Cat

\* What is behind q in a list.
LEMMA BehindIs ==
  ASSUME NEW U, NEW d \in Seq(U), NEW q \in 0..Len(d)
  PROVE  /\ SubSeq(d, q + 1, Len(d)) \in Seq(U)
         /\ Len(SubSeq(d, q + 1, Len(d))) = Len(d) - q
         /\ \A i \in 1..Len(d) - q : SubSeq(d, q + 1, Len(d))[i] = d[q + i]
<1>1. PICK n \in Nat : n = Len(d)
  OBVIOUS
<1>2. q \in Nat /\ q <= n
  BY <1>1
<1>3. \A i \in q + 1..n : d[i] \in U
  BY <1>1, <1>2
<1>4. /\ SubSeq(d, q + 1, n) \in Seq(U)
      /\ Len(SubSeq(d, q + 1, n)) = IF q + 1 <= n THEN n - (q + 1) + 1 ELSE 0
      /\ \A i \in 1..n - (q + 1) + 1 : SubSeq(d, q + 1, n)[i] = d[q + 1 + i - 1]
  BY <1>2, <1>3, SubSeqProperties
<1>. QED  BY <1>1, <1>2, <1>4

\* What is behind p in a list to which x is added.
LEMMA RestMore ==
  ASSUME NEW U, NEW d \in Seq(U), NEW p \in 0..Len(d), NEW x \in Seq(U)
  PROVE  SubSeq(d \o x, p + 1, Len(d \o x)) = Cat(SubSeq(d, p + 1, Len(d)), x)
<1>1. PICK n \in Nat : n = Len(d)
  OBVIOUS
<1>2. PICK m \in Nat : m = Len(x)
  OBVIOUS
<1>3. PICK s \in Seq(U) : s = d \o x
  BY ConcatProperties
<1>4. /\ Len(s) = n + m
      /\ \A i \in 1..n + m : s[i] = IF i <= n THEN d[i] ELSE x[i - n]
  BY <1>1, <1>2, <1>3, ConcatProperties
<1>5. p \in Nat /\ p <= n
  BY <1>1
<1>6. p \in 0..Len(s)
  BY <1>4, <1>5
<1>7. PICK y \in Seq(U) : y = SubSeq(s, p + 1, Len(s))
  BY <1>6, BehindIs
<1>8. Len(y) = n + m - p /\ \A i \in 1..n + m - p : y[i] = s[p + i]
  BY <1>4, <1>6, <1>7, BehindIs
<1>9. PICK r \in Seq(U) : r = SubSeq(d, p + 1, Len(d))
  BY BehindIs
<1>10. Len(r) = n - p /\ \A i \in 1..n - p : r[i] = d[p + i]
  BY <1>1, <1>9, BehindIs
<1>11. PICK z \in Seq(U) : z = r \o x
  BY ConcatProperties
<1>12. /\ Len(z) = n - p + m
       /\ \A i \in 1..n - p + m : z[i] = IF i <= n - p THEN r[i] ELSE x[i - (n - p)]
  <2>1. /\ Len(r \o x) = Len(r) + Len(x)
        /\ \A i \in 1..Len(r) + Len(x) :
             (r \o x)[i] = IF i <= Len(r) THEN r[i] ELSE x[i - Len(r)]
    BY ConcatProperties
  <2>. QED  BY <1>2, <1>10, <1>11, <2>1
<1>13. ASSUME NEW i \in 1..n + m - p PROVE y[i] = z[i]
  <2>1. i \in Nat /\ p + i \in 1..n + m /\ i \in 1..n - p + m
    BY <1>1, <1>2, <1>5
  <2>2. y[i] = IF p + i <= n THEN d[p + i] ELSE x[p + i - n]
    <3>1. y[i] = s[p + i]
      BY <1>8, <2>1
    <3>. QED  BY <1>4, <2>1, <3>1
  <2>3. CASE p + i <= n
    <3>1. i \in 1..n - p
      BY <1>5, <2>1, <2>3
    <3>. QED  BY <1>10, <1>12, <2>1, <2>2, <2>3, <3>1
  <2>4. CASE ~(p + i <= n)
    <3>1. ~(i <= n - p) /\ i - (n - p) = p + i - n
      BY <1>5, <2>1, <2>4
    <3>. QED  BY <1>12, <2>1, <2>2, <2>4, <3>1
  <2>. QED  BY <2>3, <2>4
<1>14. y = z
  <2>1. Len(y) = Len(z)
    BY <1>5, <1>8, <1>12
  <2>. QED  BY <1>8, <1>13, <2>1, SeqEqual
<1>. QED  BY <1>3, <1>7, <1>9, <1>11, <1>14 DEF Cat

\* What is behind p + k in a list.
LEMMA RestLess ==
  ASSUME NEW U, NEW d \in Seq(U), NEW p \in 0..Len(d), NEW r,
         r = SubSeq(d, p + 1, Len(d)), NEW k \in 0..Len(r)
  PROVE  SubSeq(d, p + k + 1, Len(d)) = SubSeq(r, k + 1, Len(r))
<1>1. PICK n \in Nat : n = Len(d)
  OBVIOUS
<1>2. p \in Nat /\ p <= n
  BY <1>1
<1>3. r \in Seq(U) /\ Len(r) = n - p /\ \A i \in 1..n - p : r[i] = d[p + i]
  BY <1>1, BehindIs
<1>4. k \in Nat /\ p + k <= n /\ p + k \in 0..Len(d)
  BY <1>1, <1>2, <1>3
<1>5. PICK y \in Seq(U) : y = SubSeq(d, p + k + 1, Len(d))
  BY <1>4, BehindIs
<1>6. Len(y) = n - (p + k) /\ \A i \in 1..n - (p + k) : y[i] = d[p + k + i]
  BY <1>1, <1>4, <1>5, BehindIs
<1>7. PICK z \in Seq(U) : z = SubSeq(r, k + 1, Len(r))
  BY <1>3, BehindIs
<1>8. Len(z) = n - p - k /\ \A i \in 1..n - p - k : z[i] = r[k + i]
  <2>1. PICK m \in Nat : m = Len(r) /\ m = n - p
    BY <1>3
  <2>2. Len(z) = m - k /\ \A i \in 1..m - k : z[i] = r[k + i]
    BY <1>3, <1>7, <2>1, BehindIs
  <2>. QED  BY <2>1, <2>2
<1>9. ASSUME NEW i \in 1..n - (p + k) PROVE y[i] = z[i]
  <2>1. i \in 1..n - p - k /\ k + i \in 1..n - p /\ p + (k + i) = p + k + i
    BY <1>2, <1>4
  <2>. QED  BY <1>3, <1>6, <1>8, <2>1
<1>10. y = z
  <2>1. Len(y) = Len(z)
    BY <1>2, <1>4, <1>6, <1>8
  <2>. QED  BY <1>6, <1>9, <2>1, SeqEqual
<1>. QED  BY <1>5, <1>7, <1>10

----------------------------------------------------------------------------
(* The buffers.                                                            *)

\* Packet k comes next in a, where the packets of l after p are expected.
IsNext(M, l, p, d, a, k) ==
  /\ Head(a) = k /\ l[k] \in 1..M
  /\ Packet(l[k], k) \in Seq(Nat)
  /\ ExpectedOf(l, k, d) \in Seq(Nat)
  /\ ExpectedOf(l, p, d) = Cat(Packet(l[k], k), ExpectedOf(l, k, d))
  /\ l[k] <= Len(a) =>
       /\ \A i \in 1..l[k] : a[i] = k
       /\ SubSeq(a, l[k] + 1, Len(a)) \in Seq(Nat)
       /\ a = Cat(Packet(l[k], k), SubSeq(a, l[k] + 1, Len(a)))

\* The packet that is to be read next: its number is where it begins, its
\* units are there, and what is expected behind it is behind it.
LEMMA NextPacket ==
  ASSUME NEW M \in Nat, NEW l \in Seq(1..M), NEW p \in 0..Len(l), NEW d,
         NEW a \in Seq(Nat), a # << >>, NEW b \in Seq(Nat),
         IsPrefix(Cat(a, b), ExpectedOf(l, p, d))
  PROVE  \E k \in p + 1..Len(l) : IsNext(M, l, p, d, a, k)
<1>1. PICK e \in Seq(Nat) : e = ExpectedOf(l, p, d)
  BY ExpectedIsList
<1>2. PICK u \in Seq(Nat) : e = Cat(Cat(a, b), u)
  BY <1>1, CatIs DEF CatIsJoin
<1>3. PICK n \in Nat : n = Len(a) /\ n >= 1 /\ Head(a) = a[1]
  OBVIOUS
<1>4. Len(e) >= n /\ Len(e) \in Nat /\ \A i \in 1..n : e[i] = a[i]
  <2>1. PICK ab \in Seq(Nat) : ab = Cat(a, b)
    BY CatIs DEF CatIsJoin
  <2>2. Len(ab) \in Nat /\ Len(ab) >= n /\ \A i \in 1..n : ab[i] = a[i]
    <3>1. Len(Cat(a, b)) >= Len(a) /\ \A i \in 1..Len(a) : Cat(a, b)[i] = a[i]
      BY CatFront
    <3>2. Len(ab) \in Nat
      OBVIOUS
    <3>. QED  BY <1>3, <2>1, <3>1, <3>2
  <2>3. Len(e) >= Len(ab) /\ \A i \in 1..Len(ab) : e[i] = ab[i]
    BY <1>2, <2>1, CatFront
  <2>4. Len(e) \in Nat
    OBVIOUS
  <2>5. Len(e) >= n
    BY <1>3, <2>2, <2>3, <2>4
  <2>6. ASSUME NEW i \in 1..n PROVE e[i] = a[i]
    <3>1. i \in 1..Len(ab)
      BY <1>3, <2>2
    <3>. QED  BY <2>2, <2>3, <3>1
  <2>. QED  BY <2>4, <2>5, <2>6
<1>5. e # << >>
  BY <1>3, <1>4
<1>6. PICK k \in p + 1..Len(l) :
        /\ ExpectedOf(l, k, d) \in Seq(Nat)
        /\ ExpectedOf(l, p, d) = Packet(l[k], k) \o ExpectedOf(l, k, d)
  BY <1>1, <1>5, ExpectedFirst
<1>7. k \in 1..Len(l) /\ k \in Nat
  OBVIOUS
<1>8. PICK len \in 1..M : len = l[k]
  BY <1>7
<1>9. PICK q \in Seq(Nat) : q = Packet(len, k)
  BY <1>7, <1>8, PacketIs
<1>10. Len(q) = len /\ \A i \in 1..len : q[i] = k
  <2>1. len \in Nat
    BY <1>8
  <2>2. Len(Packet(len, k)) = len /\ \A j \in 1..len : Packet(len, k)[j] = k
    BY <2>1, PacketIs
  <2>. QED  BY <1>9, <2>2
<1>11. e = Cat(q, ExpectedOf(l, k, d))
  BY <1>1, <1>6, <1>8, <1>9 DEF Cat
<1>12. \A i \in 1..len : e[i] = k
  BY <1>6, <1>10, <1>11, CatFront
<1>13. Head(a) = k
  <2>1. 1 \in 1..len /\ 1 \in 1..n
    BY <1>3, <1>8
  <2>. QED  BY <1>3, <1>4, <1>12, <2>1
<1>14. ASSUME len <= n
       PROVE  /\ \A i \in 1..len : a[i] = k
              /\ SubSeq(a, len + 1, Len(a)) \in Seq(Nat)
              /\ a = Cat(q, SubSeq(a, len + 1, Len(a)))
  <2>1. \A i \in 1..len : a[i] = k
    <3>1. ASSUME NEW i \in 1..len PROVE i \in 1..n
      BY <1>3, <1>8, <1>14
    <3>. QED  BY <1>4, <1>12, <3>1
  <2>2. len \in 0..Len(a)
    BY <1>3, <1>8, <1>14
  <2>3. /\ SubSeq(a, len + 1, Len(a)) \in Seq(Nat)
        /\ Cat(SubSeq(a, 1, len), SubSeq(a, len + 1, Len(a))) = a
    BY <2>2, CatPieces
  <2>4. PICK f \in Seq(Nat) : f = SubSeq(a, 1, len)
    BY <2>2, CutInTwo
  <2>5. Len(f) = len /\ \A i \in 1..len : f[i] = a[i]
    BY <2>2, <2>4, CutInTwo
  <2>6. f = q
    BY <1>10, <2>1, <2>5, SeqEqual
  <2>. QED  BY <2>1, <2>3, <2>4, <2>6
<1>. QED  BY <1>1, <1>3, <1>6, <1>8, <1>9, <1>11, <1>13, <1>14 DEF IsNext

WriterStates == [wdata : Seq(1..MaxPackets), max_wdata : Nat, eof : BOOLEAN, open : BOOLEAN]
Readers == [rdata : Seq(1..MaxPackets), rdata_pos : Nat, max_rdata : Nat,
            eof : BOOLEAN, open : BOOLEAN]

\* What waits, from the next unit that is parsed to the last that was written.
Waiting(r, k, w) == Cat(Cat(Rest(r), k), w.wdata)

\* It is what is expected, or the beginning of that.
Ordered(r, k, w, e) ==
  /\ r.open => IsPrefix(Waiting(r, k, w), e)
  /\ r.open /\ w.open => Waiting(r, k, w) = e

WriterOK(w) == w \in WriterStates /\ Len(w.wdata) < w.max_wdata
ReaderOK(r) ==
  /\ r \in Readers /\ r.rdata_pos \in 0..Len(r.rdata)
  /\ r.max_rdata \in {rfifo_size, ServerSize} /\ Len(r.rdata) <= r.max_rdata
KernelOK(k) == k \in Seq(1..MaxPackets) /\ Len(k) <= KernelRoom
WrittenOK(l, p, d) ==
  l \in Seq(1..MaxLen) /\ p \in 0..Len(l) /\ d \subseteq 1..Len(l) /\ Len(l) <= MaxPackets

FifoInv ==
  /\ WriterOK(writer) /\ ReaderOK(reader) /\ KernelOK(kernel)
  /\ WrittenOK(lens, parsed, dropped)
  /\ torn = FALSE /\ beyond \in BOOLEAN /\ (beyond => writer.eof)
  /\ Ordered(reader, kernel, writer, ExpectedOf(lens, parsed, dropped))

\* The invariant says what StreamInOrder does.
LEMMA FifoInvIs == FifoInv => FifoTypeOK /\ StreamInOrder
<1>. SUFFICES ASSUME FifoInv PROVE FifoTypeOK /\ StreamInOrder
  OBVIOUS
<1>1. StreamInOrder
  <2>1. Expected = ExpectedOf(lens, parsed, dropped)
    BY ExpectedIs
  <2>2. Rest(reader) \o kernel \o writer.wdata = Waiting(reader, kernel, writer)
    BY DEF Waiting, Cat
  <2>. QED  BY <2>1, <2>2 DEF FifoInv, StreamInOrder, Ordered
<1>2. /\ writer.wdata \in Seq(1..MaxPackets) /\ writer.max_wdata \in Nat
      /\ writer.eof \in BOOLEAN /\ writer.open \in BOOLEAN
      /\ Len(writer.wdata) < writer.max_wdata
  BY DEF FifoInv, WriterOK, WriterStates
<1>3. /\ reader.rdata \in Seq(1..MaxPackets)
      /\ reader.rdata_pos \in 0..Len(reader.rdata)
      /\ reader.max_rdata \in {rfifo_size, ServerSize}
      /\ Len(reader.rdata) <= reader.max_rdata
      /\ reader.eof \in BOOLEAN /\ reader.open \in BOOLEAN
  BY DEF FifoInv, ReaderOK, Readers
<1>4. kernel \in Seq(1..MaxPackets) /\ Len(kernel) <= KernelRoom
  BY DEF FifoInv, KernelOK
<1>5. lens \in Seq(1..MaxLen) /\ parsed \in 0..Len(lens) /\ dropped \subseteq 1..MaxPackets
  <2>1. /\ lens \in Seq(1..MaxLen) /\ parsed \in 0..Len(lens)
        /\ dropped \subseteq 1..Len(lens) /\ Len(lens) <= MaxPackets
    BY DEF FifoInv, WrittenOK
  <2>2. 1..Len(lens) \subseteq 1..MaxPackets
    BY <2>1, FifoAssumption
  <2>. QED  BY <2>1, <2>2
<1>6. torn \in BOOLEAN /\ beyond \in BOOLEAN
  BY DEF FifoInv
<1>. QED  BY <1>1, <1>2, <1>3, <1>4, <1>5, <1>6 DEF FifoTypeOK

\* A buffer that grows keeps what is in it, and has room then.
LEMMA ReallocIs ==
  ASSUME NEW w \in WriterStates, NEW n \in Nat
  PROVE  \E r \in WriterStates :
           /\ r = realloc_fifo(w, n)
           /\ r.wdata = w.wdata /\ r.eof = w.eof /\ r.open = w.open
           /\ r.max_wdata >= w.max_wdata
           /\ ~w.eof => Len(w.wdata) + n <= r.max_wdata
<1>1. PICK need \in Nat : need = Len(w.wdata) + n
  BY DEF WriterStates
<1>2. PICK m \in Nat : m = w.max_wdata
  BY DEF WriterStates
<1>3. CASE w.eof \/ need <= m
  BY <1>1, <1>2, <1>3 DEF realloc_fifo, Needs
<1>4. CASE ~(w.eof \/ need <= m)
  <2>1. wfifo_size \in Nat /\ wfifo_size >= 1
    BY FifoAssumption
  <2>2. PICK q \in Nat : q = (need + wfifo_size - 1) \div wfifo_size
    BY <2>1
  <2>3. q * wfifo_size \in Nat /\ q * wfifo_size >= need
    BY <2>1, <2>2
  <2>4. PICK big \in Nat : big = q * wfifo_size /\ big >= need
    BY <2>3
  <2>5. PICK r : r = [w EXCEPT !.max_wdata = big]
    OBVIOUS
  <2>6. r = realloc_fifo(w, n)
    BY <1>1, <1>2, <1>4, <2>2, <2>4, <2>5 DEF realloc_fifo, Needs
  <2>7. r \in WriterStates
    BY <2>5 DEF WriterStates
  <2>8. /\ r.max_wdata = big
        /\ r.wdata = w.wdata /\ r.eof = w.eof /\ r.open = w.open
    BY <2>5 DEF WriterStates
  <2>9. big >= m
    BY <1>4, <2>4
  <2>10. big >= need
    BY <2>4
  <2>. QED  BY <1>1, <1>2, <2>6, <2>7, <2>8, <2>9, <2>10
<1>. QED  BY <1>3, <1>4

\* A packet is added to what is in the buffer, or nothing is.
LEMMA WriteIs ==
  ASSUME NEW w \in WriterStates, NEW q \in Seq(1..MaxPackets), Len(w.wdata) < w.max_wdata
  PROVE  \E r \in WriterStates :
           /\ r = WFIFOSET(w, q)
           /\ r.eof = w.eof /\ r.open = w.open
           /\ Len(r.wdata) < r.max_wdata
           /\ r.wdata = IF Len(w.wdata) + Len(q) < w.max_wdata THEN w.wdata \o q ELSE w.wdata
<1>1. w.wdata \in Seq(1..MaxPackets) /\ w.max_wdata \in Nat
  BY DEF WriterStates
<1>2. Len(w.wdata) \in Nat /\ Len(q) \in Nat
  BY <1>1
<1>3. CASE Len(w.wdata) + Len(q) < w.max_wdata
  <2>1. PICK d \in Seq(1..MaxPackets) : d = w.wdata \o q /\ Len(d) = Len(w.wdata) + Len(q)
    BY <1>1, ConcatProperties
  <2>2. PICK r : r = [w EXCEPT !.wdata = d]
    OBVIOUS
  <2>3. r = WFIFOSET(w, q)
    BY <1>3, <2>1, <2>2 DEF WFIFOSET, Fits, Needs
  <2>4. r \in WriterStates
    BY <2>2 DEF WriterStates
  <2>5. /\ r.wdata = d /\ r.max_wdata = w.max_wdata
        /\ r.eof = w.eof /\ r.open = w.open
    BY <2>2 DEF WriterStates
  <2>. QED  BY <1>3, <2>1, <2>3, <2>4, <2>5
<1>4. CASE ~(Len(w.wdata) + Len(q) < w.max_wdata)
  <2>1. w.max_wdata + Reserve \in Nat
    BY <1>1, FifoAssumption
  <2>2. PICK r \in WriterStates :
           /\ r = realloc_fifo(w, w.max_wdata + Reserve)
           /\ r.wdata = w.wdata /\ r.eof = w.eof /\ r.open = w.open
           /\ r.max_wdata >= w.max_wdata
    BY <2>1, ReallocIs
  <2>3. r = WFIFOSET(w, q)
    BY <1>4, <2>2 DEF WFIFOSET, Fits, Needs
  <2>4. r.max_wdata \in Nat
    BY DEF WriterStates
  <2>5. Len(r.wdata) < r.max_wdata
    BY <1>1, <1>2, <2>2, <2>4
  <2>. QED  BY <1>4, <2>2, <2>3, <2>5
<1>. QED  BY <1>3, <1>4

\* Numbers of packets are numbers.
LEMMA UnitsAre ==
  ASSUME NEW s \in Seq(1..MaxPackets)
  PROVE  s \in Seq(Nat)
<1>1. PICK n \in Nat : n = Len(s)
  OBVIOUS
<1>2. s \in [1..n -> Nat]
  <2>1. s \in [1..n -> 1..MaxPackets]
    BY <1>1, LenProperties
  <2>2. 1..MaxPackets \subseteq Nat
    BY FifoAssumption
  <2>. QED  BY <2>1, <2>2
<1>. QED  BY <1>2, FunctionsAreLists

\* What is to be read.
LEMMA RestIs ==
  ASSUME NEW r, ReaderOK(r)
  PROVE  /\ Rest(r) \in Seq(1..MaxPackets) /\ Rest(r) \in Seq(Nat)
         /\ Len(Rest(r)) = Len(r.rdata) - r.rdata_pos
<1>1. r.rdata \in Seq(1..MaxPackets) /\ r.rdata_pos \in 0..Len(r.rdata)
  BY DEF ReaderOK, Readers
<1>. QED  BY <1>1, BehindIs, UnitsAre DEF Rest

----------------------------------------------------------------------------
(* The steps.                                                              *)

\* A packet is written, or dropped, or all of it is left out.
LEMMA WriteKeeps ==
  ASSUME FifoInv, NEW len \in 1..MaxLen, WritePacket(len)
  PROVE  FifoInv'
<1>1. PICK n \in Nat : n = Len(lens) + 1 /\ n <= MaxPackets /\ n >= 1
  <2>1. Len(lens) \in Nat /\ MaxPackets \in Nat /\ Len(lens) < MaxPackets
    BY FifoAssumption DEF FifoInv, WrittenOK, WritePacket
  <2>. QED  BY <2>1
<1>2. len \in Nat /\ MaxLen \in Nat
  BY FifoAssumption
<1>3. PICK w \in WriterStates :
        /\ w = realloc_fifo(writer, len)
        /\ w.wdata = writer.wdata /\ w.eof = writer.eof /\ w.open = writer.open
        /\ w.max_wdata >= writer.max_wdata
        /\ ~writer.eof => Len(writer.wdata) + len <= w.max_wdata
  <2>1. writer \in WriterStates
    BY DEF FifoInv, WriterOK
  <2>. QED  BY <1>2, <2>1, ReallocIs
<1>4. /\ writer.open
      /\ lens' = Append(lens, len)
      /\ writer' = WFIFOSET(w, [i \in 1..len |-> n])
      /\ beyond' = (beyond \/ Needs(w, len) > w.max_wdata)
      /\ dropped' = IF Needs(w, len) = w.max_wdata
                       \/ (writer.eof /\ Needs(w, len) > w.max_wdata)
                    THEN dropped \cup {n} ELSE dropped
      /\ kernel' = kernel /\ reader' = reader /\ parsed' = parsed /\ torn' = torn
  BY <1>1, <1>3 DEF WritePacket
<1>5. PICK q \in Seq(1..MaxPackets) : q = Packet(len, n) /\ Len(q) = len
  <2>1. n \in 1..MaxPackets
    BY <1>1, FifoAssumption
  <2>. QED  BY <1>2, <2>1, PacketIs
<1>6. PICK need \in Nat : need = Len(w.wdata) + len /\ need = Needs(w, len)
  BY <1>2 DEF Needs, WriterStates
<1>7. PICK m \in Nat : m = w.max_wdata
  BY DEF WriterStates
<1>8. Len(w.wdata) < m
  <2>1. Len(writer.wdata) < writer.max_wdata /\ Len(writer.wdata) \in Nat /\ writer.max_wdata \in Nat
    BY DEF FifoInv, WriterOK, WriterStates
  <2>. QED  BY <1>3, <1>7, <2>1
<1>9. PICK r \in WriterStates :
        /\ r = WFIFOSET(w, q)
        /\ r.eof = w.eof /\ r.open = w.open
        /\ Len(r.wdata) < r.max_wdata
        /\ r.wdata = IF Len(w.wdata) + Len(q) < w.max_wdata THEN w.wdata \o q ELSE w.wdata
  BY <1>7, <1>8, WriteIs
<1>10. writer' = r
  BY <1>4, <1>5, <1>9 DEF Packet
<1>11. WriterOK(writer')
  BY <1>9, <1>10 DEF WriterOK
<1>12. ReaderOK(reader') /\ KernelOK(kernel') /\ torn' = FALSE
  BY <1>4 DEF FifoInv
<1>13. n \notin dropped /\ (n \in dropped' <=> ~(need < m))
  <2>1. n \notin dropped
    BY <1>1 DEF FifoInv, WrittenOK
  <2>2. ~writer.eof => need <= m
    BY <1>3, <1>6, <1>7
  <2>3. n \in dropped' <=> need = m \/ (writer.eof /\ need > m)
    BY <1>4, <1>6, <1>7, <2>1
  <2>. QED  BY <2>1, <2>2, <2>3
<1>14. /\ lens \in Seq(1..MaxLen) /\ parsed \in 0..Len(lens)
       /\ dropped \in SUBSET (1..Len(lens))
  BY DEF FifoInv, WrittenOK
<1>15. dropped' \in {dropped, dropped \cup {n}}
  BY <1>4
<1>16. WrittenOK(lens', parsed', dropped')
  <2>1. lens' \in Seq(1..MaxLen) /\ Len(lens') = n
    BY <1>1, <1>4, <1>14, AppendProperties
  <2>2. parsed' \in 0..n
    BY <1>1, <1>4, <1>14
  <2>3. dropped' \subseteq 1..n
    BY <1>1, <1>14, <1>15
  <2>. QED  BY <1>1, <2>1, <2>2, <2>3 DEF WrittenOK
<1>17. beyond' \in BOOLEAN /\ (beyond' => writer'.eof)
  <2>1. beyond' = (beyond \/ need > m)
    BY <1>4, <1>6, <1>7
  <2>2. ~writer.eof => ~(need > m)
    BY <1>3, <1>6, <1>7
  <2>3. beyond \in BOOLEAN /\ (beyond => writer.eof)
    BY DEF FifoInv
  <2>4. writer'.eof = writer.eof
    BY <1>3, <1>9, <1>10
  <2>. QED  BY <2>1, <2>2, <2>3, <2>4
<1>18. PICK e \in Seq(Nat) : e = ExpectedOf(lens, parsed, dropped)
  BY <1>2, <1>14, ExpectedIsList
<1>19. PICK x \in Seq(Nat) : x = IF n \in dropped' THEN << >> ELSE q
  <2>1. q \in Seq(Nat) /\ << >> \in Seq(Nat)
    BY UnitsAre
  <2>. QED  BY <2>1
<1>20. ExpectedOf(lens', parsed', dropped') = Cat(e, x)
  <2>1. ExpectedOf(Append(lens, len), parsed, dropped') =
          Cat(ExpectedOf(lens, parsed, dropped), UnlessDropped(len, n, dropped'))
    <3>1. OneMore(MaxLen, lens, parsed, dropped, len, n, dropped')
      BY <1>1, <1>2, <1>14, <1>15 DEF OneMore
    <3>. QED  BY <3>1, ExpectedMore
  <2>. QED  BY <1>4, <1>5, <1>18, <1>19, <2>1 DEF UnlessDropped
<1>21. r.wdata = Cat(writer.wdata, x)
  <2>1. CASE need < m
    BY <1>3, <1>5, <1>6, <1>7, <1>9, <1>13, <1>19, <2>1 DEF Cat
  <2>2. CASE ~(need < m)
    <3>1. x = << >> /\ r.wdata = writer.wdata /\ writer.wdata \in Seq(1..MaxPackets)
      BY <1>3, <1>5, <1>6, <1>7, <1>9, <1>13, <1>19, <2>2 DEF WriterStates
    <3>. QED  BY <3>1, ConcatEmptySeq DEF Cat
  <2>. QED  BY <2>1, <2>2
<1>22. Ordered(reader', kernel', writer', ExpectedOf(lens', parsed', dropped'))
  <2>1. SUFFICES ASSUME reader.open
                 PROVE  Waiting(reader, kernel, r) = Cat(e, x) /\ Cat(e, x) \in Seq(Nat)
    BY <1>4, <1>10, <1>20, PrefixSelf DEF Ordered
  <2>2. PICK a \in Seq(Nat) : a = Rest(reader)
    BY RestIs DEF FifoInv
  <2>3. PICK b \in Seq(Nat) : b = kernel
    BY UnitsAre DEF FifoInv, KernelOK
  <2>4. PICK c \in Seq(Nat) : c = writer.wdata
    BY UnitsAre DEF FifoInv, WriterOK, WriterStates
  <2>5. Cat(Cat(a, b), c) = e
    BY <1>4, <1>18, <2>1, <2>2, <2>3, <2>4 DEF FifoInv, Ordered, Waiting
  <2>6. /\ Cat(Cat(a, b), Cat(c, x)) = Cat(Cat(Cat(a, b), c), x)
        /\ Cat(e, x) \in Seq(Nat)
    BY CatIs DEF CatIsJoin
  <2>. QED  BY <1>21, <2>2, <2>3, <2>4, <2>5, <2>6 DEF Waiting
<1>. QED  BY <1>11, <1>12, <1>16, <1>17, <1>22 DEF FifoInv

\* The three parts of what waits are lists.
LEMMA PartsAre ==
  ASSUME FifoInv
  PROVE  /\ Rest(reader) \in Seq(Nat) /\ kernel \in Seq(Nat) /\ writer.wdata \in Seq(Nat)
         /\ ExpectedOf(lens, parsed, dropped) \in Seq(Nat)
<1>1. Rest(reader) \in Seq(Nat)
  BY RestIs DEF FifoInv
<1>2. kernel \in Seq(Nat)
  BY UnitsAre DEF FifoInv, KernelOK
<1>3. writer.wdata \in Seq(Nat)
  BY UnitsAre DEF FifoInv, WriterOK, WriterStates
<1>4. ExpectedOf(lens, parsed, dropped) \in Seq(Nat)
  <2>1. MaxLen \in Nat /\ lens \in Seq(1..MaxLen) /\ parsed \in 0..Len(lens)
    BY FifoAssumption DEF FifoInv, WrittenOK
  <2>. QED  BY <2>1, ExpectedIsList
<1>. QED  BY <1>1, <1>2, <1>3, <1>4

SessionOf(d, m, eof, open) == [wdata |-> d, max_wdata |-> m, eof |-> eof, open |-> open]

\* What of the buffer of the writer is changed: what is in it, or its flags.
LEMMA WriterWith ==
  ASSUME NEW w, WriterOK(w), NEW d \in Seq(1..MaxPackets), Len(d) <= Len(w.wdata),
         NEW eof \in BOOLEAN, NEW open \in BOOLEAN, NEW r,
         r = SessionOf(d, w.max_wdata, eof, open)
  PROVE  WriterOK(r) /\ r.wdata = d /\ r.eof = eof /\ r.open = open
<1>1. w.wdata \in Seq(1..MaxPackets) /\ w.max_wdata \in Nat /\ Len(w.wdata) < w.max_wdata
  BY DEF WriterOK, WriterStates
<1>2. r.wdata = d /\ r.eof = eof /\ r.open = open /\ r.max_wdata = w.max_wdata
  BY DEF SessionOf
<1>3. r \in WriterStates
  BY <1>1 DEF WriterStates, SessionOf
<1>4. Len(d) < r.max_wdata
  <2>1. Len(d) \in Nat /\ Len(w.wdata) \in Nat
    BY <1>1
  <2>. QED  BY <1>1, <1>2, <2>1
<1>. QED  BY <1>2, <1>3, <1>4 DEF WriterOK

\* What the kernel takes is moved to it; to a reader that is gone nothing is.
LEMMA SendStepKeeps ==
  ASSUME FifoInv, send_from_fifo
  PROVE  FifoInv'
<1>1. writer.open /\ ~writer.eof /\ UNCHANGED <<reader, lens, parsed, torn, dropped, beyond>>
  BY DEF send_from_fifo
<1>2. WriterOK(writer) /\ writer \in WriterStates
  BY DEF FifoInv, WriterOK
<1>3. writer.wdata \in Seq(1..MaxPackets) /\ Len(writer.wdata) \in Nat
  BY <1>2 DEF WriterStates
<1>4. /\ ReaderOK(reader') /\ WrittenOK(lens', parsed', dropped')
      /\ torn' = FALSE /\ beyond' = FALSE
  BY <1>1 DEF FifoInv
<1>5. ExpectedOf(lens', parsed', dropped') = ExpectedOf(lens, parsed, dropped)
  BY <1>1
<1>6. CASE /\ reader.open
           /\ \E k \in 1..Len(writer.wdata) :
                 /\ Len(kernel) + k <= KernelRoom
                 /\ kernel' = kernel \o SubSeq(writer.wdata, 1, k)
                 /\ writer' = [writer EXCEPT !.wdata = Unsent(@, k)]
  <2>1. PICK k \in 1..Len(writer.wdata) :
           /\ Len(kernel) + k <= KernelRoom
           /\ kernel' = kernel \o SubSeq(writer.wdata, 1, k)
           /\ writer' = [writer EXCEPT !.wdata = Unsent(@, k)]
    BY <1>6
  <2>2. k \in 0..Len(writer.wdata)
    OBVIOUS
  <2>3. PICK x \in Seq(1..MaxPackets) : x = SubSeq(writer.wdata, 1, k) /\ Len(x) = k
    <3>1. SubSeq(writer.wdata, 1, k) \in Seq(1..MaxPackets) /\ Len(SubSeq(writer.wdata, 1, k)) = k
      BY <1>3, <2>2, CutInTwo
    <3>. QED  BY <3>1
  <2>4. PICK y \in Seq(1..MaxPackets) :
          y = SubSeq(writer.wdata, k + 1, Len(writer.wdata)) /\ Len(y) = Len(writer.wdata) - k
    BY <1>3, <2>2, CutInTwo
  <2>5. writer' = SessionOf(y, writer.max_wdata, writer.eof, writer.open)
    BY <1>2, <2>1, <2>4 DEF Unsent, WriterStates, SessionOf
  <2>6. WriterOK(writer') /\ writer'.wdata = y /\ writer'.eof = writer.eof
        /\ writer'.open = writer.open
    <3>1. Len(y) <= Len(writer.wdata) /\ writer.eof \in BOOLEAN /\ writer.open \in BOOLEAN
      BY <1>2, <1>3, <2>4 DEF WriterStates
    <3>. QED  BY <1>2, <2>5, <3>1, WriterWith
  <2>7. kernel' = kernel \o x
    BY <2>1, <2>3
  <2>8. KernelOK(kernel')
    <3>1. kernel \in Seq(1..MaxPackets)
      BY DEF FifoInv, KernelOK
    <3>2. kernel \o x \in Seq(1..MaxPackets) /\ Len(kernel \o x) = Len(kernel) + Len(x)
      BY <3>1, ConcatProperties
    <3>. QED  BY <2>1, <2>3, <2>7, <3>2 DEF KernelOK
  <2>9. Waiting(reader, kernel', writer') = Waiting(reader, kernel, writer)
    <3>1. x \in Seq(Nat) /\ y \in Seq(Nat)
      BY UnitsAre
    <3>2. Cat(x, y) = writer.wdata
      BY <1>3, <2>2, <2>3, <2>4, CatPieces
    <3>3. Cat(Cat(Rest(reader), Cat(kernel, x)), y) = Cat(Cat(Rest(reader), kernel), Cat(x, y))
      BY <3>1, PartsAre, Moved
    <3>4. kernel' = Cat(kernel, x)
      BY <2>7 DEF Cat
    <3>. QED  BY <2>6, <3>2, <3>3, <3>4 DEF Waiting
  <2>10. Ordered(reader', kernel', writer', ExpectedOf(lens', parsed', dropped'))
    BY <1>1, <1>5, <2>6, <2>9 DEF FifoInv, Ordered
  <2>. QED  BY <1>4, <2>6, <2>8, <2>10 DEF FifoInv
<1>7. CASE /\ ~reader.open
           /\ writer' = [writer EXCEPT !.wdata = << >>, !.eof = TRUE]
           /\ UNCHANGED kernel
  <2>1. PICK y \in Seq(1..MaxPackets) : y = << >>
    BY EmptySeq
  <2>6. PICK marked \in BOOLEAN : marked = TRUE
    OBVIOUS
  <2>2. writer' = SessionOf(y, writer.max_wdata, marked, writer.open)
    BY <1>2, <1>7, <2>1, <2>6 DEF WriterStates, SessionOf
  <2>3. WriterOK(writer') /\ writer'.eof = TRUE
    <3>1. Len(y) <= Len(writer.wdata) /\ writer.open \in BOOLEAN
      BY <1>2, <1>3, <2>1 DEF WriterStates
    <3>2. WriterOK(writer') /\ writer'.eof = marked
      BY <1>2, <2>2, <3>1, WriterWith
    <3>. QED  BY <2>6, <3>2
  <2>4. KernelOK(kernel')
    BY <1>7 DEF FifoInv
  <2>5. Ordered(reader', kernel', writer', ExpectedOf(lens', parsed', dropped'))
    BY <1>1, <1>7 DEF Ordered
  <2>. QED  BY <1>4, <2>3, <2>4, <2>5 DEF FifoInv
<1>. QED  BY <1>6, <1>7 DEF send_from_fifo

\* A session that is marked keeps what waits in it.
LEMMA MarkKeeps ==
  ASSUME FifoInv, MarkEof
  PROVE  FifoInv'
<1>1. /\ writer.open /\ writer' = [writer EXCEPT !.eof = TRUE]
      /\ UNCHANGED <<kernel, reader, lens, parsed, torn, dropped, beyond>>
  BY DEF MarkEof
<1>2. WriterOK(writer) /\ writer \in WriterStates
  BY DEF FifoInv, WriterOK
<1>3. PICK y \in Seq(1..MaxPackets) : y = writer.wdata
  BY <1>2 DEF WriterStates
<1>8. PICK marked \in BOOLEAN : marked = TRUE
  OBVIOUS
<1>4. writer' = SessionOf(y, writer.max_wdata, marked, writer.open)
  BY <1>1, <1>2, <1>3, <1>8 DEF WriterStates, SessionOf
<1>5. /\ WriterOK(writer') /\ writer'.wdata = writer.wdata
      /\ writer'.eof = TRUE /\ writer'.open = writer.open
  <2>1. Len(y) <= Len(writer.wdata) /\ writer.open \in BOOLEAN
    BY <1>2, <1>3 DEF WriterStates
  <2>2. /\ WriterOK(writer') /\ writer'.wdata = y
        /\ writer'.eof = marked /\ writer'.open = writer.open
    BY <1>2, <1>4, <2>1, WriterWith
  <2>. QED  BY <1>3, <1>8, <2>2
<1>6. Waiting(reader', kernel', writer') = Waiting(reader, kernel, writer)
  BY <1>1, <1>5 DEF Waiting
<1>7. Ordered(reader', kernel', writer', ExpectedOf(lens', parsed', dropped'))
  BY <1>1, <1>5, <1>6 DEF FifoInv, Ordered
<1>. QED  BY <1>1, <1>5, <1>7 DEF FifoInv

\* Closing the session of the writer loses the end of what waits.
LEMMA WriterEofKeeps ==
  ASSUME FifoInv, writer_eof
  PROVE  FifoInv'
<1>1. /\ writer.eof /\ writer' = [writer EXCEPT !.open = FALSE, !.wdata = << >>]
      /\ UNCHANGED <<kernel, reader, lens, parsed, torn, dropped, beyond>>
  BY DEF writer_eof
<1>2. WriterOK(writer) /\ writer \in WriterStates
  BY DEF FifoInv, WriterOK
<1>3. PICK y \in Seq(1..MaxPackets) : y = << >>
  BY EmptySeq
<1>8. PICK closed \in BOOLEAN : closed = FALSE
  OBVIOUS
<1>4. writer' = SessionOf(y, writer.max_wdata, writer.eof, closed)
  BY <1>1, <1>2, <1>3, <1>8 DEF WriterStates, SessionOf
<1>5. /\ WriterOK(writer') /\ writer'.wdata = y
      /\ writer'.eof = writer.eof /\ writer'.open = FALSE
  <2>1. Len(y) <= Len(writer.wdata) /\ writer.eof \in BOOLEAN
    BY <1>2, <1>3 DEF WriterStates
  <2>2. /\ WriterOK(writer') /\ writer'.wdata = y
        /\ writer'.eof = writer.eof /\ writer'.open = closed
    BY <1>2, <1>4, <2>1, WriterWith
  <2>. QED  BY <1>8, <2>2
<1>6. ASSUME reader.open
      PROVE  IsPrefix(Waiting(reader', kernel', writer'), ExpectedOf(lens, parsed, dropped))
  <2>1. PICK a \in Seq(Nat) : a = Cat(Rest(reader), kernel)
    BY PartsAre, CatIs DEF CatIsJoin
  <2>2. PICK c \in Seq(Nat) : c = writer.wdata
    BY PartsAre
  <2>3. PICK e \in Seq(Nat) : e = ExpectedOf(lens, parsed, dropped)
    BY PartsAre
  <2>4. IsPrefix(Cat(a, c), e)
    BY <1>6, <2>1, <2>2, <2>3 DEF FifoInv, Ordered, Waiting
  <2>5. IsPrefix(a, e)
    BY <2>4, PrefixShorter
  <2>6. Cat(a, << >>) = a
    BY ConcatEmptySeq DEF Cat
  <2>7. Waiting(reader', kernel', writer') = Cat(a, << >>)
    BY <1>1, <1>3, <1>5, <2>1 DEF Waiting
  <2>. QED  BY <2>3, <2>5, <2>6, <2>7
<1>7. Ordered(reader', kernel', writer', ExpectedOf(lens', parsed', dropped'))
  BY <1>1, <1>5, <1>6 DEF Ordered
<1>. QED  BY <1>1, <1>5, <1>7 DEF FifoInv

Socket(d, p, m, eof, open) ==
  [rdata |-> d, rdata_pos |-> p, max_rdata |-> m, eof |-> eof, open |-> open]

\* A buffer of the reader in which d is, read up to p.
LEMMA ReaderWith ==
  ASSUME NEW r, ReaderOK(r), NEW d \in Seq(1..MaxPackets), Len(d) <= r.max_rdata,
         NEW p \in 0..Len(d), NEW eof \in BOOLEAN, NEW open \in BOOLEAN, NEW s,
         s = Socket(d, p, r.max_rdata, eof, open)
  PROVE  /\ ReaderOK(s) /\ s.rdata = d /\ s.rdata_pos = p /\ s.eof = eof /\ s.open = open
         /\ s.max_rdata = r.max_rdata
<1>1. r.max_rdata \in Nat /\ r.max_rdata \in {rfifo_size, ServerSize}
  BY DEF ReaderOK, Readers
<1>2. /\ s.rdata = d /\ s.rdata_pos = p /\ s.eof = eof /\ s.open = open
      /\ s.max_rdata = r.max_rdata
  BY DEF Socket
<1>3. p \in Nat
  OBVIOUS
<1>4. s \in Readers
  BY <1>1, <1>3 DEF Readers, Socket
<1>. QED  BY <1>1, <1>2, <1>4 DEF ReaderOK

\* What a buffer of the reader is.
LEMMA ReaderIs ==
  ASSUME NEW r, ReaderOK(r)
  PROVE  /\ r = Socket(r.rdata, r.rdata_pos, r.max_rdata, r.eof, r.open)
         /\ r.rdata \in Seq(1..MaxPackets) /\ r.rdata_pos \in 0..Len(r.rdata)
         /\ r.max_rdata \in Nat /\ Len(r.rdata) \in Nat /\ Len(r.rdata) <= r.max_rdata
         /\ r.eof \in BOOLEAN /\ r.open \in BOOLEAN
<1>1. r \in Readers /\ r.rdata_pos \in 0..Len(r.rdata) /\ Len(r.rdata) <= r.max_rdata
  BY DEF ReaderOK
<1>2. r = Socket(r.rdata, r.rdata_pos, r.max_rdata, r.eof, r.open)
  BY <1>1 DEF Readers, Socket
<1>3. r.rdata \in Seq(1..MaxPackets) /\ r.max_rdata \in Nat /\ r.eof \in BOOLEAN /\ r.open \in BOOLEAN
  BY <1>1 DEF Readers
<1>4. Len(r.rdata) \in Nat
  BY <1>3
<1>. QED  BY <1>1, <1>2, <1>3, <1>4

\* A session that is marked keeps what is to be read.
LEMMA MarkedReader ==
  ASSUME NEW r, ReaderOK(r)
  PROVE  LET s == [r EXCEPT !.eof = TRUE]
         IN  ReaderOK(s) /\ Rest(s) = Rest(r) /\ s.open = r.open
<1>1. PICK s : s = [r EXCEPT !.eof = TRUE]
  OBVIOUS
<1>2. PICK marked \in BOOLEAN : marked = TRUE
  OBVIOUS
<1>3. s = Socket(r.rdata, r.rdata_pos, r.max_rdata, marked, r.open)
  <2>1. r \in Readers
    BY DEF ReaderOK
  <2>. QED  BY <1>1, <1>2, <2>1 DEF Readers, Socket
<1>4. PICK d \in Seq(1..MaxPackets) : d = r.rdata /\ Len(d) <= r.max_rdata
  BY ReaderIs
<1>5. PICK p \in 0..Len(d) : p = r.rdata_pos
  BY <1>4, ReaderIs
<1>6. PICK open \in BOOLEAN : open = r.open
  BY ReaderIs
<1>7. s = Socket(d, p, r.max_rdata, marked, open)
  BY <1>3, <1>4, <1>5, <1>6
<1>8. ReaderOK(s) /\ s.rdata = d /\ s.rdata_pos = p /\ s.open = open
  BY <1>4, <1>7, ReaderWith
<1>9. Rest(s) = Rest(r)
  BY <1>4, <1>5, <1>8 DEF Rest
<1>. QED  BY <1>1, <1>6, <1>8, <1>9

\* So does one that is flushed.
LEMMA FlushedReader ==
  ASSUME NEW r, ReaderOK(r)
  PROVE  ReaderOK(RFIFOFLUSH(r)) /\ Rest(RFIFOFLUSH(r)) = Rest(r) /\ RFIFOFLUSH(r).open = r.open
<1>1. PICK s : s = RFIFOFLUSH(r)
  OBVIOUS
<1>2. PICK d \in Seq(1..MaxPackets) : d = Rest(r) /\ Len(d) = Len(r.rdata) - r.rdata_pos
  BY RestIs
<1>3. Len(d) <= r.max_rdata
  <2>1. /\ Len(r.rdata) \in Nat /\ r.max_rdata \in Nat /\ Len(r.rdata) <= r.max_rdata
        /\ r.rdata_pos \in 0..Len(r.rdata)
    BY ReaderIs
  <2>. QED  BY <1>2, <2>1
<1>4. PICK p \in 0..Len(d) : p = 0
  OBVIOUS
<1>5. PICK eof \in BOOLEAN, open \in BOOLEAN : eof = r.eof /\ open = r.open
  BY ReaderIs
<1>6. s = Socket(d, p, r.max_rdata, eof, open)
  <2>1. r \in Readers
    BY DEF ReaderOK
  <2>. QED  BY <1>1, <1>2, <1>4, <1>5, <2>1 DEF RFIFOFLUSH, Readers, Socket
<1>7. ReaderOK(s) /\ s.rdata = d /\ s.rdata_pos = p /\ s.open = open
  BY <1>3, <1>6, ReaderWith
<1>8. Rest(s) = d
  <2>1. Rest(s) = SubSeq(d, 0 + 1, Len(d))
    BY <1>4, <1>7 DEF Rest
  <2>2. SubSeq(d, 1, Len(d)) = d
    BY SubSeqFull
  <2>. QED  BY <2>1, <2>2
<1>. QED  BY <1>1, <1>2, <1>5, <1>7, <1>8

\* After a packet was parsed, or none was there, the same is to be read.
LEMMA AfterParseIs ==
  ASSUME NEW r, ReaderOK(r)
  PROVE  ReaderOK(AfterParse(r)) /\ Rest(AfterParse(r)) = Rest(r) /\ AfterParse(r).open = r.open
<1>1. CASE Len(r.rdata) = rfifo_size /\ r.max_rdata = rfifo_size
  BY <1>1, MarkedReader DEF AfterParse
<1>2. CASE ~(Len(r.rdata) = rfifo_size /\ r.max_rdata = rfifo_size)
  BY <1>2, FlushedReader DEF AfterParse
<1>. QED  BY <1>1, <1>2

\* What is received is moved to what is to be read.
LEMMA RecvStepKeeps ==
  ASSUME FifoInv, recv_to_fifo
  PROVE  FifoInv'
<1>1. UNCHANGED <<writer, lens, parsed, torn, dropped, beyond>>
  BY DEF recv_to_fifo
<1>2. ReaderOK(reader)
  BY DEF FifoInv
<1>3. /\ WriterOK(writer') /\ WrittenOK(lens', parsed', dropped')
      /\ torn' = FALSE /\ beyond' \in BOOLEAN /\ (beyond' => writer'.eof)
  BY <1>1 DEF FifoInv
<1>4. ExpectedOf(lens', parsed', dropped') = ExpectedOf(lens, parsed, dropped)
  BY <1>1
<1>5. CASE \E k \in 1..Len(kernel) :
              /\ k <= RFIFOSPACE(reader)
              /\ reader' = [reader EXCEPT !.rdata = @ \o SubSeq(kernel, 1, k)]
              /\ kernel' = SubSeq(kernel, k + 1, Len(kernel))
  <2>1. PICK k \in 1..Len(kernel) :
              /\ k <= RFIFOSPACE(reader)
              /\ reader' = [reader EXCEPT !.rdata = @ \o SubSeq(kernel, 1, k)]
              /\ kernel' = SubSeq(kernel, k + 1, Len(kernel))
    BY <1>5
  <2>2. kernel \in Seq(1..MaxPackets) /\ Len(kernel) <= KernelRoom /\ Len(kernel) \in Nat
    BY DEF FifoInv, KernelOK
  <2>3. k \in 0..Len(kernel)
    BY <2>2
  <2>4. PICK x \in Seq(1..MaxPackets) : x = SubSeq(kernel, 1, k) /\ Len(x) = k
    <3>1. SubSeq(kernel, 1, k) \in Seq(1..MaxPackets) /\ Len(SubSeq(kernel, 1, k)) = k
      BY <2>2, <2>3, CutInTwo
    <3>. QED  BY <3>1
  <2>5. PICK y \in Seq(1..MaxPackets) :
          y = SubSeq(kernel, k + 1, Len(kernel)) /\ Len(y) = Len(kernel) - k
    BY <2>2, <2>3, CutInTwo
  <2>6. PICK d \in Seq(1..MaxPackets) : d = reader.rdata
    BY <1>2, ReaderIs
  <2>7. PICK p \in 0..Len(d) : p = reader.rdata_pos
    BY <1>2, <2>6, ReaderIs
  <2>8. PICK z \in Seq(1..MaxPackets) : z = d \o x /\ Len(z) = Len(d) + k
    <3>1. d \o x \in Seq(1..MaxPackets) /\ Len(d \o x) = Len(d) + Len(x)
      BY ConcatProperties
    <3>. QED  BY <2>4, <3>1
  <2>9. PICK eof \in BOOLEAN, open \in BOOLEAN : eof = reader.eof /\ open = reader.open
    BY <1>2, ReaderIs
  <2>10. reader' = Socket(z, p, reader.max_rdata, eof, open)
    <3>1. reader \in Readers
      BY <1>2 DEF ReaderOK
    <3>. QED  BY <2>1, <2>4, <2>6, <2>7, <2>8, <2>9, <3>1 DEF Readers, Socket
  <2>11. Len(z) <= reader.max_rdata /\ p \in 0..Len(z)
    <3>1. reader.max_rdata \in Nat /\ Len(d) \in Nat /\ k <= reader.max_rdata - Len(d)
      BY <1>2, <2>1, <2>6, ReaderIs DEF RFIFOSPACE
    <3>. QED  BY <2>3, <2>8, <3>1
  <2>12. ReaderOK(reader') /\ reader'.rdata = z /\ reader'.rdata_pos = p /\ reader'.open = open
    BY <1>2, <2>10, <2>11, ReaderWith
  <2>13. Rest(reader') = Cat(Rest(reader), x)
    <3>1. SubSeq(d \o x, p + 1, Len(d \o x)) = Cat(SubSeq(d, p + 1, Len(d)), x)
      BY RestMore
    <3>. QED  BY <2>6, <2>7, <2>8, <2>12, <3>1 DEF Rest
  <2>14. KernelOK(kernel')
    <3>1. Len(y) <= KernelRoom
      BY <2>2, <2>3, <2>5, FifoAssumption
    <3>. QED  BY <2>1, <2>5, <3>1 DEF KernelOK
  <2>15. Waiting(reader', kernel', writer') = Waiting(reader, kernel, writer)
    <3>1. x \in Seq(Nat) /\ y \in Seq(Nat)
      BY UnitsAre
    <3>2. Cat(x, y) = kernel
      BY <2>2, <2>3, <2>4, <2>5, CatPieces
    <3>3. Cat(Cat(Cat(Rest(reader), x), y), writer.wdata)
            = Cat(Cat(Rest(reader), Cat(x, y)), writer.wdata)
      BY <3>1, PartsAre, Moved
    <3>4. kernel' = y
      BY <2>1, <2>5
    <3>. QED  BY <1>1, <2>13, <3>2, <3>3, <3>4 DEF Waiting
  <2>16. Ordered(reader', kernel', writer', ExpectedOf(lens', parsed', dropped'))
    BY <1>1, <1>4, <2>9, <2>12, <2>15 DEF FifoInv, Ordered
  <2>. QED  BY <1>3, <2>12, <2>14, <2>16 DEF FifoInv
<1>6. CASE reader' = [reader EXCEPT !.eof = TRUE] /\ UNCHANGED kernel
  <2>1. ReaderOK(reader') /\ Rest(reader') = Rest(reader) /\ reader'.open = reader.open
    BY <1>2, <1>6, MarkedReader
  <2>2. KernelOK(kernel')
    BY <1>6 DEF FifoInv
  <2>3. Ordered(reader', kernel', writer', ExpectedOf(lens', parsed', dropped'))
    BY <1>1, <1>4, <1>6, <2>1 DEF FifoInv, Ordered, Waiting
  <2>. QED  BY <1>3, <2>1, <2>2, <2>3 DEF FifoInv
<1>. QED  BY <1>5, <1>6 DEF recv_to_fifo

\* One packet is parsed, from its beginning to its end.
LEMMA ParseStepKeeps ==
  ASSUME FifoInv, do_parsepacket
  PROVE  FifoInv'
<1>1. reader.open /\ UNCHANGED <<writer, lens, dropped, beyond>>
  BY DEF do_parsepacket
<1>2. ReaderOK(reader) /\ KernelOK(kernel)
  BY DEF FifoInv
<1>3. /\ WriterOK(writer') /\ beyond' \in BOOLEAN /\ (beyond' => writer'.eof)
  BY <1>1 DEF FifoInv
<1>4. CASE /\ reader' = [reader EXCEPT !.open = FALSE, !.rdata = << >>, !.rdata_pos = 0]
           /\ kernel' = << >> /\ UNCHANGED <<parsed, torn>>
  <2>1. PICK d \in Seq(1..MaxPackets) : d = << >> /\ Len(d) = 0
    BY EmptySeq
  <2>2. PICK p \in 0..Len(d) : p = 0
    BY <2>1
  <2>3. PICK eof \in BOOLEAN, closed \in BOOLEAN : eof = reader.eof /\ closed = FALSE
    BY <1>2, ReaderIs
  <2>4. reader' = Socket(d, p, reader.max_rdata, eof, closed)
    <3>1. reader \in Readers
      BY <1>2 DEF ReaderOK
    <3>. QED  BY <1>4, <2>1, <2>2, <2>3, <3>1 DEF Readers, Socket
  <2>5. Len(d) <= reader.max_rdata
    <3>1. reader.max_rdata \in Nat
      BY <1>2, ReaderIs
    <3>. QED  BY <2>1, <3>1
  <2>6. ReaderOK(reader') /\ reader'.open = closed
    BY <1>2, <2>4, <2>5, ReaderWith
  <2>7. KernelOK(kernel')
    BY <1>4, <2>1, FifoAssumption DEF KernelOK
  <2>8. Ordered(reader', kernel', writer', ExpectedOf(lens', parsed', dropped'))
    BY <2>3, <2>6 DEF Ordered
  <2>9. WrittenOK(lens', parsed', dropped') /\ torn' = FALSE
    BY <1>1, <1>4 DEF FifoInv
  <2>. QED  BY <1>3, <2>6, <2>7, <2>8, <2>9 DEF FifoInv
<1>5. CASE /\ Whole(reader)
           /\ reader' = AfterParse(Skip(reader))
           /\ parsed' = Head(Rest(reader))
           /\ torn' = (torn \/ \E i \in 1..lens[parsed'] : Rest(reader)[i] # parsed')
           /\ UNCHANGED kernel
  <2>1. PICK l \in Seq(1..MaxLen) : l = lens
    BY DEF FifoInv, WrittenOK
  <2>2. PICK p \in 0..Len(l) : p = parsed
    BY <2>1 DEF FifoInv, WrittenOK
  <2>3. PICK a \in Seq(Nat) : a = Rest(reader) /\ Len(a) = Len(reader.rdata) - reader.rdata_pos
    BY <1>2, RestIs
  <2>4. PICK c \in Seq(Nat) : c = kernel
    BY PartsAre
  <2>5. PICK v \in Seq(Nat) : v = writer.wdata
    BY PartsAre
  <2>6. PICK b \in Seq(Nat) : b = Cat(c, v)
    BY CatIs DEF CatIsJoin
  <2>7. Waiting(reader, kernel, writer) = Cat(a, b)
    <3>1. Cat(Cat(a, c), v) = Cat(a, Cat(c, v))
      BY CatIs DEF CatIsJoin
    <3>. QED  BY <2>3, <2>4, <2>5, <2>6, <3>1 DEF Waiting
  <2>28. PICK gone : gone = dropped
    OBVIOUS
  <2>8. IsPrefix(Cat(a, b), ExpectedOf(l, p, gone))
    BY <1>1, <2>1, <2>2, <2>7, <2>28 DEF FifoInv, Ordered
  <2>9. a # << >> /\ l[Head(a)] <= Len(a)
    BY <1>5, <2>1, <2>3 DEF Whole
  <2>10. PICK k \in p + 1..Len(l) :
           /\ Head(a) = k /\ l[k] \in 1..MaxLen
           /\ Packet(l[k], k) \in Seq(Nat)
           /\ ExpectedOf(l, k, gone) \in Seq(Nat)
           /\ ExpectedOf(l, p, gone) = Cat(Packet(l[k], k), ExpectedOf(l, k, gone))
           /\ l[k] <= Len(a) =>
                /\ \A i \in 1..l[k] : a[i] = k
                /\ SubSeq(a, l[k] + 1, Len(a)) \in Seq(Nat)
                /\ a = Cat(Packet(l[k], k), SubSeq(a, l[k] + 1, Len(a)))
    <3>1. MaxLen \in Nat
      BY FifoAssumption
    <3>2. a # << >> /\ IsPrefix(Cat(a, b), ExpectedOf(l, p, gone))
      BY <2>8, <2>9
    <3>3. \E k \in p + 1..Len(l) : IsNext(MaxLen, l, p, gone, a, k)
      BY <3>1, <3>2, NextPacket
    <3>. QED  BY <3>3 DEF IsNext
  <2>11. PICK len \in 1..MaxLen : len = l[k] /\ len <= Len(a)
    BY <2>9, <2>10
  <2>12. PICK q \in Seq(Nat) : q = Packet(len, k)
    BY <2>10, <2>11
  <2>13. PICK rest \in Seq(Nat) : rest = SubSeq(a, len + 1, Len(a)) /\ a = Cat(q, rest)
    BY <2>10, <2>11, <2>12
  <2>14. PICK e \in Seq(Nat) : e = ExpectedOf(l, k, gone) /\ ExpectedOf(l, p, gone) = Cat(q, e)
    BY <2>10, <2>11, <2>12
  <2>15. parsed' = k /\ torn' = FALSE
    <3>1. parsed' = k
      BY <1>5, <2>3, <2>10
    <3>2. \A i \in 1..len : a[i] = k
      BY <2>10, <2>11
    <3>3. lens[parsed'] = len
      BY <2>1, <2>11, <3>1
    <3>4. torn = FALSE
      BY DEF FifoInv
    <3>. QED  BY <1>5, <2>3, <3>1, <3>2, <3>3, <3>4
  <2>16. PICK s : s = Skip(reader)
    OBVIOUS
  <2>17. ReaderOK(s) /\ Rest(s) = rest /\ s.open = reader.open
    <3>1. PICK d \in Seq(1..MaxPackets) : d = reader.rdata /\ Len(d) <= reader.max_rdata
      BY <1>2, ReaderIs
    <3>2. PICK pos \in 0..Len(d) : pos = reader.rdata_pos
      BY <1>2, <3>1, ReaderIs
    <3>3. len \in Nat /\ pos + len \in 0..Len(d)
      <4>1. Len(d) \in Nat /\ Len(a) = Len(d) - pos
        BY <2>3, <3>1, <3>2
      <4>2. len \in Nat
        <5>1. MaxLen \in Nat
          BY FifoAssumption
        <5>. QED  BY <5>1
      <4>3. len <= Len(d) - pos
        BY <2>11, <4>1
      <4>4. pos \in Nat
        OBVIOUS
      <4>. QED  BY <4>1, <4>2, <4>3, <4>4
    <3>4. PICK n \in 0..Len(d) : n = pos + len
      BY <3>3
    <3>5. PICK eof \in BOOLEAN, open \in BOOLEAN : eof = reader.eof /\ open = reader.open
      BY <1>2, ReaderIs
    <3>6. s = Socket(d, n, reader.max_rdata, eof, open)
      <4>1. reader \in Readers
        BY <1>2 DEF ReaderOK
      <4>2. lens[Head(Rest(reader))] = len
        BY <2>1, <2>3, <2>10, <2>11
      <4>. QED  BY <2>16, <3>1, <3>2, <3>4, <3>5, <4>1, <4>2 DEF Skip, Readers, Socket
    <3>7. ReaderOK(s) /\ s.rdata = d /\ s.rdata_pos = n /\ s.open = open
      BY <1>2, <3>1, <3>6, ReaderWith
    <3>8. Rest(s) = rest
      <4>1. a = SubSeq(d, pos + 1, Len(d))
        BY <2>3, <3>1, <3>2 DEF Rest
      <4>2. len \in 0..Len(a)
        BY <2>11, <3>3
      <4>3. SubSeq(d, pos + len + 1, Len(d)) = SubSeq(a, len + 1, Len(a))
        BY <4>1, <4>2, RestLess
      <4>. QED  BY <2>13, <3>4, <3>7, <4>3 DEF Rest
    <3>. QED  BY <3>5, <3>7, <3>8
  <2>18. ReaderOK(reader') /\ Rest(reader') = rest /\ reader'.open = reader.open
    <3>1. /\ ReaderOK(AfterParse(s)) /\ Rest(AfterParse(s)) = Rest(s)
          /\ AfterParse(s).open = s.open
      BY <2>17, AfterParseIs
    <3>. QED  BY <1>5, <2>16, <2>17, <3>1
  <2>19. Waiting(reader', kernel', writer') = Cat(rest, b)
    <3>1. Cat(Cat(rest, c), v) = Cat(rest, Cat(c, v))
      BY CatIs DEF CatIsJoin
    <3>. QED  BY <1>1, <1>5, <2>4, <2>5, <2>6, <2>18, <3>1 DEF Waiting
  <2>20. PICK z \in Seq(Nat) : z = Cat(rest, b)
    BY CatIs DEF CatIsJoin
  <2>21. Cat(a, b) = Cat(q, z)
    <3>1. Cat(Cat(q, rest), b) = Cat(q, Cat(rest, b))
      BY CatIs DEF CatIsJoin
    <3>. QED  BY <2>13, <2>20, <3>1
  <2>22. IsPrefix(z, e)
    BY <2>8, <2>14, <2>21, PrefixRest
  <2>23. writer.open => z = e
    <3>1. writer.open => Cat(a, b) = ExpectedOf(l, p, gone)
      BY <1>1, <2>1, <2>2, <2>7, <2>28 DEF FifoInv, Ordered
    <3>. QED  BY <2>14, <2>21, <3>1, PrefixRest
  <2>24. ExpectedOf(lens', parsed', dropped') = e
    BY <1>1, <2>1, <2>14, <2>15, <2>28
  <2>25. Ordered(reader', kernel', writer', ExpectedOf(lens', parsed', dropped'))
    BY <1>1, <2>19, <2>20, <2>22, <2>23, <2>24 DEF Ordered
  <2>26. WrittenOK(lens', parsed', dropped')
    <3>1. k \in 0..Len(l)
      OBVIOUS
    <3>. QED  BY <1>1, <2>1, <2>15, <3>1 DEF FifoInv, WrittenOK
  <2>27. KernelOK(kernel')
    BY <1>2, <1>5
  <2>. QED  BY <1>3, <2>15, <2>18, <2>25, <2>26, <2>27 DEF FifoInv
<1>6. CASE reader' = AfterParse(reader) /\ UNCHANGED <<kernel, parsed, torn>>
  <2>1. ReaderOK(reader') /\ Rest(reader') = Rest(reader) /\ reader'.open = reader.open
    BY <1>2, <1>6, AfterParseIs
  <2>2. Waiting(reader', kernel', writer') = Waiting(reader, kernel, writer)
    BY <1>1, <1>6, <2>1 DEF Waiting
  <2>3. Ordered(reader', kernel', writer', ExpectedOf(lens', parsed', dropped'))
    BY <1>1, <1>6, <2>1, <2>2 DEF FifoInv, Ordered
  <2>4. KernelOK(kernel') /\ WrittenOK(lens', parsed', dropped') /\ torn' = FALSE
    BY <1>1, <1>2, <1>6 DEF FifoInv
  <2>. QED  BY <1>3, <2>1, <2>3, <2>4 DEF FifoInv
<1>. QED  BY <1>4, <1>5, <1>6 DEF do_parsepacket

\* Nothing is written at first.
LEMMA FifoInitOK == FifoInit => FifoInv
<1>. SUFFICES ASSUME FifoInit PROVE FifoInv
  OBVIOUS
<1>1. /\ writer = [wdata |-> << >>, max_wdata |-> wfifo_size, eof |-> FALSE, open |-> TRUE]
      /\ kernel = << >> /\ lens = << >> /\ parsed = 0
      /\ torn = FALSE /\ dropped = {} /\ beyond = FALSE
  BY DEF FifoInit
<1>2. PICK size \in {rfifo_size, ServerSize} :
        reader = [rdata |-> << >>, rdata_pos |-> 0, max_rdata |-> size,
                  eof |-> FALSE, open |-> TRUE]
  BY DEF FifoInit
<1>3. << >> \in Seq(1..MaxPackets) /\ << >> \in Seq(1..MaxLen) /\ << >> \in Seq(Nat)
  BY EmptySeq
<1>4. Len(<< >>) = 0
  OBVIOUS
<1>5. wfifo_size \in Nat /\ 0 < wfifo_size /\ size \in Nat /\ KernelRoom \in Nat
      /\ MaxPackets \in Nat /\ MaxLen \in Nat
  BY FifoAssumption
<1>6. WriterOK(writer)
  <2>1. writer.wdata = << >> /\ writer.max_wdata = wfifo_size
    BY <1>1
  <2>2. writer \in WriterStates
    BY <1>1, <1>3, <1>5 DEF WriterStates
  <2>. QED  BY <1>4, <1>5, <2>1, <2>2 DEF WriterOK
<1>7. ReaderOK(reader)
  <2>1. reader.rdata = << >> /\ reader.rdata_pos = 0 /\ reader.max_rdata = size
    BY <1>2
  <2>2. reader \in Readers
    BY <1>2, <1>3, <1>5 DEF Readers
  <2>. QED  BY <1>4, <1>5, <2>1, <2>2 DEF ReaderOK
<1>8. KernelOK(kernel) /\ WrittenOK(lens, parsed, dropped)
  BY <1>1, <1>3, <1>4, <1>5 DEF KernelOK, WrittenOK
<1>9. ExpectedOf(lens, parsed, dropped) = << >>
  <2>1. ~(\E k \in parsed + 1..Len(lens) : TRUE)
    BY <1>1, <1>4
  <2>2. lens \in Seq(1..MaxLen) /\ parsed \in 0..Len(lens)
    BY <1>1, <1>3, <1>4
  <2>. QED  BY <1>5, <2>1, <2>2, ExpectedFirst
<1>10. Waiting(reader, kernel, writer) = << >>
  <2>1. Rest(reader) = << >>
    BY <1>2, <1>4, SubSeqEmpty DEF Rest
  <2>2. writer.wdata = << >>
    BY <1>1
  <2>. QED  BY <1>1, <2>1, <2>2 DEF Waiting, Cat
<1>11. Ordered(reader, kernel, writer, ExpectedOf(lens, parsed, dropped))
  BY <1>3, <1>9, <1>10, PrefixSelf DEF Ordered
<1>. QED  BY <1>1, <1>6, <1>7, <1>8, <1>11 DEF FifoInv

\* Every step keeps the invariant.
LEMMA FifoStep == FifoInv /\ [FifoNext]_fifoVars => FifoInv'
<1>. SUFFICES ASSUME FifoInv, [FifoNext]_fifoVars PROVE FifoInv'
  OBVIOUS
<1>1. ASSUME NEW len \in 1..MaxLen, WritePacket(len) PROVE FifoInv'
  BY <1>1, WriteKeeps
<1>2. CASE send_from_fifo
  BY <1>2, SendStepKeeps
<1>3. CASE MarkEof
  BY <1>3, MarkKeeps
<1>4. CASE writer_eof
  BY <1>4, WriterEofKeeps
<1>5. CASE recv_to_fifo
  BY <1>5, RecvStepKeeps
<1>6. CASE do_parsepacket
  BY <1>6, ParseStepKeeps
<1>7. CASE UNCHANGED fifoVars
  BY <1>7 DEF fifoVars, FifoInv
<1>. QED  BY <1>1, <1>2, <1>3, <1>4, <1>5, <1>6, <1>7 DEF FifoNext

\* Packets are parsed whole, in the order they were written and each once, but
\* for those the buffer had no room for: for packets of any length, buffers of
\* any size and pieces of any kind (common/socket.c).
THEOREM SpecStreamInOrder == FifoSpec => [](FifoTypeOK /\ StreamInOrder)
<1>1. FifoInv => FifoTypeOK /\ StreamInOrder
  BY FifoInvIs
<1>. QED  BY <1>1, FifoInitOK, FifoStep, PTL DEF FifoSpec

----------------------------------------------------------------------------
(* Sums over finite sets.                                                  *)

\* What the folds that add up come to: a function of the subsets of S.
Sums(f, S, g) ==
  g = [s \in SUBSET S |->
         IF s = {} THEN 0
         ELSE f[CHOOSE x \in s : TRUE] + g[s \ {CHOOSE x \in s : TRUE}]]

SumOf(f, S) == (CHOOSE g : Sums(f, S, g))[S]

\* What is added up, unit by unit: the sum is how many they are.
UnitsOf(f, S) == {p \in S \X Nat : p[2] < f[p[1]]}

\* Amounts of what is in S.
Amounts(f, S) == \A x \in S : f[x] \in Nat

\* The units of one element.
LEMMA UnitsOfOne ==
  ASSUME NEW x, NEW n \in Nat
  PROVE  IsFiniteSet({x} \X (0..n - 1)) /\ Cardinality({x} \X (0..n - 1)) = n
<1>1. IsFiniteSet(0..n - 1) /\ Cardinality(0..n - 1) = n
  BY FS_Interval
<1>2. IsFiniteSet({x}) /\ Cardinality({x}) = 1
  BY FS_Singleton
<1>. QED  BY <1>1, <1>2, FS_Product

\* They are finitely many, for a finite set.
LEMMA UnitsAreFinite ==
  ASSUME NEW S, IsFiniteSet(S), NEW f, Amounts(f, S)
  PROVE  IsFiniteSet(UnitsOf(f, S))
<1> DEFINE h == [x \in S |-> {x} \X (0..f[x] - 1)]
           T == {h[x] : x \in S}
<1>1. h \in Surjection(S, T)
  <2>1. h \in [S -> T] /\ \A t \in T : \E x \in S : h[x] = t
    OBVIOUS
  <2>. HIDE DEF h, T
  <2>. QED  BY <2>1 DEF Surjection
<1>2. IsFiniteSet(T)
  <2>. HIDE DEF h, T
  <2>. QED  BY <1>1, FS_Surjection
<1>3. \A U \in T : IsFiniteSet(U)
  <2>1. ASSUME NEW x \in S PROVE IsFiniteSet(h[x])
    <3>1. f[x] \in Nat
      BY DEF Amounts
    <3>2. IsFiniteSet({x} \X (0..f[x] - 1))
      BY <3>1, UnitsOfOne
    <3>. QED  BY <3>2
  <2>. QED  BY <2>1
<1>4. IsFiniteSet(UNION T)
  <2>. HIDE DEF h, T
  <2>. QED  BY <1>2, <1>3, FS_UNION
<1>5. UnitsOf(f, S) \subseteq UNION T
  <2>. SUFFICES ASSUME NEW p \in UnitsOf(f, S) PROVE p \in UNION T
    OBVIOUS
  <2>1. p \in S \X Nat /\ p[2] < f[p[1]] /\ f[p[1]] \in Nat
    BY DEF UnitsOf, Amounts
  <2>2. p \in h[p[1]]
    BY <2>1
  <2>. QED  BY <2>1, <2>2
<1>. QED  BY <1>4, <1>5, FS_Subset

\* Taking one element out takes its units out.
LEMMA UnitsSplit ==
  ASSUME NEW S, IsFiniteSet(S), NEW f, Amounts(f, S), NEW x \in S
  PROVE  Cardinality(UnitsOf(f, S)) = f[x] + Cardinality(UnitsOf(f, S \ {x}))
<1> DEFINE U == UnitsOf(f, S \ {x})
           V == {x} \X (0..f[x] - 1)
<1>1. f[x] \in Nat
  BY DEF Amounts
<1>2. IsFiniteSet(V) /\ Cardinality(V) = f[x]
  BY <1>1, UnitsOfOne
<1>3. IsFiniteSet(U)
  <2>1. IsFiniteSet(S \ {x}) /\ Amounts(f, S \ {x})
    BY FS_RemoveElement DEF Amounts
  <2>. QED  BY <2>1, UnitsAreFinite
<1>4. UnitsOf(f, S) = U \cup V
  <2>1. ASSUME NEW p \in UnitsOf(f, S) PROVE p \in U \cup V
    <3>1. p \in S \X Nat /\ p[2] < f[p[1]]
      BY <2>1 DEF UnitsOf
    <3>2. CASE p[1] = x
      BY <1>1, <3>1, <3>2
    <3>3. CASE p[1] # x
      BY <3>1, <3>3 DEF UnitsOf
    <3>. QED  BY <3>2, <3>3
  <2>2. ASSUME NEW p \in V PROVE p \in UnitsOf(f, S)
    BY <1>1, <2>2 DEF UnitsOf
  <2>3. U \subseteq UnitsOf(f, S)
    BY DEF UnitsOf
  <2>. QED  BY <2>1, <2>2, <2>3
<1>5. U \cap V = {}
  BY DEF UnitsOf
<1>6. Cardinality(U \cap V) = 0
  BY <1>5, FS_EmptySet
<1>7. Cardinality(U) \in Nat
  BY <1>3, FS_CardinalityType
<1>. HIDE DEF U, V
<1>8. Cardinality(U \cup V) = Cardinality(U) + Cardinality(V) - Cardinality(U \cap V)
  BY <1>2, <1>3, FS_Union
<1>9. Cardinality(U \cup V) = Cardinality(U) + f[x]
  BY <1>1, <1>2, <1>6, <1>7, <1>8
<1>10. Cardinality(U \cup V) = f[x] + Cardinality(U)
  BY <1>1, <1>7, <1>9
<1>. QED  BY <1>4, <1>10 DEF U

\* The sum is the number of units.
LEMMA SumIsCount ==
  ASSUME NEW S, IsFiniteSet(S), NEW f, Amounts(f, S)
  PROVE  SumOf(f, S) = Cardinality(UnitsOf(f, S))
<1> DEFINE C(s) == Cardinality(UnitsOf(f, s))
<1>1. ASSUME NEW s \in SUBSET S
      PROVE  /\ IsFiniteSet(s) /\ Amounts(f, s)
             /\ C(s) \in Nat
             /\ s = {} => C(s) = 0
             /\ \A x \in s : C(s) = f[x] + C(s \ {x})
  <2>1. IsFiniteSet(s) /\ Amounts(f, s)
    BY FS_Subset DEF Amounts
  <2>2. C(s) \in Nat
    BY <2>1, UnitsAreFinite, FS_CardinalityType
  <2>3. ASSUME s = {} PROVE C(s) = 0
    <3>1. UnitsOf(f, s) = {}
      BY <2>3 DEF UnitsOf
    <3>. QED  BY <3>1, FS_EmptySet
  <2>4. ASSUME NEW x \in s PROVE C(s) = f[x] + C(s \ {x})
    BY <2>1, UnitsSplit
  <2>. QED  BY <2>1, <2>2, <2>3, <2>4
<1>. HIDE DEF C
<1>2. ASSUME NEW s \in SUBSET S, s # {}
      PROVE  (CHOOSE x \in s : TRUE) \in s
  BY <1>2
<1>3. \E g : Sums(f, S, g)
  <2> DEFINE g == [s \in SUBSET S |-> C(s)]
  <2>1. ASSUME NEW s \in SUBSET S
        PROVE  C(s) = IF s = {} THEN 0
                      ELSE f[CHOOSE x \in s : TRUE]
                             + g[s \ {CHOOSE x \in s : TRUE}]
    <3>1. CASE s = {}
      BY <1>1, <3>1
    <3>2. CASE s # {}
      <4>1. PICK x : x = CHOOSE y \in s : TRUE
        OBVIOUS
      <4>2. x \in s
        BY <1>2, <3>2, <4>1
      <4>3. g[s \ {x}] = C(s \ {x})
        OBVIOUS
      <4>4. C(s) = f[x] + g[s \ {x}]
        BY <1>1, <4>2, <4>3
      <4>. QED  BY <3>2, <4>1, <4>4
    <3>. QED  BY <3>1, <3>2
  <2>2. g = [s \in SUBSET S |-> IF s = {} THEN 0
                                ELSE f[CHOOSE x \in s : TRUE]
                                       + g[s \ {CHOOSE x \in s : TRUE}]]
    BY <2>1
  <2>. HIDE DEF g
  <2>3. Sums(f, S, g)
    BY <2>2 DEF Sums
  <2>. QED  BY <2>3
<1>4. PICK g : g = (CHOOSE h : Sums(f, S, h)) /\ Sums(f, S, g)
  BY <1>3
<1> DEFINE Bad == {n \in Nat : \E s \in SUBSET S : Cardinality(s) = n /\ g[s] # C(s)}
<1>5. ASSUME NEW s \in SUBSET S, g[s] # C(s) PROVE FALSE
  <2>1. Cardinality(s) \in Bad
    BY <1>1, <1>5, FS_CardinalityType
  <2>2. PICK n \in Bad : \A m \in Bad : n <= m
    <3>1. Bad \subseteq Nat /\ Bad # {}
      BY <2>1
    <3>. HIDE DEF Bad
    <3>. QED  BY <3>1, LeastIsThere
  <2>3. PICK t \in SUBSET S : Cardinality(t) = n /\ g[t] # C(t)
    BY <2>2
  <2>4. g[t] = IF t = {} THEN 0 ELSE f[CHOOSE x \in t : TRUE] + g[t \ {CHOOSE x \in t : TRUE}]
    BY <1>4 DEF Sums
  <2>5. t # {}
    BY <1>1, <2>3, <2>4
  <2>6. PICK x : x = CHOOSE y \in t : TRUE
    OBVIOUS
  <2>7. x \in t
    BY <1>2, <2>5, <2>6
  <2>8. g[t] = f[x] + g[t \ {x}]
    BY <2>4, <2>5, <2>6
  <2>9. g[t \ {x}] # C(t \ {x})
    BY <1>1, <2>3, <2>7, <2>8
  <2>10. IsFiniteSet(t) /\ n \in Nat
    BY <1>1, <2>2
  <2>11. Cardinality(t \ {x}) = n - 1 /\ Cardinality(t \ {x}) \in Nat
    BY <2>3, <2>7, <2>10, FS_RemoveElement, FS_CardinalityType
  <2>12. n - 1 \in Bad
    BY <2>9, <2>11
  <2>. QED  BY <2>2, <2>10, <2>12
<1>. QED  BY <1>4, <1>5 DEF SumOf, C

\* A sum is that of one element and that of the others.
LEMMA SumSplit ==
  ASSUME NEW S, IsFiniteSet(S), NEW f, Amounts(f, S)
  PROVE  /\ SumOf(f, S) \in Nat
         /\ \A x \in S : /\ f[x] \in Nat /\ SumOf(f, S \ {x}) \in Nat
                         /\ SumOf(f, S) = f[x] + SumOf(f, S \ {x})
<1>1. ASSUME NEW T, IsFiniteSet(T), Amounts(f, T)
      PROVE  SumOf(f, T) \in Nat /\ SumOf(f, T) = Cardinality(UnitsOf(f, T))
  BY <1>1, SumIsCount, UnitsAreFinite, FS_CardinalityType
<1>2. ASSUME NEW x \in S PROVE IsFiniteSet(S \ {x}) /\ Amounts(f, S \ {x})
  BY FS_RemoveElement DEF Amounts
<1>3. ASSUME NEW x \in S PROVE SumOf(f, S) = f[x] + SumOf(f, S \ {x})
  BY <1>1, <1>2, UnitsSplit
<1>. QED  BY <1>1, <1>2, <1>3 DEF Amounts

\* The same amounts have the same sum.
LEMMA SumSame ==
  ASSUME NEW S, IsFiniteSet(S), NEW f, NEW h, Amounts(f, S),
         \A x \in S : f[x] = h[x]
  PROVE  SumOf(f, S) = SumOf(h, S)
<1>1. Amounts(h, S)
  BY DEF Amounts
<1>2. UnitsOf(f, S) = UnitsOf(h, S)
  BY DEF UnitsOf
<1>. QED  BY <1>1, <1>2, SumIsCount

\* A sum of ones is their number.
LEMMA SumOfOnes ==
  ASSUME NEW S, IsFiniteSet(S), NEW f, \A x \in S : f[x] \in {0, 1}
  PROVE  SumOf(f, S) = Cardinality({x \in S : f[x] = 1})
<1> DEFINE T == {x \in S : f[x] = 1}
<1>1. Amounts(f, S)
  BY DEF Amounts
<1>2. UnitsOf(f, S) = T \X {0}
  <2>1. ASSUME NEW p \in UnitsOf(f, S) PROVE p \in T \X {0}
    <3>1. p \in S \X Nat /\ p[2] < f[p[1]]
      BY <2>1 DEF UnitsOf
    <3>2. f[p[1]] = 1 /\ p[2] = 0
      BY <3>1
    <3>. QED  BY <3>1, <3>2
  <2>2. ASSUME NEW p \in T \X {0} PROVE p \in UnitsOf(f, S)
    BY <2>2 DEF UnitsOf
  <2>. QED  BY <2>1, <2>2
<1>3. IsFiniteSet(T) /\ Cardinality(T) \in Nat
  BY FS_Subset, FS_CardinalityType
<1>4. IsFiniteSet({0}) /\ Cardinality({0}) = 1
  BY FS_Singleton
<1>. HIDE DEF T
<1>5. Cardinality(T \X {0}) = Cardinality(T)
  BY <1>3, <1>4, FS_Product
<1>. QED  BY <1>1, <1>2, <1>5, SumIsCount DEF T

\* A sum is 0 just when nothing is added up.
LEMMA SumOfNone ==
  ASSUME NEW S, IsFiniteSet(S), NEW f, Amounts(f, S)
  PROVE  SumOf(f, S) = 0 <=> \A x \in S : f[x] = 0
<1>1. SumOf(f, S) = Cardinality(UnitsOf(f, S)) /\ IsFiniteSet(UnitsOf(f, S))
  BY SumIsCount, UnitsAreFinite
<1>2. SumOf(f, S) = 0 <=> UnitsOf(f, S) = {}
  BY <1>1, FS_EmptySet
<1>3. ASSUME UnitsOf(f, S) = {}, NEW x \in S PROVE f[x] = 0
  <2>1. <<x, 0>> \notin UnitsOf(f, S)
    BY <1>3
  <2>2. ~(0 < f[x])
    BY <2>1 DEF UnitsOf
  <2>. QED  BY <2>2 DEF Amounts
<1>4. ASSUME \A x \in S : f[x] = 0 PROVE UnitsOf(f, S) = {}
  BY <1>4 DEF UnitsOf
<1>. QED  BY <1>2, <1>3, <1>4

----------------------------------------------------------------------------
(* Saving a table.                                                         *)

\* The rows of a position that holds v: one or none.
RowOf(v) == IF v = Blank THEN NoRows ELSE [NoRows EXCEPT ![v] = 1]

\* A save under way knows which of the positions it has not come to have a
\* row, and if nothing disturbed it, those behind it hold what it wrote.
SaveGoesOn(p) ==
  IF saver[p].selected
  THEN /\ \A i \in Positions :
            i >= saver[p].i => (i \in saver[p].save_id <=> Count(i) > 0)
       /\ whole => \A i \in Positions :
                     i < saver[p].i => rows[i] = RowOf(saver[p].items[i])
  ELSE saver[p].i = 0

\* Before two writers were at work at a time.
OneWriter ==
  /\ \A i \in Positions : Count(i) <= 1
  /\ \A p, q \in Writers : Working(p) /\ Working(q) => p = q
  /\ \A p \in Writers : Working(p) => SaveGoesOn(p)
  /\ whole /\ ~(\E p \in Writers : Working(p)) =>
       \A i \in Positions : rows[i] = RowOf(saved[i])

TableInv == TableTypeOK /\ (~overlapped => OneWriter)

\* How many rows a position has is a sum.
LEMMA CountIs ==
  ASSUME NEW i
  PROVE  /\ Count(i) = SumOf(rows[i], Values)
         /\ Count(i)' = SumOf(rows[i]', Values)
BY DEF Count, MapThenSumSet, MapThenFoldSet, SumOf, Sums

\* The rows of a position are counted by naturals.
LEMMA CountType ==
  ASSUME NEW r \in [Values -> Nat]
  PROVE  /\ Amounts(r, Values) /\ SumOf(r, Values) \in Nat
         /\ SumOf(r, Values) = 0 <=> r = NoRows
<1>1. Amounts(r, Values) /\ IsFiniteSet(Values)
  BY TableAssumption DEF Amounts
<1>2. SumOf(r, Values) \in Nat
  BY <1>1, SumSplit
<1>3. SumOf(r, Values) = 0 <=> \A v \in Values : r[v] = 0
  BY <1>1, SumOfNone
<1>4. (\A v \in Values : r[v] = 0) <=> r = NoRows
  BY DEF NoRows
<1>. QED  BY <1>1, <1>2, <1>3, <1>4

\* An INSERT adds one row.
LEMMA OneRowMore ==
  ASSUME NEW r \in [Values -> Nat], NEW v \in Values
  PROVE  SumOf([r EXCEPT ![v] = @ + 1], Values) = SumOf(r, Values) + 1
<1>1. PICK s : s = [r EXCEPT ![v] = @ + 1]
  OBVIOUS
<1>2. /\ s \in [Values -> Nat]
      /\ s[v] = r[v] + 1 /\ \A w \in Values \ {v} : r[w] = s[w]
  BY <1>1
<1>3. IsFiniteSet(Values) /\ IsFiniteSet(Values \ {v})
  BY TableAssumption, FS_RemoveElement
<1>4. Amounts(r, Values) /\ Amounts(s, Values) /\ Amounts(r, Values \ {v})
  BY <1>2 DEF Amounts
<1>5. SumOf(r, Values \ {v}) = SumOf(s, Values \ {v})
  BY <1>2, <1>3, <1>4, SumSame
<1>6. /\ r[v] \in Nat /\ SumOf(r, Values \ {v}) \in Nat
      /\ SumOf(r, Values) = r[v] + SumOf(r, Values \ {v})
  BY <1>3, <1>4, SumSplit
<1>7. SumOf(s, Values) = s[v] + SumOf(s, Values \ {v})
  BY <1>3, <1>4, SumSplit
<1>. QED  BY <1>1, <1>2, <1>5, <1>6, <1>7

\* A position with no row, and one with one.
LEMMA RowsOfOne ==
  /\ NoRows \in [Values -> Nat] /\ SumOf(NoRows, Values) = 0
  /\ \A v \in Values :
       /\ [NoRows EXCEPT ![v] = 1] \in [Values -> Nat]
       /\ SumOf([NoRows EXCEPT ![v] = 1], Values) = 1
<1>1. NoRows \in [Values -> Nat]
  BY DEF NoRows
<1>2. SumOf(NoRows, Values) = 0
  BY <1>1, CountType
<1>3. ASSUME NEW v \in Values
      PROVE  /\ [NoRows EXCEPT ![v] = 1] \in [Values -> Nat]
             /\ SumOf([NoRows EXCEPT ![v] = 1], Values) = 1
  <2>1. [NoRows EXCEPT ![v] = 1] = [NoRows EXCEPT ![v] = @ + 1]
    BY DEF NoRows
  <2>2. SumOf([NoRows EXCEPT ![v] = @ + 1], Values) = 0 + 1
    BY <1>1, <1>2, OneRowMore
  <2>. QED  BY <1>1, <2>1, <2>2
<1>. QED  BY <1>1, <1>2, <1>3

\* How many positions have a row, of those of S.
LEMMA CountsOfMany ==
  ASSUME NEW S, NEW f, f = [i \in S |-> Count(i)]
  PROVE  MapThenSumSet(Count, S) = SumOf(f, S)
<1> DEFINE F(g) == [s \in SUBSET S |->
              IF s = {} THEN 0
              ELSE f[CHOOSE x \in s : TRUE] + g[s \ {CHOOSE x \in s : TRUE}]]
           G(g) == [s \in SUBSET S |->
              IF s = {} THEN 0
              ELSE Count(CHOOSE x \in s : TRUE) + g[s \ {CHOOSE x \in s : TRUE}]]
<1>1. ASSUME NEW g PROVE F(g) = G(g)
  <2>1. ASSUME NEW s \in SUBSET S, s # {}
        PROVE  f[CHOOSE x \in s : TRUE] = Count(CHOOSE x \in s : TRUE)
    <3>1. (CHOOSE x \in s : TRUE) \in s
      BY <2>1
    <3>. QED  BY <3>1
  <2>. HIDE DEF Count
  <2>. QED  BY <2>1
<1>2. \A g : g = F(g) <=> g = G(g)
  <2>. HIDE DEF F, G
  <2>. QED  BY <1>1
<1>3. (CHOOSE g : g = F(g)) = (CHOOSE g : g = G(g))
  <2>. HIDE DEF F, G
  <2>. QED  BY <1>2, Zenon
<1>4. SumOf(f, S) = (CHOOSE g : g = F(g))[S]
  BY DEF SumOf, Sums
<1>5. MapThenSumSet(Count, S) = (CHOOSE g : g = G(g))[S]
  BY DEF MapThenSumSet, MapThenFoldSet
<1>. QED  BY <1>3, <1>4, <1>5

\* As long as there is one row of a position, the LIMIT cuts off nothing.
LEMMA SelectedAreThere ==
  ASSUME TableTypeOK, \A i \in Positions : Count(i) <= 1
  PROVE  save_id = {i \in Positions : Count(i) > 0}
<1>1. ASSUME NEW i \in Positions PROVE Count(i) \in {0, 1}
  <2>1. rows[i] \in [Values -> Nat]
    BY DEF TableTypeOK
  <2>2. Count(i) \in Nat
    BY <2>1, CountIs, CountType
  <2>. QED  BY <2>2
<1>2. ASSUME NEW i \in Positions PROVE MapThenSumSet(Count, 0..i - 1) < Size
  <2>1. i \in Nat /\ i < Size /\ Size \in Nat /\ 0..i - 1 \subseteq Positions
    BY TableAssumption DEF Positions
  <2>2. PICK f : f = [j \in 0..i - 1 |-> Count(j)]
    OBVIOUS
  <2>3. \A j \in 0..i - 1 : f[j] \in {0, 1}
    BY <1>1, <2>1, <2>2
  <2>4. IsFiniteSet(0..i - 1) /\ Cardinality(0..i - 1) = i
    <3>1. 0 \in Int /\ i - 1 \in Int
      BY <2>1
    <3>2. /\ IsFiniteSet(0..i - 1)
          /\ Cardinality(0..i - 1) = IF 0 > i - 1 THEN 0 ELSE (i - 1) - 0 + 1
      BY <3>1, FS_Interval
    <3>. QED  BY <2>1, <3>2
  <2>5. SumOf(f, 0..i - 1) = Cardinality({j \in 0..i - 1 : f[j] = 1})
    BY <2>3, <2>4, SumOfOnes
  <2>6. Cardinality({j \in 0..i - 1 : f[j] = 1}) <= i
    BY <2>4, FS_Subset
  <2>7. Cardinality({j \in 0..i - 1 : f[j] = 1}) \in Nat
    BY <2>4, FS_Subset, FS_CardinalityType
  <2>8. MapThenSumSet(Count, 0..i - 1) = SumOf(f, 0..i - 1)
    BY <2>2, CountsOfMany
  <2>. QED  BY <2>1, <2>5, <2>6, <2>7, <2>8
<1>. QED  BY <1>2 DEF save_id


\* Of the statements, the one for position i leaves one row of v or none, and
\* touches no other position.
LEMMA StatementWrites ==
  ASSUME TableInv, ~overlapped, NEW p \in Writers, Working(p),
         saver[p].selected, rows' = RowsAfter(p),
         NEW i, i = saver[p].i, NEW v, v = saver[p].items[i]
  PROVE  /\ rows' \in [Positions -> [Values -> Nat]]
         /\ rows'[i] = RowOf(v)
         /\ \A j \in Positions \ {i} : rows'[j] = rows[j] /\ Count(j)' = Count(j)
         /\ \A j \in Positions : Count(j)' <= 1
<1>1. /\ i \in Positions /\ v \in Values \cup {Blank}
      /\ rows \in [Positions -> [Values -> Nat]]
      /\ saver[p].save_id \in SUBSET Positions
  BY DEF TableInv, TableTypeOK, Working, Array
<1>2. Count(i) <= 1 /\ (i \in saver[p].save_id <=> Count(i) > 0)
  <2>1. i >= i
    BY <1>1 DEF Positions
  <2>. QED  BY <1>1, <2>1 DEF TableInv, OneWriter, SaveGoesOn
<1>3. Count(i) \in Nat /\ (Count(i) = 0 <=> rows[i] = NoRows)
  BY <1>1, CountIs, CountType
<1>4. PICK r : r = RowOf(v)
  OBVIOUS
<1>5. r \in [Values -> Nat] /\ SumOf(r, Values) \in {0, 1}
  BY <1>1, <1>4, RowsOfOne DEF RowOf
<1>6. rows' = [rows EXCEPT ![i] = r]
  <2>1. CASE i \in saver[p].save_id /\ v = Blank
    BY <1>4, <2>1 DEF RowOf, RowsAfter, RowsDeleted
  <2>2. CASE i \in saver[p].save_id /\ v # Blank
    <3>1. Count(i) = 1
      BY <1>2, <1>3, <2>2
    <3>2. rows' = [rows EXCEPT ![i] = [NoRows EXCEPT ![v] = Count(i)]]
      BY <2>2 DEF RowsAfter, RowsUpdated
    <3>. QED  BY <1>4, <2>2, <3>1, <3>2 DEF RowOf
  <2>3. CASE i \notin saver[p].save_id /\ v # Blank
    <3>1. rows[i] = NoRows
      BY <1>2, <1>3, <2>3
    <3>2. rows' = [rows EXCEPT ![i] = [rows[i] EXCEPT ![v] = rows[i][v] + 1]]
      BY <2>3 DEF RowsAfter, RowsInserted
    <3>3. NoRows[v] + 1 = 1
      BY <1>1, <2>3 DEF NoRows
    <3>4. r = [rows[i] EXCEPT ![v] = rows[i][v] + 1]
      BY <1>4, <2>3, <3>1, <3>3 DEF RowOf
    <3>. QED  BY <3>2, <3>4
  <2>4. CASE i \notin saver[p].save_id /\ v = Blank
    <3>1. rows[i] = r
      BY <1>2, <1>3, <1>4, <2>4 DEF RowOf
    <3>2. rows' = rows
      BY <2>4 DEF RowsAfter
    <3>. QED  BY <1>1, <3>1, <3>2
  <2>. QED  BY <2>1, <2>2, <2>3, <2>4
<1>7. /\ rows' \in [Positions -> [Values -> Nat]] /\ rows'[i] = r
      /\ \A j \in Positions \ {i} : rows'[j] = rows[j]
  BY <1>1, <1>5, <1>6
<1>8. \A j \in Positions : /\ Count(j)' = SumOf(rows'[j], Values)
                            /\ Count(j) = SumOf(rows[j], Values)
  BY CountIs
<1>9. \A j \in Positions \ {i} : rows'[j] = rows[j] /\ Count(j)' = Count(j)
  BY <1>7, <1>8
<1>10. \A j \in Positions : Count(j)' <= 1
  <2>1. Count(i)' <= 1
    BY <1>1, <1>5, <1>7, <1>8
  <2>2. \A j \in Positions \ {i} : Count(j)' <= 1
    BY <1>9 DEF TableInv, OneWriter
  <2>. QED  BY <2>1, <2>2
<1>. QED  BY <1>4, <1>7, <1>9, <1>10

\* What a statement leaves are rows again, however many there are.
LEMMA RowsAfterType ==
  ASSUME TableTypeOK, NEW p \in Writers, Working(p)
  PROVE  RowsAfter(p) \in [Positions -> [Values -> Nat]]
<1>1. PICK i \in Positions, v \in Values \cup {Blank} :
        i = saver[p].i /\ v = saver[p].items[i]
  BY DEF TableTypeOK, Working, Array
<1>2. rows \in [Positions -> [Values -> Nat]] /\ NoRows \in [Values -> Nat]
  BY RowsOfOne DEF TableTypeOK
<1>3. Count(i) \in Nat
  BY <1>2, CountIs, CountType
<1>4. RowsDeleted(i) \in [Positions -> [Values -> Nat]]
  BY <1>2 DEF RowsDeleted
<1>5. RowsUpdated(i, v) \in [Positions -> [Values -> Nat]]
  BY <1>2, <1>3 DEF RowsUpdated
<1>6. ASSUME v # Blank PROVE RowsInserted(i, v) \in [Positions -> [Values -> Nat]]
  <2>1. v \in Values /\ rows[i][v] + 1 \in Nat
    BY <1>1, <1>2, <1>6
  <2>. QED  BY <1>2, <2>1 DEF RowsInserted
<1>. QED  BY <1>1, <1>2, <1>4, <1>5, <1>6 DEF RowsAfter

\* Nothing counts differently when the rows stay.
LEMMA CountsStay ==
  ASSUME UNCHANGED rows
  PROVE  \A i : Count(i)' = Count(i)
BY CountIs

\* A step that leaves rows and what saves do to them alone.
LEMMA NothingWritten ==
  ASSUME TableInv, UNCHANGED <<rows, overlapped, whole, saved, saver>>
  PROVE  ~overlapped' => OneWriter'
<1>1. SUFFICES ASSUME ~overlapped, OneWriter PROVE OneWriter'
  BY DEF TableInv
<1>2. \A i : Count(i)' = Count(i)
  BY CountsStay
<1>3. \A p \in Writers : SaveGoesOn(p)' <=> SaveGoesOn(p)
  BY <1>2 DEF SaveGoesOn
<1>4. \A p \in Writers : Working(p)' <=> Working(p)
  BY DEF Working
<1>. QED  BY <1>1, <1>2, <1>3, <1>4 DEF OneWriter

\* The array of a new save.
LEMMA BeginKeeps ==
  ASSUME TableInv, NEW p \in Writers, NEW items \in Array, Begin(p, items),
         status' = status
  PROVE  TableInv'
<1>1. PICK r : r = [Idle EXCEPT !.items = items]
  OBVIOUS
<1>2. /\ r \in [items : Array \cup {NoArray}, save_id : SUBSET Positions,
                i : Positions, selected : BOOLEAN]
      /\ r.items = items /\ r.i = 0 /\ r.selected = FALSE
  <2>1. 0 \in Positions /\ {} \in SUBSET Positions
    BY TableAssumption DEF Positions
  <2>2. r = [items |-> items, save_id |-> {}, i |-> 0, selected |-> FALSE]
    BY <1>1 DEF Idle
  <2>. QED  BY <2>1, <2>2
<1>3. saver' = [saver EXCEPT ![p] = r]
  BY <1>1 DEF Begin
<1>4. /\ saver' \in [Writers -> [items : Array \cup {NoArray},
                            save_id : SUBSET Positions, i : Positions,
                            selected : BOOLEAN]]
      /\ saver'[p] = r /\ \A q \in Writers \ {p} : saver'[q] = saver[q]
  BY <1>2, <1>3 DEF TableInv, TableTypeOK
<1>5. TableTypeOK'
  BY <1>4 DEF TableInv, TableTypeOK, Begin
<1>6. ASSUME ~overlapped' PROVE OneWriter'
  <2>1. OneWriter /\ ~overlapped /\ \A q \in Writers : ~Working(q)
    BY <1>6 DEF Begin, TableInv
  <2>2. \A i : Count(i)' = Count(i)
    BY CountsStay DEF Begin
  <2>3. \A q \in Writers \ {p} : ~Working(q)'
    BY <1>4, <2>1 DEF Working
  <2>4. SaveGoesOn(p)'
    BY <1>2, <1>4 DEF SaveGoesOn
  <2>5. Working(p)'
    BY <1>2, <1>4, TableAssumption DEF Working, Array, Positions
  <2>. QED  BY <2>1, <2>2, <2>3, <2>4, <2>5 DEF OneWriter
<1>. QED  BY <1>5, <1>6 DEF TableInv

\* A save that stops, done or not.
LEMMA StopKeeps ==
  ASSUME TableInv, NEW p \in Writers, saver' = [saver EXCEPT ![p] = Idle],
         rows' \in [Positions -> [Values -> Nat]], UNCHANGED overlapped,
         ~overlapped => /\ \A i \in Positions : Count(i)' <= 1
                        /\ \A q \in Writers \ {p} : ~Working(q) \/
                             UNCHANGED <<rows, whole>>
                        /\ whole' /\ (\A q \in Writers \ {p} : ~Working(q)) =>
                             \A i \in Positions : rows'[i] = RowOf(saved'[i])
  PROVE  /\ saver' \in [Writers -> [items : Array \cup {NoArray},
                            save_id : SUBSET Positions, i : Positions,
                            selected : BOOLEAN]]
         /\ ~overlapped' => OneWriter'
<1>1. Idle \in [items : Array \cup {NoArray}, save_id : SUBSET Positions,
                i : Positions, selected : BOOLEAN]
  BY TableAssumption DEF Idle, Positions
<1>2. /\ saver' \in [Writers -> [items : Array \cup {NoArray},
                            save_id : SUBSET Positions, i : Positions,
                            selected : BOOLEAN]]
      /\ saver'[p] = Idle /\ \A q \in Writers \ {p} : saver'[q] = saver[q]
  BY <1>1 DEF TableInv, TableTypeOK
<1>3. ~Working(p)' /\ \A q \in Writers \ {p} : Working(q)' <=> Working(q)
  BY <1>2 DEF Working, Idle
<1>4. ASSUME ~overlapped PROVE OneWriter'
  <2>1. OneWriter
    BY <1>4 DEF TableInv
  <2>2. ASSUME NEW q \in Writers, Working(q)' PROVE SaveGoesOn(q)'
    <3>1. q # p /\ Working(q) /\ saver'[q] = saver[q] /\ SaveGoesOn(q)
      BY <1>2, <1>3, <2>1, <2>2 DEF OneWriter
    <3>2. UNCHANGED <<rows, whole>>
      BY <1>4, <3>1
    <3>3. \A i : Count(i)' = Count(i)
      BY <3>2, CountsStay
    <3>. QED  BY <3>1, <3>2, <3>3 DEF SaveGoesOn
  <2>. QED  BY <1>3, <1>4, <2>1, <2>2 DEF OneWriter
<1>. QED  BY <1>2, <1>4

\* A statement, whether it is the last one, or one that fails.
LEMMA StatementKeeps ==
  ASSUME TableInv, NEW p \in Writers, Statement(p)
  PROVE  TableInv'
<1>1. /\ Working(p) /\ saver[p].selected
      /\ UNCHANGED <<table, overlapped>>
  BY DEF Statement
<1>2. PICK i \in Positions, items \in Array : i = saver[p].i /\ items = saver[p].items
  BY <1>1 DEF TableInv, TableTypeOK, Working
<1>3. \A q \in Writers \ {p} : ~overlapped => ~Working(q)
  BY <1>1 DEF TableInv, OneWriter
<1>4. CASE /\ Ended(p) /\ whole' = FALSE /\ UNCHANGED <<rows, saved>>
  <2>1. /\ saver' = [saver EXCEPT ![p] = Idle] /\ online' \in BOOLEAN
        /\ status' \in Array \cup {NoArray}
    BY <1>4 DEF Ended, TableInv, TableTypeOK
  <2>2. rows' \in [Positions -> [Values -> Nat]]
    BY <1>4 DEF TableInv, TableTypeOK
  <2>3. ~overlapped => \A j \in Positions : Count(j)' <= 1
    BY <1>4, CountsStay DEF TableInv, OneWriter
  <2>4. /\ saver' \in [Writers -> [items : Array \cup {NoArray},
                            save_id : SUBSET Positions, i : Positions,
                            selected : BOOLEAN]]
        /\ ~overlapped' => OneWriter'
    BY <1>1, <1>3, <1>4, <2>1, <2>2, <2>3, StopKeeps
  <2>. QED  BY <1>1, <1>4, <2>1, <2>2, <2>4 DEF TableInv, TableTypeOK
<1>5. CASE /\ rows' = RowsAfter(p) /\ UNCHANGED whole
           /\ saver[p].i = Size - 1 /\ Ended(p) /\ saved' = saver[p].items
  <2>1. /\ saver' = [saver EXCEPT ![p] = Idle] /\ online' \in BOOLEAN
        /\ status' \in Array \cup {NoArray}
    BY <1>5 DEF Ended, TableInv, TableTypeOK
  <2>2. rows' \in [Positions -> [Values -> Nat]]
    BY <1>1, <1>5, RowsAfterType DEF TableInv
  <2>3. ASSUME ~overlapped
        PROVE  /\ \A j \in Positions : Count(j)' <= 1
               /\ whole' => \A j \in Positions : rows'[j] = RowOf(saved'[j])
    <3>1. PICK v : v = items[i]
      OBVIOUS
    <3>2. /\ rows'[i] = RowOf(v)
          /\ \A j \in Positions \ {i} : rows'[j] = rows[j]
          /\ \A j \in Positions : Count(j)' <= 1
      BY <1>1, <1>2, <1>5, <2>3, <3>1, StatementWrites
    <3>3. ASSUME whole', NEW j \in Positions PROVE rows'[j] = RowOf(items[j])
      <4>1. CASE j = i
        BY <3>1, <3>2, <4>1
      <4>2. CASE j # i
        <5>1. j < i
          BY <1>2, <1>5, <4>2, TableAssumption DEF Positions
        <5>2. whole
          BY <1>5, <3>3
        <5>3. rows[j] = RowOf(items[j])
          BY <1>1, <1>2, <2>3, <5>1, <5>2 DEF TableInv, OneWriter, SaveGoesOn
        <5>. QED  BY <3>2, <4>2, <5>3
      <4>. QED  BY <4>1, <4>2
    <3>. QED  BY <1>2, <1>5, <3>2, <3>3
  <2>4. /\ saver' \in [Writers -> [items : Array \cup {NoArray},
                            save_id : SUBSET Positions, i : Positions,
                            selected : BOOLEAN]]
        /\ ~overlapped' => OneWriter'
    BY <1>1, <1>3, <2>1, <2>2, <2>3, StopKeeps
  <2>5. saved' \in Array /\ whole' \in BOOLEAN
    BY <1>2, <1>5 DEF TableInv, TableTypeOK
  <2>. QED  BY <1>1, <2>1, <2>2, <2>4, <2>5 DEF TableInv, TableTypeOK
<1>6. CASE /\ rows' = RowsAfter(p) /\ UNCHANGED whole
           /\ saver[p].i # Size - 1 /\ saver' = [saver EXCEPT ![p].i = @ + 1]
           /\ UNCHANGED <<online, status, saved>>
  <2>1. rows' \in [Positions -> [Values -> Nat]]
    BY <1>1, <1>6, RowsAfterType DEF TableInv
  <2>2. i + 1 \in Positions
    BY <1>2, <1>6, TableAssumption DEF Positions
  <2>3. PICK r : r = [saver[p] EXCEPT !.i = i + 1]
    OBVIOUS
  <2>4. /\ r \in [items : Array \cup {NoArray}, save_id : SUBSET Positions,
                  i : Positions, selected : BOOLEAN]
        /\ r.items = items /\ r.i = i + 1 /\ r.selected
        /\ r.save_id = saver[p].save_id
    BY <1>1, <1>2, <2>2, <2>3 DEF TableInv, TableTypeOK
  <2>5. saver' = [saver EXCEPT ![p] = r]
    BY <1>2, <1>6, <2>3
  <2>6. /\ saver' \in [Writers -> [items : Array \cup {NoArray},
                            save_id : SUBSET Positions, i : Positions,
                            selected : BOOLEAN]]
        /\ saver'[p] = r /\ \A q \in Writers \ {p} : saver'[q] = saver[q]
    BY <2>4, <2>5 DEF TableInv, TableTypeOK
  <2>7. TableTypeOK'
    BY <1>1, <1>6, <2>1, <2>6 DEF TableInv, TableTypeOK
  <2>8. ASSUME ~overlapped PROVE OneWriter'
    <3>1. PICK v : v = items[i]
      OBVIOUS
    <3>2. /\ rows'[i] = RowOf(v)
          /\ \A j \in Positions \ {i} : rows'[j] = rows[j] /\ Count(j)' = Count(j)
          /\ \A j \in Positions : Count(j)' <= 1
      BY <1>1, <1>2, <1>6, <2>8, <3>1, StatementWrites
    <3>3. \A q \in Writers : Working(q)' => q = p
      BY <1>3, <2>6, <2>8 DEF Working
    <3>4. Working(p)'
      BY <1>1, <1>2, <2>4, <2>6 DEF Working
    <3>5. OneWriter /\ SaveGoesOn(p)
      BY <1>1, <2>8 DEF TableInv, OneWriter
    <3>6. ASSUME NEW j \in Positions, j >= i + 1
          PROVE  j \in r.save_id <=> Count(j)' > 0
      <4>1. j # i /\ j >= i
        BY <1>2, <3>6 DEF Positions
      <4>2. j \in saver[p].save_id <=> Count(j) > 0
        BY <1>1, <1>2, <3>5, <4>1 DEF SaveGoesOn
      <4>3. Count(j)' = Count(j)
        BY <3>2, <4>1
      <4>. QED  BY <2>4, <4>2, <4>3
    <3>7. ASSUME whole, NEW j \in Positions, j < i + 1
          PROVE  rows'[j] = RowOf(items[j])
      <4>1. CASE j = i
        BY <3>1, <3>2, <4>1
      <4>2. CASE j # i
        <5>1. j < i
          BY <1>2, <3>7, <4>2 DEF Positions
        <5>2. rows[j] = RowOf(items[j])
          BY <1>1, <1>2, <3>5, <3>7, <5>1 DEF SaveGoesOn
        <5>. QED  BY <3>2, <4>2, <5>2
      <4>. QED  BY <4>1, <4>2
    <3>8. SaveGoesOn(p)'
      BY <1>6, <2>4, <2>6, <3>6, <3>7 DEF SaveGoesOn
    <3>. QED  BY <3>2, <3>3, <3>4, <3>8 DEF OneWriter
  <2>. QED  BY <1>1, <2>7, <2>8 DEF TableInv
<1>. QED  BY <1>4, <1>5, <1>6 DEF Statement

\* The positions that have a row are read.
LEMMA SelectKeeps ==
  ASSUME TableInv, NEW p \in Writers, SelectPositions(p)
  PROVE  TableInv'
<1>1. PICK s : s = save_id
  OBVIOUS
<1>2. s \in SUBSET Positions
  BY <1>1 DEF save_id
<1>3. PICK r : r = [saver[p] EXCEPT !.save_id = s, !.selected = TRUE]
  OBVIOUS
<1>4. /\ Working(p) /\ ~saver[p].selected
      /\ saver[p] \in [items : Array \cup {NoArray}, save_id : SUBSET Positions,
                       i : Positions, selected : BOOLEAN]
  BY DEF SelectPositions, TableInv, TableTypeOK
<1>5. /\ r \in [items : Array \cup {NoArray}, save_id : SUBSET Positions,
                i : Positions, selected : BOOLEAN]
      /\ r.items = saver[p].items /\ r.i = saver[p].i /\ r.selected /\ r.save_id = s
  BY <1>2, <1>3, <1>4
<1>6. saver' = [saver EXCEPT ![p] = r]
  BY <1>1, <1>3 DEF SelectPositions
<1>7. /\ saver' \in [Writers -> [items : Array \cup {NoArray},
                            save_id : SUBSET Positions, i : Positions,
                            selected : BOOLEAN]]
      /\ saver'[p] = r /\ \A q \in Writers \ {p} : saver'[q] = saver[q]
  BY <1>5, <1>6 DEF TableInv, TableTypeOK
<1>8. TableTypeOK'
  BY <1>7 DEF TableInv, TableTypeOK, SelectPositions
<1>9. ASSUME ~overlapped PROVE OneWriter'
  <2>1. OneWriter /\ SaveGoesOn(p)
    BY <1>4, <1>9 DEF TableInv, OneWriter
  <2>2. s = {i \in Positions : Count(i) > 0}
    BY <1>1, <2>1, SelectedAreThere DEF TableInv, OneWriter
  <2>3. \A i : Count(i)' = Count(i)
    BY CountsStay DEF SelectPositions
  <2>4. \A q \in Writers : Working(q)' => q = p
    BY <1>4, <1>7, <2>1 DEF OneWriter, Working
  <2>5. Working(p)'
    BY <1>4, <1>5, <1>7 DEF Working
  <2>6. saver[p].i = 0
    BY <1>4, <2>1 DEF SaveGoesOn
  <2>7. \A i \in Positions : ~(i < 0)
    BY DEF Positions
  <2>8. SaveGoesOn(p)'
    BY <1>5, <1>7, <2>2, <2>3, <2>6, <2>7 DEF SaveGoesOn
  <2>9. \A i \in Positions : Count(i)' <= 1
    BY <2>1, <2>3 DEF OneWriter
  <2>. QED  BY <2>4, <2>5, <2>8, <2>9 DEF OneWriter
<1>. QED  BY <1>8, <1>9 DEF TableInv, SelectPositions

\* A writer dies.
LEMMA CrashKeeps ==
  ASSUME TableInv, NEW p \in Writers, Crash(p)
  PROVE  TableInv'
<1>1. /\ saver' = [saver EXCEPT ![p] = Idle] /\ whole' \in BOOLEAN
      /\ status' \in Array \cup {NoArray}
      /\ UNCHANGED <<table, rows, online, overlapped, saved>>
  BY DEF Crash, TableInv, TableTypeOK
<1>2. \A i : Count(i)' = Count(i)
  BY <1>1, CountsStay
<1>3. whole' <=> whole /\ ~Working(p)
  BY DEF Crash
<1>4. ASSUME ~overlapped
      PROVE  /\ \A i \in Positions : Count(i)' <= 1
             /\ \A q \in Writers \ {p} : ~Working(q) \/ UNCHANGED <<rows, whole>>
             /\ whole' /\ (\A q \in Writers \ {p} : ~Working(q)) =>
                  \A i \in Positions : rows'[i] = RowOf(saved'[i])
  <2>1. OneWriter
    BY <1>4 DEF TableInv
  <2>2. \A q \in Writers \ {p} : ~Working(q) \/ UNCHANGED <<rows, whole>>
    <3>. SUFFICES ASSUME NEW q \in Writers \ {p}, Working(q)
                  PROVE  whole' = whole
      BY <1>1
    <3>1. ~Working(p)
      BY <2>1 DEF OneWriter
    <3>. QED  BY <3>1 DEF Crash, TableInv, TableTypeOK
  <2>3. ASSUME whole', \A q \in Writers \ {p} : ~Working(q)
        PROVE  \A i \in Positions : rows'[i] = RowOf(saved'[i])
    BY <1>1, <1>3, <2>1, <2>3 DEF OneWriter
  <2>. QED  BY <1>2, <2>1, <2>2, <2>3 DEF OneWriter
<1>5. rows' \in [Positions -> [Values -> Nat]]
  BY <1>1 DEF TableInv, TableTypeOK
<1>6. /\ saver' \in [Writers -> [items : Array \cup {NoArray},
                            save_id : SUBSET Positions, i : Positions,
                            selected : BOOLEAN]]
      /\ ~overlapped' => OneWriter'
  BY <1>1, <1>4, <1>5, StopKeeps
<1>. QED  BY <1>1, <1>6 DEF TableInv, TableTypeOK

\* A load gives an array of the right kind.
LEMMA LoadsAreArrays == Loads \subseteq Array
BY DEF Loads, LoadedAt, LoadedFromStart

\* What happens to the array at the map server and the flag between saves.
LEMMA ElsewhereKeeps ==
  ASSUME TableInv, mmo_char_fromdb \/ Play \/ mmo_setallonline
  PROVE  TableInv'
<1>1. UNCHANGED <<table, rows, overlapped, whole, saved, saver>>
  BY DEF mmo_char_fromdb, Play, mmo_setallonline
<1>2. status' \in Array \cup {NoArray} /\ online' \in BOOLEAN
  <2>1. CASE mmo_char_fromdb
    BY <2>1, LoadsAreArrays DEF mmo_char_fromdb
  <2>2. CASE Play
    <3>1. PICK i \in Positions, v \in Values \cup {Blank} :
            status' = [status EXCEPT ![i] = v]
      BY <2>2 DEF Play
    <3>2. status \in Array /\ online' = online
      BY <2>2 DEF Play, TableInv, TableTypeOK
    <3>3. status' \in Array
      BY <3>1, <3>2 DEF Array
    <3>. QED  BY <3>2, <3>3 DEF TableInv, TableTypeOK
  <2>3. CASE mmo_setallonline
    BY <2>3 DEF mmo_setallonline, TableInv, TableTypeOK
  <2>. QED  BY <2>1, <2>2, <2>3
<1>3. ~overlapped' => OneWriter'
  BY <1>1, NothingWritten
<1>4. TableTypeOK'
  BY <1>1, <1>2 DEF TableInv, TableTypeOK
<1>. QED  BY <1>3, <1>4 DEF TableInv

\* A table without rows is what a save of nothing leaves.
LEMMA TableInitHolds == TableInit => TableInv
<1>. SUFFICES ASSUME TableInit PROVE TableInv
  OBVIOUS
<1>1. 0 \in Positions /\ {} \in SUBSET Positions
  BY TableAssumption DEF Positions
<1>2. Idle \in [items : Array \cup {NoArray}, save_id : SUBSET Positions,
                i : Positions, selected : BOOLEAN]
  BY <1>1 DEF Idle
<1>3. Nothing \in Array /\ NoRows \in [Values -> Nat]
  BY RowsOfOne DEF Nothing, Array
<1>4. TableTypeOK
  BY <1>2, <1>3 DEF TableInit, TableTypeOK
<1>5. \A p \in Writers : ~Working(p)
  BY DEF TableInit, Working, Idle
<1>6. \A i \in Positions : rows[i] = NoRows /\ saved[i] = Blank
  BY DEF TableInit, Nothing
<1>7. \A i \in Positions : Count(i) = 0
  BY <1>6, CountIs, RowsOfOne
<1>. QED  BY <1>4, <1>5, <1>6, <1>7 DEF TableInv, OneWriter, RowOf

\* Every step keeps the invariant.
LEMMA TableStepHolds == TableInv /\ [TableNext]_tableVars => TableInv'
<1>. SUFFICES ASSUME TableInv, [TableNext]_tableVars PROVE TableInv'
  OBVIOUS
<1>1. CASE UNCHANGED tableVars
  <2>1. TableTypeOK'
    BY <1>1 DEF tableVars, TableInv, TableTypeOK
  <2>2. ~overlapped' => OneWriter'
    BY <1>1, NothingWritten DEF tableVars
  <2>. QED  BY <2>1, <2>2 DEF TableInv
<1>2. CASE \E p \in Writers : SelectPositions(p) \/ Crash(p)
  BY <1>2, SelectKeeps, CrashKeeps
<1>3. CASE intif_todb \/ save_todb
  <2>1. \E p \in Writers : Statement(p)
    BY <1>3 DEF Writers, intif_todb, membankdata_todb, meminvdata_todb,
       memeqpdata_todb, memreg_todb, memnpcreg_todb, memquestreg_todb,
       memspells_todb, memaethers_todb, memkillcount_todb, memlegend_todb,
       save_todb, save_membankdata_todb, save_meminvdata_todb,
       save_memeqpdata_todb, save_memreg_todb, save_memnpcreg_todb,
       save_memquestreg_todb, save_memspells_todb, save_memaethers_todb,
       save_memkillcount_todb, save_memlegend_todb
  <2>. QED  BY <2>1, StatementKeeps
<1>4. CASE charif_parse_savechar
  <2>1. PICK items \in Array : Begin("save", items)
    BY <1>4 DEF charif_parse_savechar
  <2>. QED  BY <1>4, <2>1, BeginKeeps DEF charif_parse_savechar, Writers
<1>5. CASE intif_savequit
  <2>1. status \in Array
    BY <1>5 DEF intif_savequit, TableInv, TableTypeOK
  <2>. QED  BY <1>5, <2>1, BeginKeeps DEF intif_savequit, Writers
<1>6. CASE mmo_char_fromdb \/ Play \/ mmo_setallonline
  BY <1>6, ElsewhereKeeps
<1>. QED  BY <1>1, <1>2, <1>3, <1>4, <1>5, <1>6 DEF TableNext

\* A table that holds what a was, position by position.
TableHas(a) == \A i \in Positions : rows[i] = RowOf(a[i])

\* A position has one row, of its value, or none.
LEMMA RowOfIs ==
  ASSUME TableTypeOK, NEW a \in Array, TableHas(a), NEW i \in Positions
  PROVE  /\ \A v \in Values : rows[i][v] \in {0, 1} /\ (rows[i][v] = 1 <=> a[i] = v)
         /\ Count(i) = IF a[i] = Blank THEN 0 ELSE 1
<1>1. a[i] \in Values \cup {Blank} /\ rows[i] = RowOf(a[i])
  BY DEF Array, TableHas
<1>2. ASSUME NEW v \in Values
      PROVE  rows[i][v] \in {0, 1} /\ (rows[i][v] = 1 <=> a[i] = v)
  BY <1>1, TableAssumption DEF RowOf, NoRows
<1>3. Count(i) = SumOf(rows[i], Values)
  BY CountIs
<1>4. SumOf(rows[i], Values) = IF a[i] = Blank THEN 0 ELSE 1
  BY <1>1, RowsOfOne DEF RowOf
<1>. QED  BY <1>2, <1>3, <1>4

\* How many rows the table has.
LEMMA RowsInAll ==
  ASSUME TableTypeOK, NEW a \in Array, TableHas(a)
  PROVE  MapThenSumSet(Count, Positions) = Size - Cardinality(Held(a, Blank))
<1>1. PICK f : f = [i \in Positions |-> Count(i)]
  OBVIOUS
<1>2. MapThenSumSet(Count, Positions) = SumOf(f, Positions)
  BY <1>1, CountsOfMany
<1>3. \A i \in Positions : f[i] \in {0, 1} /\ (f[i] = 1 <=> a[i] # Blank)
  BY <1>1, RowOfIs
<1>4. IsFiniteSet(Positions) /\ Cardinality(Positions) = Size
  <2>1. /\ IsFiniteSet(0..Size - 1)
        /\ Cardinality(0..Size - 1) = IF 0 > Size - 1 THEN 0 ELSE (Size - 1) - 0 + 1
    BY TableAssumption, FS_Interval
  <2>. QED  BY <2>1, TableAssumption DEF Positions
<1>5. SumOf(f, Positions) = Cardinality({i \in Positions : f[i] = 1})
  BY <1>3, <1>4, SumOfOnes
<1>6. {i \in Positions : f[i] = 1} = Positions \ Held(a, Blank)
  BY <1>3 DEF Held
<1>7. Positions \cap Held(a, Blank) = Held(a, Blank)
  BY DEF Held
<1>8. Cardinality(Positions \ Held(a, Blank)) = Size - Cardinality(Held(a, Blank))
  BY <1>4, <1>7, FS_Difference
<1>. QED  BY <1>2, <1>5, <1>6, <1>8

\* How many rows have the value v, wherever they are.
LEMMA RowsOfValue ==
  ASSUME TableTypeOK, NEW a \in Array, TableHas(a), NEW v \in Values
  PROVE  MapThenSumSet(LAMBDA i : rows[i][v], Positions) = Cardinality(Held(a, v))
<1>1. PICK f : f = [i \in Positions |-> rows[i][v]]
  OBVIOUS
<1> DEFINE F(g) == [s \in SUBSET Positions |->
              IF s = {} THEN 0
              ELSE f[CHOOSE x \in s : TRUE] + g[s \ {CHOOSE x \in s : TRUE}]]
           G(g) == [s \in SUBSET Positions |->
              IF s = {} THEN 0
              ELSE rows[CHOOSE x \in s : TRUE][v] + g[s \ {CHOOSE x \in s : TRUE}]]
<1>2. ASSUME NEW g PROVE F(g) = G(g)
  <2>1. ASSUME NEW s \in SUBSET Positions, s # {}
        PROVE  f[CHOOSE x \in s : TRUE] = rows[CHOOSE x \in s : TRUE][v]
    <3>1. (CHOOSE x \in s : TRUE) \in s
      BY <2>1
    <3>. QED  BY <1>1, <3>1
  <2>. QED  BY <2>1
<1>3. \A g : g = F(g) <=> g = G(g)
  <2>. HIDE DEF F, G
  <2>. QED  BY <1>2
<1>4. (CHOOSE g : g = F(g)) = (CHOOSE g : g = G(g))
  <2>. HIDE DEF F, G
  <2>. QED  BY <1>3, Zenon
<1>5. SumOf(f, Positions) = (CHOOSE g : g = F(g))[Positions]
  BY DEF SumOf, Sums
<1>6. MapThenSumSet(LAMBDA i : rows[i][v], Positions) = (CHOOSE g : g = G(g))[Positions]
  BY DEF MapThenSumSet, MapThenFoldSet
<1>. HIDE DEF F, G
<1>7. \A i \in Positions : f[i] \in {0, 1} /\ (f[i] = 1 <=> a[i] = v)
  BY <1>1, RowOfIs
<1>8. IsFiniteSet(Positions)
  BY TableAssumption, FS_Interval DEF Positions
<1>9. SumOf(f, Positions) = Cardinality({i \in Positions : f[i] = 1})
  BY <1>7, <1>8, SumOfOnes
<1>10. {i \in Positions : f[i] = 1} = Held(a, v)
  BY <1>7 DEF Held
<1>. QED  BY <1>4, <1>5, <1>6, <1>9, <1>10

\* What a login reads, when the LIMIT cuts off nothing.
LEMMA LoadIsSame ==
  ASSUME TableTypeOK, NEW a \in Array, TableHas(a),
         Size - Cardinality(Held(a, Blank)) <= LoadLimit,
         NEW b \in Loads
  PROVE  Same(b, a)
<1>1. Returned = {rows}
  <2>1. MapThenSumSet(Count, Positions) <= LoadLimit
    BY RowsInAll
  <2>2. MapThenSumSet(LAMBDA i : MapThenSumSet(LAMBDA v : rows[i][v], Values), Positions)
          <= LoadLimit
    BY <2>1 DEF Count
  <2>. QED  BY <2>2 DEF Returned
<1>2. CASE table \in Registries
  <2>1. b \in LoadedFromStart(rows)
    BY <1>1, <1>2 DEF Loads
  <2>2. ASSUME NEW v \in Values
        PROVE  Cardinality(Held(b, v)) = Cardinality(Held(a, v))
    <3>1. Cardinality({i \in Positions : b[i] = v})
            = MapThenSumSet(LAMBDA i : rows[i][v], Positions)
      BY <2>1 DEF LoadedFromStart
    <3>. QED  BY <3>1, RowsOfValue DEF Held
  <2>. QED  BY <1>2, <2>2 DEF Same
<1>3. CASE table \notin Registries
  <2>1. b \in LoadedAt(rows)
    BY <1>1, <1>3 DEF Loads
  <2>2. ASSUME NEW i \in Positions PROVE b[i] = a[i]
    <3>1. /\ b[i] \in Values \cup {Blank} /\ a[i] \in Values \cup {Blank}
          /\ IF b[i] = Blank THEN \A v \in Values : rows[i][v] = 0
                             ELSE rows[i][b[i]] > 0
      BY <2>1 DEF LoadedAt, Array
    <3>2. \A v \in Values : rows[i][v] \in {0, 1} /\ (rows[i][v] = 1 <=> a[i] = v)
      BY RowOfIs
    <3>. QED  BY <3>1, <3>2
  <2>3. b \in Array
    BY <2>1 DEF LoadedAt
  <2>. QED  BY <1>3, <2>2, <2>3 DEF Same, Array
<1>. QED  BY <1>2, <1>3

\* Until two writers were at work at a time, a position has one row at most, and
\* after a save that nothing disturbed a login reads what it wrote, but for
\* equipment in all slots: for arrays of any size and any values.
THEOREM SpecSaveIsExact == TableSpec => [](TableTypeOK /\ SaveIsExact)
<1>1. TableInv => TableTypeOK /\ SaveIsExact
  <2>. SUFFICES ASSUME TableInv PROVE TableTypeOK /\ SaveIsExact
    OBVIOUS
  <2>1. SUFFICES ASSUME ~overlapped, whole, ~(\E p \in Writers : Working(p)),
                        ~(Size - Cardinality(Held(saved, Blank)) > LoadLimit),
                        NEW a \in Loads
                 PROVE  Same(a, saved)
    BY DEF TableInv, OneWriter, SaveIsExact
  <2>2. TableHas(saved) /\ TableTypeOK /\ saved \in Array
    BY <2>1 DEF TableHas, TableInv, OneWriter, TableTypeOK
  <2>3. Size - Cardinality(Held(saved, Blank)) \in Int /\ LoadLimit \in Int
    <3>1. IsFiniteSet(Positions)
      BY TableAssumption, FS_Interval DEF Positions
    <3>2. Cardinality(Held(saved, Blank)) \in Nat
      BY <3>1, FS_Subset, FS_CardinalityType DEF Held
    <3>. QED  BY <3>2, TableAssumption DEF LoadLimit
  <2>4. Size - Cardinality(Held(saved, Blank)) <= LoadLimit
    BY <2>1, <2>3
  <2>. QED  BY <2>1, <2>2, <2>4, LoadIsSame
<1>. QED  BY <1>1, TableInitHolds, TableStepHolds, PTL DEF TableSpec
==============================================================================
