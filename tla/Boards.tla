------------------------------- MODULE Boards -------------------------------
(***************************************************************************)
(* Mail and a board.  A player's packet 0x3B becomes a request from the    *)
(* map server to the char server, which works on `Mail` and `Boards` and   *)
(* answers by descriptor; meanwhile the player may leave and another come. *)
(* Board 0 is mail.  Texts, dates, colors and the mail that runs Lua are   *)
(* left out, which page of a list is asked for (bcount) and whether the    *)
(* board's script or the rank lets a player delete what others wrote are   *)
(* left open, and statements are assumed to succeed.                       *)
(***************************************************************************)
EXTENDS Integers, Sequences, FiniteSets

CONSTANTS
  Socks,      \* descriptors of players at the map server
  Authors,    \* names of players
  Nobody,     \* no player at a descriptor; nobody's mail (a board's post)
  ChaId,      \* number of each character
  PageSize,   \* 20: lines of a list
  MaxPosts,   \* bound: mails and posts written
  MaxAsks     \* bound: requests, and answers, under way

ASSUME BoardsAssumption ==
  /\ Nobody \notin Authors /\ ChaId \in [Authors -> Nat]
  /\ PageSize \in Nat \ {0} /\ MaxPosts \in Nat /\ MaxAsks \in Nat

VARIABLES
  posts,    \* rows of `Mail` and `Boards` in the order they were written
  desk,     \* of each descriptor: the player's name, flags & FLAG_MAIL, and
            \* what the window of the client shows
  asks,     \* 0x3008, 0x3009, 0x300A, 0x300C, 0x300D on their way
  replies,  \* the answers
  misled    \* history: descriptors whose flag an answer cleared that was not
            \* about their player

boardVars == <<posts, desk, asks, replies, misled>>

Mail == 0
BoardIds == {Mail, 1}
Ids == DOMAIN posts
NoDesk == [name |-> Nobody, flag |-> FALSE, board |-> Mail, lines |-> {}]

\* The rows of a list: a board's, or the mail of a name; a mail that was
\* deleted stays in its table.
Rows(b, n) ==
  {i \in Ids : posts[i].board = b /\ (b = Mail => posts[i].to = n)}
Listed(b, n) == {i \in Rows(b, n) : ~posts[i].gone}

At(p) == posts[p].pos
Highest(S) == IF S = {} THEN 0
              ELSE At(CHOOSE i \in S : \A j \in S : At(j) <= At(i))
HasNew(n) == \E i \in Rows(Mail, n) : posts[i].new

BoardInit ==
  /\ posts = <<>> /\ asks = <<>> /\ replies = <<>> /\ misled = {}
  /\ desk = [f \in Socks |-> NoDesk]

----------------------------------------------------------------------------
(* The map server.                                                         *)

pc_requestmp(f) == HasNew(desk[f].name)

Login(f, n) ==
  /\ desk[f] = NoDesk /\ \A g \in Socks : desk[g].name # n
  /\ desk' = [desk EXCEPT ![f] =
                [NoDesk EXCEPT !.name = n, !.flag = HasNew(n)]]
  /\ UNCHANGED <<posts, asks, replies, misled>>

Logout(f) ==
  /\ desk[f].name # Nobody
  /\ desk' = [desk EXCEPT ![f] = NoDesk] /\ misled' = misled \ {f}
  /\ UNCHANGED <<posts, asks, replies>>

\* Every minute.
pc_timer(f) ==
  /\ desk[f].name # Nobody
  /\ desk' = [desk EXCEPT ![f].flag = pc_requestmp(f)]
  /\ misled' = misled \ {f}
  /\ UNCHANGED <<posts, asks, replies>>

Ask(f, kind, b, p, more) ==
  /\ desk[f].name # Nobody /\ Len(asks) < MaxAsks
  /\ asks' = Append(asks, [fd |-> f, name |-> desk[f].name, kind |-> kind,
                           board |-> b, pos |-> p, more |-> more])
  /\ UNCHANGED <<posts, desk, replies, misled>>

boards_showposts(f, b, page) == Ask(f, "show", b, 0, page)
boards_readpost(f, b, p) == Ask(f, "read", b, p, 0)
boards_post(f) == Ask(f, "post", 1, 0, 0)
nmail_write(f, to) == Ask(f, "write", Mail, 0, to)

\* The client deletes a line that its window shows.
boards_delete(f, i, candel) ==
  /\ i \in desk[f].lines
  /\ Ask(f, "delete", desk[f].board, At(i), [candel |-> candel, line |-> i])

----------------------------------------------------------------------------
(* The char server takes the requests in turn.                             *)

Asked(kind) == asks # <<>> /\ Head(asks).kind = kind /\ Len(replies) < MaxAsks
Reply(r) == replies' = Append(replies, r)
Taken == asks' = Tail(asks)

\* What it answers: to whom, what, and the lines of it.
To(a, what, b, lines) ==
  [fd |-> a.fd, name |-> a.name, what |-> what, board |-> b, lines |-> lines]

mapif_parse_showposts ==
  LET a == Head(asks)
      rows == Listed(a.board, a.name)
      above(i) == Cardinality({j \in rows : At(j) > At(i)})
  IN  /\ Asked("show") /\ Taken
      /\ Reply(To(a, "list", a.board,
                  {i \in rows : /\ above(i) >= a.more * PageSize
                                /\ above(i) < (a.more + 1) * PageSize}))
      /\ UNCHANGED <<posts, desk, misled>>

\* The first post from the position on, or from the start when there is none;
\* only the position asked for is marked as read.
mapif_parse_readpost ==
  LET a == Head(asks)
      rows == Listed(a.board, a.name)
      from == IF a.pos > Highest(rows) THEN 1 ELSE a.pos
      i == CHOOSE j \in rows :
             /\ At(j) >= from
             /\ \A k \in rows : At(k) >= from => At(j) <= At(k)
      read == [j \in Ids |->
                 IF j \in Rows(Mail, a.name) /\ At(j) = from
                 THEN [posts[j] EXCEPT !.new = FALSE] ELSE posts[j]]
      rest == {j \in Rows(Mail, a.name) : read[j].new}
  IN  /\ Asked("read") /\ Taken
      /\ IF rows = {} THEN UNCHANGED <<posts, replies>>
         ELSE IF a.board # Mail
         THEN Reply(To(a, "body", 1, {i})) /\ UNCHANGED posts
         ELSE /\ posts' = read
              /\ replies' = Append(replies, To(a, "body", Mail, {i}))
                   \o (IF rest = {} THEN <<To(a, "setmp", Mail, {})>> ELSE <<>>)
      /\ UNCHANGED <<desk, misled>>

\* The next number: a deleted mail keeps its own, a board's post does not.
NextPosition_Reused(b, n) == Highest(Listed(b, n)) + 1
NextPosition(b, n) ==
  Highest(IF b = Mail THEN Rows(b, n) ELSE Listed(b, n)) + 1

Written(b, to, by) ==
  posts' = Append(posts, [board |-> b, to |-> to, by |-> by, gone |-> FALSE,
                          pos |-> NextPosition(b, to), new |-> b = Mail])

mapif_parse_boardpost ==
  LET a == Head(asks)
  IN  /\ Asked("post") /\ Taken /\ Len(posts) < MaxPosts
      /\ Written(1, Nobody, a.name)
      /\ Reply(To(a, "said", 1, {}))
      /\ UNCHANGED <<desk, misled>>

\* The receiver is told wherever it plays (0x380D); the answer to the writer
\* carries what the buffer held before, as the result is written behind it.
mapif_parse_nmailwrite ==
  LET a == Head(asks)
  IN  /\ Asked("write") /\ Taken
      /\ IF a.more \in Authors
         THEN /\ Len(posts) < MaxPosts /\ Written(Mail, a.more, Nobody)
              /\ replies' = replies \o <<To(a, "said", Mail, {}),
                              [To(a, "newmp", Mail, {}) EXCEPT !.name = a.more]>>
         ELSE Reply(To(a, "said", Mail, {})) /\ UNCHANGED posts
      /\ UNCHANGED <<desk, misled>>

Deleted(S) ==
  posts' = [i \in Ids |-> IF i \in S
                          THEN [posts[i] EXCEPT !.gone = TRUE, !.new = FALSE]
                          ELSE posts[i]]

mapif_parse_deletepost ==
  LET a == Head(asks)
      rows == {i \in Rows(a.board, a.name) : At(i) = a.pos /\ ~posts[i].gone}
      own == \E i \in rows : posts[i].by = a.name
  IN  /\ Asked("delete") /\ Taken
      /\ Deleted(IF a.board = Mail \/ a.more.candel \/ own THEN rows ELSE {})
      /\ Reply(To(a, "said", a.board, {}))
      /\ UNCHANGED <<desk, misled>>

----------------------------------------------------------------------------
(* The map server takes the answers in turn.                               *)

Answered(what) == replies # <<>> /\ Head(replies).what = what
                  /\ replies' = Tail(replies)

\* Lists and bodies are for a name, not only for a descriptor.
ForThisPlayer(r) == desk[r.fd].name = r.name

intif_parse_showpostresponse ==
  LET r == Head(replies)
  IN  /\ Answered("list")
      /\ desk' = IF ForThisPlayer(r)
                 THEN [desk EXCEPT ![r.fd].board = r.board,
                         ![r.fd].lines = r.lines]
                 ELSE desk
      /\ UNCHANGED <<posts, asks, misled>>

intif_parse_readpost ==
  LET r == Head(replies)
  IN  /\ Answered("body")
      /\ desk' = IF ForThisPlayer(r)
                 THEN [desk EXCEPT ![r.fd].board = r.board,
                         ![r.fd].lines = r.lines]
                 ELSE desk
      /\ UNCHANGED <<posts, asks, misled>>

\* "Your message has been sent", "posted", "deleted": to whoever is there.
intif_parse_said == Answered("said") /\ UNCHANGED <<posts, desk, asks, misled>>

Cleared(d, f) == IF d[f].name = Nobody THEN d ELSE [d EXCEPT ![f].flag = FALSE]

intif_parse_setmp ==
  LET r == Head(replies)
  IN  /\ Answered("setmp")
      /\ desk' = Cleared(desk, r.fd)
      /\ misled' = IF desk[r.fd].name \in {Nobody, r.name} THEN misled
                   ELSE misled \cup {r.fd}
      /\ UNCHANGED <<posts, asks>>

\* 0x380D falls through to 0x380E, which takes the low half of the character's
\* number for a descriptor and the high half, 0, for its flags.
intif_parse_findmp ==
  LET r == Head(replies)
      flagged == [f \in Socks |-> IF desk[f].name = r.name
                                  THEN [desk[f] EXCEPT !.flag = TRUE]
                                  ELSE desk[f]]
      told == {f \in Socks : desk[f].name = r.name}
      hit == {f \in Socks : f = ChaId[r.name] /\ desk[f].name # Nobody}
  IN  /\ Answered("newmp")
      /\ desk' = [f \in Socks |-> IF f \in hit THEN Cleared(flagged, f)[f]
                                  ELSE flagged[f]]
      /\ misled' = (misled \ told) \cup hit
      /\ UNCHANGED <<posts, asks>>

BoardNext ==
  \/ \E f \in Socks :
       \/ \E n \in Authors : Login(f, n)
       \/ Logout(f) \/ pc_timer(f) \/ boards_post(f)
       \/ \E to \in Authors \cup {Nobody} : nmail_write(f, to)
       \/ \E b \in BoardIds :
            \/ \E page \in 0..1 : boards_showposts(f, b, page)
            \/ \E p \in 1..MaxPosts : boards_readpost(f, b, p)
       \/ \E i \in Ids, may \in BOOLEAN : boards_delete(f, i, may)
  \/ mapif_parse_showposts \/ mapif_parse_readpost \/ mapif_parse_boardpost
  \/ mapif_parse_nmailwrite \/ mapif_parse_deletepost
  \/ intif_parse_showpostresponse \/ intif_parse_readpost \/ intif_parse_said
  \/ intif_parse_setmp \/ intif_parse_findmp

BoardSpec == BoardInit /\ [][BoardNext]_boardVars

----------------------------------------------------------------------------
BoardTypeOK ==
  /\ \A i \in Ids : /\ posts[i].board \in BoardIds /\ posts[i].pos \in Nat \ {0}
                    /\ posts[i].to \in Authors \cup {Nobody}
                    /\ posts[i].by \in Authors \cup {Nobody}
                    /\ posts[i].gone \in BOOLEAN /\ posts[i].new \in BOOLEAN
  /\ \A f \in Socks : /\ desk[f].name \in Authors \cup {Nobody}
                      /\ desk[f].lines \subseteq Ids
  /\ misled \subseteq Socks

\* A position names one mail of its receiver for ever, and one post of a board
\* while it stands.
OnePerPosition ==
  \A i, j \in Ids :
    /\ posts[i].board = posts[j].board /\ posts[i].pos = posts[j].pos
    /\ posts[i].to = posts[j].to /\ i # j
    => posts[i].board # Mail /\ (posts[i].gone \/ posts[j].gone)

\* A window shows the mail of its own player, whoever sat at the descriptor
\* when it was asked for.
OwnMailIsShown ==
  \A f \in Socks : \A i \in desk[f].lines :
    posts[i].board = Mail => posts[i].to = desk[f].name

\* A player with new mail knows it, or will when the news arrives, unless an
\* answer meant for another has cleared the flag.
NewMailIsFlagged ==
  \A f \in Socks :
    desk[f].name # Nobody /\ HasNew(desk[f].name) /\ ~desk[f].flag
    => \/ f \in misled
       \/ \E k \in 1..Len(replies) : /\ replies[k].what = "newmp"
                                     /\ replies[k].name = desk[f].name

\* A deleted mail is the line its owner chose, however long ago it was shown.
DeletesTheLine ==
  \A i \in Ids : posts[i].board = Mail /\ posts'[i].gone /\ ~posts[i].gone
    => Head(asks).more.line = i

\* A mail stops being new only when its owner reads or deletes it.
OnlyReadIsMarked ==
  \A i \in Ids : posts[i].new /\ ~posts'[i].new
    => \/ posts'[i].gone
       \/ \E k \in 1..Len(replies') : replies'[k].what = "body"
                                      /\ replies'[k].lines = {i}

\* What players read, delete and are told of is their own mail, by positions
\* and answers that outlast the windows and sessions they were made for.
MailSound ==
  /\ [](OnePerPosition /\ OwnMailIsShown /\ NewMailIsFlagged)
  /\ [][DeletesTheLine /\ OnlyReadIsMarked]_boardVars
=============================================================================
