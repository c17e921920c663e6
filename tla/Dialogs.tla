------------------------------ MODULE Dialogs ------------------------------
(***************************************************************************)
(* The windows that scripts open for one player.  An event (a click, a     *)
(* step on a floor npc, something said near npcs) drops the coroutine the  *)
(* player has and runs a script, which may start another by _async.  A     *)
(* coroutine that asks something sends a window and yields; the answer     *)
(* resumes whatever coroutine the player has by then, as it names none.    *)
(*                                                                         *)
(* Packets between client and server keep their order.  The client shows   *)
(* the last window it got, answers each at most once, and may cause events *)
(* while a window is open.  What a window looks like and which answer is   *)
(* given are left out, but for answers that quit and those the server      *)
(* drops.  coref_container is 0: no script of the repository sets it.      *)
(***************************************************************************)
EXTENDS Integers, Sequences

CONSTANTS
  Kinds,      \* kinds of windows
  MaxCo,      \* coroutines that something still refers to
  MaxUp,      \* bound: packets on their way to the server
  MaxDown,    \* bound: windows on their way to the client
  MaxRunning, \* bound: scripts that run inside each other
  CoLimit     \* seconds with a coroutine until the timer drops it (300)

AllKinds == {"dialog", "menuseq", "menu", "buy", "sell", "input"}

ASSUME DialogAssumption ==
  /\ Kinds \subseteq AllKinds
  /\ MaxCo \in Nat \ {0} /\ MaxUp \in Nat \ {0} /\ MaxDown \in Nat \ {0}
  /\ MaxRunning \in Nat \ {0} /\ CoLimit \in Nat \ {0}

CoIds == 1..MaxCo
NoWindow == [co |-> 0, kind |-> "none"]
Questions == [co : CoIds, kind : Kinds]
Replies == {"go", "quit", "lost"}

VARIABLES
  coref,     \* the player's coroutine, or 0
  asks,      \* what it waits for
  co_timer,
  running,    \* scripts that run, inner last: a coroutine, or 0 for an event
  crowd,     \* npcs that have still to hear what was said
  up,        \* packets to the server
  down,      \* windows to the client
  window,    \* what the client shows
  odd,       \* history: what came between windows and answers, the worst
  misfit     \* history: an answer resumed who did not ask

dialogVars == <<coref, asks, co_timer, running, crowd, up, down, window, odd,
                misfit>>

DialogInit ==
  /\ coref = 0 /\ asks = "none" /\ co_timer = 0
  /\ running = <<>> /\ crowd = 0
  /\ up = <<>> /\ down = <<>> /\ window = NoWindow
  /\ odd = "none" /\ misfit = FALSE

----------------------------------------------------------------------------
Idle == running = <<>> /\ crowd = 0
Innermost == running[Len(running)]
Outer == SubSeq(running, 1, Len(running) - 1)
InCo == running # <<>> /\ Innermost # 0

\* Coroutines that something refers to; the others are collected.
Elements(s) == {s[i] : i \in DOMAIN s}
Named == {q.co : q \in Elements(down) \cup {window}
                       \cup {u.answer : u \in Elements(up)}}
Fresh == CoIds \ ({coref} \cup Elements(running) \cup Named)

\* The player's coroutine is dropped, whichever it is.
sl_async_freeco == coref' = 0 /\ asks' = "none"

\* Something left a window or a coroutine without the other, or crossed.
Leaves == odd' = IF odd = "none" THEN "left" ELSE odd
Crosses == odd' = "crossed"
\* Bound: the client and scripts cross things once until an event starts over.
MayCross == odd # "crossed"

----------------------------------------------------------------------------
(* A script that runs.                                                     *)

\* _async: the body of a script in a coroutine of its own, unless the player
\* has one ("You are busy.").
sl_async ==
  /\ running # <<>> /\ Len(running) < MaxRunning
  /\ coref = 0 /\ Fresh # {}
  /\ LET c == CHOOSE f \in Fresh : \A g \in Fresh : f <= g
     IN  coref' = c /\ running' = Append(running, c)
  /\ UNCHANGED <<asks, co_timer, crowd, up, down, window, odd, misfit>>

\* A window is sent; the coroutine yields, be it the player's or not.
Sends(kind) == down' = Append(down, [co |-> Innermost, kind |-> kind])
clif_scriptmes == Sends("dialog")
clif_scriptmenu == Sends("menu")
clif_scriptmenuseq == Sends("menuseq")
clif_buydialog == Sends("buy")
clif_selldialog == Sends("sell")
clif_input == Sends("input")

Yields(kind) ==
  /\ InCo /\ kind \in Kinds /\ Len(down) < MaxDown
  /\ asks' = IF Innermost = coref THEN kind ELSE asks
  /\ running' = Outer
  /\ UNCHANGED <<coref, co_timer, crowd, up, window, odd, misfit>>

pcl_dialog == Yields("dialog") /\ clif_scriptmes
pcl_menuseq == Yields("menuseq") /\ clif_scriptmenuseq
pcl_menu == Yields("menu") /\ clif_scriptmenu
pcl_buy == Yields("buy") /\ clif_buydialog
pcl_sell == Yields("sell") /\ clif_selldialog
pcl_input == Yields("input") /\ clif_input

\* The body has ended, and with it the coroutine the player has now.
sl_async_done ==
  /\ InCo
  /\ sl_async_freeco
  /\ running' = Outer
  /\ UNCHANGED <<co_timer, crowd, up, down, window, odd, misfit>>

\* An error ends the coroutine, and every script up to the event that called.
sl_async_resume_error ==
  /\ InCo
  /\ sl_async_freeco
  /\ running' = LET events == {i \in DOMAIN running : running[i] = 0}
               IN  IF events = {} THEN <<>>
                   ELSE SubSeq(running, 1, (CHOOSE i \in events :
                                     \A j \in events : j <= i) - 1)
  /\ UNCHANGED <<co_timer, crowd, up, down, window, odd, misfit>>

\* The script of an event has run.
sl_doscript_stackargs ==
  /\ running # <<>> /\ Innermost = 0
  /\ running' = Outer
  /\ UNCHANGED <<coref, asks, co_timer, crowd, up, down, window, odd, misfit>>

\* A script drops its player's coroutine, its own perhaps.
pcl_freeasync ==
  /\ running # <<>> /\ coref # 0 /\ MayCross
  /\ sl_async_freeco
  /\ Crosses
  /\ UNCHANGED <<co_timer, running, crowd, up, down, window, misfit>>

\* An event inside a script: it warps the player onto a floor npc, or makes
\* it speak.
Nested ==
  /\ running # <<>> /\ Len(running) < MaxRunning /\ MayCross
  /\ sl_async_freeco
  /\ running' = Append(running, 0)
  /\ Crosses
  /\ UNCHANGED <<co_timer, crowd, up, down, window, misfit>>

----------------------------------------------------------------------------
(* Handlers of the server.                                                 *)

From(event) == Idle /\ up # <<>> /\ Head(up).event = event

\* An event that nothing came before starts over.
StartsOver == IF window = NoWindow /\ down = <<>> /\ Len(up) = 1
              THEN odd' = "none" /\ misfit' = FALSE
              ELSE UNCHANGED <<odd, misfit>>

Event(others) ==
  /\ From("act")
  /\ up' = Tail(up)
  /\ sl_async_freeco
  /\ running' = <<0>>
  /\ crowd' = others
  /\ StartsOver
  /\ UNCHANGED <<co_timer, down, window>>

clif_handle_clickgetinfo == Event(0)
pc_runfloor_sub == Event(0)

\* Everybody in the area hears it in turn.
clif_sendscriptsay == \E others \in 0..1 : Event(others)
clif_sendnpcsay ==
  /\ running = <<>> /\ crowd > 0
  /\ crowd' = crowd - 1
  /\ sl_async_freeco
  /\ running' = <<0>>
  /\ Crosses
  /\ UNCHANGED <<co_timer, up, down, window, misfit>>

\* The coroutine the player has goes on with the answer.
sl_async_resume(question) ==
  /\ running' = <<coref>>
  /\ misfit' = (misfit \/ question # [co |-> coref, kind |-> asks])
  /\ asks' = "none"
  /\ UNCHANGED <<coref, odd>>

\* Quitting drops the coroutine; some answers get lost.
Answered(kinds) ==
  /\ From("answer") /\ Head(up).answer.kind \in kinds
  /\ up' = Tail(up)
  /\ UNCHANGED <<co_timer, crowd, down, window>>
Ignored == UNCHANGED <<coref, running, asks, odd, misfit>>
Resumes(lossy) ==
  LET choice == Head(up).choice
  IN  IF coref = 0 THEN Ignored
      ELSE CASE choice = "quit" -> sl_async_freeco
                                   /\ UNCHANGED <<running, odd, misfit>>
             [] choice = "lost" /\ lossy -> Leaves
                             /\ UNCHANGED <<coref, running, asks, misfit>>
             [] OTHER -> sl_async_resume(Head(up).answer)

\* "previous" and "next" both resume.
clif_parsenpcdialog_dialog == Answered({"dialog"}) /\ Resumes(FALSE)
\* Only 1 and 2 are known, the previous button is not.
clif_parsenpcdialog_menuseq == Answered({"menuseq"}) /\ Resumes(TRUE)
clif_parsemenu == Answered({"menu"}) /\ Resumes(FALSE)
\* A name that no item has resumes nobody.
clif_parsebuy == Answered({"buy"}) /\ Resumes(TRUE)
clif_parsesell == Answered({"sell"}) /\ Resumes(FALSE)
clif_parseinput == Answered({"input"}) /\ Resumes(FALSE)

\* Every second with a coroutine counts, whichever it is.
pc_timer ==
  /\ Idle /\ coref # 0
  /\ IF co_timer + 1 >= CoLimit
     THEN sl_async_freeco /\ co_timer' = 0 /\ Leaves
     ELSE co_timer' = co_timer + 1 /\ UNCHANGED <<coref, asks, odd>>
  /\ UNCHANGED <<running, crowd, up, down, window, misfit>>

\* The player leaves, and comes back with a new session.
clif_handle_disconnect ==
  /\ Idle
  /\ sl_async_freeco
  /\ co_timer' = 0
  /\ up' = <<>> /\ down' = <<>> /\ window' = NoWindow
  /\ odd' = "none" /\ misfit' = FALSE
  /\ UNCHANGED <<running, crowd>>

----------------------------------------------------------------------------
(* The client.                                                             *)

Packet(event, answer, choice) ==
  /\ Len(up) < MaxUp
  /\ up' = Append(up, [event |-> event, answer |-> answer, choice |-> choice])

Shows ==
  /\ down # <<>>
  /\ window' = Head(down) /\ down' = Tail(down)
  /\ UNCHANGED <<coref, asks, co_timer, running, crowd, up, odd, misfit>>

Answers ==
  /\ window # NoWindow
  /\ \E choice \in {"go", "quit"}
           \cup IF window.kind \in {"menuseq", "buy"} THEN {"lost"} ELSE {} :
         Packet("answer", window, choice)
  /\ window' = NoWindow
  /\ UNCHANGED <<coref, asks, co_timer, running, crowd, down, odd, misfit>>

\* It clicks, walks or says something.
Acts ==
  /\ Packet("act", NoWindow, "go")
  /\ IF window = NoWindow /\ down = <<>> /\ up = <<>> /\ Idle
     THEN UNCHANGED odd ELSE MayCross /\ Crosses
  /\ UNCHANGED <<coref, asks, co_timer, running, crowd, down, window, misfit>>

----------------------------------------------------------------------------
DialogNext ==
  \/ sl_async \/ sl_async_done \/ sl_async_resume_error
  \/ sl_doscript_stackargs \/ pcl_freeasync \/ Nested
  \/ pcl_dialog \/ pcl_menuseq \/ pcl_menu \/ pcl_buy \/ pcl_sell \/ pcl_input
  \/ clif_handle_clickgetinfo \/ pc_runfloor_sub
  \/ clif_sendscriptsay \/ clif_sendnpcsay
  \/ clif_parsenpcdialog_dialog \/ clif_parsenpcdialog_menuseq
  \/ clif_parsemenu \/ clif_parsebuy \/ clif_parsesell \/ clif_parseinput
  \/ pc_timer \/ clif_handle_disconnect
  \/ Shows \/ Answers \/ Acts

DialogSpec == DialogInit /\ [][DialogNext]_dialogVars

----------------------------------------------------------------------------
DialogTypeOK ==
  /\ coref \in 0..MaxCo /\ co_timer \in 0..CoLimit
  /\ asks \in Kinds \cup {"none"}
  /\ running \in Seq(0..MaxCo) /\ crowd \in 0..1
  /\ up \in Seq([event : {"act", "answer"},
                 answer : Questions \cup {NoWindow}, choice : Replies])
  /\ down \in Seq(Questions) /\ window \in Questions \cup {NoWindow}
  /\ odd \in {"none", "left", "crossed"} /\ misfit \in BOOLEAN

\* An answer reaches the coroutine that asked, although neither names the
\* other; unless the client acts while a window is open or on its way, a
\* script causes an event or drops coroutines itself, or many npcs hear what
\* is said.
AnswerToAsker == misfit => odd = "crossed"

\* When nothing is under way, the client shows a window just when the player
\* has a coroutine, and that one asked it: no window is left that nobody waits
\* for, and nobody waits for a window that is gone.  What is lost or times out
\* leaves one of them until the next event.
WindowIsAsked ==
  Idle /\ up = <<>> /\ down = <<>> /\ odd = "none" =>
    window = IF coref = 0 THEN NoWindow
             ELSE [co |-> coref, kind |-> asks]

\* Between windows, coroutines and answers nothing is mixed up or left over.
DialogSound == AnswerToAsker /\ WindowIsAsked
=============================================================================
