---------------------------- MODULE BrowserBridge ----------------------------
(***************************************************************************)
(* The bridge between one parent process and the browsers that show it     *)
(* (src/src/bridge/server/pty_websocket_hub.cc and what it calls): the     *)
(* thread that reads what the parent writes and sends it to every client,  *)
(* the thread that serves each client, and the two mutexes they share.     *)
(*                                                                         *)
(* The parent writes three channels: its terminal (the PTY), its status (a *)
(* pipe of lines) and the output of its panes (a socket of frames).  The   *)
(* messages of a channel are numbered from 1.  All writes block while the  *)
(* pipe, the PTY or the socket is full; the parent is a single thread.     *)
(***************************************************************************)
EXTENDS Naturals, SequencesExt, FiniteSetsExt

CONSTANTS
  Clients,         \* the WebSocket connections, one for each page a browser loads
  MaxProduced,     \* how many messages the parent writes, over all channels
  Backlog,         \* how many messages of a channel the hub keeps for a new client
  Capacity,        \* how many pieces each pipe between parent and bridge holds
  SocketCapacity,  \* how many messages fit between the bridge and a browser
  Payloads,        \* what the browsers send
  MaxSent          \* how many payloads they send

Channels == {"terminal", "status", "view"}
Inputs == {"pty", "view"}

ASSUME BridgeAssumption ==
  /\ Backlog \in [Channels -> Nat \ {0}]
  /\ Backlog["status"] = 1
  /\ Capacity \in [Channels \cup Inputs -> Nat \ {0}]
  /\ {MaxProduced, SocketCapacity, MaxSent} \subseteq Nat \ {0}
  /\ Payloads \subseteq {"keys", "viewport", "size", "invalid"}

VARIABLES
  produced,   \* the messages of each channel the parent has begun
  writing,    \* the pieces the parent is in the middle of writing
  channel,    \* the pieces written and not read
  partial,    \* parent_status_buffer and pane_view_buffer
  ready,      \* the channels the reader's poll found readable and it has not served
  queue,      \* the messages of its last read that the reader has not sent to everyone
  todo,       \* the clients the first of them has still to be sent to
  clients,    \* the registered clients, in the order of their registration
  kept,       \* terminal_backlog, latest_parent_status and pane_output_backlog
  thread,     \* what the thread of each client is doing
  greeting,   \* what a client that is being added has still to be sent
  outgoing,   \* the pieces of a payload its thread has still to write
  open,       \* whether the browser holds the connection open
  socket,     \* the messages sent and not received by the browser
  shown,      \* the newest message of each channel the browser has received, or 0
  uplink,     \* the payloads sent by the browser and not read by its thread
  sent,       \* how many payloads the browsers have sent
  inbox,      \* the pieces of input written to the parent and not read
  taken       \* the first piece of a payload whose second the parent waits for

parentVars == <<produced, writing>>
readerVars == <<ready, queue, todo>>
hubVars == <<clients, kept>>
threadVars == <<thread, greeting, outgoing>>
browserVars == <<open, shown, uplink, sent>>
inputVars == <<inbox, taken>>
vars == <<parentVars, channel, partial, readerVars, hubVars, threadVars, socket,
          browserVars, inputVars>>

\* Terminal output is bytes: each piece is complete.  A status is a line and a
\* pane output a frame: a read can end in the middle of either.
Pieces(k, n) ==
  LET piece(last) == [channel |-> k, number |-> n, last |-> last]
  IN  IF k = "terminal" THEN <<piece(TRUE)>> ELSE <<piece(FALSE), piece(TRUE)>>

\* The messages whose last piece is among pieces, in order.
Complete(pieces) ==
  LET complete[i \in 0 .. Len(pieces)] ==
        IF i = 0 THEN <<>>
        ELSE IF pieces[i].last THEN Append(complete[i - 1], pieces[i].number)
        ELSE complete[i - 1]
  IN  complete[Len(pieces)]

\* What follows the last complete message.
Rest(pieces) ==
  LET ends == {i \in DOMAIN pieces : pieces[i].last}
  IN  SubSeq(pieces, (IF ends = {} THEN 0 ELSE Max(ends)) + 1, Len(pieces))

\* A WebSocket message: terminal output can carry several pieces at once.
Message(k, numbers) == [channel |-> k, numbers |-> numbers]
OneByOne(k, numbers) == [i \in DOMAIN numbers |-> Message(k, <<numbers[i]>>)]

Init ==
  /\ produced = [k \in Channels |-> 0]
  /\ writing = <<>>
  /\ channel = [k \in Channels |-> <<>>]
  /\ partial = [k \in Channels |-> <<>>]
  /\ ready = {} /\ queue = <<>> /\ todo = <<>>
  /\ clients = <<>>
  /\ kept = [k \in Channels |-> <<>>]
  /\ thread = [c \in Clients |-> "absent"]
  /\ greeting = <<>>
  /\ outgoing = [c \in Clients |-> <<>>]
  /\ open = [c \in Clients |-> FALSE]
  /\ socket = [c \in Clients |-> <<>>]
  /\ shown = [c \in Clients |-> [k \in Channels |-> 0]]
  /\ uplink = [c \in Clients |-> <<>>]
  /\ sent = 0
  /\ inbox = [d \in Inputs |-> <<>>]
  /\ taken = [d \in Inputs |-> <<>>]

-----------------------------------------------------------------------------
\* The parent, as far as the bridge can tell.

ParentBegins(k) ==
  /\ writing = <<>>
  /\ produced["terminal"] + produced["status"] + produced["view"] < MaxProduced
  /\ produced' = [produced EXCEPT ![k] = @ + 1]
  /\ writing' = Pieces(k, produced'[k])
  /\ UNCHANGED <<channel, partial, readerVars, hubVars, threadVars, socket,
                 browserVars, inputVars>>

ParentWrites ==
  /\ writing # <<>>
  /\ LET piece == Head(writing)
     IN  /\ Len(channel[piece.channel]) < Capacity[piece.channel]
         /\ channel' = [channel EXCEPT ![piece.channel] = Append(@, piece)]
  /\ writing' = Tail(writing)
  /\ UNCHANGED <<produced, partial, readerVars, hubVars, threadVars, socket,
                 browserVars, inputVars>>

\* What opens a payload is kept until what ends it arrives: a command prefix, or a
\* frame without its end.
Held(piece) == IF piece.half = 1 THEN <<piece>> ELSE <<>>

ParentReads(d) ==
  /\ writing = <<>>
  /\ inbox[d] # <<>>
  /\ taken' = [taken EXCEPT ![d] = Held(Head(inbox[d]))]
  /\ inbox' = [inbox EXCEPT ![d] = Tail(@)]
  /\ UNCHANGED <<parentVars, channel, partial, readerVars, hubVars, threadVars,
                 socket, browserVars>>

-----------------------------------------------------------------------------
\* The two mutexes.  state_mutex is held from the start to the end of a
\* broadcast and of an add_client; parent_input_mutex while a payload is handled.

\* Mutant: the payload handler runs under state_mutex.
StateFree_SharedWithInput ==
  todo = <<>> /\ \A c \in Clients : thread[c] \notin {"greeting", "writing"}

StateFree == todo = <<>> /\ \A c \in Clients : thread[c] # "greeting"

\* Mutant: payloads are handled without parent_input_mutex.
InputFree_Unlocked == TRUE

InputFree == \A c \in Clients : thread[c] # "writing"

\* send_binary blocks while the browser does not read.  To a connection the
\* browser closed it fails, or the system still takes the message and drops it.
CanSend(c) == ~open[c] \/ Len(socket[c]) < SocketCapacity

Send(c, message) ==
  socket' = IF open[c] THEN [socket EXCEPT ![c] = Append(@, message)] ELSE socket

-----------------------------------------------------------------------------
\* The thread that reads the parent.

ReaderPolls ==
  /\ ready = {} /\ queue = <<>>
  /\ \E k \in Channels : channel[k] # <<>>
  /\ ready' = {k \in Channels : channel[k] # <<>>}
  /\ UNCHANGED <<parentVars, channel, partial, queue, todo, hubVars, threadVars,
                 socket, browserVars, inputVars>>

\* It serves the channels of one poll in a fixed order, whatever arrives meanwhile.
InTurn(k) ==
  /\ k \in ready
  /\ k = "status" => "terminal" \notin ready
  /\ k = "view" => ready = {"view"}

\* One read takes what fits its buffer, which may end inside a message.
ReaderReads(k) ==
  /\ queue = <<>> /\ InTurn(k)
  /\ \E n \in 1 .. Len(channel[k]) :
       LET pieces == partial[k] \o SubSeq(channel[k], 1, n)
       IN  /\ partial' = [partial EXCEPT ![k] = Rest(pieces)]
           /\ queue' = IF k = "terminal"
                         THEN <<Message(k, Complete(pieces))>>
                         ELSE OneByOne(k, Complete(pieces))
           /\ channel' = [channel EXCEPT ![k] = SubSeq(@, n + 1, Len(@))]
  /\ ready' = ready \ {k}
  /\ UNCHANGED <<parentVars, todo, hubVars, threadVars, socket, browserVars, inputVars>>

Latest(numbers, limit) ==
  SubSeq(numbers, IF Len(numbers) > limit THEN Len(numbers) - limit + 1 ELSE 1, Len(numbers))

\* A broadcast locks state_mutex, keeps the message for later clients and sends
\* it to the clients there are.
ReaderBroadcasts ==
  /\ queue # <<>> /\ StateFree
  /\ LET message == Head(queue)
     IN  kept' = [kept EXCEPT ![message.channel] =
                    Latest(@ \o message.numbers, Backlog[message.channel])]
  /\ todo' = clients
  /\ queue' = IF clients = <<>> THEN Tail(queue) ELSE queue
  /\ UNCHANGED <<parentVars, channel, partial, ready, clients, threadVars, socket,
                 browserVars, inputVars>>

\* A client whose send fails is unregistered; it is registered once.
ReaderSends ==
  /\ todo # <<>> /\ CanSend(Head(todo))
  /\ LET c == Head(todo)
     IN  /\ Send(c, Head(queue))
         /\ clients' \in IF open[c] THEN {clients} ELSE {clients, RemoveFirst(clients, c)}
  /\ todo' = Tail(todo)
  /\ queue' = IF todo' = <<>> THEN Tail(queue) ELSE queue
  /\ UNCHANGED <<parentVars, channel, partial, ready, kept, threadVars, browserVars, inputVars>>

-----------------------------------------------------------------------------
\* The thread of a client.

\* Mutant: a new client waits for the next status.
Greeting_WithoutStatus ==
  (IF kept["terminal"] = <<>> THEN <<>> ELSE <<Message("terminal", kept["terminal"])>>)
    \o OneByOne("view", kept["view"])

Greeting ==
  (IF kept["terminal"] = <<>> THEN <<>> ELSE <<Message("terminal", kept["terminal"])>>)
    \o OneByOne("status", kept["status"])
    \o OneByOne("view", kept["view"])

\* add_client: register, then send what is kept in this order, all under state_mutex.
Added(c) ==
  /\ thread[c] = "joining" /\ StateFree
  /\ clients' = Append(clients, c)
  /\ greeting' = Greeting
  /\ thread' = [thread EXCEPT ![c] = IF greeting' = <<>> THEN "serving" ELSE "greeting"]
  /\ UNCHANGED <<parentVars, channel, partial, readerVars, kept, outgoing, socket,
                 browserVars, inputVars>>

Greeted(c) ==
  /\ thread[c] = "greeting" /\ CanSend(c)
  /\ Send(c, Head(greeting))
  /\ greeting' = Tail(greeting)
  /\ thread' = [thread EXCEPT ![c] = IF greeting' = <<>> THEN "serving" ELSE "greeting"]
  /\ UNCHANGED <<parentVars, channel, partial, readerVars, hubVars, outgoing,
                 browserVars, inputVars>>

\* Keys and commands go to the PTY, a pane viewport to the view socket, a
\* terminal size to an ioctl.
Written(c, payload) ==
  LET piece(d, half) == [to |-> d, from |-> c, half |-> half]
  IN  CASE payload = "keys" -> <<piece("pty", 1), piece("pty", 2)>>
        [] payload = "viewport" -> <<piece("view", 1), piece("view", 2)>>
        [] OTHER -> <<>>

\* A size without rows, a tray 10, an unknown pane action
Throws(payload) == payload = "invalid"

\* read_websocket_frame waits for a whole frame.
NextFrame(c) == Head(uplink[c])

\* A payload that does not parse throws out of serve_client: the thread ends and
\* the client stays registered.
Handles(c) ==
  /\ thread[c] = "serving" /\ uplink[c] # <<>> /\ InputFree
  /\ outgoing' = [outgoing EXCEPT ![c] = Written(c, NextFrame(c))]
  /\ thread' = [thread EXCEPT ![c] = IF Throws(NextFrame(c)) THEN "dead"
                                     ELSE IF outgoing'[c] = <<>> THEN "serving"
                                     ELSE "writing"]
  /\ uplink' = [uplink EXCEPT ![c] = Tail(@)]
  /\ UNCHANGED <<parentVars, channel, partial, readerVars, hubVars, greeting, socket,
                 open, shown, sent, inputVars>>

\* write and write_view go on until every byte is taken; a full PTY blocks them.
Writes(c) ==
  /\ thread[c] = "writing"
  /\ LET piece == Head(outgoing[c])
     IN  /\ Len(inbox[piece.to]) < Capacity[piece.to]
         /\ inbox' = [inbox EXCEPT ![piece.to] = Append(@, piece)]
  /\ outgoing' = [outgoing EXCEPT ![c] = Tail(@)]
  /\ thread' = [thread EXCEPT ![c] = IF outgoing'[c] = <<>> THEN "serving" ELSE "writing"]
  /\ UNCHANGED <<parentVars, channel, partial, readerVars, hubVars, greeting, socket,
                 browserVars, taken>>

\* A connection that was reset ends before the payloads sent ahead of its end.
Ended(c) == ~open[c]

Leaves(c) ==
  /\ thread[c] = "serving" /\ Ended(c) /\ StateFree
  /\ clients' = RemoveFirst(clients, c)
  /\ thread' = [thread EXCEPT ![c] = "gone"]
  /\ uplink' = [uplink EXCEPT ![c] = <<>>]
  /\ UNCHANGED <<parentVars, channel, partial, readerVars, kept, greeting, outgoing,
                 socket, open, shown, sent, inputVars>>

-----------------------------------------------------------------------------
\* The browser's side of a connection.

Connects(c) ==
  /\ thread[c] = "absent"
  /\ open' = [open EXCEPT ![c] = TRUE]
  /\ thread' = [thread EXCEPT ![c] = "joining"]
  /\ UNCHANGED <<parentVars, channel, partial, readerVars, hubVars, greeting, outgoing,
                 socket, shown, uplink, sent, inputVars>>

Receives(c) ==
  /\ open[c] /\ socket[c] # <<>>
  /\ LET message == Head(socket[c])
     IN  shown' = [shown EXCEPT ![c][message.channel] = Last(message.numbers)]
  /\ socket' = [socket EXCEPT ![c] = Tail(@)]
  /\ UNCHANGED <<parentVars, channel, partial, readerVars, hubVars, threadVars,
                 open, uplink, sent, inputVars>>

Sends(c, payload) ==
  /\ open[c] /\ sent < MaxSent
  /\ uplink' = [uplink EXCEPT ![c] = Append(@, payload)]
  /\ sent' = sent + 1
  /\ UNCHANGED <<parentVars, channel, partial, readerVars, hubVars, threadVars, socket,
                 open, shown, inputVars>>

Closes(c) ==
  /\ open[c]
  /\ open' = [open EXCEPT ![c] = FALSE]
  /\ socket' = [socket EXCEPT ![c] = <<>>]
  /\ shown' = [shown EXCEPT ![c] = [k \in Channels |-> 0]]
  /\ UNCHANGED <<parentVars, channel, partial, readerVars, hubVars, threadVars, uplink,
                 sent, inputVars>>

ParentStep == ParentWrites \/ \E d \in Inputs : ParentReads(d)

ReaderStep ==
  \/ ReaderPolls
  \/ \E k \in Channels : ReaderReads(k)
  \/ ReaderBroadcasts
  \/ ReaderSends

ThreadStep(c) == Added(c) \/ Greeted(c) \/ Handles(c) \/ Writes(c) \/ Leaves(c)

Next ==
  \/ \E k \in Channels : ParentBegins(k)
  \/ ParentStep
  \/ ReaderStep
  \/ \E c \in Clients :
       \/ ThreadStep(c)
       \/ Connects(c) \/ Receives(c) \/ Closes(c)
       \/ \E payload \in Payloads : Sends(c, payload)

\* Every thread runs, the parent finishes what it writes and reads what it is
\* sent, and an open browser receives.  What the parent begins to write, and when
\* browsers connect, send and close, is free.
Fairness ==
  /\ WF_vars(ParentStep)
  /\ WF_vars(ReaderStep)
  /\ \A c \in Clients : WF_vars(ThreadStep(c)) /\ WF_vars(Receives(c))

Spec == Init /\ [][Next]_vars /\ Fairness

-----------------------------------------------------------------------------
Of(k, messages) ==
  FlattenSeq([i \in DOMAIN messages |->
    IF messages[i].channel = k THEN messages[i].numbers ELSE <<>>])

\* What the reader holds that client c has not been sent.
Pending(c) ==
  IF todo # <<>> /\ ~Contains(todo, c) THEN Tail(queue) ELSE queue

\* What the parent has begun to write to a channel and not yet written.
Unwritten(k) == IF writing # <<>> /\ Head(writing).channel = k THEN writing ELSE <<>>

\* Everything on its way from the parent to the browser of c on one channel,
\* oldest first, from what the browser shows to what is being written.
OnTheWay(c, k) ==
  (IF shown[c][k] = 0 THEN <<>> ELSE <<shown[c][k]>>)
    \o Of(k, socket[c])
    \o (IF thread[c] = "greeting" THEN Of(k, greeting) ELSE <<>>)
    \o Of(k, Pending(c))
    \o Complete(partial[k] \o channel[k] \o Unwritten(k))

(***************************************************************************)
(* What a registered browser shows of a channel and all that is under way  *)
(* to it is one unbroken run of the parent's messages up to the newest:    *)
(* clients that join in the middle of a broadcast, reads that end inside a *)
(* message, a trimmed backlog and clients that leave lose, repeat and      *)
(* reorder nothing, and a client that joins late starts from the newest    *)
(* status.  A client stays registered from add_client on, also when its    *)
(* thread has ended on an invalid payload, until its browser is gone       *)
(* (add_client, broadcast_* and read_* of pty_websocket_hub.cc).           *)
(***************************************************************************)
NothingIsLostOnTheWay ==
  \A c \in Clients :
    open[c] /\ thread[c] # "joining" =>
      /\ Contains(clients, c)
      /\ \A k \in Channels :
           LET run == OnTheWay(c, k)
           IN  /\ run = [i \in 1 .. Len(run) |-> produced[k] - Len(run) + i]
               /\ run = <<>> => produced[k] = 0

TypesAreRight ==
  /\ produced \in [Channels -> Nat]
  /\ ready \subseteq Channels
  /\ \A k \in Channels : Len(channel[k]) <= Capacity[k]
  /\ thread \in [Clients -> {"absent", "joining", "greeting", "serving", "writing",
                             "gone", "dead"}]
  /\ open \in [Clients -> BOOLEAN]
  /\ \A c \in Clients : uplink[c] \in Seq(Payloads)

\* Payloads reach the parent one after the other, each of them whole.
InputIsWhole(d) ==
  LET stream == taken[d] \o inbox[d]
  IN  \A i \in DOMAIN stream :
        /\ stream[i].half = IF i % 2 = 1 THEN 1 ELSE 2
        /\ i % 2 = 0 => stream[i].from = stream[i - 1].from

(***************************************************************************)
(* Two clients that send at once do not mix their bytes: a command prefix  *)
(* is followed by its command byte, a frame by the rest of it, although    *)
(* each write can block half-way (serve_client, pty_websocket_hub.cc:69),  *)
(* and no pipe holds more than it can.                                     *)
(***************************************************************************)
BridgeIsSound ==
  /\ TypesAreRight
  /\ \A d \in Inputs : InputIsWhole(d)

\* A payload of c that the bridge has begun to write and the parent not yet read.
UnderWay(c) ==
  \/ thread[c] = "writing"
  \/ \E d \in Inputs : \E i \in DOMAIN (taken[d] \o inbox[d]) :
       (taken[d] \o inbox[d])[i].from = c

(***************************************************************************)
(* What a browser sends reaches the parent, unless the browser leaves or   *)
(* an invalid payload has ended its thread: the parent that waits for the  *)
(* bridge to read and the bridge that waits for the parent to read never   *)
(* wait for each other, because the reader takes no lock that a thread     *)
(* holds while it writes input (pty_websocket_hub.cc:68 and 108).          *)
(***************************************************************************)
InputReachesTheParent ==
  \A c \in Clients :
    (UnderWay(c) \/ uplink[c] # <<>>)
      ~> (~UnderWay(c) /\ (uplink[c] = <<>> \/ thread[c] = "dead" \/ ~open[c]))

=============================================================================
