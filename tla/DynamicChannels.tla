---------------------------- MODULE DynamicChannels ----------------------------
(***************************************************************************)
(* The dynamic virtual channels of one connection (src/Players/channels/   *)
(* drdynvc/client/drdynvc_main.c), with audio input (channels/audin/       *)
(* client/audin_main.c) as the plug-in that listens.                       *)
(*                                                                         *)
(* The server creates, uses and closes channels inside one static channel. *)
(* The main thread posts its PDUs to a queue, the client thread handles    *)
(* them; a message longer than a PDU comes, and goes, in fragments (two    *)
(* here).  The plug-in answers a message in the client thread, and has a   *)
(* capture thread for each open channel that writes on its own.            *)
(*                                                                         *)
(* Two things the client provides for are mistakes of a server, and this   *)
(* one makes them: it gives a message up after its first fragment, and it  *)
(* creates a channel under a number that is in use.                        *)
(***************************************************************************)
EXTENDS Naturals, Sequences

CONSTANTS
    Channel,     \* the identifiers the server uses, again and again
    MaxMessages, \* bound: messages the server sends on a channel before it closes it
    MaxWire      \* bound: PDUs on their way to the server when a capture begins

ASSUME DynamicAssumption == MaxMessages \in Nat /\ MaxWire \in Nat

VARIABLES
    mpc,         \* the main thread: "up", "join", "free", "end"
    connected,   \* channels->connected, for FreeRDP_VirtualChannelWrite
    in,          \* drdynvc->queue
    wire,        \* the queue of the static channels, on to the server
    state,       \* "capabilities" or "ready"
    channel_error,
    chan,        \* dvcman->channels, those it keeps: "none" or "open"
    dvc_data,    \* of each channel: the message it has a fragment of, or 0
    delivered,   \* OnDataReceived: the messages of the two fragments it got
    lock,        \* channel->lock: "free", "client" or "capture"
    capture,     \* of each channel: "none", "idle", "want", "first", "next",
                 \* or "ended" by itself
    stopping,    \* channels whose capture thread has been told to stop
    cpc, cch,    \* the client thread: "idle", "want", "first", "next", "reopen",
                 \* "close", "exited"; the channel it is busy with
    answer,      \* what it sends to the server after the close
    srv,         \* the server's view: "closed", "creating", "open", "closing", or
                 \* "again": created once more while it was open
    listened,    \* channels created under a name some plug-in listens to
    sent,        \* messages sent on each channel
    half,        \* channels that still miss the second fragment of a message
    cut,         \* channels whose last message was given up after its first fragment
    caps,        \* has the server had a capabilities response?
    receiving    \* whose message the server has a fragment of: "free" for none

clientVars == <<state, channel_error, chan, dvc_data, delivered, cpc, cch, answer>>
captureVars == <<lock, capture, stopping>>
serverVars == <<srv, listened, sent, half, cut, caps, receiving>>
vars == <<mpc, connected, in, wire, clientVars, captureVars, serverVars>>

\* The number of a message whose second fragment never comes.
GivenUp == MaxMessages + 1

Who == {"free", "client", "capture"}
Request == [kind : {"caps", "create", "single", "first", "data", "close", "quit"},
            ch : Channel, n : 0 .. GivenUp]
Answer == [kind : {"caps", "created", "refused", "closed", "first", "next"},
           ch : Channel, by : Who]

TypeOK ==
    /\ mpc \in {"up", "join", "free", "end"}
    /\ connected \in BOOLEAN /\ channel_error \in BOOLEAN /\ caps \in BOOLEAN
    /\ in \in Seq(Request) /\ wire \in Seq(Answer)
    /\ state \in {"capabilities", "ready"}
    /\ chan \in [Channel -> {"none", "open"}]
    /\ dvc_data \in [Channel -> 0 .. GivenUp]
    /\ delivered \in [Channel -> Seq((0 .. GivenUp) \X (0 .. GivenUp))]
    /\ lock \in [Channel -> Who]
    /\ capture \in [Channel -> {"none", "idle", "want", "first", "next", "ended"}]
    /\ stopping \subseteq Channel
    /\ cpc \in {"idle", "want", "first", "next", "reopen", "close", "exited"}
    /\ cch \in Channel /\ answer \in {"refused", "closed"}
    /\ srv \in [Channel -> {"closed", "creating", "open", "again", "closing"}]
    /\ listened \subseteq Channel /\ half \subseteq Channel /\ cut \subseteq Channel
    /\ sent \in [Channel -> 0 .. MaxMessages]
    /\ receiving \in [Channel -> Who]

Init ==
    /\ mpc = "up" /\ connected = TRUE
    /\ in = <<>> /\ wire = <<>>
    /\ state = "capabilities" /\ channel_error = FALSE
    /\ chan = [c \in Channel |-> "none"]
    /\ dvc_data = [c \in Channel |-> 0]
    /\ delivered = [c \in Channel |-> <<>>]
    /\ lock = [c \in Channel |-> "free"]
    /\ capture = [c \in Channel |-> "none"]
    /\ stopping = {}
    /\ cpc = "idle" /\ cch \in Channel /\ answer = "closed"
    /\ srv = [c \in Channel |-> "closed"]
    /\ listened = {} /\ half = {} /\ cut = {}
    /\ sent = [c \in Channel |-> 0]
    /\ caps = FALSE
    /\ receiving = [c \in Channel |-> "free"]
-----------------------------------------------------------------------------
(* The server. *)

ServerSends(k, c, n) ==
    /\ mpc = "up"
    /\ in' = Append(in, [kind |-> k, ch |-> c, n |-> n])
    /\ UNCHANGED <<mpc, connected, wire, clientVars, captureVars, caps, receiving>>

\* "For some reason the server does not always send the capabilities pdu".
ServerCapabilities ==
    /\ ~caps /\ in = <<>> /\ wire = <<>>
    /\ \A c \in Channel : srv[c] = "closed"
    /\ \E c \in Channel : ServerSends("caps", c, 0)
    /\ UNCHANGED <<srv, listened, sent, half, cut>>

ServerCreates(c) ==
    /\ srv[c] = "closed"
    /\ srv' = [srv EXCEPT ![c] = "creating"]
    /\ listened' \in {listened \cup {c}, listened \ {c}}
    /\ sent' = [sent EXCEPT ![c] = 0]
    /\ ServerSends("create", c, 0)
    /\ UNCHANGED <<half, cut>>

\* "Protocol error: Duplicated ChannelId".
ServerCreatesAgain(c) ==
    /\ srv[c] = "open"
    /\ srv' = [srv EXCEPT ![c] = "again"]
    /\ listened' \in {listened \cup {c}, listened \ {c}}
    /\ half' = half \ {c} /\ cut' = cut \ {c}
    /\ UNCHANGED sent
    /\ ServerSends("create", c, 0)

\* A message in one PDU, or the first or the second fragment of one.  After a
\* message it gave up the next begins with a first fragment, or it would be
\* taken for the rest.
ServerData(c) ==
    /\ srv[c] = "open"
    /\ \/ /\ c \notin half /\ sent[c] < MaxMessages
          /\ sent' = [sent EXCEPT ![c] = @ + 1]
          /\ \/ /\ c \notin cut /\ ServerSends("single", c, sent[c] + 1)
                /\ UNCHANGED <<half, cut>>
             \/ /\ ServerSends("first", c, sent[c] + 1)
                /\ half' = half \cup {c} /\ cut' = cut \ {c}
       \/ /\ c \in half
          /\ half' = half \ {c}
          /\ UNCHANGED <<sent, cut>>
          /\ ServerSends("data", c, sent[c])
    /\ UNCHANGED <<srv, listened>>

ServerGivesUp(c) ==
    /\ srv[c] = "open" /\ c \notin half \cup cut
    /\ cut' = cut \cup {c}
    /\ UNCHANGED <<srv, listened, sent, half>>
    /\ ServerSends("first", c, GivenUp)

\* A close may overtake the rest of a message.
ServerCloses(c) ==
    /\ srv[c] = "open"
    /\ srv' = [srv EXCEPT ![c] = "closing"]
    /\ half' = half \ {c} /\ cut' = cut \ {c}
    /\ UNCHANGED <<listened, sent>>
    /\ ServerSends("close", c, 0)

ServerReceives ==
    /\ wire # <<>>
    /\ wire' = Tail(wire)
    /\ LET a == Head(wire) IN
        CASE a.kind = "caps" -> caps' = TRUE /\ UNCHANGED <<srv, receiving>>
          [] a.kind = "created" -> srv' = [srv EXCEPT ![a.ch] = "open"] /\ UNCHANGED <<caps, receiving>>
          [] a.kind \in {"refused", "closed"} ->
                srv' = [srv EXCEPT ![a.ch] = "closed"] /\ UNCHANGED <<caps, receiving>>
          [] a.kind = "first" -> receiving' = [receiving EXCEPT ![a.ch] = a.by] /\ UNCHANGED <<caps, srv>>
          [] a.kind = "next" -> receiving' = [receiving EXCEPT ![a.ch] = "free"] /\ UNCHANGED <<caps, srv>>
    /\ UNCHANGED <<mpc, connected, in, clientVars, captureVars, listened, sent, half, cut>>
-----------------------------------------------------------------------------
(* The client thread: drdynvc_order_recv. *)

Pdu(k, c, x) == [kind |-> k, ch |-> c, by |-> x]

\* drdynvc_send
Send(s) == wire' = IF connected THEN wire \o s ELSE wire

Handles(k, c) ==
    /\ cpc = "idle"
    /\ in # <<>> /\ Head(in).kind = k /\ Head(in).ch = c
    /\ in' = Tail(in)
    /\ UNCHANGED <<mpc, connected, serverVars>>

CapabilityRequest(c) ==
    /\ Handles("caps", c)
    /\ Send(<<Pdu("caps", c, "client")>>)
    /\ channel_error' = ~connected
    /\ state' = "ready"
    /\ UNCHANGED <<chan, dvc_data, delivered, cpc, cch, answer, captureVars>>

\* faulty variant: a create is answered though no capabilities were exchanged
Capabilities_Not == <<>>

\* A create without capabilities before it: their response goes first.
Capabilities ==
    IF state = "capabilities" THEN <<Pdu("caps", Head(in).ch, "client")>> ELSE <<>>

\* dvcman_close_channel: an open channel has a capture thread to wait for
\* (OnClose), so the answer has to wait as well.
Closes(c, a) ==
    IF chan[c] = "open"
    THEN /\ cpc' = "close" /\ cch' = c /\ answer' = a
         /\ stopping' = stopping \cup {c}
         /\ UNCHANGED <<chan, dvc_data>>
    ELSE /\ chan' = [chan EXCEPT ![c] = "none"]
         /\ UNCHANGED <<dvc_data, cpc, cch, answer, stopping>>

\* faulty variant: a duplicate is refused, and the channel of that number left alone
Refuses_Keeps(c) ==
    /\ Send(Append(Capabilities, Pdu("refused", c, "client")))
    /\ UNCHANGED <<chan, dvc_data, cpc, cch, answer, stopping>>

\* No listener, or a duplicate: the channel of that number is closed, also the
\* one that was there before.
Refuses(c) ==
    /\ Closes(c, "refused")
    /\ Send(IF chan[c] = "open" THEN Capabilities
            ELSE Append(Capabilities, Pdu("refused", c, "client")))

\* dvcman_create_channel and the answer.  A channel no plug-in listens to is in
\* the list until it is refused, within this step: no other thread looks there.
CreateRequest(c) ==
    /\ Handles("create", c)
    /\ state' = "ready"
    /\ IF chan[c] = "none" /\ c \in listened
       THEN /\ chan' = [chan EXCEPT ![c] = "open"]
            /\ dvc_data' = [dvc_data EXCEPT ![c] = 0]
            /\ delivered' = [delivered EXCEPT ![c] = <<>>]
            /\ Send(Append(Capabilities, Pdu("created", c, "client")))
            /\ UNCHANGED <<cpc, cch, answer, stopping>>
       ELSE Refuses(c) /\ UNCHANGED delivered
    /\ UNCHANGED <<channel_error, lock, capture>>

\* OnDataReceived of the plug-in, which answers: it is told the version and the
\* formats; to open its device, whose thread captures; or to change the format,
\* when it closes the device first, and waits for its thread.  The server opens
\* the device once.
Delivers(c, parts) ==
    /\ delivered' = [delivered EXCEPT ![c] = Append(@, parts)]
    /\ cch' = c
    /\ \/ cpc' = "want" /\ UNCHANGED <<capture, stopping>>
       \/ /\ capture[c] = "none" /\ capture' = [capture EXCEPT ![c] = "idle"]
          /\ cpc' = "want" /\ UNCHANGED stopping
       \/ cpc' = "reopen" /\ stopping' = stopping \cup {c} /\ UNCHANGED capture

\* faulty variant: a fragment of another message is not dropped
DataFirst_Joins(c) ==
    /\ Handles("first", c)
    /\ dvc_data' = IF chan[c] = "open" /\ dvc_data[c] = 0
                   THEN [dvc_data EXCEPT ![c] = Head(in).n] ELSE dvc_data
    /\ UNCHANGED <<wire, state, channel_error, chan, delivered, cpc, cch, answer, captureVars>>

\* DATA_FIRST: what was there of another message is dropped.
DataFirst(c) ==
    /\ Handles("first", c)
    /\ dvc_data' = IF chan[c] = "open" THEN [dvc_data EXCEPT ![c] = Head(in).n] ELSE dvc_data
    /\ UNCHANGED <<wire, state, channel_error, chan, delivered, cpc, cch, answer, captureVars>>

\* DATA: a whole message, or the rest of one.
Data(c) ==
    /\ Handles("single", c) \/ Handles("data", c)
    /\ IF chan[c] # "open"
       THEN UNCHANGED <<dvc_data, delivered, capture, stopping, cpc, cch>>
       ELSE /\ Delivers(c, IF dvc_data[c] = 0 THEN <<Head(in).n, Head(in).n>>
                           ELSE <<dvc_data[c], Head(in).n>>)
            /\ dvc_data' = [dvc_data EXCEPT ![c] = 0]
    /\ UNCHANGED <<wire, state, channel_error, chan, answer, lock>>

\* The format is set and the device opened again.
Reopened ==
    /\ cpc = "reopen" /\ capture[cch] \in {"none", "ended"}
    /\ cpc' = "want"
    /\ capture' = [capture EXCEPT ![cch] = "idle"]
    /\ stopping' = stopping \ {cch}
    /\ UNCHANGED <<mpc, connected, in, wire, state, channel_error, chan, dvc_data, delivered, cch,
                   answer, lock, serverVars>>

\* A channel that is not there is answered for at once.
CloseRequest(c) ==
    /\ Handles("close", c)
    /\ Closes(c, "closed")
    /\ IF chan[c] = "open" THEN UNCHANGED <<wire, channel_error>>
       ELSE /\ Send(<<Pdu("closed", c, "client")>>)
            /\ channel_error' = (channel_error /\ ~connected)
    /\ UNCHANGED <<state, delivered, lock, capture>>

\* faulty variant: the close does not wait for the capture thread
Closed_Early ==
    /\ cpc = "close"
    /\ cpc' = "idle"
    /\ chan' = [chan EXCEPT ![cch] = "none"]
    /\ dvc_data' = [dvc_data EXCEPT ![cch] = 0]
    /\ stopping' = stopping \ {cch}
    /\ Send(<<Pdu(answer, cch, "client")>>)
    /\ channel_error' = IF connected THEN FALSE ELSE channel_error
    /\ UNCHANGED <<mpc, connected, in, state, delivered, cch, answer, lock, capture, serverVars>>

\* The capture thread has ended: the channel is freed and the close answered.
Closed ==
    /\ cpc = "close" /\ capture[cch] \in {"none", "ended"}
    /\ capture' = [capture EXCEPT ![cch] = "none"]
    /\ cpc' = "idle"
    /\ chan' = [chan EXCEPT ![cch] = "none"]
    /\ dvc_data' = [dvc_data EXCEPT ![cch] = 0]
    /\ stopping' = stopping \ {cch}
    /\ Send(<<Pdu(answer, cch, "client")>>)
    /\ channel_error' = IF answer = "closed" /\ connected THEN FALSE ELSE channel_error
    /\ UNCHANGED <<mpc, connected, in, state, delivered, cch, answer, lock, serverVars>>

Quits ==
    /\ cpc = "idle"
    /\ in # <<>> /\ Head(in).kind = "quit"
    /\ in' = Tail(in)
    /\ cpc' = "exited"
    /\ UNCHANGED <<mpc, connected, wire, state, channel_error, chan, dvc_data, delivered, cch,
                   answer, captureVars, serverVars>>
-----------------------------------------------------------------------------
(* dvcman_write_channel, in the client thread or a capture thread: a message *)
(* of two fragments under the lock of the channel.                           *)

\* faulty variant: the lock is not taken
Locks_Not(c, x) == ~channel_error /\ UNCHANGED lock

Locks(c, x) ==
    /\ lock[c] = "free"
    /\ lock' = [lock EXCEPT ![c] = x]

\* drdynvc_write_data sends one fragment; if that fails it sends no more.  The code
\* looks at channel_error before the first only, and after that at the result of
\* each: the same, since nothing sets it but a fragment that failed for want of a
\* connection, when the others fail as well.
Fragment(k, c, x) ==
    /\ IF channel_error THEN UNCHANGED wire ELSE Send(<<Pdu(k, c, x)>>)
    /\ channel_error' = (channel_error \/ ~connected)

ClientWrites ==
    /\ \/ cpc = "want" /\ Locks(cch, "client") /\ cpc' = "first" /\ UNCHANGED <<wire, channel_error>>
       \/ cpc = "first" /\ Fragment("first", cch, "client") /\ cpc' = "next" /\ UNCHANGED lock
       \/ /\ cpc = "next" /\ Fragment("next", cch, "client") /\ cpc' = "idle"
          /\ lock' = [lock EXCEPT ![cch] = "free"]
    /\ UNCHANGED <<mpc, connected, in, state, chan, dvc_data, delivered, cch, answer, capture,
                   stopping, serverVars>>

CaptureBegins(c) ==
    /\ capture[c] = "idle"
    /\ \/ c \in stopping /\ capture' = [capture EXCEPT ![c] = "ended"]
       \/ c \notin stopping /\ Len(wire) < MaxWire /\ capture' = [capture EXCEPT ![c] = "want"]
    /\ UNCHANGED <<mpc, connected, in, wire, clientVars, lock, stopping, serverVars>>

CaptureWrites(c) ==
    /\ \/ /\ capture[c] = "want" /\ Locks(c, "capture")
          /\ capture' = [capture EXCEPT ![c] = "first"]
          /\ UNCHANGED <<wire, channel_error>>
       \/ /\ capture[c] = "first" /\ Fragment("first", c, "capture")
          /\ capture' = [capture EXCEPT ![c] = "next"]
          /\ UNCHANGED lock
       \/ /\ capture[c] = "next" /\ Fragment("next", c, "capture")
          /\ capture' = [capture EXCEPT ![c] = IF channel_error' THEN "ended" ELSE "idle"]
          /\ lock' = [lock EXCEPT ![c] = "free"]
    /\ UNCHANGED <<mpc, connected, in, state, chan, dvc_data, delivered, cpc, cch, answer,
                   stopping, serverVars>>
-----------------------------------------------------------------------------
(* The main thread. *)

\* channels->connected is cleared, the queue emptied, the plug-in told.
Disconnect ==
    /\ mpc = "up"
    /\ mpc' = "join" /\ connected' = FALSE
    /\ in' = Append(in, [kind |-> "quit", ch |-> cch, n |-> 0])
    /\ UNCHANGED <<wire, clientVars, captureVars, serverVars>>

\* dvcman_free closes what is still open, one channel after the other.
Frees ==
    /\ mpc = "join" /\ cpc = "exited"
    /\ mpc' = "free"
    /\ UNCHANGED <<connected, in, wire, clientVars, captureVars, serverVars>>

\* faulty variant: the channel is freed, with OnClose, under its lock
FreesOne_Locked ==
    /\ mpc = "free"
    /\ \E c \in Channel :
        /\ chan[c] = "open"
        /\ IF c \notin stopping
           THEN /\ lock[c] = "free" /\ lock' = [lock EXCEPT ![c] = "client"]
                /\ stopping' = stopping \cup {c}
                /\ UNCHANGED chan
           ELSE /\ capture[c] \in {"none", "ended"}
                /\ chan' = [chan EXCEPT ![c] = "none"]
                /\ UNCHANGED <<stopping, lock>>
    /\ UNCHANGED <<mpc, connected, in, wire, state, channel_error, dvc_data, delivered, cpc,
                   cch, answer, capture, serverVars>>

FreesOne ==
    /\ mpc = "free"
    /\ \E c \in Channel :
        /\ chan[c] = "open"
        /\ IF c \notin stopping
           THEN stopping' = stopping \cup {c} /\ UNCHANGED chan
           ELSE /\ capture[c] \in {"none", "ended"}
                /\ chan' = [chan EXCEPT ![c] = "none"]
                /\ UNCHANGED stopping
    /\ UNCHANGED <<mpc, connected, in, wire, state, channel_error, dvc_data, delivered, cpc,
                   cch, answer, lock, capture, serverVars>>

Freed ==
    /\ mpc = "free"
    /\ \A c \in Channel : chan[c] # "open"
    /\ mpc' = "end"
    /\ UNCHANGED <<connected, in, wire, clientVars, captureVars, serverVars>>
-----------------------------------------------------------------------------
Server ==
    \/ ServerCapabilities \/ ServerReceives
    \/ \E c \in Channel : \/ ServerCreates(c) \/ ServerCreatesAgain(c)
                          \/ ServerData(c) \/ ServerGivesUp(c) \/ ServerCloses(c)

ClientThread ==
    \/ \E c \in Channel : \/ CapabilityRequest(c) \/ CreateRequest(c) \/ DataFirst(c)
                          \/ Data(c) \/ CloseRequest(c)
    \/ Reopened \/ Closed \/ Quits \/ ClientWrites

CaptureThread(c) == CaptureBegins(c) \/ CaptureWrites(c)

MainThread == Frees \/ FreesOne \/ Freed

Next ==
    \/ Server \/ ClientThread \/ Disconnect \/ MainThread
    \/ \E c \in Channel : CaptureThread(c)

Spec == Init /\ [][Next]_vars

\* The threads run; whether the server sends, and when the user leaves, is open.
Fairness ==
    /\ WF_vars(ClientThread) /\ WF_vars(MainThread)
    /\ \A c \in Channel : WF_vars(CaptureThread(c))

FairSpec == Spec /\ Fairness
-----------------------------------------------------------------------------
\* The fragments of two messages on a channel never mix, whichever threads write
\* them: the server puts a message together from what follows its first
\* fragment (dvcman_write_channel holds channel->lock over all of them).
FragmentsTogether ==
    wire # <<>> =>
        /\ Head(wire).kind = "first" => receiving[Head(wire).ch] = "free"
        /\ Head(wire).kind = "next" => receiving[Head(wire).ch] = Head(wire).by

\* Nothing is written on a channel the server takes for closed: its capture
\* thread ends before the close is answered, or the create that was refused
\* because the channel is there.
NoDataAfterClose ==
    wire # <<>> /\ Head(wire).kind \in {"first", "next"} =>
        srv[Head(wire).ch] \in {"open", "again", "closing"}

\* What the plug-in is handed is what the server sent: whole messages, in
\* order, none twice and none missing but those the server gave up, whose first
\* fragment is in no other message (dvcman_receive_channel_data_first releases
\* what is there); also when an identifier is used again.
MessagesWhole ==
    \A c \in Channel : \A k \in DOMAIN delivered[c] : delivered[c][k] = <<k, k>>

\* The capabilities response is the first thing the server gets, also from a
\* client that was asked to create a channel first (drdynvc_process_create_request).
CapabilitiesFirst == wire # <<>> /\ ~caps => Head(wire).kind = "caps"

\* Client and server agree on a channel when neither has anything to tell the
\* other about it: also after a create for a number in use, which closes the
\* channel that has it (dvcman_close_channel finds it by the number).
Agreement ==
    \A c \in Channel :
        (/\ connected /\ cpc = "idle"
         /\ \A k \in DOMAIN in : in[k].ch # c
         /\ \A k \in DOMAIN wire : wire[k].ch # c)
            => (srv[c] = "open" <=> chan[c] = "open")

\* A disconnection ends: the client thread reads its quit message and every
\* capture thread can be joined.
DisconnectEnds == mpc = "join" ~> mpc = "end"
=============================================================================
