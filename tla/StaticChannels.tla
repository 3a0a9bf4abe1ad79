---------------------------- MODULE StaticChannels ----------------------------
(***************************************************************************)
(* The static virtual channels of a client (src/Players/libfreerdp/core/   *)
(* client.c) from the connection of the plug-ins to the freeing of the     *)
(* channel manager, over any number of reconnections.                      *)
(*                                                                         *)
(* A plug-in (sound, clipboard, drives, dynamic channels) opens its        *)
(* channel when it is told of the connection and starts a thread; that     *)
(* thread writes to the channel, which only posts the data to a queue.     *)
(* The main thread takes the writes from the queue, sends them, and tells  *)
(* the plug-in with WRITE_COMPLETE to free the buffer.  With AsyncChannels *)
(* a thread of its own takes them (jni_channels_thread), beside the main   *)
(* thread.  The queue itself is the subject of MessageQueue; it is a       *)
(* sequence here.                                                          *)
(***************************************************************************)
EXTENDS Naturals, Sequences

CONSTANTS
    Plugin,
    Write,        \* buffers: bounds the writes under way
    Main, Chan,   \* the threads that may process the queue
    Quit,         \* the message WMQ_QUIT
    None,
    Clients       \* the clients of this instance: with AsyncChannels there is a
                  \* thread Chan; freerdp_channels_disconnect is called to
                  \* reconnect or at the end (X11, iOS, Sample), or never (Android)

ASSUME ChannelsAssumption ==
    /\ Main # Chan
    /\ Quit \notin Write /\ None \notin Write \cup Plugin
    /\ Clients \subseteq [async : BOOLEAN, disconnects : BOOLEAN]

VARIABLES
    client,       \* which of Clients this is
    connected,    \* channels->connected
    queue,        \* channels->queue
    flags,        \* of each channel: "init", "open" or "closed"
    matched,      \* plug-ins that find themselves by their open handle
    thread,       \* of each plug-in: "none", "idle", "write" (tested), "left"
    buffer,       \* the buffer each plug-in's thread is writing
    quit,         \* plug-ins whose thread has been told to quit
    terminated,   \* plug-ins that have freed themselves
    mpc, after,   \* the main thread, and where it goes on once the queue is empty
    todo,         \* the plug-ins it has still to tell
    cpc,          \* the channel thread: "none", "wait", "drain", "exited"
    item,         \* the write each processing thread has taken
    owner,        \* the plug-in of each buffer posted and not completed
    late          \* those posted after connected was cleared

vars == <<client, connected, queue, flags, matched, thread, buffer, quit, terminated, mpc,
          after, todo, cpc, item, owner, late>>
pluginVars == <<flags, matched, thread, buffer, quit, terminated>>
writeVars == <<queue, item, owner, late>>

\* After the queue is empty: back to the loop, or on with the shutdown.
After == {"run", "tell", "telllast", "terminate"}

TypeOK ==
    /\ client \in Clients
    /\ connected \in BOOLEAN
    /\ queue \in Seq(Write \cup {Quit})
    /\ flags \in [Plugin -> {"init", "open", "closed"}]
    /\ matched \subseteq Plugin /\ quit \subseteq Plugin /\ terminated \subseteq Plugin
    /\ thread \in [Plugin -> {"none", "idle", "write", "left"}]
    /\ buffer \in [Plugin -> Write \cup {None}]
    /\ mpc \in After \cup {"connect", "drain", "close", "joinchan", "free", "end"}
    /\ after \in After
    /\ todo \subseteq Plugin
    /\ cpc \in {"none", "wait", "drain", "exited"}
    /\ item \in [{Main, Chan} -> Write \cup {None}]
    /\ owner \in [Write -> Plugin \cup {None}]
    /\ late \subseteq Write

Init ==
    /\ client \in Clients
    /\ connected = TRUE            \* freerdp_channels_post_connect has begun
    /\ queue = <<>>
    /\ flags = [p \in Plugin |-> "init"]
    /\ matched = {} /\ quit = {} /\ terminated = {}
    /\ thread = [p \in Plugin |-> "none"]
    /\ buffer = [p \in Plugin |-> None]
    /\ mpc = "connect" /\ after = "run" /\ todo = Plugin
    /\ cpc = "none"
    /\ item = [t \in {Main, Chan} |-> None]
    /\ owner = [w \in Write |-> None]
    /\ late = {}
-----------------------------------------------------------------------------
(* The threads of the plug-ins. *)

\* FreeRDP_VirtualChannelWrite: the tests, then the post.  Nothing holds the
\* connection between the two.
WriteTests(p) ==
    /\ thread[p] = "idle" /\ p \notin quit
    /\ connected /\ flags[p] = "open"
    /\ \E w \in Write :
        /\ owner[w] = None
        /\ w \notin {buffer[q] : q \in Plugin}
        /\ buffer' = [buffer EXCEPT ![p] = w]
    /\ thread' = [thread EXCEPT ![p] = "write"]
    /\ UNCHANGED <<client, connected, writeVars, flags, matched, quit, terminated,
                   mpc, after, todo, cpc>>

WritePosts(p) ==
    /\ thread[p] = "write"
    /\ queue' = Append(queue, buffer[p])
    /\ owner' = [owner EXCEPT ![buffer[p]] = p]
    /\ late' = IF connected THEN late ELSE late \cup {buffer[p]}
    /\ buffer' = [buffer EXCEPT ![p] = None]
    /\ thread' = [thread EXCEPT ![p] = "idle"]
    /\ UNCHANGED <<client, connected, flags, matched, quit, terminated, mpc, after,
                   todo, cpc, item>>

\* The thread finds the quit message of its own queue.
ThreadQuits(p) ==
    /\ thread[p] = "idle" /\ p \in quit
    /\ thread' = [thread EXCEPT ![p] = "left"]
    /\ UNCHANGED <<client, connected, writeVars, flags, matched, buffer, quit,
                   terminated, mpc, after, todo, cpc>>
-----------------------------------------------------------------------------
(* freerdp_channels_process_sync, in the main or the channel thread. *)

Take(t) ==
    /\ item[t] = None
    /\ queue # <<>> /\ Head(queue) # Quit
    /\ item' = [item EXCEPT ![t] = Head(queue)]
    /\ queue' = Tail(queue)
    /\ UNCHANGED <<owner, late>>

\* SendChannelData, then WRITE_COMPLETE to whoever matches the open handle.
Complete(t) ==
    /\ item[t] # None
    /\ owner' = [owner EXCEPT ![item[t]] = None]
    /\ late' = late \ {item[t]}
    /\ item' = [item EXCEPT ![t] = None]
    /\ UNCHANGED queue

Processes(t) == Take(t) \/ Complete(t)

\* The queue is empty, or its quit message has been taken: the loop ends.
Emptied(t) ==
    /\ item[t] = None
    /\ \/ queue = <<>> /\ UNCHANGED queue
       \/ queue # <<>> /\ Head(queue) = Quit /\ queue' = Tail(queue)
    /\ UNCHANGED <<item, owner, late>>

ChanWakes ==
    /\ cpc = "wait"
    /\ queue # <<>>
    /\ cpc' = "drain"
    /\ UNCHANGED <<client, connected, writeVars, pluginVars, mpc, after, todo>>

ChanProcesses ==
    /\ cpc = "drain"
    /\ \/ Processes(Chan) /\ UNCHANGED cpc
       \/ Emptied(Chan) /\ cpc' = IF queue = <<>> THEN "wait" ELSE "exited"
    /\ UNCHANGED <<client, connected, pluginVars, mpc, after, todo>>
-----------------------------------------------------------------------------
(* The main thread. *)

\* freerdp_channels_check_fds looks at the event of the queue, and goes on.
ChecksFds(a) ==
    IF queue = <<>>
    THEN mpc' = a /\ UNCHANGED after
    ELSE mpc' = "drain" /\ after' = a

\* CHANNEL_EVENT_CONNECTED to one plug-in: it opens its channel, and starts its
\* thread if it could.
Connects(p) ==
    /\ matched' = matched \cup {p}
    /\ flags' = [flags EXCEPT ![p] = "open"]
    /\ thread' = IF flags[p] # "open" THEN [thread EXCEPT ![p] = "idle"] ELSE thread
    /\ quit' = IF flags[p] # "open" THEN quit \ {p} ELSE quit

PostConnect ==
    /\ mpc = "connect"
    /\ IF todo = {}
       THEN /\ mpc' = "run"
            /\ cpc' = IF client.async /\ cpc = "none" THEN "wait" ELSE cpc
            /\ UNCHANGED <<pluginVars, todo>>
       ELSE \E p \in todo :
            /\ Connects(p)
            /\ todo' = todo \ {p}
            /\ UNCHANGED <<mpc, cpc, buffer, terminated>>
    /\ UNCHANGED <<client, connected, after, writeVars>>

\* The main loop: freerdp_channels_check_fds unless there is a thread for it.
CheckFds ==
    /\ mpc = "run" /\ ~client.async
    /\ queue # <<>>
    /\ ChecksFds("run")
    /\ UNCHANGED <<client, connected, writeVars, pluginVars, todo, cpc>>

\* faulty variant: the queue is not processed
Disconnecting_Skips(a) ==
    /\ connected' = FALSE
    /\ mpc' = a /\ UNCHANGED after
    /\ todo' = Plugin

\* faulty variant: the flag is cleared later
Disconnecting_Late(a) ==
    /\ UNCHANGED connected
    /\ ChecksFds(a)
    /\ todo' = Plugin

\* freerdp_channels_disconnect, to reconnect or at the end: first the flag,
\* then freerdp_channels_check_fds.
Disconnecting(a) ==
    /\ connected' = FALSE
    /\ ChecksFds(a)
    /\ todo' = Plugin

Disconnect ==
    /\ mpc = "run" /\ client.disconnects
    /\ Disconnecting("tell") \/ Disconnecting("telllast")
    /\ UNCHANGED <<client, writeVars, pluginVars, cpc>>

MainProcesses ==
    /\ mpc = "drain"
    /\ \/ Processes(Main) /\ UNCHANGED mpc
       \/ Emptied(Main) /\ mpc' = after
    /\ UNCHANGED <<client, connected, pluginVars, after, todo, cpc>>

\* CHANNEL_EVENT_DISCONNECTED to one plug-in: its thread is told to quit, ...
TellsQuit ==
    /\ mpc \in {"tell", "telllast"}
    /\ todo \cap quit = {}
    /\ \E p \in todo : quit' = quit \cup {p}
    /\ UNCHANGED <<client, connected, writeVars, flags, matched, thread, buffer, terminated,
                   mpc, after, todo, cpc>>

\* faulty variant: the channel is not closed
CloseChannel_Forgets(p) ==
    /\ flags' = flags
    /\ matched' = matched \ {p}

\* ... joined, and the channel closed and forgotten.
CloseChannel(p) ==
    /\ flags' = [flags EXCEPT ![p] = "closed"]
    /\ matched' = matched \ {p}

\* faulty variant: the plug-in does not wait for its thread
Joins_Early ==
    /\ mpc \in {"tell", "telllast"}
    /\ \E p \in todo \cap quit :
        /\ CloseChannel(p)
        /\ todo' = todo \ {p}
    /\ UNCHANGED <<client, connected, writeVars, thread, buffer, quit, terminated,
                   mpc, after, cpc>>

Joins ==
    /\ mpc \in {"tell", "telllast"}
    /\ \E p \in todo \cap quit :
        /\ thread[p] \in {"left", "none"}
        /\ CloseChannel(p)
        /\ thread' = [thread EXCEPT ![p] = "none"]
        /\ todo' = todo \ {p}
    /\ UNCHANGED <<client, connected, writeVars, buffer, quit, terminated, mpc, after, cpc>>

\* rdp_client_reconnect connects again and tells the plug-ins, or fails: then
\* the client leaves its loop, and its disconnect finds nothing to do.
Disconnected ==
    /\ mpc \in {"tell", "telllast"}
    /\ todo = {}
    /\ \/ mpc = "tell" /\ mpc' = "connect" /\ connected' = TRUE /\ todo' = Plugin
       \/ mpc' = "close" /\ UNCHANGED <<connected, todo>>
    /\ UNCHANGED <<client, writeVars, pluginVars, after, cpc>>

\* Android closes the channels of a connection it has not disconnected.
LeavesLoop ==
    /\ mpc = "run" /\ ~client.disconnects
    /\ mpc' = "close"
    /\ UNCHANGED <<client, connected, writeVars, pluginVars, after, todo, cpc>>

\* freerdp_channels_close: the queue once more, ...
Close ==
    /\ mpc = "close"
    /\ ChecksFds("terminate")
    /\ todo' = Plugin
    /\ UNCHANGED <<client, connected, writeVars, pluginVars, cpc>>

\* faulty variant: the quit message is not posted
Terminate_Quiet ==
    /\ mpc = "terminate"
    /\ IF todo = {}
       THEN /\ mpc' = IF cpc = "none" THEN "free" ELSE "joinchan"
            /\ UNCHANGED <<queue, todo, terminated>>
       ELSE \E p \in todo :
            /\ terminated' = terminated \cup {p}
            /\ todo' = todo \ {p}
            /\ UNCHANGED <<queue, mpc>>
    /\ UNCHANGED <<client, connected, flags, matched, thread, buffer, quit, after,
                   cpc, item, owner, late>>

\* ... CHANNEL_EVENT_TERMINATED to every plug-in, and the quit message.
Terminate ==
    /\ mpc = "terminate"
    /\ IF todo = {}
       THEN /\ queue' = Append(queue, Quit)
            /\ mpc' = IF cpc = "none" THEN "free" ELSE "joinchan"
            /\ UNCHANGED <<todo, terminated>>
       ELSE \E p \in todo :
            /\ terminated' = terminated \cup {p}
            /\ todo' = todo \ {p}
            /\ UNCHANGED <<queue, mpc>>
    /\ UNCHANGED <<client, connected, flags, matched, thread, buffer, quit, after,
                   cpc, item, owner, late>>

JoinsChan ==
    /\ mpc = "joinchan" /\ cpc = "exited"
    /\ mpc' = "free"
    /\ UNCHANGED <<client, connected, writeVars, pluginVars, after, todo, cpc>>

\* freerdp_channels_free drops what is in the queue.
Free ==
    /\ mpc = "free"
    /\ mpc' = "end"
    /\ queue' = <<>>
    /\ UNCHANGED <<client, connected, pluginVars, after, todo, cpc, item, owner, late>>
-----------------------------------------------------------------------------
MainNext ==
    \/ PostConnect \/ CheckFds \/ Disconnect \/ MainProcesses \/ TellsQuit \/ Joins
    \/ Disconnected \/ LeavesLoop \/ Close \/ Terminate \/ JoinsChan \/ Free

PluginNext(p) == mpc # "end" /\ (WriteTests(p) \/ WritePosts(p) \/ ThreadQuits(p))

Next ==
    \/ MainNext
    \/ ChanWakes \/ ChanProcesses
    \/ \E p \in Plugin : PluginNext(p)

Spec == Init /\ [][Next]_vars

\* The main thread goes on except in its loop, where it may stay as long as the
\* user does; the channel thread runs; a plug-in finishes a write it has begun
\* and reads its quit message.
Fairness ==
    /\ WF_vars(MainNext /\ mpc # "run")
    /\ WF_vars(ChanWakes) /\ WF_vars(ChanProcesses)
    /\ \A p \in Plugin : WF_vars(WritePosts(p)) /\ WF_vars(ThreadQuits(p))

FairSpec == Spec /\ Fairness
-----------------------------------------------------------------------------
\* A write accepted while the connection was up is sent and completed before the
\* plug-in is told of the disconnection, for then it forgets its open handle,
\* and a WRITE_COMPLETE that comes later finds no plug-in to free the buffer
\* (freerdp_channels_disconnect clears connected and then empties the queue).
CompletedBeforeDisconnected ==
    \A w \in Write : owner[w] # None /\ w \notin late => owner[w] \in matched

\* A client that disconnects first calls no plug-in that has freed itself, and
\* leaves none with its thread still running.
NothingAfterTerminated ==
    client.disconnects => \A p \in terminated :
        /\ thread[p] = "none"
        /\ \A t \in {Main, Chan} : item[t] # None => owner[item[t]] # p

\* After every connection, the first or a later one, each plug-in has its
\* channel open, its handle registered and its thread running: a channel left
\* open by the disconnection would be refused (CHANNEL_RC_ALREADY_OPEN).
AllOpenWhenConnected ==
    mpc = "run" => \A p \in Plugin : flags[p] = "open" /\ p \in matched /\ thread[p] # "none"

\* A disconnection ends, although plug-ins write all the time: the flag that is
\* cleared first keeps them from filling the queue faster than it is emptied,
\* and every thread finds its quit message.
DisconnectEnds ==
    (mpc = "drain" /\ after \in {"tell", "telllast"}) ~> mpc \in {"connect", "close"}

\* The channels are closed and the channel thread joined, whichever of the two
\* threads takes a write or the quit message, unless the plug-ins of a
\* connection that was not disconnected write for ever.
CloseEnds ==
    <>[](\A p \in Plugin : thread[p] # "write") => (mpc = "close" ~> mpc = "end")
=============================================================================
