------------------------------- MODULE RdpSound -------------------------------
(***************************************************************************)
(* The sound channel of the client (src/Players/channels/rdpsnd/client/    *)
(* rdpsnd_main.c) over any number of connections.                          *)
(*                                                                         *)
(* The main thread puts the PDUs of the server together from chunks and    *)
(* posts them to one queue; the channel's client thread handles them and   *)
(* plays; a third thread, if the device wants one, sleeps until a wave     *)
(* has been heard and confirms it to the server.  A wave comes as two      *)
(* PDUs: WaveInfo, and Wave, whose header is not read at all.  The plug-in *)
(* outlives the connection, and so do those of its fields that a           *)
(* disconnection does not reset.                                           *)
(***************************************************************************)
EXTENDS Naturals, Sequences, SequencesExt

CONSTANTS
    Wave,           \* the waves (blocks) of one connection
    None,
    MaxConnections, \* bound: how often the client connects
    MaxQueued,      \* bound: the PDUs the client thread lags behind
    CutAnywhere     \* may the connection end between a WaveInfo and its Wave?

ASSUME SoundAssumption ==
    /\ None \notin Wave
    /\ MaxConnections \in Nat /\ MaxQueued \in Nat /\ CutAnywhere \in BOOLEAN

VARIABLES
    device,         \* "none", "callback" (DisableConfirmThread) or "thread"
    mpc,            \* the main thread: "down", "up", "post", "join", "crashed"
    connections,    \* how many there have been
    due,            \* what the server sends next: "formats", "any", or a wave
    fresh,          \* the waves it has not sent in this connection
    data_in,        \* the PDU the main thread has the first chunk of
    in, out,        \* MsgPipe
    cpc,            \* the client thread: "none", "run", "stop", "exited", "crashed"
    spc, sleeping,  \* the schedule thread: "none", "wait", "sleep", "exited"
    playing,        \* the waves a "callback" device has not played to the end
    stop,           \* stopEvent
    ClientFormats,  \* are there any?
    expectingWave, isOpen,
    cBlockNo,
    played, confirmed   \* the waves of this connection, in order

linkVars == <<device, mpc, connections, due, fresh, data_in>>
soundVars == <<ClientFormats, expectingWave, isOpen, cBlockNo>>
vars == <<linkVars, in, out, cpc, spc, sleeping, playing, stop, soundVars, played,
          confirmed>>

Kinds == {"formats", "training", "info", "wave", "close", "quit"}
PDU == [kind : Kinds, wave : Wave \cup {None}]
Pdu(k, w) == [kind |-> k, wave |-> w]
Quit == Pdu("quit", None)

TypeOK ==
    /\ device \in {"none", "callback", "thread"}
    /\ mpc \in {"down", "up", "post", "join", "crashed"}
    /\ connections \in 0 .. MaxConnections
    /\ due \in {"formats", "any"} \cup Wave
    /\ fresh \subseteq Wave
    /\ data_in \in PDU \cup {None}
    /\ in \in Seq(PDU) /\ out \in Seq(PDU)
    /\ cpc \in {"none", "run", "stop", "exited", "crashed"}
    /\ spc \in {"none", "wait", "sleep", "exited"}
    /\ sleeping \in Wave \cup {None}
    /\ playing \in Seq(Wave)
    /\ stop \in BOOLEAN /\ ClientFormats \in BOOLEAN
    /\ expectingWave \in BOOLEAN /\ isOpen \in BOOLEAN
    /\ cBlockNo \in Wave \cup {None}
    /\ played \in Seq(Wave) /\ confirmed \in Seq(Wave)

Init ==
    /\ device \in {"none", "callback", "thread"}   \* the same for every connection
    /\ mpc = "down" /\ connections = 0
    /\ due = "formats" /\ fresh = Wave
    /\ data_in = None
    /\ in = <<>> /\ out = <<>>
    /\ cpc = "none" /\ spc = "none" /\ sleeping = None /\ playing = <<>>
    /\ stop = FALSE
    /\ ClientFormats = FALSE
    /\ expectingWave = FALSE /\ isOpen = FALSE
    /\ cBlockNo = None
    /\ played = <<>> /\ confirmed = <<>>
-----------------------------------------------------------------------------
(* The main thread, and the server at the other end. *)

\* CHANNEL_EVENT_CONNECTED: new queues, a new thread, which starts with
\* rdpsnd_process_connect.  That a device fails to load for a later connection,
\* with the handle of the last schedule thread left as it was, is left out.
Connected ==
    /\ mpc = "down" /\ connections < MaxConnections
    /\ mpc' = "up" /\ connections' = connections + 1
    /\ due' = "formats" /\ fresh' = Wave
    /\ in' = <<>> /\ out' = <<>>
    /\ played' = <<>> /\ confirmed' = <<>>
    /\ cpc' = "run"
    /\ IF device = "thread"
       THEN spc' = "wait" /\ stop' = FALSE
       ELSE UNCHANGED <<spc, stop>>
    /\ UNCHANGED <<device, data_in, sleeping, playing, soundVars>>

\* What the server may send: formats first, then training, closes and waves.
Sends(k, w) ==
    \/ due = "formats" /\ k = "formats" /\ w = None /\ due' = "any" /\ UNCHANGED fresh
    \/ due = "any" /\ k = "training" /\ w = None /\ UNCHANGED <<due, fresh>>
    \/ due = "any" /\ k = "close" /\ w = None /\ UNCHANGED <<due, fresh>>
    \/ due = "any" /\ k = "info" /\ w \in fresh /\ due' = w /\ fresh' = fresh \ {w}
    \/ due = w /\ w \in Wave /\ k = "wave" /\ due' = "any" /\ UNCHANGED fresh

FirstChunk ==
    /\ mpc = "up"
    /\ data_in = None
    /\ \E k \in Kinds, w \in Wave \cup {None} :
        /\ Sends(k, w)
        /\ data_in' = Pdu(k, w)
    /\ UNCHANGED <<device, mpc, connections, in, out, cpc, spc, sleeping, playing, stop,
                   soundVars, played, confirmed>>

LastChunk ==
    /\ mpc = "up"
    /\ data_in # None
    /\ Len(in) < MaxQueued
    /\ in' = Append(in, data_in)
    /\ data_in' = None
    /\ UNCHANGED <<device, mpc, connections, due, fresh, out, cpc, spc, sleeping,
                   playing, stop, soundVars, played, confirmed>>

Whole == due \in {"formats", "any"} /\ data_in = None

\* faulty variant: only the queue of the schedule thread gets the quit message
PostQuit_Out == in' = in

\* MessagePipe_PostQuit: first the queue of the client thread ...
PostQuit == in' = Append(in, Quit)

\* CHANNEL_EVENT_DISCONNECTED, as far as the wait for the thread.
Disconnected ==
    /\ mpc = "up"
    /\ CutAnywhere \/ Whole
    /\ mpc' = "post"
    /\ PostQuit
    /\ UNCHANGED <<device, connections, due, fresh, data_in, out, cpc, spc, sleeping,
                   playing, stop, soundVars, played, confirmed>>

\* ... then that of the schedule thread.
PostsQuitOut ==
    /\ mpc = "post"
    /\ mpc' = "join"
    /\ out' = Append(out, Quit)
    /\ UNCHANGED <<device, connections, due, fresh, data_in, in, cpc, spc, sleeping,
                   playing, stop, soundVars, played, confirmed>>

\* The rest of it: the channel is closed, then the formats, the device with what
\* it still plays and the queues are freed; isOpen and expectingWave stay.
Joins ==
    /\ mpc = "join" /\ cpc = "exited"
    /\ mpc' = "down"
    /\ cpc' = "none"
    /\ data_in' = None
    /\ ClientFormats' = FALSE
    /\ in' = <<>> /\ out' = <<>> /\ playing' = <<>>
    /\ UNCHANGED <<device, connections, due, fresh, spc, sleeping, stop, expectingWave,
                   isOpen, cBlockNo, played, confirmed>>
-----------------------------------------------------------------------------
(* The client thread: rdpsnd_recv_pdu, one PDU a step. *)

Receives(k) ==
    /\ cpc = "run" /\ in # <<>>
    /\ Head(in).kind = k
    /\ in' = Tail(in)

\* rdpsnd_recv_pdu looks at expectingWave before it looks at the PDU.
ByType(k) == ~expectingWave /\ Receives(k)

\* The server says which block was confirmed last: none of this connection.
Formats ==
    /\ ByType("formats")
    /\ ClientFormats' = TRUE
    /\ cBlockNo' = None
    /\ UNCHANGED <<linkVars, out, cpc, spc, sleeping, playing, stop, expectingWave,
                   isOpen, played, confirmed>>

\* A training PDU is only answered, as is a volume PDU.
Training ==
    /\ ByType("training")
    /\ UNCHANGED <<linkVars, out, cpc, spc, sleeping, playing, stop, soundVars, played,
                   confirmed>>

Close ==
    /\ ByType("close")
    /\ isOpen' = FALSE
    /\ UNCHANGED <<linkVars, out, cpc, spc, sleeping, playing, stop, ClientFormats,
                   expectingWave, cBlockNo, played, confirmed>>

\* The device is opened, or its format set, with a format of ClientFormats.
WaveInfo ==
    /\ ByType("info")
    /\ expectingWave' = TRUE
    /\ cBlockNo' = Head(in).wave
    /\ isOpen' = TRUE
    /\ UNCHANGED <<linkVars, out, cpc, spc, sleeping, playing, stop, ClientFormats,
                   played, confirmed>>

\* faulty variant: a wave is confirmed at once while the schedule thread sleeps
Confirms_Shortcut ==
    \/ /\ device # "thread" \/ spc = "sleep"
       /\ confirmed' = Append(confirmed, cBlockNo) /\ UNCHANGED <<out, playing>>
    \/ /\ device = "thread" /\ spc # "sleep"
       /\ out' = Append(out, Pdu("wave", cBlockNo)) /\ UNCHANGED <<confirmed, playing>>

\* A wave that no device plays is confirmed at once; Windows will call back when
\* it has played it; for the other devices it is queued for the schedule thread
\* (rdpsnd_device_send_wave_confirm_pdu).  A WavePlay that fails after it has
\* taken the confirmation over (no memory, waveOutWrite), and so never
\* confirms, is left out.
Confirms ==
    \/ /\ device = "none"
       /\ confirmed' = Append(confirmed, cBlockNo) /\ UNCHANGED <<out, playing>>
    \/ /\ device = "callback"
       /\ playing' = Append(playing, cBlockNo) /\ UNCHANGED <<out, confirmed>>
    \/ /\ device = "thread"
       /\ out' = Append(out, Pdu("wave", cBlockNo)) /\ UNCHANGED <<confirmed, playing>>

\* Whatever the PDU is, it is played as a wave in the format of ClientFormats;
\* without formats the computation of its length reads through a null pointer.
WavePdu ==
    /\ expectingWave
    /\ \E k \in Kinds \ {"quit"} : Receives(k)
    /\ expectingWave' = FALSE
    /\ IF ClientFormats
       THEN /\ played' = Append(played, cBlockNo)
            /\ Confirms
            /\ UNCHANGED <<cpc, mpc, spc>>
       ELSE /\ cpc' = "crashed" /\ mpc' = "crashed" /\ spc' = "none"
            /\ UNCHANGED <<played, confirmed, playing, out>>
    /\ UNCHANGED <<device, connections, due, fresh, data_in, sleeping, stop,
                   ClientFormats, isOpen, cBlockNo>>

\* The quit message: rdpsnd_process_disconnect stops the schedule thread, ...
Quits ==
    /\ Receives("quit")
    /\ IF device = "thread"
       THEN stop' = TRUE /\ cpc' = "stop"
       ELSE cpc' = "exited" /\ UNCHANGED stop
    /\ UNCHANGED <<linkVars, out, spc, sleeping, playing, soundVars, played, confirmed>>

\* ... and waits for it.
Stopped ==
    /\ cpc = "stop" /\ spc = "exited"
    /\ cpc' = "exited"
    /\ UNCHANGED <<linkVars, in, out, spc, sleeping, playing, stop, soundVars, played,
                   confirmed>>

\* MM_WOM_DONE: the device has played the oldest of its waves to the end.
Done ==
    /\ mpc # "crashed"
    /\ playing # <<>>
    /\ confirmed' = Append(confirmed, Head(playing))
    /\ playing' = Tail(playing)
    /\ UNCHANGED <<linkVars, in, out, cpc, spc, sleeping, stop, soundVars, played>>
-----------------------------------------------------------------------------
(* The schedule thread. *)

\* faulty variant: a wave whose time has passed is not confirmed
Schedule_Late ==
    /\ spc = "wait"
    /\ IF out # <<>>
       THEN /\ out' = Tail(out)
            /\ \/ Head(out) = Quit /\ spc' = "exited" /\ UNCHANGED sleeping
               \/ Head(out) # Quit /\ spc' = "sleep" /\ sleeping' = Head(out).wave
               \/ Head(out) # Quit /\ UNCHANGED <<spc, sleeping>>
       ELSE stop /\ spc' = "exited" /\ UNCHANGED <<out, sleeping>>
    /\ UNCHANGED <<linkVars, in, cpc, playing, stop, soundVars, played, confirmed>>

\* The queue comes first among the events it waits for.
Schedule ==
    /\ spc = "wait"
    /\ IF out # <<>>
       THEN /\ out' = Tail(out)
            /\ \/ Head(out) = Quit /\ spc' = "exited" /\ UNCHANGED sleeping
               \/ Head(out) # Quit /\ spc' = "sleep" /\ sleeping' = Head(out).wave
       ELSE stop /\ spc' = "exited" /\ UNCHANGED <<out, sleeping>>
    /\ UNCHANGED <<linkVars, in, cpc, playing, stop, soundVars, played, confirmed>>

\* After the sleep (its length is not modelled) the wave is confirmed.
Slept ==
    /\ spc = "sleep"
    /\ confirmed' = Append(confirmed, sleeping)
    /\ spc' = "wait" /\ sleeping' = None
    /\ UNCHANGED <<linkVars, in, out, cpc, playing, stop, soundVars, played>>
-----------------------------------------------------------------------------
ClientThread == Formats \/ Training \/ Close \/ WaveInfo \/ WavePdu \/ Quits \/ Stopped
ScheduleThread == Schedule \/ Slept

Next ==
    \/ Connected \/ FirstChunk \/ LastChunk \/ Disconnected \/ PostsQuitOut \/ Joins
    \/ ClientThread \/ ScheduleThread \/ Done

Spec == Init /\ [][Next]_vars

\* The threads run, and the device plays; the server and the user do as they like.
Fairness ==
    /\ WF_vars(ClientThread) /\ WF_vars(ScheduleThread)
    /\ WF_vars(PostsQuitOut \/ Joins) /\ WF_vars(Done)

FairSpec == Spec /\ Fairness
-----------------------------------------------------------------------------
\* "it is always sent after a Wave Info PDU" (rdpsnd_main.c:446, of the Wave
\* PDU): when the client expects one, the next PDU is one.
WaveFollowsInfo ==
    cpc = "run" /\ expectingWave /\ in # <<>> => Head(in).kind \in {"wave", "quit"}

\* The server learns of the waves in the order it sent them, of each at most
\* once and only when it was played: it paces itself by the confirmations.
\* "Played" is handed to the device: in a second connection the device may not
\* have been opened again (isOpen stays), and the wave be confirmed unheard.
ConfirmedInOrder == IsPrefix(confirmed, played)

\* A wave that was played is confirmed, unless the connection ends first.
WavesConfirmed == \A w \in Wave :
    (\E n \in DOMAIN played : played[n] = w)
        ~> (mpc # "up" \/ \E n \in DOMAIN confirmed : confirmed[n] = w)

\* A disconnection ends: both threads find their quit message or their event.
DisconnectEnds == mpc \in {"post", "join"} ~> mpc = "down"
=============================================================================
