------------------------- MODULE StaticChannels_proofs -------------------------
(***************************************************************************)
(* The static channels of a client: proofs for StaticChannels, for any      *)
(* number of plug-ins and of writes under way, and any number of            *)
(* reconnections.  The theorems about a disconnection are about clients     *)
(* whose main thread processes the queue: with a channel thread of its own  *)
(* (+async-channels, "unstable") that thread may still hold a write when    *)
(* the main thread finds the queue empty.                                   *)
(***************************************************************************)
EXTENDS StaticChannels, TLAPS

\* A client that disconnects has no channel thread.
OneTaker == \A c \in Clients : c.disconnects => ~c.async

\* The main thread has stopped accepting writes, on its way to tell the plug-ins
\* or telling them.
Tells == mpc \in {"tell", "telllast"}
Ending == Tells \/ (mpc = "drain" /\ after \in {"tell", "telllast"})

\* The writes posted and not completed.
Posted == {w \in Write : owner[w] # None}

\* Only a client without a channel thread disconnects.
Kinds ==
    /\ client.disconnects => cpc = "none"
    /\ cpc = "none" => item[Chan] = None
    /\ Ending => client.disconnects

\* A channel is open as long as its plug-in matches its handle, and from the
\* start of its thread to the joining of it.
Opened ==
    \A p \in Plugin : /\ flags[p] = "open" <=> p \in matched
                      /\ flags[p] = "open" <=> thread[p] # "none"

\* Which channels are open while the plug-ins are told, one after the other.
Connecting ==
    /\ mpc = "connect" => \A p \in Plugin \ todo : flags[p] = "open"
    /\ mpc = "run" \/ (mpc = "drain" /\ after = "run") => \A p \in Plugin : flags[p] = "open"
    /\ Ending => \A p \in todo : flags[p] = "open"

\* A write that is under way is in the queue or has been taken from it.
Writes ==
    \A w \in Posted : \/ \E n \in 1 .. Len(queue) : queue[n] = w
                      \/ item[Main] = w \/ item[Chan] = w

\* The quit message comes last, and those that were accepted while connected have
\* been completed before the first plug-in is told.
Emptying ==
    /\ mpc \notin {"joinchan", "free", "end"} => queue \in Seq(Write)
    /\ mpc # "drain" => item[Main] = None
    /\ Ending => ~connected
    /\ Tells => Posted \subseteq late

\* A thread between the tests and the post has a buffer to post.
Buffers == \A p \in Plugin : thread[p] = "write" => buffer[p] \in Write

Told ==
    /\ Kinds /\ Opened /\ Connecting
    /\ mpc # "end" => Writes
    /\ Emptying
    /\ CompletedBeforeDisconnected

ChannelsInv == TypeOK /\ Buffers /\ Told

\* The main thread closes the channel manager.
Shuts ==
    \/ mpc \in {"close", "terminate", "joinchan", "free", "end"}
    \/ mpc = "drain" /\ after = "terminate"

\* The threads of the plug-ins are joined one after the other before the channels are
\* closed, and no plug-in is connected again from then on.
Joined ==
    /\ Ending => \A p \in Plugin \ todo : thread[p] = "none"
    /\ client.disconnects /\ Shuts => \A p \in Plugin : thread[p] = "none"
    /\ terminated # {} => mpc \in {"terminate", "joinchan", "free", "end"}
-----------------------------------------------------------------------------
(* Types. *)

\* A thread that processes the queue takes and leaves writes only.
LEMMA ProcessTypes ==
    ASSUME TypeOK, NEW t \in {Main, Chan}, Processes(t) \/ Emptied(t)
    PROVE  /\ queue' \in Seq(Write \cup {Quit})
           /\ item' \in [{Main, Chan} -> Write \cup {None}]
           /\ owner' \in [Write -> Plugin \cup {None}] /\ late' \subseteq Write
  <1>1. CASE Take(t)
    BY <1>1 DEF TypeOK, Take
  <1>2. CASE Complete(t)
    BY <1>2, ChannelsAssumption DEF TypeOK, Complete
  <1>3. CASE Emptied(t)
    BY <1>3 DEF TypeOK, Emptied
  <1>4. QED
    BY <1>1, <1>2, <1>3 DEF Processes

\* Every step of every thread keeps the types.
LEMMA Types == TypeOK /\ Buffers /\ [Next]_vars => (TypeOK /\ Buffers)'
  <1> SUFFICES ASSUME TypeOK, Buffers, [Next]_vars PROVE (TypeOK /\ Buffers)'
    OBVIOUS
  <1> USE DEF TypeOK, Buffers, After, writeVars, pluginVars
  <1>1. ASSUME NEW p \in Plugin, PluginNext(p) PROVE (TypeOK /\ Buffers)'
    <2>1. CASE WriteTests(p)
      BY <2>1 DEF WriteTests
    <2>2. CASE WritePosts(p)
      BY <2>2 DEF WritePosts
    <2>3. CASE ThreadQuits(p)
      BY <2>3 DEF ThreadQuits
    <2>4. QED
      BY <1>1, <2>1, <2>2, <2>3 DEF PluginNext
  <1>2. CASE ChanWakes
    BY <1>2 DEF ChanWakes
  <1>3. CASE ChanProcesses
    BY <1>3, ProcessTypes DEF ChanProcesses
  <1>4. CASE PostConnect
    BY <1>4 DEF PostConnect, Connects
  <1>5. CASE CheckFds \/ Disconnect \/ LeavesLoop \/ Close
    BY <1>5 DEF CheckFds, Disconnect, Disconnecting, LeavesLoop, Close, ChecksFds
  <1>6. CASE MainProcesses
    BY <1>6, ProcessTypes DEF MainProcesses
  <1>7. CASE TellsQuit \/ Joins
    BY <1>7 DEF TellsQuit, Joins, CloseChannel
  <1>8. CASE Disconnected \/ JoinsChan
    BY <1>8 DEF Disconnected, JoinsChan
  <1>9. CASE Terminate
    <2>1. queue' \in Seq(Write \cup {Quit})
      <3>1. Append(queue, Quit) \in Seq(Write \cup {Quit})
        OBVIOUS
      <3>2. QED
        BY <1>9, <3>1 DEF Terminate
    <2>2. QED
      BY <1>9, <2>1 DEF Terminate
  <1>10. CASE Free
    <2>1. queue' \in Seq(Write \cup {Quit})
      BY <1>10 DEF Free
    <2>2. QED
      BY <1>10, <2>1 DEF Free
  <1>11. CASE UNCHANGED vars
    BY <1>11 DEF vars
  <1>12. QED
    BY <1>1, <1>2, <1>3, <1>4, <1>5, <1>6, <1>7, <1>8, <1>9, <1>10, <1>11 DEF Next, MainNext
-----------------------------------------------------------------------------
(* The writes. *)

\* A message behind the first one of a queue is in the rest.
LEMMA InTail ==
    ASSUME NEW S, NEW q \in Seq(S), q # <<>>, NEW w, w # Head(q),
           \E n \in 1 .. Len(q) : q[n] = w
    PROVE  \E n \in 1 .. Len(Tail(q)) : Tail(q)[n] = w
  <1>1. PICK n \in 1 .. Len(q) : q[n] = w
    OBVIOUS
  <1>2. n - 1 \in 1 .. Len(Tail(q)) /\ Tail(q)[n - 1] = w
    BY <1>1
  <1>3. QED
    BY <1>2

\* A queue that has got one more message has that and the ones before.
LEMMA InAppend ==
    ASSUME NEW S, NEW q \in Seq(S), NEW x \in S, NEW w,
           w = x \/ \E n \in 1 .. Len(q) : q[n] = w
    PROVE  \E n \in 1 .. Len(Append(q, x)) : Append(q, x)[n] = w
  <1>1. CASE w = x
    <2>1. Len(q) + 1 \in 1 .. Len(Append(q, x)) /\ Append(q, x)[Len(q) + 1] = x
      OBVIOUS
    <2>2. QED
      BY <1>1, <2>1
  <1>2. CASE \E n \in 1 .. Len(q) : q[n] = w
    <2>1. PICK n \in 1 .. Len(q) : q[n] = w
      BY <1>2
    <2>2. n \in 1 .. Len(Append(q, x)) /\ Append(q, x)[n] = w
      BY <2>1
    <2>3. QED
      BY <2>2
  <1>3. QED
    BY <1>1, <1>2

\* A thread that processes the queue takes a write out of it, or completes one,
\* and so knows of every one that is still under way.
LEMMA ProcessWrites ==
    ASSUME TypeOK, Writes, NEW t \in {Main, Chan}, Processes(t) \/ Emptied(t)
    PROVE  /\ Writes' /\ Posted' \subseteq Posted
           /\ \A w \in Posted' : owner'[w] = owner[w] /\ (w \in late' <=> w \in late)
  <1> USE DEF TypeOK, Writes, Posted
  <1>1. CASE Take(t)
    <2>1. owner' = owner /\ late' = late /\ queue # <<>>
      BY <1>1 DEF Take
    <2>2. item' = [item EXCEPT ![t] = Head(queue)] /\ queue' = Tail(queue) /\ item[t] = None
      BY <1>1 DEF Take
    <2>3. ASSUME NEW w \in Posted
          PROVE  \/ \E n \in 1 .. Len(queue') : queue'[n] = w
                 \/ item'[Main] = w \/ item'[Chan] = w
      <3>1. CASE \E n \in 1 .. Len(queue) : queue[n] = w
        <4>1. CASE w = Head(queue)
          BY <2>2, <4>1
        <4>2. CASE w # Head(queue)
          <5>1. \E n \in 1 .. Len(Tail(queue)) : Tail(queue)[n] = w
            BY <2>1, <3>1, <4>2, InTail
          <5>2. QED
            BY <2>2, <5>1
        <4>3. QED
          BY <4>1, <4>2
      <3>2. CASE item[Main] = w \/ item[Chan] = w
        BY <2>2, <3>2, ChannelsAssumption
      <3>3. QED
        BY <2>3, <3>1, <3>2
    <2>4. QED
      BY <2>1, <2>3
  <1>2. CASE Complete(t)
    BY <1>2, ChannelsAssumption DEF Complete
  <1>3. CASE Emptied(t)
    <2>1. CASE queue' = queue
      BY <1>3, <2>1 DEF Emptied
    <2>2. CASE queue # <<>> /\ Head(queue) = Quit /\ queue' = Tail(queue)
      <3>1. ASSUME NEW w \in Posted, \E n \in 1 .. Len(queue) : queue[n] = w
            PROVE  \E n \in 1 .. Len(queue') : queue'[n] = w
        <4>1. w # Head(queue)
          BY <2>2, ChannelsAssumption
        <4>2. \E n \in 1 .. Len(Tail(queue)) : Tail(queue)[n] = w
          BY <2>2, <3>1, <4>1, InTail, SMTT(30)
        <4>3. QED
          BY <2>2, <4>2
      <3>2. owner' = owner /\ late' = late /\ item' = item
        BY <1>3 DEF Emptied
      <3>3. QED
        BY <3>1, <3>2
    <2>3. QED
      BY <1>3, <2>1, <2>2 DEF Emptied
  <1>4. QED
    BY <1>1, <1>2, <1>3 DEF Processes

\* A plug-in's write joins the queue; the plug-in, whose channel is still open, has
\* not been told of a disconnection.
LEMMA PluginTold ==
    ASSUME ChannelsInv, NEW p \in Plugin, PluginNext(p)
    PROVE  Told'
  <1> USE DEF ChannelsInv, TypeOK, Told
  <1>1. CASE WriteTests(p)
    <2>1. UNCHANGED <<mpc, after, todo, cpc, client, connected, queue, item, owner, late, flags, matched>>
      BY <1>1 DEF WriteTests, writeVars
    <2>2. \A q \in Plugin : thread'[q] = "none" <=> thread[q] = "none"
      BY <1>1 DEF WriteTests
    <2>3. QED
      BY <2>1, <2>2 DEF Kinds, Opened, Connecting, Writes, Posted, Emptying, Ending, Tells,
                        CompletedBeforeDisconnected
  <1>2. CASE WritePosts(p)
    <2> DEFINE b == buffer[p]
    <2>1. b \in Write /\ p \in matched /\ mpc # "end"
      BY <1>1, <1>2 DEF WritePosts, Buffers, Opened, PluginNext
    <2>2. UNCHANGED <<mpc, after, todo, cpc, client, connected, item, flags, matched>>
      BY <1>2 DEF WritePosts
    <2>3. queue' = Append(queue, b) /\ owner' = [owner EXCEPT ![b] = p]
          /\ late' = IF connected THEN late ELSE late \cup {b}
      BY <1>2 DEF WritePosts
    <2>4. \A q \in Plugin : thread'[q] = "none" <=> thread[q] = "none"
      BY <1>2 DEF WritePosts
    <2>5. Writes'
      <3> SUFFICES ASSUME NEW w \in Posted'
                   PROVE  \/ \E n \in 1 .. Len(queue') : queue'[n] = w
                          \/ item'[Main] = w \/ item'[Chan] = w
        BY DEF Writes
      <3>1. CASE w = b
        BY <2>1, <2>3, <3>1, InAppend
      <3>2. CASE w # b
        <4>1. w \in Posted
          BY <2>3, <3>2 DEF Posted
        <4>2. CASE \E n \in 1 .. Len(queue) : queue[n] = w
          BY <2>1, <2>3, <4>2, InAppend
        <4>3. CASE item[Main] = w \/ item[Chan] = w
          BY <2>2, <4>3
        <4>4. QED
          BY <2>1, <4>1, <4>2, <4>3 DEF Writes
      <3>3. QED
        BY <3>1, <3>2
    <2>6. mpc \notin {"joinchan", "free", "end"} => queue' \in Seq(Write)
      BY <2>1, <2>3 DEF Emptying
    <2>7. Ending => ~connected
      BY DEF Emptying
    <2>8. \A w \in Write : w # b => owner'[w] = owner[w] /\ (w \in late' <=> w \in late)
      BY <2>3
    <2>9. ~connected => b \in late'
      BY <2>3
    <2>10. owner'[b] = p
      BY <2>1, <2>3
    <2>11. Emptying'
      BY <2>1, <2>2, <2>6, <2>7, <2>8, <2>9 DEF Emptying, Ending, Tells, Posted
    <2>12. CompletedBeforeDisconnected'
      BY <2>1, <2>2, <2>8, <2>10 DEF CompletedBeforeDisconnected
    <2>13. (Kinds /\ Opened /\ Connecting)'
      BY <2>2, <2>4 DEF Kinds, Opened, Connecting, Ending, Tells
    <2>14. QED
      BY <2>5, <2>11, <2>12, <2>13
  <1>3. CASE ThreadQuits(p)
    <2>1. UNCHANGED <<mpc, after, todo, cpc, client, connected, queue, item, owner, late, flags, matched>>
      BY <1>3 DEF ThreadQuits, writeVars
    <2>2. \A q \in Plugin : thread'[q] = "none" <=> thread[q] = "none"
      BY <1>3 DEF ThreadQuits
    <2>3. QED
      BY <2>1, <2>2 DEF Kinds, Opened, Connecting, Writes, Posted, Emptying, Ending, Tells,
                        CompletedBeforeDisconnected
  <1>4. QED
    BY <1>1, <1>2, <1>3 DEF PluginNext

\* The channel thread completes writes of plug-ins that are told of nothing.
LEMMA ChanTold ==
    ASSUME ChannelsInv, ChanWakes \/ ChanProcesses
    PROVE  Told'
  <1> USE DEF ChannelsInv, TypeOK, Told
  <1>1. UNCHANGED <<mpc, after, todo, client, connected, flags, matched, thread>>
    BY DEF ChanWakes, ChanProcesses, pluginVars
  <1>2. cpc # "none" /\ cpc' # "none" /\ ~Ending
    BY DEF ChanWakes, ChanProcesses, Kinds
  <1>3. Opened' /\ Connecting' /\ Kinds'
    BY <1>1, <1>2 DEF Opened, Connecting, Kinds, Ending, Tells
  <1>4. CASE ChanWakes
    BY <1>1, <1>2, <1>3, <1>4
       DEF ChanWakes, writeVars, Writes, Posted, Emptying, Ending, Tells,
           CompletedBeforeDisconnected
  <1>5. CASE ChanProcesses
    <2>1. Processes(Chan) \/ Emptied(Chan)
      BY <1>5 DEF ChanProcesses
    <2>2. mpc # "end" => Writes'
      BY <2>1, ProcessWrites
    <2>3. item'[Main] = item[Main] /\ (queue' = queue \/ (queue # <<>> /\ queue' = Tail(queue)))
      BY <2>1, ChannelsAssumption DEF Processes, Take, Complete, Emptied
    <2>q. queue \in Seq(Write) => queue' \in Seq(Write)
      <3>1. queue \in Seq(Write) /\ queue # <<>> => Tail(queue) \in Seq(Write)
        OBVIOUS
      <3>2. QED
        BY <2>3, <3>1
    <2>4. Emptying'
      BY <1>1, <1>2, <2>3, <2>q DEF Emptying, Ending, Tells
    <2>5. \A w \in Posted' : owner'[w] = owner[w] /\ (w \in late' => w \in late)
                             /\ (w \in late => w \in late')
      BY <2>1 DEF Processes, Take, Complete, Emptied, Posted
    <2>6. CompletedBeforeDisconnected'
      BY <1>1, <2>5 DEF CompletedBeforeDisconnected, Posted
    <2>7. QED
      BY <1>1, <1>3, <2>2, <2>4, <2>6
  <1>6. QED
    BY <1>4, <1>5

\* The main thread takes a write or finds the queue empty: when it goes on to tell
\* the plug-ins nothing that was accepted while connected is under way.
LEMMA MainProcessesTold ==
    ASSUME ChannelsInv, MainProcesses
    PROVE  Told'
  <1> USE DEF ChannelsInv, TypeOK, Told
  <1>1. UNCHANGED <<after, todo, client, cpc, connected, flags, matched, thread>> /\ mpc = "drain"
    BY DEF MainProcesses, pluginVars
  <1>2. Processes(Main) \/ Emptied(Main)
    BY DEF MainProcesses
  <1>3. Writes'
    BY <1>1, <1>2, ProcessWrites
  <1>4. \A w \in Posted' : owner'[w] = owner[w] /\ (w \in late => w \in late')
    BY <1>2 DEF Processes, Take, Complete, Emptied, Posted
  <1>5. CompletedBeforeDisconnected'
    BY <1>1, <1>4 DEF CompletedBeforeDisconnected, Posted
  <1>6. item'[Chan] = item[Chan]
    BY <1>2, ChannelsAssumption DEF Processes, Take, Complete, Emptied
  <1>7. Opened'
    BY <1>1 DEF Opened
  <1>8. CASE Processes(Main) /\ UNCHANGED mpc
    <2>1. queue' = queue \/ (queue # <<>> /\ queue' = Tail(queue))
      BY <1>8 DEF Processes, Take, Complete
    <2>q. queue' \in Seq(Write)
      <3>1. queue \in Seq(Write)
        BY <1>1 DEF Emptying
      <3>2. queue # <<>> => Tail(queue) \in Seq(Write)
        BY <3>1
      <3>3. QED
        BY <2>1, <3>1, <3>2
    <2>2. Emptying'
      BY <1>1, <1>8, <2>q DEF Emptying, Ending, Tells
    <2>3. Kinds' /\ Connecting'
      BY <1>1, <1>6, <1>8 DEF Kinds, Connecting, Ending, Tells
    <2>4. QED
      BY <1>3, <1>5, <1>7, <2>2, <2>3
  <1>9. CASE Emptied(Main) /\ mpc' = after
    <2>1. queue = <<>> /\ queue' = <<>>
      BY <1>1, <1>9, ChannelsAssumption DEF Emptied, Emptying
    <2>2. item' = item /\ owner' = owner /\ item[Main] = None
      BY <1>9 DEF Emptied
    <2>3. Kinds' /\ Connecting'
      BY <1>1, <1>6, <1>9 DEF Kinds, Connecting, Ending, Tells, After
    <2>4. Tells' => Posted' = {}
      BY <1>1, <1>9, <1>3, <2>1, <2>2, <2>3, ChannelsAssumption
         DEF Kinds, Ending, Tells, Writes, Posted
    <2>5. Emptying'
      BY <1>1, <1>9, <2>1, <2>2, <2>4 DEF Emptying, Ending, Tells
    <2>6. QED
      BY <1>3, <1>5, <1>7, <2>3, <2>5
  <1>10. QED
    BY <1>8, <1>9 DEF MainProcesses

\* The main thread looks at the queue: in its loop, on a disconnection and when it
\* closes the channels.
LEMMA LooksTold ==
    ASSUME ChannelsInv, CheckFds \/ Disconnect \/ LeavesLoop \/ Close
    PROVE  Told'
  <1> USE DEF ChannelsInv, TypeOK, Told
  <1>1. UNCHANGED <<client, cpc, queue, item, owner, late, flags, matched, thread>>
    BY DEF CheckFds, Disconnect, LeavesLoop, Close, pluginVars, writeVars
  <1>2. Opened' /\ CompletedBeforeDisconnected' /\ Writes'
    BY <1>1 DEF Opened, CompletedBeforeDisconnected, Writes, Posted, CheckFds, Disconnect,
                LeavesLoop, Close
  <1>3. CASE CheckFds
    BY <1>1, <1>2, <1>3 DEF CheckFds, ChecksFds, Kinds, Connecting, Emptying, Ending, Tells
  <1>4. CASE Disconnect
    <2>1. queue = <<>> /\ client.disconnects => Posted = {}
      BY <1>4, ChannelsAssumption DEF Disconnect, Kinds, Emptying, Writes, Posted
    <2>2. QED
      BY <1>1, <1>2, <1>4, <2>1
         DEF Disconnect, Disconnecting, ChecksFds, Kinds, Connecting, Emptying, Ending, Tells,
             Posted
  <1>5. CASE LeavesLoop
    BY <1>1, <1>2, <1>5 DEF LeavesLoop, Kinds, Connecting, Emptying, Ending, Tells
  <1>6. CASE Close
    BY <1>1, <1>2, <1>6 DEF Close, ChecksFds, Kinds, Connecting, Emptying, Ending, Tells
  <1>7. QED
    BY <1>3, <1>4, <1>5, <1>6

\* The plug-ins are connected one after the other, or told to quit, joined and
\* closed: there is nothing left to complete for one that forgets its handle.
LEMMA PluginsTold ==
    ASSUME OneTaker, ChannelsInv, PostConnect \/ TellsQuit \/ Joins \/ Disconnected
    PROVE  Told'
  <1> USE DEF ChannelsInv, TypeOK, Told
  <1>1. UNCHANGED <<client, queue, item, owner, late>>
    BY DEF PostConnect, TellsQuit, Joins, Disconnected, writeVars
  <1>2. Writes'
    BY <1>1 DEF Writes, Posted, PostConnect, TellsQuit, Joins, Disconnected
  <1>3. CASE PostConnect
    <2>1. CASE todo = {}
      <3>1. client.disconnects => ~client.async
        BY DEF OneTaker
      <3>2. QED
        BY <1>1, <1>2, <1>3, <2>1, <3>1
           DEF PostConnect, pluginVars, Opened, Kinds, Connecting, Emptying, Ending, Tells,
               Posted, CompletedBeforeDisconnected
    <2>2. CASE todo # {}
      <3>1. PICK p \in todo : Connects(p) /\ todo' = todo \ {p}
                              /\ UNCHANGED <<mpc, cpc, buffer, terminated>>
        BY <1>3, <2>2 DEF PostConnect
      <3>2. Opened'
        BY <3>1 DEF Connects, Opened
      <3>3. Kinds' /\ Connecting' /\ Emptying' /\ CompletedBeforeDisconnected'
        BY <1>1, <1>3, <3>1
           DEF PostConnect, Connects, Kinds, Connecting, Emptying, Ending, Tells, Posted,
               CompletedBeforeDisconnected
      <3>4. QED
        BY <1>2, <3>2, <3>3
    <2>3. QED
      BY <2>1, <2>2
  <1>4. CASE TellsQuit
    BY <1>1, <1>2, <1>4
       DEF TellsQuit, Opened, Kinds, Connecting, Emptying, Ending, Tells, Posted,
           CompletedBeforeDisconnected
  <1>5. CASE Joins
    <2>1. PICK p \in todo : CloseChannel(p) /\ thread' = [thread EXCEPT ![p] = "none"]
                            /\ todo' = todo \ {p}
      BY <1>5 DEF Joins
    <2>2. Opened'
      BY <2>1 DEF CloseChannel, Opened
    <2>3. Kinds' /\ Connecting' /\ Emptying'
      BY <1>1, <1>5, <2>1
         DEF Joins, CloseChannel, Kinds, Connecting, Emptying, Ending, Tells, Posted
    <2>4. CompletedBeforeDisconnected'
      BY <1>1, <1>5, <2>1 DEF Joins, Emptying, Tells, Posted, CompletedBeforeDisconnected
    <2>5. QED
      BY <1>2, <2>2, <2>3, <2>4
  <1>6. CASE Disconnected
    BY <1>1, <1>2, <1>6
       DEF Disconnected, pluginVars, Opened, Kinds, Connecting, Emptying, Ending, Tells, Posted,
           CompletedBeforeDisconnected
  <1>7. QED
    BY <1>3, <1>4, <1>5, <1>6

\* The end of the channel manager.
LEMMA EndTold ==
    ASSUME ChannelsInv, Terminate \/ JoinsChan \/ Free \/ UNCHANGED vars
    PROVE  Told'
  <1> USE DEF ChannelsInv, TypeOK, Told
  <1>1. UNCHANGED <<client, cpc, item, owner, late, flags, matched, thread, connected>>
    BY DEF Terminate, JoinsChan, Free, vars, writeVars, pluginVars
  <1>2. Opened' /\ CompletedBeforeDisconnected'
    BY <1>1 DEF Opened, CompletedBeforeDisconnected
  <1>3. CASE Terminate
    <2>1. Writes'
      <3>1. CASE UNCHANGED queue
        BY <1>1, <1>3, <3>1 DEF Terminate, Writes, Posted
      <3>2. CASE queue' = Append(queue, Quit)
        <4>1. \A w \in Posted : (\E n \in 1 .. Len(queue) : queue[n] = w) =>
                                (\E n \in 1 .. Len(queue') : queue'[n] = w)
          BY <3>2, InAppend
        <4>2. QED
          BY <1>1, <1>3, <4>1 DEF Terminate, Writes, Posted
      <3>3. QED
        BY <1>3, <3>1, <3>2 DEF Terminate
    <2>2. QED
      BY <1>1, <1>2, <1>3, <2>1 DEF Terminate, Kinds, Connecting, Emptying, Ending, Tells, Posted
  <1>4. CASE JoinsChan
    BY <1>1, <1>2, <1>4
       DEF JoinsChan, writeVars, Kinds, Connecting, Writes, Posted, Emptying, Ending, Tells
  <1>5. CASE Free
    BY <1>1, <1>2, <1>5 DEF Free, Kinds, Connecting, Posted, Emptying, Ending, Tells
  <1>6. CASE UNCHANGED vars
    BY <1>1, <1>2, <1>6 DEF vars, Kinds, Connecting, Writes, Posted, Emptying, Ending, Tells
  <1>7. QED
    BY <1>3, <1>4, <1>5, <1>6

\* Where every write that is under way is to be found, in every state of a client
\* that processes the queue in one thread when it disconnects.
THEOREM ChannelsInvariance == ASSUME OneTaker PROVE Spec => []ChannelsInv
  <1>1. Init => ChannelsInv
    BY ChannelsAssumption
       DEF Init, ChannelsInv, TypeOK, Buffers, Told, Kinds, Opened, Connecting, Writes, Posted,
           Emptying, Ending, Tells, CompletedBeforeDisconnected, After
  <1>2. ChannelsInv /\ [Next]_vars => ChannelsInv'
    BY Types, PluginTold, ChanTold, MainProcessesTold, LooksTold, PluginsTold, EndTold
       DEF Next, MainNext, ChannelsInv
  <1>3. QED
    BY <1>1, <1>2, PTL DEF Spec

\* The variables of StaticChannels have their types, whichever client it is: no
\* quit message is ever taken for a write.
THEOREM ChannelTypes == Spec => []TypeOK
  <1>1. Init => TypeOK /\ Buffers
    BY DEF Init, TypeOK, Buffers, After
  <1>2. QED
    BY <1>1, Types, PTL DEF Spec

\* A write that was accepted while connected is completed before its plug-in is
\* told of the disconnection, for any number of plug-ins, writes and reconnections.
THEOREM WritesCompleted == ASSUME OneTaker PROVE Spec => []CompletedBeforeDisconnected
  <1>1. ChannelsInv => CompletedBeforeDisconnected
    BY DEF ChannelsInv, Told
  <1>2. QED
    BY <1>1, ChannelsInvariance, PTL

\* After every connection each plug-in has its channel open and its thread running.
THEOREM ChannelsOpen == ASSUME OneTaker PROVE Spec => []AllOpenWhenConnected
  <1>1. ChannelsInv => AllOpenWhenConnected
    BY DEF ChannelsInv, Told, Opened, Connecting, AllOpenWhenConnected
  <1>2. QED
    BY <1>1, ChannelsInvariance, PTL
-----------------------------------------------------------------------------
(* The end of the plug-ins. *)

\* A plug-in's thread neither starts nor ends another one, and has left when it was
\* joined.
LEMMA PluginJoined ==
    ASSUME TypeOK, Joined, NEW p \in Plugin, PluginNext(p)
    PROVE  Joined'
  <1>1. UNCHANGED <<client, terminated, mpc, after, todo>>
    BY DEF PluginNext, WriteTests, WritePosts, ThreadQuits, writeVars
  <1>2. \A q \in Plugin : thread[q] = "none" => thread'[q] = "none"
    BY DEF TypeOK, PluginNext, WriteTests, WritePosts, ThreadQuits
  <1>3. QED
    BY <1>1, <1>2 DEF Joined, Ending, Tells, Shuts

\* The main thread and the channel thread process the queue, and the main thread comes
\* out of it where it was to go on.
LEMMA ProcessJoined ==
    ASSUME TypeOK, Joined, ChanWakes \/ ChanProcesses \/ MainProcesses
    PROVE  Joined'
  <1>1. UNCHANGED <<client, terminated, after, todo, thread>>
    BY DEF ChanWakes, ChanProcesses, MainProcesses, pluginVars
  <1>2. UNCHANGED mpc \/ (mpc = "drain" /\ mpc' = after)
    BY DEF ChanWakes, ChanProcesses, MainProcesses
  <1>3. QED
    BY <1>1, <1>2 DEF TypeOK, After, Joined, Ending, Tells, Shuts

\* The plug-ins are connected, told and joined: the channels are closed when the last
\* one is.
LEMMA TellingJoined ==
    ASSUME TypeOK, Joined, PostConnect \/ TellsQuit \/ Joins \/ Disconnected
    PROVE  Joined'
  <1> USE DEF TypeOK, Joined, Ending, Tells, Shuts
  <1>1. UNCHANGED <<client, terminated>>
    BY DEF PostConnect, Connects, TellsQuit, Joins, Disconnected, pluginVars
  <1>2. CASE PostConnect
    BY <1>1, <1>2 DEF PostConnect
  <1>3. CASE TellsQuit
    BY <1>1, <1>3 DEF TellsQuit
  <1>4. CASE Joins
    <2>1. PICK p \in todo : thread' = [thread EXCEPT ![p] = "none"] /\ todo' = todo \ {p}
      BY <1>4 DEF Joins
    <2>2. \A q \in Plugin \ todo' : thread'[q] = "none"
      BY <1>4, <2>1 DEF Joins
    <2>3. QED
      BY <1>1, <1>4, <2>2 DEF Joins
  <1>5. CASE Disconnected
    BY <1>1, <1>5 DEF Disconnected, pluginVars
  <1>6. QED
    BY <1>2, <1>3, <1>4, <1>5

\* The main thread looks at the queue, leaves its loop and closes the channels; only
\* then a plug-in frees itself.
LEMMA ClosingJoined ==
    ASSUME TypeOK, Joined,
           \/ CheckFds \/ Disconnect \/ LeavesLoop \/ Close
           \/ Terminate \/ JoinsChan \/ Free
    PROVE  Joined'
  <1> USE DEF TypeOK, Joined, Ending, Tells, Shuts, writeVars, pluginVars
  <1>1. CASE CheckFds \/ Disconnect
    BY <1>1 DEF CheckFds, Disconnect, Disconnecting, ChecksFds
  <1>2. CASE LeavesLoop \/ Close
    BY <1>2 DEF LeavesLoop, Close, ChecksFds
  <1>3. CASE Terminate
    BY <1>3 DEF Terminate
  <1>4. CASE JoinsChan \/ Free
    BY <1>4 DEF JoinsChan, Free
  <1>5. QED
    BY <1>1, <1>2, <1>3, <1>4

\* Every thread of a plug-in has been joined when a client that disconnects closes its
\* channels, whichever threads take the writes.
LEMMA JoinedInvariance == Spec => []Joined
  <1>1. Init => Joined
    BY DEF Init, Joined, Ending, Tells, Shuts
  <1>2. TypeOK /\ Joined /\ [Next]_vars => Joined'
    <2>1. ASSUME TypeOK, Joined, UNCHANGED vars PROVE Joined'
      BY <2>1 DEF vars, Joined, Ending, Tells, Shuts
    <2>2. QED
      BY <2>1, PluginJoined, ProcessJoined, TellingJoined, ClosingJoined DEF Next, MainNext
  <1>3. QED
    BY <1>1, <1>2, ChannelTypes, PTL DEF Spec

\* Once the first plug-in of a client that disconnects has freed itself
\* (CHANNEL_EVENT_TERMINATED) none of their threads runs, and no write is left to be
\* completed, whose WRITE_COMPLETE would call a plug-in that is gone.
THEOREM NothingLeft == ASSUME OneTaker PROVE Spec => []NothingAfterTerminated
  <1>1. ChannelsInv /\ Joined => NothingAfterTerminated
    <2> SUFFICES ASSUME ChannelsInv, Joined, client.disconnects, NEW p \in terminated
                 PROVE  /\ thread[p] = "none"
                        /\ \A t \in {Main, Chan} : item[t] # None => owner[item[t]] # p
      BY DEF NothingAfterTerminated
    <2>1. mpc \in {"terminate", "joinchan", "free", "end"} /\ p \in Plugin
      BY DEF Joined, ChannelsInv, TypeOK
    <2>2. thread[p] = "none"
      BY <2>1 DEF Joined, Shuts
    <2>3. item[Main] = None /\ item[Chan] = None
      BY <2>1 DEF ChannelsInv, Told, Emptying, Kinds
    <2>4. QED
      BY <2>2, <2>3
  <1>2. QED
    BY <1>1, ChannelsInvariance, JoinedInvariance, PTL
=============================================================================
