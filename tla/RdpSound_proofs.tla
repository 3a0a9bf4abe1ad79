--------------------------- MODULE RdpSound_proofs ---------------------------
(***************************************************************************)
(* Proofs about RdpSound, for any number of waves, connections and queued  *)
(* PDUs: the server hears of the waves in the order they were played.      *)
(*                                                                         *)
(* The schedule thread lags behind: between the waves it has confirmed and *)
(* those the client thread has played lies the one it sleeps for, if any,  *)
(* and then those of its queue, up to the quit message.  A device that     *)
(* calls back lags behind in the same way, with those it has still to play *)
(* to the end; they are dropped when the connection ends.                  *)
(***************************************************************************)
EXTENDS RdpSound, TLAPS, SequenceTheorems

\* A WaveInfo names its wave, on its way to the client thread and after it.
Named ==
  /\ data_in # None /\ data_in.kind = "info" => data_in.wave \in Wave
  /\ \A n \in 1 .. Len(in) : in[n].kind = "info" => in[n].wave \in Wave
  /\ expectingWave => cBlockNo \in Wave

\* What is confirmed was played at the same place.
Heard ==
  /\ Len(confirmed) <= Len(played)
  /\ \A n \in 1 .. Len(confirmed) : confirmed[n] = played[n]

\* The waves the schedule thread has dealt with or sleeps for.
Ahead == Len(confirmed) + (IF spc = "sleep" THEN 1 ELSE 0)

BeforeQuit(n) == \A m \in 1 .. n : out[m] # Quit

Lagging ==
  /\ spc = "sleep" => Len(confirmed) < Len(played) /\ sleeping = played[Len(confirmed) + 1]
  /\ \A n \in 1 .. Len(out) : BeforeQuit(n) =>
        Ahead + n <= Len(played) /\ out[n].wave = played[Ahead + n]
  /\ BeforeQuit(Len(out)) => Len(played) = Ahead + Len(out)

Sounding ==
  /\ Len(played) = Len(confirmed) + Len(playing)
  /\ \A n \in 1 .. Len(playing) : playing[n] = played[Len(confirmed) + n]

ByDevice ==
  /\ device = "none" => confirmed = played
  /\ device = "callback" /\ cpc # "none" => Sounding
  /\ device # "callback" \/ cpc = "none" => playing = <<>>
  /\ mpc = "down" => cpc = "none"
  /\ device # "thread" => spc = "none"

SoundInv ==
  /\ TypeOK /\ Named /\ Heard /\ ByDevice
  /\ spc \in {"wait", "sleep"} => cpc # "exited" /\ Lagging

LEMMA SoundInit == Init => SoundInv
<1> SUFFICES ASSUME Init PROVE SoundInv
  OBVIOUS
<1>1. TypeOK
  <2>1. /\ in = <<>> /\ out = <<>> /\ played = <<>> /\ confirmed = <<>> /\ playing = <<>>
        /\ stop = FALSE /\ ClientFormats = FALSE /\ expectingWave = FALSE /\ isOpen = FALSE
    BY DEF Init
  <2>2. /\ in \in Seq(PDU) /\ out \in Seq(PDU)
        /\ played \in Seq(Wave) /\ confirmed \in Seq(Wave) /\ playing \in Seq(Wave)
        /\ stop \in BOOLEAN /\ ClientFormats \in BOOLEAN
        /\ expectingWave \in BOOLEAN /\ isOpen \in BOOLEAN
    <3>1. /\ stop \in BOOLEAN /\ ClientFormats \in BOOLEAN
          /\ expectingWave \in BOOLEAN /\ isOpen \in BOOLEAN
      BY <2>1, Zenon
    <3>2. /\ in \in Seq(PDU) /\ out \in Seq(PDU)
          /\ played \in Seq(Wave) /\ confirmed \in Seq(Wave) /\ playing \in Seq(Wave)
      BY <2>1, EmptySeq
    <3> QED BY <3>1, <3>2
  <2>3. /\ device \in {"none", "callback", "thread"} /\ mpc = "down" /\ connections \in 0 .. MaxConnections
        /\ due = "formats" /\ fresh = Wave /\ data_in = None /\ cpc = "none" /\ spc = "none"
        /\ sleeping = None /\ cBlockNo = None
    BY SoundAssumption DEF Init
  <2> QED BY <2>2, <2>3 DEF TypeOK
<1> QED BY <1>1 DEF Init, SoundInv, Named, Heard, ByDevice

\* The steps that concern neither what is played nor the schedule thread.
LEMMA LinkSteps ==
  ASSUME SoundInv, FirstChunk \/ LastChunk \/ Formats \/ Training \/ Close \/ WaveInfo
  PROVE  SoundInv'
<1> USE DEF SoundInv, TypeOK, linkVars, soundVars
<1>1. UNCHANGED <<device, mpc, out, cpc, spc, sleeping, playing, played, confirmed>>
  BY DEF FirstChunk, LastChunk, Formats, Training, Close, WaveInfo
<1>2. TypeOK' /\ Named'
  <2>1. CASE FirstChunk
    <3>1. PICK k \in Kinds, w \in Wave \cup {None} : Sends(k, w) /\ data_in' = Pdu(k, w)
      BY <2>1 DEF FirstChunk
    <3>2. /\ due' \in {"formats", "any"} \cup Wave /\ fresh' \subseteq Wave
          /\ data_in' \in PDU
          /\ data_in'.kind = "info" => data_in'.wave \in Wave
      BY <3>1 DEF Sends, Pdu, PDU
    <3> QED BY <2>1, <3>2 DEF FirstChunk, Named
  <2>2. CASE LastChunk
    <3>1. /\ data_in \in PDU /\ in' = Append(in, data_in) /\ data_in' = None
      BY <2>2 DEF LastChunk
    <3>2. /\ in' \in Seq(PDU)
          /\ \A n \in 1 .. Len(in') : in'[n] = data_in \/ (n \in 1 .. Len(in) /\ in'[n] = in[n])
      <4>1. /\ in' \in Seq(PDU) /\ Len(in') = Len(in) + 1
            /\ \A n \in 1 .. Len(in) : in'[n] = in[n]
            /\ in'[Len(in) + 1] = data_in
        BY <3>1, AppendProperties
      <4>2. Len(in) \in Nat
        BY LenProperties
      <4> QED BY <4>1, <4>2
    <3> QED BY <2>2, <3>1, <3>2 DEF LastChunk, Named
  <2>3. CASE Formats \/ Training \/ Close \/ WaveInfo
    <3>1. in \in Seq(PDU) /\ in # <<>> /\ in' = Tail(in)
      BY <2>3 DEF Formats, Training, Close, WaveInfo, ByType, Receives
    <3>2. /\ in' \in Seq(PDU) /\ \A n \in 1 .. Len(in') : n + 1 \in 1 .. Len(in) /\ in'[n] = in[n + 1]
          /\ Head(in) = in[1] /\ 1 \in 1 .. Len(in) /\ in[1] \in PDU
      BY <3>1
    <3>3. \A n \in 1 .. Len(in') : in'[n].kind = "info" => in'[n].wave \in Wave
      BY <3>2 DEF Named
    <3>4. cBlockNo' \in Wave \cup {None} /\ Named'
      <4>1. CASE WaveInfo
        <5>1. cBlockNo' \in Wave
          BY <3>2, <4>1 DEF WaveInfo, ByType, Receives, Named
        <5> QED BY <3>3, <4>1, <5>1 DEF WaveInfo, Named
      <4>2. CASE Formats
        BY <3>3, <4>2 DEF Formats, ByType, Named
      <4>3. CASE Training \/ Close
        BY <3>3, <4>3 DEF Training, Close, Named
      <4> QED BY <2>3, <4>1, <4>2, <4>3
    <3>5. /\ stop' \in BOOLEAN /\ ClientFormats' \in BOOLEAN
          /\ expectingWave' \in BOOLEAN /\ isOpen' \in BOOLEAN
      BY <2>3, Zenon DEF Formats, Training, Close, WaveInfo
    <3>6. UNCHANGED <<device, mpc, connections, due, fresh, data_in, out, cpc, spc, sleeping,
                      playing, played, confirmed>>
      BY <2>3 DEF Formats, Training, Close, WaveInfo
    <3> QED BY <3>2, <3>4, <3>5, <3>6
  <2> QED BY <2>1, <2>2, <2>3
<1>3. Heard' /\ (Lagging => Lagging') /\ ByDevice'
  BY <1>1 DEF Heard, Lagging, Ahead, BeforeQuit, ByDevice, Sounding
<1> QED BY <1>1, <1>2, <1>3

\* The client thread plays a wave, and confirms it or queues it.
LEMMA WaveStep ==
  ASSUME SoundInv, WavePdu
  PROVE  SoundInv'
<1> USE DEF SoundInv, TypeOK, linkVars, soundVars
<1>1. /\ cBlockNo \in Wave /\ in \in Seq(PDU) /\ in # <<>> /\ in' = Tail(in)
      /\ ~expectingWave' /\ expectingWave' \in BOOLEAN
      /\ UNCHANGED <<device, connections, due, fresh, data_in, sleeping, stop,
                     ClientFormats, isOpen, cBlockNo>>
  <2>1. expectingWave' = FALSE
    BY DEF WavePdu
  <2>2. ~expectingWave' /\ expectingWave' \in BOOLEAN
    BY <2>1, Zenon
  <2> QED BY <2>2 DEF WavePdu, Receives, Named
<1>2. in' \in Seq(PDU) /\ \A n \in 1 .. Len(in') : n + 1 \in 1 .. Len(in) /\ in'[n] = in[n + 1]
  BY <1>1
<1>3. Named'
  <2>1. \A n \in 1 .. Len(in') : in'[n].kind = "info" => in'[n].wave \in Wave
    BY <1>2 DEF Named
  <2> QED BY <1>1, <2>1 DEF Named
<1>4. CASE ~ClientFormats
  <2>1. /\ cpc' = "crashed" /\ mpc' = "crashed" /\ spc' = "none"
        /\ UNCHANGED <<played, confirmed, playing, out>> /\ cpc = "run"
    BY <1>4 DEF WavePdu, Receives
  <2>2. TypeOK' /\ Heard' /\ ByDevice'
    BY <1>1, <1>2, <2>1 DEF Heard, ByDevice, Sounding
  <2> QED BY <1>1, <1>3, <2>1, <2>2
<1>5. CASE ClientFormats
  <2>1. /\ played' = Append(played, cBlockNo) /\ Confirms /\ UNCHANGED <<cpc, mpc, spc>>
        /\ cpc = "run"
    BY <1>5 DEF WavePdu, Receives
  <2>2. /\ played' \in Seq(Wave) /\ Len(played') = Len(played) + 1
        /\ \A n \in 1 .. Len(played) : played'[n] = played[n]
        /\ played'[Len(played) + 1] = cBlockNo
    BY <1>1, <2>1, AppendProperties
  <2>3. CASE device = "none"
    <3>1. confirmed' = played' /\ UNCHANGED <<out, playing>>
      BY <2>1, <2>3 DEF Confirms, ByDevice
    <3>2. TypeOK' /\ Heard' /\ ByDevice'
      BY <1>1, <1>2, <2>1, <2>2, <2>3, <3>1 DEF Heard, ByDevice
    <3>3. spc' = "none"
      BY <2>1, <2>3 DEF ByDevice
    <3> QED BY <1>1, <1>3, <2>1, <2>3, <3>2, <3>3
  <2>5. CASE device = "callback"
    <3>1. playing' = Append(playing, cBlockNo) /\ UNCHANGED <<out, confirmed>>
      BY <2>1, <2>5 DEF Confirms
    <3>2. /\ playing' \in Seq(Wave) /\ Len(playing') = Len(playing) + 1
          /\ \A n \in 1 .. Len(playing) : playing'[n] = playing[n]
          /\ playing'[Len(playing) + 1] = cBlockNo
      BY <1>1, <3>1, AppendProperties
    <3>3. Sounding'
      <4>1. Sounding /\ Len(playing) \in Nat /\ Len(confirmed) \in Nat
        BY <2>1, <2>5, LenProperties DEF ByDevice
      <4>2. ASSUME NEW n \in 1 .. Len(playing') PROVE playing'[n] = played'[Len(confirmed') + n]
        <5>1. CASE n \in 1 .. Len(playing)
          <6>1. playing'[n] = played[Len(confirmed) + n]
            BY <3>2, <4>1, <5>1 DEF Sounding
          <6>2. Len(confirmed) + n \in 1 .. Len(played)
            BY <4>1, <5>1 DEF Sounding
          <6> QED BY <2>2, <3>1, <6>1, <6>2
        <5>2. CASE n = Len(playing) + 1
          BY <2>2, <3>1, <3>2, <4>1, <5>2 DEF Sounding
        <5> QED BY <3>2, <4>1, <5>1, <5>2
      <4> QED BY <2>2, <3>1, <3>2, <4>1, <4>2 DEF Sounding
    <3>4. TypeOK' /\ Heard'
      BY <1>1, <1>2, <2>1, <2>2, <3>1, <3>2 DEF Heard
    <3>5. ByDevice' /\ spc' = "none"
      BY <1>1, <2>1, <2>5, <3>3 DEF ByDevice
    <3> QED BY <1>1, <1>3, <2>1, <3>4, <3>5
  <2>4. CASE device = "thread"
    <3> DEFINE new == Pdu("wave", cBlockNo)
    <3>1. out' = Append(out, new) /\ UNCHANGED <<confirmed, playing>>
      BY <2>1, <2>4 DEF Confirms
    <3>2. new \in PDU /\ new # Quit /\ new.wave = cBlockNo
      BY <1>1 DEF PDU, Pdu, Kinds, Quit
    <3> HIDE DEF new
    <3>3. /\ out' \in Seq(PDU) /\ Len(out') = Len(out) + 1
          /\ \A n \in 1 .. Len(out) : out'[n] = out[n]
          /\ out'[Len(out) + 1] = new
      BY <3>1, <3>2, AppendProperties
    <3>4. TypeOK' /\ Heard'
      BY <1>1, <1>2, <2>1, <2>2, <3>1, <3>3 DEF Heard
    <3>5. Lagging => Lagging'
      <4> SUFFICES ASSUME Lagging PROVE Lagging'
        OBVIOUS
      <4>1. Ahead' = Ahead /\ Ahead \in Nat
        BY <2>1, <3>1 DEF Ahead
      <4>2. \A n \in 1 .. Len(out) : BeforeQuit(n)' => BeforeQuit(n)
        <5> SUFFICES ASSUME NEW n \in 1 .. Len(out), BeforeQuit(n)', NEW m \in 1 .. n
                     PROVE  out[m] # Quit
          BY DEF BeforeQuit
        <5>1. m \in 1 .. Len(out)
          BY LenProperties
        <5> QED BY <5>1, <3>3 DEF BeforeQuit
      <4>3. (\A m \in 1 .. Len(out) + 1 : out'[m] # Quit) => BeforeQuit(Len(out))
        BY <3>3 DEF BeforeQuit
      <4>4. ASSUME NEW n \in 1 .. Len(out'), BeforeQuit(n)'
            PROVE  Ahead' + n <= Len(played') /\ out'[n].wave = played'[Ahead' + n]
        <5>1. CASE n \in 1 .. Len(out)
          BY <4>1, <4>2, <4>4, <5>1, <2>2, <3>3 DEF Lagging
        <5>2. CASE n = Len(out) + 1
          <6>1. Len(played) = Ahead + Len(out)
            <7>1. \A m \in 1 .. Len(out) + 1 : out'[m] # Quit
              BY <4>4, <5>2, <3>3 DEF BeforeQuit
            <7> QED BY <4>3, <7>1 DEF Lagging
          <6> QED BY <4>1, <5>2, <6>1, <2>2, <3>2, <3>3
        <5> QED BY <5>1, <5>2, <3>3
      <4>5. BeforeQuit(Len(out))' => Len(played') = Ahead' + Len(out')
        <5> SUFFICES ASSUME BeforeQuit(Len(out))' PROVE Len(played') = Ahead' + Len(out')
          OBVIOUS
        <5>1. Len(out)' = Len(out) + 1
          BY <3>3
        <5>2. BeforeQuit(Len(out))
          BY <5>1, <3>3 DEF BeforeQuit
        <5> QED BY <5>2, <4>1, <2>2, <3>3 DEF Lagging
      <4>6. spc' = "sleep" => /\ Len(confirmed') < Len(played')
                             /\ sleeping' = played'[Len(confirmed') + 1]
        BY <1>1, <2>1, <2>2, <3>1 DEF Lagging
      <4> QED BY <4>4, <4>5, <4>6 DEF Lagging
    <3>6. ByDevice'
      BY <1>1, <2>1, <2>4, <3>1 DEF ByDevice
    <3> QED BY <1>1, <1>3, <2>1, <2>4, <3>4, <3>5, <3>6
  <2> QED BY <2>3, <2>4, <2>5
<1> QED BY <1>4, <1>5

\* The schedule thread takes the next wave, or ends.
LEMMA ScheduleStep ==
  ASSUME SoundInv, Schedule
  PROVE  SoundInv'
<1> USE DEF SoundInv, TypeOK, linkVars, soundVars
<1>1. /\ UNCHANGED <<device, mpc, connections, due, fresh, data_in, in, cpc, playing, stop>>
      /\ UNCHANGED <<ClientFormats, expectingWave, isOpen, cBlockNo, played, confirmed>>
      /\ spc = "wait" /\ Lagging
  BY DEF Schedule
<1>2. Named' /\ Heard' /\ ByDevice'
  BY <1>1 DEF Named, Heard, ByDevice, Sounding
<1>3. CASE spc' = "exited" /\ sleeping' = sleeping /\ (out' = Tail(out) \/ out' = out)
  <2>1. out' \in Seq(PDU)
    <3>1. out = <<>> => out' = out
      BY <1>3 DEF Schedule
    <3>2. out # <<>> => Tail(out) \in Seq(PDU)
      OBVIOUS
    <3> QED BY <1>3, <3>1, <3>2
  <2> QED BY <1>1, <1>2, <1>3, <2>1
<1>4. CASE out # <<>> /\ out' = Tail(out) /\ Head(out) # Quit /\ spc' = "sleep"
             /\ sleeping' = Head(out).wave
  <2>1. /\ out' \in Seq(PDU) /\ Len(out') = Len(out) - 1 /\ Len(out) \in Nat \ {0}
        /\ \A n \in 1 .. Len(out') : n + 1 \in 1 .. Len(out) /\ out'[n] = out[n + 1]
        /\ Head(out) = out[1] /\ 1 \in 1 .. Len(out) /\ out[1] \in PDU
    BY <1>4
  <2>2. Ahead = Len(confirmed) /\ Ahead' = Ahead + 1 /\ Ahead \in Nat /\ Len(played) \in Nat
    BY <1>1, <1>4 DEF Ahead
  <2>3. BeforeQuit(1)
    BY <1>4, <2>1 DEF BeforeQuit
  <2>4. Len(confirmed) < Len(played) /\ sleeping' = played[Len(confirmed) + 1]
    BY <1>1, <1>4, <2>1, <2>2, <2>3 DEF Lagging
  <2>5. \A n \in 1 .. Len(out') : BeforeQuit(n)' => BeforeQuit(n + 1)
    <3> SUFFICES ASSUME NEW n \in 1 .. Len(out'), BeforeQuit(n)', NEW m \in 1 .. n + 1
                 PROVE  out[m] # Quit
      BY DEF BeforeQuit
    <3>1. CASE m = 1
      BY <3>1, <2>3 DEF BeforeQuit
    <3>2. CASE m # 1
      <4>1. m - 1 \in 1 .. n /\ m - 1 \in 1 .. Len(out') /\ (m - 1) + 1 = m
        BY <3>2
      <4> QED BY <4>1, <2>1 DEF BeforeQuit
    <3> QED BY <3>1, <3>2
  <2>6. ASSUME NEW n \in 1 .. Len(out'), BeforeQuit(n)'
        PROVE  Ahead' + n <= Len(played') /\ out'[n].wave = played'[Ahead' + n]
    <3>1. n + 1 \in 1 .. Len(out) /\ BeforeQuit(n + 1) /\ Ahead' + n = Ahead + (n + 1)
      BY <2>1, <2>2, <2>5, <2>6
    <3> QED BY <1>1, <2>1, <3>1 DEF Lagging
  <2>7. BeforeQuit(Len(out))' => Len(played') = Ahead' + Len(out')
    <3> SUFFICES ASSUME BeforeQuit(Len(out))' PROVE Len(played') = Ahead' + Len(out')
      OBVIOUS
    <3>1. BeforeQuit(Len(out))
      <4>1. CASE Len(out') = 0
        <5>1. Len(out) = 1
          BY <2>1, <4>1
        <5> QED BY <5>1, <2>3 DEF BeforeQuit
      <4>2. CASE Len(out') # 0
        <5>1. Len(out') \in 1 .. Len(out') /\ Len(out') + 1 = Len(out)
          BY <2>1, <4>2
        <5>2. ASSUME NEW n \in 1 .. Len(out'), n = Len(out') PROVE BeforeQuit(n + 1)
          BY <2>5, <5>2 DEF BeforeQuit
        <5> QED BY <5>1, <5>2
      <4> QED BY <4>1, <4>2
    <3> QED BY <1>1, <2>1, <2>2, <3>1 DEF Lagging
  <2>8. Lagging'
    BY <1>1, <1>4, <2>4, <2>6, <2>7 DEF Lagging
  <2>9. sleeping' \in Wave
    BY <2>2, <2>4
  <2> QED BY <1>1, <1>2, <1>4, <2>1, <2>8, <2>9
<1> QED BY <1>3, <1>4 DEF Schedule

\* It has slept: the wave is confirmed.
LEMMA SleptStep ==
  ASSUME SoundInv, Slept
  PROVE  SoundInv'
<1> USE DEF SoundInv, TypeOK, linkVars, soundVars
<1>1. /\ UNCHANGED <<device, mpc, connections, due, fresh, data_in, in, out, cpc, stop>>
      /\ UNCHANGED <<ClientFormats, expectingWave, isOpen, cBlockNo, playing, played>>
      /\ spc = "sleep" /\ spc' = "wait" /\ sleeping' = None /\ Lagging
      /\ confirmed' = Append(confirmed, sleeping) /\ device = "thread"
  BY DEF Slept, ByDevice
<1>2. sleeping = played[Len(confirmed) + 1] /\ Len(confirmed) < Len(played) /\ sleeping \in Wave
  BY <1>1 DEF Lagging
<1>3. /\ confirmed' \in Seq(Wave) /\ Len(confirmed') = Len(confirmed) + 1
      /\ \A n \in 1 .. Len(confirmed) : confirmed'[n] = confirmed[n]
      /\ confirmed'[Len(confirmed) + 1] = sleeping
  BY <1>1, <1>2, AppendProperties
<1>4. Named' /\ Heard'
  <2>1. \A n \in 1 .. Len(confirmed) + 1 : n \in 1 .. Len(confirmed) \/ n = Len(confirmed) + 1
    BY LenProperties
  <2> QED BY <1>1, <1>2, <1>3, <2>1 DEF Named, Heard
<1>5. Ahead' = Ahead
  BY <1>1, <1>3 DEF Ahead
<1>6. Lagging'
  BY <1>1, <1>5 DEF Lagging, BeforeQuit
<1>7. ByDevice'
  BY <1>1 DEF ByDevice
<1> QED BY <1>1, <1>3, <1>4, <1>6, <1>7

\* The device has played a wave to the end: it is confirmed.
LEMMA DoneStep ==
  ASSUME SoundInv, Done
  PROVE  SoundInv'
<1> USE DEF SoundInv, TypeOK, linkVars, soundVars
<1>1. /\ UNCHANGED <<device, mpc, connections, due, fresh, data_in, in, out, cpc, spc, sleeping,
                     stop>>
      /\ UNCHANGED <<ClientFormats, expectingWave, isOpen, cBlockNo, played>>
      /\ confirmed' = Append(confirmed, Head(playing))
      /\ playing' = Tail(playing) /\ playing # <<>>
      /\ device = "callback" /\ Sounding /\ spc = "none"
  BY DEF Done, ByDevice
<1>2. /\ playing' \in Seq(Wave) /\ Len(playing') = Len(playing) - 1 /\ Len(playing) \in Nat \ {0}
      /\ \A n \in 1 .. Len(playing') : n + 1 \in 1 .. Len(playing) /\ playing'[n] = playing[n + 1]
      /\ Head(playing) = playing[1] /\ 1 \in 1 .. Len(playing) /\ Head(playing) \in Wave
  BY <1>1
<1>3. Head(playing) = played[Len(confirmed) + 1] /\ Len(confirmed) < Len(played)
  BY <1>1, <1>2, LenProperties DEF Sounding
<1>4. /\ confirmed' \in Seq(Wave) /\ Len(confirmed') = Len(confirmed) + 1
      /\ \A n \in 1 .. Len(confirmed) : confirmed'[n] = confirmed[n]
      /\ confirmed'[Len(confirmed) + 1] = Head(playing) /\ Len(confirmed) \in Nat
  BY <1>1, <1>2, AppendProperties, LenProperties
<1>5. Named' /\ Heard'
  <2>1. \A n \in 1 .. Len(confirmed) + 1 : n \in 1 .. Len(confirmed) \/ n = Len(confirmed) + 1
    BY <1>4
  <2> QED BY <1>1, <1>3, <1>4, <2>1 DEF Named, Heard
<1>6. Sounding'
  <2>1. ASSUME NEW n \in 1 .. Len(playing') PROVE playing'[n] = played'[Len(confirmed') + n]
    <3>1. playing'[n] = played[Len(confirmed) + (n + 1)] /\ n \in Nat
      BY <1>1, <1>2 DEF Sounding
    <3>2. Len(confirmed) + (n + 1) = Len(confirmed') + n
      BY <1>4, <3>1
    <3> QED BY <1>1, <3>1, <3>2
  <2>2. Len(played') = Len(confirmed') + Len(playing')
    BY <1>1, <1>2, <1>4 DEF Sounding
  <2> QED BY <2>1, <2>2 DEF Sounding
<1>7. ByDevice'
  BY <1>1, <1>6 DEF ByDevice
<1> QED BY <1>1, <1>2, <1>4, <1>5, <1>7

\* A connection begins and ends.
LEMMA ConnectionSteps ==
  ASSUME SoundInv, Connected \/ Disconnected \/ PostsQuitOut \/ Joins \/ Quits \/ Stopped
  PROVE  SoundInv'
<1> USE DEF SoundInv, TypeOK, linkVars, soundVars
<1>1. CASE Connected
  <2>1. /\ in' = <<>> /\ out' = <<>> /\ played' = <<>> /\ confirmed' = <<>>
        /\ mpc' = "up" /\ connections' \in 0 .. MaxConnections
        /\ due' = "formats" /\ fresh' = Wave /\ cpc' = "run"
        /\ UNCHANGED <<device, data_in, sleeping, playing, soundVars>>
        /\ IF device = "thread" THEN spc' = "wait" ELSE UNCHANGED spc
    BY <1>1, SoundAssumption DEF Connected
  <2>2. stop' \in BOOLEAN
    BY <1>1, Zenon DEF Connected
  <2>3. Lagging'
    <3>1. spc' # "sleep"
      BY <2>1 DEF ByDevice
    <3> QED BY <2>1, <3>1 DEF Lagging, Ahead
  <2>4. playing = <<>>
    BY <1>1 DEF Connected, ByDevice
  <2>5. ByDevice'
    BY <2>1, <2>4 DEF ByDevice, Sounding
  <2> QED BY <2>1, <2>2, <2>3, <2>5, EmptySeq DEF Named, Heard
<1>2. CASE Disconnected
  <2>1. /\ in' = Append(in, Quit) /\ mpc' = "post"
        /\ UNCHANGED <<device, connections, due, fresh, data_in, out, cpc, spc, sleeping, stop>>
        /\ UNCHANGED <<ClientFormats, expectingWave, isOpen, cBlockNo, played, confirmed, playing>>
    BY <1>2 DEF Disconnected, PostQuit
  <2>2. Quit \in PDU /\ Quit.kind # "info"
    BY DEF Quit, Pdu, PDU, Kinds
  <2>3. /\ in' \in Seq(PDU) /\ Len(in') = Len(in) + 1
        /\ \A n \in 1 .. Len(in) : in'[n] = in[n]
        /\ in'[Len(in) + 1] = Quit
    BY <2>1, <2>2, AppendProperties
  <2>5. Named' /\ Heard'
    <3>1. \A n \in 1 .. Len(in) + 1 : n \in 1 .. Len(in) \/ n = Len(in) + 1
      BY LenProperties
    <3> QED BY <2>1, <2>2, <2>3, <3>1 DEF Named, Heard
  <2>6. (Lagging => Lagging') /\ ByDevice'
    BY <2>1 DEF Lagging, Ahead, BeforeQuit, ByDevice, Sounding
  <2> QED BY <2>1, <2>3, <2>5, <2>6
<1>5. CASE PostsQuitOut
  <2>1. /\ out' = Append(out, Quit) /\ mpc' = "join"
        /\ UNCHANGED <<device, connections, due, fresh, data_in, in, cpc, spc, sleeping, stop>>
        /\ UNCHANGED <<ClientFormats, expectingWave, isOpen, cBlockNo, played, confirmed, playing>>
    BY <1>5 DEF PostsQuitOut
  <2>2. Quit \in PDU
    BY DEF Quit, Pdu, PDU, Kinds
  <2>4. /\ out' \in Seq(PDU) /\ Len(out') = Len(out) + 1
        /\ \A n \in 1 .. Len(out) : out'[n] = out[n]
        /\ out'[Len(out) + 1] = Quit
    BY <2>1, <2>2, AppendProperties
  <2>5. Named' /\ Heard' /\ ByDevice'
    BY <2>1 DEF Named, Heard, ByDevice, Sounding
  <2>6. Lagging => Lagging'
    <3>1. Ahead' = Ahead
      BY <2>1 DEF Ahead
    <3>2. \A n \in 1 .. Len(out') : BeforeQuit(n)' => n \in 1 .. Len(out) /\ BeforeQuit(n)
      <4> SUFFICES ASSUME NEW n \in 1 .. Len(out'), BeforeQuit(n)'
                   PROVE  n \in 1 .. Len(out) /\ BeforeQuit(n)
        OBVIOUS
      <4>1. n # Len(out) + 1
        BY <2>4 DEF BeforeQuit
      <4>2. Len(out) \in Nat
        BY LenProperties
      <4>3. n \in 1 .. Len(out)
        BY <2>4, <4>1, <4>2
      <4>4. ASSUME NEW m \in 1 .. n PROVE out[m] # Quit
        <5>1. m \in 1 .. Len(out)
          BY <4>2, <4>3
        <5> QED BY <5>1, <2>4 DEF BeforeQuit
      <4> QED BY <4>3, <4>4 DEF BeforeQuit
    <3>3. ~BeforeQuit(Len(out))'
      <4>1. Len(out') \in 1 .. Len(out') /\ Len(out') = Len(out) + 1
        BY <2>4
      <4> QED BY <4>1, <2>4 DEF BeforeQuit
    <3> QED BY <2>1, <2>4, <3>1, <3>2, <3>3 DEF Lagging
  <2> QED BY <2>1, <2>4, <2>5, <2>6
<1>3. CASE Joins
  <2>1. /\ in' = <<>> /\ out' = <<>> /\ mpc' = "down" /\ cpc' = "none" /\ data_in' = None
        /\ playing' = <<>>
        /\ UNCHANGED <<device, connections, due, fresh, spc, sleeping, stop, expectingWave,
                       isOpen, cBlockNo, played, confirmed>>
    BY <1>3 DEF Joins
  <2>2. ClientFormats' \in BOOLEAN
    BY <1>3, Zenon DEF Joins
  <2>3. spc \notin {"wait", "sleep"}
    BY <1>3 DEF Joins
  <2> QED BY <2>1, <2>2, <2>3, EmptySeq DEF Named, Heard, ByDevice
<1>4. CASE Quits \/ Stopped
  <2>1. in' \in Seq(PDU) /\ Named'
    <3>1. CASE Quits
      <4>1. in # <<>> /\ in' = Tail(in) /\ UNCHANGED <<data_in, expectingWave, cBlockNo>>
        BY <3>1 DEF Quits, Receives
      <4>2. /\ in' \in Seq(PDU)
            /\ \A n \in 1 .. Len(in') : n + 1 \in 1 .. Len(in) /\ in'[n] = in[n + 1]
        BY <4>1
      <4> QED BY <4>1, <4>2 DEF Named
    <3>2. CASE Stopped
      BY <3>2 DEF Stopped, Named
    <3> QED BY <1>4, <3>1, <3>2
  <2>2. /\ UNCHANGED <<device, mpc, connections, due, fresh, data_in, out, spc, sleeping>>
        /\ UNCHANGED <<ClientFormats, expectingWave, isOpen, cBlockNo, played, confirmed, playing>>
        /\ cpc \in {"run", "stop"} /\ cpc' \in {"stop", "exited"}
        /\ cpc' = "exited" => spc \notin {"wait", "sleep"}
    BY <1>4 DEF Quits, Stopped, Receives, ByDevice
  <2>3. stop' \in BOOLEAN
    BY <1>4, Zenon DEF Quits, Stopped
  <2>4. Heard' /\ (Lagging => Lagging') /\ ByDevice'
    BY <2>2 DEF Heard, Lagging, Ahead, BeforeQuit, ByDevice, Sounding
  <2> QED BY <2>1, <2>2, <2>3, <2>4
<1> QED BY <1>1, <1>2, <1>3, <1>4, <1>5

\* What is confirmed was played, and what the schedule thread has still to
\* confirm follows in the same order.
THEOREM SoundInvariance == Spec => []SoundInv
<1>1. SoundInv /\ [Next]_vars => SoundInv'
  <2> SUFFICES ASSUME SoundInv, [Next]_vars PROVE SoundInv'
    OBVIOUS
  <2>1. CASE Next
    BY <2>1, LinkSteps, WaveStep, ScheduleStep, SleptStep, DoneStep, ConnectionSteps
       DEF Next, ClientThread, ScheduleThread
  <2>2. CASE UNCHANGED vars
    <3> USE <2>2 DEF vars, linkVars, soundVars, SoundInv
    <3>1. TypeOK'
      BY DEF TypeOK
    <3>2. Named' /\ Heard' /\ ByDevice'
      BY DEF Named, Heard, ByDevice, Sounding
    <3>3. Lagging => Lagging'
      BY DEF Lagging, Ahead, BeforeQuit
    <3> QED BY <3>1, <3>2, <3>3
  <2> QED BY <2>1, <2>2
<1> QED BY SoundInit, <1>1, PTL DEF Spec

\* The queues hold PDUs and the threads are where the code can be; in
\* particular every wave that is played or confirmed is one.
THEOREM SoundTypes == Spec => []TypeOK
<1>1. SoundInv => TypeOK
  BY DEF SoundInv
<1> QED BY SoundInvariance, <1>1, PTL

\* The server learns of the waves in the order they were played, whatever the
\* schedule thread sleeps through and wherever the connection ends.
THEOREM ConfirmationsInOrder == Spec => []ConfirmedInOrder
<1>1. SoundInv => ConfirmedInOrder
  <2> SUFFICES ASSUME SoundInv PROVE IsPrefix(confirmed, played)
    BY DEF ConfirmedInOrder
  <2>1. /\ confirmed \in Seq(Wave) /\ played \in Seq(Wave)
        /\ Len(confirmed) \in Nat /\ Len(played) \in Nat /\ Len(confirmed) <= Len(played)
        /\ \A n \in 1 .. Len(confirmed) : confirmed[n] = played[n]
    BY LenProperties DEF SoundInv, TypeOK, Heard
  <2>2. SubSeq(confirmed, 1, Len(confirmed)) = SubSeq(played, 1, Len(confirmed))
    BY <2>1
  <2> QED BY <2>1, <2>2 DEF IsPrefix
<1> QED BY SoundInvariance, <1>1, PTL
=============================================================================
