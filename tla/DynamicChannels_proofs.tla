------------------------ MODULE DynamicChannels_proofs ------------------------
(***************************************************************************)
(* The dynamic channels keep client and server together: proofs for        *)
(* DynamicChannels, for any number of channels and messages, and a wire of *)
(* any length.                                                             *)
(*                                                                         *)
(* What is on its way is part of the state: the argument follows a channel *)
(* through all PDUs the client has still to handle, and all those the       *)
(* server has.  Where both journeys end, client and server agree.          *)
(***************************************************************************)
EXTENDS DynamicChannels, SequenceTheorems, TLAPS

Life == {"closed", "creating", "open", "again", "closing"}

\* A channel as the client has it once it has handled some PDUs: its life, the
\* messages delivered, and the one it has a fragment of.
ClientState == [at : Life, got : Nat, part : Nat]

\* What the PDU m of the server makes of the channel c.
ClientTakes(c, m, s, u) ==
    \/ (m.ch # c \/ m.kind \in {"caps", "quit"}) /\ u = s
    \/ /\ m.ch = c
       /\ \/ m.kind = "create" /\ s.at = "closed" /\ u = [s EXCEPT !.at = "creating"]
          \/ m.kind = "create" /\ s.at = "open" /\ u = [s EXCEPT !.at = "again"]
          \/ /\ m.kind = "single" /\ s.at = "open" /\ s.part = 0 /\ m.n = s.got + 1
             /\ u = [s EXCEPT !.got = m.n]
          \/ m.kind = "first" /\ s.at = "open" /\ u = [s EXCEPT !.part = m.n]
          \/ /\ m.kind = "data" /\ s.at = "open" /\ s.part = m.n /\ m.n = s.got + 1
             /\ u = [at |-> "open", got |-> m.n, part |-> 0]
          \/ m.kind = "close" /\ s.at = "open" /\ u = [s EXCEPT !.at = "closing"]

\* What any number of them can make of it, before it is answered.
ClientGoes(s, u) ==
    \/ u = s
    \/ s.at = "open" /\ u.at \in {"open", "again", "closing"}
    \/ s.at = "closed" /\ u = [s EXCEPT !.at = "creating"]

ClientStates(c, q, t) ==
    /\ t \in [0 .. Len(q) -> ClientState]
    /\ \A k \in 1 .. Len(q) : ClientTakes(c, q[k], t[k - 1], t[k])
    /\ \A m, n \in 0 .. Len(q) : m <= n =>
          /\ ClientGoes(t[m], t[n])
          /\ (\A k \in m + 1 .. n : q[k].ch # c) => t[n] = t[m]

\* The PDUs q lead the channel c from s to b.
ClientPath(c, q, s, b) == \E t : ClientStates(c, q, t) /\ t[0] = s /\ t[Len(q)] = b

\* A channel as the server has it: its life, and whose message is half there.
ServerState == [srv : Life, who : Who]

ServerTakes(c, m, s, u) ==
    \/ (m.ch # c \/ m.kind = "caps") /\ u = s
    \/ /\ m.ch = c
       /\ \/ m.kind = "created" /\ s.srv = "creating" /\ u = [s EXCEPT !.srv = "open"]
          \/ m.kind = "refused" /\ s.srv \in {"creating", "again"} /\ u = [s EXCEPT !.srv = "closed"]
          \/ m.kind = "closed" /\ s.srv = "closing" /\ u = [s EXCEPT !.srv = "closed"]
          \/ /\ m.kind = "first" /\ s.srv \in {"open", "again", "closing"} /\ s.who = "free"
             /\ m.by # "free" /\ u = [s EXCEPT !.who = m.by]
          \/ /\ m.kind = "next" /\ s.srv \in {"open", "again", "closing"} /\ s.who = m.by
             /\ m.by # "free" /\ u = [s EXCEPT !.who = "free"]

ServerGoes(s, u) ==
    \/ u = s
    \/ s.srv = "creating" /\ u.srv \in {"open", "closed"}
    \/ s.srv = "open" /\ u.srv = "open"
    \/ s.srv \in {"again", "closing"} /\ u.srv \in {s.srv, "closed"}

ServerStates(c, q, t) ==
    /\ t \in [0 .. Len(q) -> ServerState]
    /\ \A k \in 1 .. Len(q) : ServerTakes(c, q[k], t[k - 1], t[k])
    /\ \A m, n \in 0 .. Len(q) : m <= n =>
          /\ ServerGoes(t[m], t[n])
          /\ (\A k \in m + 1 .. n : q[k].ch # c) => t[n] = t[m]

ServerPath(c, q, s, e) == \E t : ServerStates(c, q, t) /\ t[0] = s /\ t[Len(q)] = e
-----------------------------------------------------------------------------
(* Paths. *)

\* With nothing to handle a channel stays as it is.
LEMMA PathEmpty ==
  ASSUME NEW c
  PROVE  /\ \A s \in ClientState : ClientPath(c, <<>>, s, s)
         /\ \A s \in ServerState : ServerPath(c, <<>>, s, s)
<1>1. ASSUME NEW s \in ClientState PROVE ClientPath(c, <<>>, s, s)
  <2> DEFINE t == [k \in 0 .. 0 |-> s]
  <2>1. ClientStates(c, <<>>, t)
    BY DEF ClientStates, ClientGoes
  <2>2. t[0] = s /\ Len(<<>>) = 0
    OBVIOUS
  <2> QED BY <2>1, <2>2 DEF ClientPath
<1>2. ASSUME NEW s \in ServerState PROVE ServerPath(c, <<>>, s, s)
  <2> DEFINE t == [k \in 0 .. 0 |-> s]
  <2>1. ServerStates(c, <<>>, t)
    BY DEF ServerStates, ServerGoes
  <2>2. t[0] = s /\ Len(<<>>) = 0
    OBVIOUS
  <2> QED BY <2>1, <2>2 DEF ServerPath
<1> QED BY <1>1, <1>2

\* What a PDU does is one of the ways a channel goes, and those compose.
LEMMA Steps ==
  /\ \A c, m : \A s, u \in ClientState : ClientTakes(c, m, s, u) =>
        /\ ClientGoes(s, u)
        /\ \A r \in ClientState : ClientGoes(r, s) => ClientGoes(r, u)
        /\ m.ch # c => u = s
  /\ \A c, m : \A s, u \in ServerState : ServerTakes(c, m, s, u) =>
        /\ ServerGoes(s, u)
        /\ \A r \in ServerState : ServerGoes(r, s) => ServerGoes(r, u)
        /\ m.ch # c => u = s
<1>1. ASSUME NEW c, NEW m, NEW s \in ClientState, NEW u \in ClientState, ClientTakes(c, m, s, u)
      PROVE  /\ ClientGoes(s, u)
             /\ \A r \in ClientState : ClientGoes(r, s) => ClientGoes(r, u)
             /\ m.ch # c => u = s
  <2>1. m.ch # c => u = s
    BY <1>1 DEF ClientTakes
  <2>2. ClientGoes(s, u)
    BY <1>1 DEF ClientTakes, ClientGoes, ClientState
  <2>3. ASSUME NEW r \in ClientState, ClientGoes(r, s) PROVE ClientGoes(r, u)
    BY <1>1, <2>3 DEF ClientTakes, ClientGoes, ClientState
  <2> QED BY <2>1, <2>2, <2>3
<1>2. ASSUME NEW c, NEW m, NEW s \in ServerState, NEW u \in ServerState, ServerTakes(c, m, s, u)
      PROVE  /\ ServerGoes(s, u)
             /\ \A r \in ServerState : ServerGoes(r, s) => ServerGoes(r, u)
             /\ m.ch # c => u = s
  <2>1. m.ch # c => u = s
    BY <1>2 DEF ServerTakes
  <2>2. ServerGoes(s, u)
    BY <1>2 DEF ServerTakes, ServerGoes, ServerState
  <2>3. ASSUME NEW r \in ServerState, ServerGoes(r, s) PROVE ServerGoes(r, u)
    BY <1>2, <2>3 DEF ServerTakes, ServerGoes, ServerState
  <2> QED BY <2>1, <2>2, <2>3
<1> QED BY <1>1, <1>2

\* One more PDU at the end of the way of a channel to the client.
LEMMA ClientAppend ==
  ASSUME NEW c, NEW q \in Seq(Request), NEW m \in Request, NEW s, NEW b,
         NEW u \in ClientState, ClientPath(c, q, s, b), ClientTakes(c, m, b, u)
  PROVE  ClientPath(c, Append(q, m), s, u)
<1>1. PICK t : ClientStates(c, q, t) /\ t[0] = s /\ t[Len(q)] = b
  BY DEF ClientPath
<1> DEFINE n == Len(q)  p == Append(q, m)
           v == [k \in 0 .. n + 1 |-> IF k = n + 1 THEN u ELSE t[k]]
<1>2. /\ n \in Nat /\ Len(p) = n + 1 /\ p[n + 1] = m
      /\ \A k \in 1 .. n : p[k] = q[k]
  BY AppendProperties
<1>3. /\ t \in [0 .. n -> ClientState]
      /\ \A k \in 1 .. n : ClientTakes(c, q[k], t[k - 1], t[k])
      /\ \A j, k \in 0 .. n : j <= k =>
            /\ ClientGoes(t[j], t[k])
            /\ (\A l \in j + 1 .. k : q[l].ch # c) => t[k] = t[j]
  BY <1>1 DEF ClientStates
<1> HIDE DEF p
<1>4. /\ v \in [0 .. n + 1 -> ClientState] /\ v[n + 1] = u
      /\ \A k \in 0 .. n : v[k] = t[k]
  BY <1>2, <1>3
<1> HIDE DEF v
<1>5. \A k \in 1 .. n + 1 : ClientTakes(c, p[k], v[k - 1], v[k])
  <2>1. ASSUME NEW k \in 1 .. n + 1 PROVE ClientTakes(c, p[k], v[k - 1], v[k])
    <3>1. CASE k = n + 1
      BY <1>1, <1>2, <1>4, <3>1
    <3>2. CASE k \in 1 .. n
      BY <1>2, <1>3, <1>4, <3>2
    <3> QED BY <1>2, <3>1, <3>2
  <2> QED BY <2>1
<1>6. ASSUME NEW j \in 0 .. n + 1, NEW k \in 0 .. n + 1, j <= k
      PROVE  /\ ClientGoes(v[j], v[k])
             /\ (\A l \in j + 1 .. k : p[l].ch # c) => v[k] = v[j]
  <2>1. CASE k \in 0 .. n
    <3>1. j \in 0 .. n /\ v[j] = t[j] /\ v[k] = t[k]
      BY <1>2, <1>4, <1>6, <2>1
    <3>2. \A l \in j + 1 .. k : p[l] = q[l]
      BY <1>2, <2>1
    <3> QED BY <1>3, <1>6, <2>1, <3>1, <3>2
  <2>2. CASE k = n + 1 /\ j \in 0 .. n
    <3>1. v[j] = t[j] /\ v[k] = u /\ ClientGoes(t[j], b) /\ t[j] \in ClientState /\ b \in ClientState
      BY <1>1, <1>2, <1>3, <1>4, <2>2
    <3>2. ClientGoes(v[j], v[k])
      BY <3>1, Steps
    <3>3. ASSUME \A l \in j + 1 .. k : p[l].ch # c PROVE v[k] = v[j]
      <4>1. m.ch # c
        BY <1>2, <2>2, <3>3
      <4>2. u = b
        BY <3>1, <4>1, Steps
      <4>3. \A l \in j + 1 .. n : q[l].ch # c
        BY <1>2, <2>2, <3>3
      <4>4. j \in 0 .. n /\ n \in 0 .. n /\ j <= n
        BY <1>2, <2>2
      <4>5. t[n] = t[j]
        BY <1>3, <4>3, <4>4
      <4> QED BY <1>1, <3>1, <4>2, <4>5
    <3> QED BY <3>2, <3>3
  <2>3. CASE j = n + 1 /\ k = n + 1
    BY <2>3 DEF ClientGoes
  <2> QED BY <1>2, <1>6, <2>1, <2>2, <2>3
<1>7. ClientStates(c, p, v)
  BY <1>2, <1>4, <1>5, <1>6 DEF ClientStates
<1>8. v[0] = s /\ v[Len(p)] = u
  BY <1>1, <1>2, <1>4
<1> QED BY <1>7, <1>8 DEF ClientPath, p

\* The first PDU on the way of a channel to the client is handled.
LEMMA ClientTail ==
  ASSUME NEW c, NEW q \in Seq(Request), q # <<>>, NEW s, NEW b, ClientPath(c, q, s, b)
  PROVE  \E u \in ClientState : ClientTakes(c, Head(q), s, u) /\ ClientPath(c, Tail(q), u, b)
<1>1. PICK t : ClientStates(c, q, t) /\ t[0] = s /\ t[Len(q)] = b
  BY DEF ClientPath
<1> DEFINE n == Len(q)  p == Tail(q)  v == [k \in 0 .. n - 1 |-> t[k + 1]]
<1>2. /\ n \in Nat \ {0} /\ Len(p) = n - 1 /\ Head(q) = q[1]
      /\ \A k \in 1 .. n - 1 : p[k] = q[k + 1]
  <2>1. n \in Nat \ {0}
    BY EmptySeq
  <2>2. Head(q) = q[1]
    OBVIOUS
  <2>3. Len(p) = n - 1 /\ \A k \in 1 .. Len(p) : p[k] = q[k + 1]
    BY HeadTailProperties
  <2> QED BY <2>1, <2>2, <2>3
<1>3. /\ t \in [0 .. n -> ClientState]
      /\ \A k \in 1 .. n : ClientTakes(c, q[k], t[k - 1], t[k])
      /\ \A j, k \in 0 .. n : j <= k =>
            /\ ClientGoes(t[j], t[k])
            /\ (\A l \in j + 1 .. k : q[l].ch # c) => t[k] = t[j]
  BY <1>1 DEF ClientStates
<1> HIDE DEF p
<1>4. /\ v \in [0 .. n - 1 -> ClientState] /\ \A k \in 0 .. n - 1 : v[k] = t[k + 1]
  BY <1>2, <1>3
<1> HIDE DEF v
<1>5. \A k \in 1 .. n - 1 : ClientTakes(c, p[k], v[k - 1], v[k])
  <2>1. ASSUME NEW k \in 1 .. n - 1 PROVE ClientTakes(c, p[k], v[k - 1], v[k])
    <3>1. p[k] = q[k + 1] /\ v[k - 1] = t[k] /\ v[k] = t[k + 1] /\ k + 1 \in 1 .. n
      BY <1>2, <1>4
    <3>2. ClientTakes(c, q[k + 1], t[k + 1 - 1], t[k + 1])
      BY <1>3, <3>1
    <3>3. k + 1 - 1 = k
      OBVIOUS
    <3> QED BY <3>1, <3>2, <3>3
  <2> QED BY <2>1
<1>6. ASSUME NEW j \in 0 .. n - 1, NEW k \in 0 .. n - 1, j <= k
      PROVE  /\ ClientGoes(v[j], v[k])
             /\ (\A l \in j + 1 .. k : p[l].ch # c) => v[k] = v[j]
  <2>1. v[j] = t[j + 1] /\ v[k] = t[k + 1]
        /\ j + 1 \in 0 .. n /\ k + 1 \in 0 .. n /\ j + 1 <= k + 1
    BY <1>2, <1>4, <1>6
  <2>2. ASSUME \A l \in j + 1 .. k : p[l].ch # c, NEW l \in j + 1 + 1 .. k + 1
        PROVE  q[l].ch # c
    <3>1. l - 1 \in j + 1 .. k /\ l - 1 \in 1 .. n - 1 /\ l - 1 + 1 = l
      BY <1>2
    <3> QED BY <1>2, <2>2, <3>1
  <2> QED BY <1>3, <2>1, <2>2
<1>7. ClientStates(c, p, v)
  BY <1>2, <1>4, <1>5, <1>6 DEF ClientStates
<1>8. v[0] = t[1] /\ v[Len(p)] = b
  BY <1>1, <1>2, <1>4
<1>9. ClientTakes(c, Head(q), s, t[1]) /\ t[1] \in ClientState
  <2>1. ClientTakes(c, q[1], t[1 - 1], t[1])
    BY <1>2, <1>3
  <2> QED BY <1>1, <1>2, <1>3, <2>1
<1> QED BY <1>7, <1>8, <1>9 DEF ClientPath, p

\* One more PDU at the end of the way of a channel to the server.
LEMMA ServerAppend ==
  ASSUME NEW c, NEW q \in Seq(Answer), NEW m \in Answer, NEW s, NEW b,
         NEW u \in ServerState, ServerPath(c, q, s, b), ServerTakes(c, m, b, u)
  PROVE  ServerPath(c, Append(q, m), s, u)
<1>1. PICK t : ServerStates(c, q, t) /\ t[0] = s /\ t[Len(q)] = b
  BY DEF ServerPath
<1> DEFINE n == Len(q)  p == Append(q, m)
           v == [k \in 0 .. n + 1 |-> IF k = n + 1 THEN u ELSE t[k]]
<1>2. /\ n \in Nat /\ Len(p) = n + 1 /\ p[n + 1] = m
      /\ \A k \in 1 .. n : p[k] = q[k]
  BY AppendProperties
<1>3. /\ t \in [0 .. n -> ServerState]
      /\ \A k \in 1 .. n : ServerTakes(c, q[k], t[k - 1], t[k])
      /\ \A j, k \in 0 .. n : j <= k =>
            /\ ServerGoes(t[j], t[k])
            /\ (\A l \in j + 1 .. k : q[l].ch # c) => t[k] = t[j]
  BY <1>1 DEF ServerStates
<1> HIDE DEF p
<1>4. /\ v \in [0 .. n + 1 -> ServerState] /\ v[n + 1] = u
      /\ \A k \in 0 .. n : v[k] = t[k]
  BY <1>2, <1>3
<1> HIDE DEF v
<1>5. \A k \in 1 .. n + 1 : ServerTakes(c, p[k], v[k - 1], v[k])
  <2>1. ASSUME NEW k \in 1 .. n + 1 PROVE ServerTakes(c, p[k], v[k - 1], v[k])
    <3>1. CASE k = n + 1
      BY <1>1, <1>2, <1>4, <3>1
    <3>2. CASE k \in 1 .. n
      BY <1>2, <1>3, <1>4, <3>2
    <3> QED BY <1>2, <3>1, <3>2
  <2> QED BY <2>1
<1>6. ASSUME NEW j \in 0 .. n + 1, NEW k \in 0 .. n + 1, j <= k
      PROVE  /\ ServerGoes(v[j], v[k])
             /\ (\A l \in j + 1 .. k : p[l].ch # c) => v[k] = v[j]
  <2>1. CASE k \in 0 .. n
    <3>1. j \in 0 .. n /\ v[j] = t[j] /\ v[k] = t[k]
      BY <1>2, <1>4, <1>6, <2>1
    <3>2. \A l \in j + 1 .. k : p[l] = q[l]
      BY <1>2, <2>1
    <3> QED BY <1>3, <1>6, <2>1, <3>1, <3>2
  <2>2. CASE k = n + 1 /\ j \in 0 .. n
    <3>1. v[j] = t[j] /\ v[k] = u /\ ServerGoes(t[j], b) /\ t[j] \in ServerState /\ b \in ServerState
      BY <1>1, <1>2, <1>3, <1>4, <2>2
    <3>2. ServerGoes(v[j], v[k])
      BY <3>1, Steps
    <3>3. ASSUME \A l \in j + 1 .. k : p[l].ch # c PROVE v[k] = v[j]
      <4>1. m.ch # c
        BY <1>2, <2>2, <3>3
      <4>2. u = b
        BY <3>1, <4>1, Steps
      <4>3. \A l \in j + 1 .. n : q[l].ch # c
        BY <1>2, <2>2, <3>3
      <4>4. j \in 0 .. n /\ n \in 0 .. n /\ j <= n
        BY <1>2, <2>2
      <4>5. t[n] = t[j]
        BY <1>3, <4>3, <4>4
      <4> QED BY <1>1, <3>1, <4>2, <4>5
    <3> QED BY <3>2, <3>3
  <2>3. CASE j = n + 1 /\ k = n + 1
    BY <2>3 DEF ServerGoes
  <2> QED BY <1>2, <1>6, <2>1, <2>2, <2>3
<1>7. ServerStates(c, p, v)
  BY <1>2, <1>4, <1>5, <1>6 DEF ServerStates
<1>8. v[0] = s /\ v[Len(p)] = u
  BY <1>1, <1>2, <1>4
<1> QED BY <1>7, <1>8 DEF ServerPath, p

\* The first PDU on the way of a channel to the server is handled.
LEMMA ServerTail ==
  ASSUME NEW c, NEW q \in Seq(Answer), q # <<>>, NEW s, NEW b, ServerPath(c, q, s, b)
  PROVE  \E u \in ServerState : ServerTakes(c, Head(q), s, u) /\ ServerPath(c, Tail(q), u, b)
<1>1. PICK t : ServerStates(c, q, t) /\ t[0] = s /\ t[Len(q)] = b
  BY DEF ServerPath
<1> DEFINE n == Len(q)  p == Tail(q)  v == [k \in 0 .. n - 1 |-> t[k + 1]]
<1>2. /\ n \in Nat \ {0} /\ Len(p) = n - 1 /\ Head(q) = q[1]
      /\ \A k \in 1 .. n - 1 : p[k] = q[k + 1]
  <2>1. n \in Nat \ {0}
    BY EmptySeq
  <2>2. Head(q) = q[1]
    OBVIOUS
  <2>3. Len(p) = n - 1 /\ \A k \in 1 .. Len(p) : p[k] = q[k + 1]
    BY HeadTailProperties
  <2> QED BY <2>1, <2>2, <2>3
<1>3. /\ t \in [0 .. n -> ServerState]
      /\ \A k \in 1 .. n : ServerTakes(c, q[k], t[k - 1], t[k])
      /\ \A j, k \in 0 .. n : j <= k =>
            /\ ServerGoes(t[j], t[k])
            /\ (\A l \in j + 1 .. k : q[l].ch # c) => t[k] = t[j]
  BY <1>1 DEF ServerStates
<1> HIDE DEF p
<1>4. /\ v \in [0 .. n - 1 -> ServerState] /\ \A k \in 0 .. n - 1 : v[k] = t[k + 1]
  BY <1>2, <1>3
<1> HIDE DEF v
<1>5. \A k \in 1 .. n - 1 : ServerTakes(c, p[k], v[k - 1], v[k])
  <2>1. ASSUME NEW k \in 1 .. n - 1 PROVE ServerTakes(c, p[k], v[k - 1], v[k])
    <3>1. p[k] = q[k + 1] /\ v[k - 1] = t[k] /\ v[k] = t[k + 1] /\ k + 1 \in 1 .. n
      BY <1>2, <1>4
    <3>2. ServerTakes(c, q[k + 1], t[k + 1 - 1], t[k + 1])
      BY <1>3, <3>1
    <3>3. k + 1 - 1 = k
      OBVIOUS
    <3> QED BY <3>1, <3>2, <3>3
  <2> QED BY <2>1
<1>6. ASSUME NEW j \in 0 .. n - 1, NEW k \in 0 .. n - 1, j <= k
      PROVE  /\ ServerGoes(v[j], v[k])
             /\ (\A l \in j + 1 .. k : p[l].ch # c) => v[k] = v[j]
  <2>1. v[j] = t[j + 1] /\ v[k] = t[k + 1]
        /\ j + 1 \in 0 .. n /\ k + 1 \in 0 .. n /\ j + 1 <= k + 1
    BY <1>2, <1>4, <1>6
  <2>2. ASSUME \A l \in j + 1 .. k : p[l].ch # c, NEW l \in j + 1 + 1 .. k + 1
        PROVE  q[l].ch # c
    <3>1. l - 1 \in j + 1 .. k /\ l - 1 \in 1 .. n - 1 /\ l - 1 + 1 = l
      BY <1>2
    <3> QED BY <1>2, <2>2, <3>1
  <2> QED BY <1>3, <2>1, <2>2
<1>7. ServerStates(c, p, v)
  BY <1>2, <1>4, <1>5, <1>6 DEF ServerStates
<1>8. v[0] = t[1] /\ v[Len(p)] = b
  BY <1>1, <1>2, <1>4
<1>9. ServerTakes(c, Head(q), s, t[1]) /\ t[1] \in ServerState
  <2>1. ServerTakes(c, q[1], t[1 - 1], t[1])
    BY <1>2, <1>3
  <2> QED BY <1>1, <1>2, <1>3, <2>1
<1> QED BY <1>7, <1>8, <1>9 DEF ServerPath, p

\* A way ends where the client can get, and where it began when no PDU is for the channel.
LEMMA ClientEnds ==
  ASSUME NEW c, NEW q \in Seq(Request), NEW s, NEW b, ClientPath(c, q, s, b)
  PROVE  /\ s \in ClientState /\ b \in ClientState /\ ClientGoes(s, b)
         /\ (\A k \in 1 .. Len(q) : q[k].ch # c) => b = s
<1>1. PICK t : ClientStates(c, q, t) /\ t[0] = s /\ t[Len(q)] = b
  BY DEF ClientPath
<1>2. Len(q) \in Nat
  OBVIOUS
<1>3. t[0] \in ClientState /\ t[Len(q)] \in ClientState
  BY <1>1, <1>2 DEF ClientStates
<1>4. \A m, n \in 0 .. Len(q) : m <= n =>
        /\ ClientGoes(t[m], t[n])
        /\ (\A k \in m + 1 .. n : q[k].ch # c) => t[n] = t[m]
  BY <1>1 DEF ClientStates
<1>5. /\ ClientGoes(t[0], t[Len(q)])
      /\ (\A k \in 0 + 1 .. Len(q) : q[k].ch # c) => t[Len(q)] = t[0]
  BY <1>2, <1>4
<1> QED BY <1>1, <1>3, <1>5

\* A channel that waits for the server stays as it is, whatever it was before.
LEMMA ClientWaits ==
  ASSUME NEW c, NEW q \in Seq(Request), NEW s, NEW b, ClientPath(c, q, s, b),
         s.at \in {"creating", "again", "closing"}, NEW v \in ClientState
  PROVE  b = s /\ ClientPath(c, q, v, v)
<1>1. PICK t : ClientStates(c, q, t) /\ t[0] = s /\ t[Len(q)] = b
  BY DEF ClientPath
<1> DEFINE n == Len(q)  w == [k \in 0 .. n |-> v]
<1>2. /\ t \in [0 .. n -> ClientState] /\ n \in Nat
      /\ \A k \in 1 .. n : ClientTakes(c, q[k], t[k - 1], t[k])
      /\ \A k \in 0 .. n : ClientGoes(t[0], t[k])
  BY <1>1 DEF ClientStates
<1>3. \A k \in 0 .. n : t[k] = s
  BY <1>1, <1>2 DEF ClientGoes, ClientState
<1>4. w \in [0 .. n -> ClientState] /\ \A k \in 0 .. n : w[k] = v
  OBVIOUS
<1> HIDE DEF w
<1>5. \A k \in 1 .. n : ClientTakes(c, q[k], w[k - 1], w[k])
  <2>1. ASSUME NEW k \in 1 .. n PROVE ClientTakes(c, q[k], w[k - 1], w[k])
    <3>1. ClientTakes(c, q[k], s, s) /\ w[k - 1] = v /\ w[k] = v
      BY <1>2, <1>3, <1>4
    <3>2. s \in ClientState
      BY <1>1, <1>2
    <3>3. q[k].ch # c \/ q[k].kind \in {"caps", "quit"}
      BY <3>1, <3>2 DEF ClientTakes, ClientState
    <3> QED BY <3>1, <3>3 DEF ClientTakes
  <2> QED BY <2>1
<1>6. ClientStates(c, q, w)
  BY <1>2, <1>4, <1>5 DEF ClientStates, ClientGoes
<1>7. w[0] = v /\ w[Len(q)] = v /\ b = s
  BY <1>1, <1>2, <1>3, <1>4
<1> QED BY <1>6, <1>7 DEF ClientPath

\* A way ends where the server can get, and where it began when no PDU is for the channel.
LEMMA ServerEnds ==
  ASSUME NEW c, NEW q \in Seq(Answer), NEW s, NEW b, ServerPath(c, q, s, b)
  PROVE  /\ s \in ServerState /\ b \in ServerState /\ ServerGoes(s, b)
         /\ (\A k \in 1 .. Len(q) : q[k].ch # c) => b = s
<1>1. PICK t : ServerStates(c, q, t) /\ t[0] = s /\ t[Len(q)] = b
  BY DEF ServerPath
<1>2. Len(q) \in Nat
  OBVIOUS
<1>3. t[0] \in ServerState /\ t[Len(q)] \in ServerState
  BY <1>1, <1>2 DEF ServerStates
<1>4. \A m, n \in 0 .. Len(q) : m <= n =>
        /\ ServerGoes(t[m], t[n])
        /\ (\A k \in m + 1 .. n : q[k].ch # c) => t[n] = t[m]
  BY <1>1 DEF ServerStates
<1>5. /\ ServerGoes(t[0], t[Len(q)])
      /\ (\A k \in 0 + 1 .. Len(q) : q[k].ch # c) => t[Len(q)] = t[0]
  BY <1>2, <1>4
<1> QED BY <1>1, <1>3, <1>5

\* A channel that waits to be created again stays as it is, whatever it was before.
LEMMA ServerWaits ==
  ASSUME NEW c, NEW q \in Seq(Answer), NEW s, NEW b, ServerPath(c, q, s, b),
         s.srv \in {"closed"}, NEW v \in ServerState
  PROVE  b = s /\ ServerPath(c, q, v, v)
<1>1. PICK t : ServerStates(c, q, t) /\ t[0] = s /\ t[Len(q)] = b
  BY DEF ServerPath
<1> DEFINE n == Len(q)  w == [k \in 0 .. n |-> v]
<1>2. /\ t \in [0 .. n -> ServerState] /\ n \in Nat
      /\ \A k \in 1 .. n : ServerTakes(c, q[k], t[k - 1], t[k])
      /\ \A k \in 0 .. n : ServerGoes(t[0], t[k])
  BY <1>1 DEF ServerStates
<1>3. \A k \in 0 .. n : t[k] = s
  BY <1>1, <1>2 DEF ServerGoes, ServerState
<1>4. w \in [0 .. n -> ServerState] /\ \A k \in 0 .. n : w[k] = v
  OBVIOUS
<1> HIDE DEF w
<1>5. \A k \in 1 .. n : ServerTakes(c, q[k], w[k - 1], w[k])
  <2>1. ASSUME NEW k \in 1 .. n PROVE ServerTakes(c, q[k], w[k - 1], w[k])
    <3>1. ServerTakes(c, q[k], s, s) /\ w[k - 1] = v /\ w[k] = v
      BY <1>2, <1>3, <1>4
    <3>2. s \in ServerState
      BY <1>1, <1>2
    <3>3. q[k].ch # c \/ q[k].kind = "caps"
      BY <3>1, <3>2 DEF ServerTakes, ServerState
    <3> QED BY <3>1, <3>3 DEF ServerTakes
  <2> QED BY <2>1
<1>6. ServerStates(c, q, w)
  BY <1>2, <1>4, <1>5 DEF ServerStates, ServerGoes
<1>7. w[0] = v /\ w[Len(q)] = v /\ b = s
  BY <1>1, <1>2, <1>3, <1>4
<1> QED BY <1>6, <1>7 DEF ServerPath

\* A server that closes an open channel, or creates it again, takes what is on its
\* way all the same.
LEMMA ServerClosing ==
  ASSUME NEW c, NEW q \in Seq(Answer), NEW s, NEW e, ServerPath(c, q, s, e), s.srv = "open",
         NEW z \in {"again", "closing"}
  PROVE  /\ e.srv = "open"
         /\ ServerPath(c, q, [s EXCEPT !.srv = z], [e EXCEPT !.srv = z])
<1>1. PICK t : ServerStates(c, q, t) /\ t[0] = s /\ t[Len(q)] = e
  BY DEF ServerPath
<1> DEFINE n == Len(q)  w == [k \in 0 .. n |-> [t[k] EXCEPT !.srv = z]]
<1>2. /\ t \in [0 .. n -> ServerState] /\ n \in Nat
      /\ \A k \in 1 .. n : ServerTakes(c, q[k], t[k - 1], t[k])
      /\ \A k \in 0 .. n : ServerGoes(t[0], t[k])
      /\ \A j, k \in 0 .. n : j <= k /\ (\A l \in j + 1 .. k : q[l].ch # c) => t[k] = t[j]
  BY <1>1 DEF ServerStates
<1>3. \A k \in 0 .. n : t[k] \in ServerState /\ t[k].srv = "open"
  <2>1. \A k \in 0 .. n : t[k] \in ServerState
    BY <1>2
  <2>2. \A k \in 0 .. n : t[k].srv = "open"
    BY <1>1, <1>2 DEF ServerGoes
  <2> QED BY <2>1, <2>2
<1>4. /\ w \in [0 .. n -> ServerState]
      /\ \A k \in 0 .. n : w[k] = [t[k] EXCEPT !.srv = z] /\ w[k].srv = z
  BY <1>3 DEF ServerState, Life
<1> HIDE DEF w
<1>5. \A k \in 1 .. n : ServerTakes(c, q[k], w[k - 1], w[k])
  <2>1. ASSUME NEW k \in 1 .. n PROVE ServerTakes(c, q[k], w[k - 1], w[k])
    <3> DEFINE x == t[k - 1]  y == t[k]
    <3>1. /\ ServerTakes(c, q[k], x, y) /\ x \in ServerState /\ y \in ServerState
          /\ x.srv = "open" /\ y.srv = "open"
          /\ w[k - 1] = [x EXCEPT !.srv = z] /\ w[k] = [y EXCEPT !.srv = z]
      <4>1. k - 1 \in 0 .. n /\ k \in 0 .. n
        BY <1>2
      <4>2. ServerTakes(c, q[k], x, y)
        BY <1>2
      <4>3. x \in ServerState /\ y \in ServerState /\ x.srv = "open" /\ y.srv = "open"
        BY <1>3, <4>1
      <4> QED BY <1>4, <4>1, <4>2, <4>3
    <3> HIDE DEF x, y
    <3> QED BY <3>1, ZenonT(30) DEF ServerTakes, ServerState
  <2> QED BY <2>1
<1>6. ASSUME NEW j \in 0 .. n, NEW k \in 0 .. n, j <= k
      PROVE  /\ ServerGoes(w[j], w[k])
             /\ (\A l \in j + 1 .. k : q[l].ch # c) => w[k] = w[j]
  <2>1. ServerGoes(w[j], w[k])
    BY <1>2, <1>4, <1>6 DEF ServerGoes
  <2>2. (\A l \in j + 1 .. k : q[l].ch # c) => t[k] = t[j]
    BY <1>2, <1>6
  <2> QED BY <1>4, <2>1, <2>2
<1>7. ServerStates(c, q, w)
  BY <1>4, <1>5, <1>6 DEF ServerStates
<1>8. /\ w[0] = [s EXCEPT !.srv = z] /\ w[Len(q)] = [e EXCEPT !.srv = z]
      /\ e.srv = "open"
  BY <1>1, <1>2, <1>3, <1>4
<1> QED BY <1>7, <1>8 DEF ServerPath
-----------------------------------------------------------------------------
(* Types. *)

\* drdynvc_send puts PDUs on the wire, and nothing else.
LEMMA SendTypes ==
  ASSUME TypeOK, NEW s \in Seq(Answer), Send(s)
  PROVE  wire' \in Seq(Answer)
BY ConcatProperties DEF Send, TypeOK

\* The capabilities response sent before the answer to an early create is a PDU.
LEMMA CapabilityTypes ==
  ASSUME TypeOK, in # <<>>
  PROVE  Capabilities \in Seq(Answer)
<1>1. Head(in) \in Request
  BY HeadTailProperties DEF TypeOK
<1>2. Pdu("caps", Head(in).ch, "client") \in Answer
  BY <1>1 DEF Pdu, Answer, Request, Who
<1>3. <<Pdu("caps", Head(in).ch, "client")>> \in Seq(Answer) /\ <<>> \in Seq(Answer)
  BY <1>2
<1> QED BY <1>3 DEF Capabilities

\* The server, whatever it sends.
LEMMA ServerTypes ==
  ASSUME TypeOK, Server
  PROVE  TypeOK'
<1> USE DynamicAssumption
<1>s. ASSUME NEW k \in {"caps", "create", "single", "first", "data", "close"}, NEW c \in Channel,
             NEW n \in 0 .. GivenUp, ServerSends(k, c, n)
      PROVE  /\ in' \in Seq(Request)
             /\ UNCHANGED <<mpc, connected, wire, clientVars, captureVars, caps, receiving>>
  <2>1. [kind |-> k, ch |-> c, n |-> n] \in Request
    BY DEF Request
  <2> QED BY <1>s, <2>1, AppendProperties DEF ServerSends, TypeOK
<1>0. 0 \in 0 .. GivenUp /\ GivenUp \in 0 .. GivenUp /\ 0 .. MaxMessages \subseteq 0 .. GivenUp
  BY DEF GivenUp
<1>1. CASE ServerCapabilities
  <2>1. PICK c \in Channel : ServerSends("caps", c, 0)
    BY <1>1 DEF ServerCapabilities
  <2>2. /\ in' \in Seq(Request)
        /\ UNCHANGED <<mpc, connected, wire, clientVars, captureVars, caps, receiving>>
    BY <1>s, <1>0, <2>1
  <2> QED BY <1>1, <2>2 DEF ServerCapabilities, TypeOK, clientVars, captureVars
<1>2. CASE ServerReceives
  <2>1. /\ Head(wire) \in Answer /\ wire' \in Seq(Answer)
        /\ UNCHANGED <<mpc, connected, in, clientVars, captureVars, listened, sent, half, cut>>
    BY <1>2, HeadTailProperties DEF ServerReceives, TypeOK
  <2>2. caps' \in BOOLEAN /\ srv' \in [Channel -> {"closed", "creating", "open", "again", "closing"}]
        /\ receiving' \in [Channel -> Who]
    BY <1>2, <2>1, ZenonT(30) DEF ServerReceives, Answer, Who, TypeOK
  <2> QED BY <2>1, <2>2 DEF TypeOK, clientVars, captureVars
<1>3. ASSUME NEW c \in Channel, ServerCreates(c) PROVE TypeOK'
  <2>1. ServerSends("create", c, 0)
    BY <1>3 DEF ServerCreates
  <2>2. /\ in' \in Seq(Request)
        /\ UNCHANGED <<mpc, connected, wire, clientVars, captureVars, caps, receiving>>
    BY <1>s, <1>0, <2>1
  <2>3. srv' \in [Channel -> {"closed", "creating", "open", "again", "closing"}] /\ listened' \subseteq Channel
    BY <1>3 DEF ServerCreates, TypeOK
  <2>4. sent' \in [Channel -> 0 .. MaxMessages] /\ half' = half /\ cut' = cut
    BY <1>3 DEF ServerCreates, TypeOK
  <2> QED BY <2>2, <2>3, <2>4 DEF TypeOK, clientVars, captureVars
<1>4. ASSUME NEW c \in Channel, ServerData(c) PROVE TypeOK'
  <2>1. \E k \in {"single", "first", "data"}, n \in 0 .. GivenUp : ServerSends(k, c, n)
    BY <1>4 DEF ServerData, TypeOK, GivenUp
  <2>2. /\ in' \in Seq(Request)
        /\ UNCHANGED <<mpc, connected, wire, clientVars, captureVars, caps, receiving>>
    BY <1>s, <2>1
  <2>3. half' \subseteq Channel /\ cut' \subseteq Channel /\ UNCHANGED <<srv, listened>>
    BY <1>4 DEF ServerData, TypeOK
  <2>4. sent' \in [Channel -> 0 .. MaxMessages]
    <3>1. CASE sent' = sent
      BY <3>1 DEF TypeOK
    <3>2. CASE sent[c] < MaxMessages /\ sent' = [sent EXCEPT ![c] = sent[c] + 1]
      BY <3>2 DEF TypeOK
    <3> QED BY <1>4, <3>1, <3>2 DEF ServerData
  <2> QED BY <2>2, <2>3, <2>4 DEF TypeOK, clientVars, captureVars
<1>5. ASSUME NEW c \in Channel, ServerCloses(c) PROVE TypeOK'
  <2>1. ServerSends("close", c, 0)
    BY <1>5 DEF ServerCloses
  <2>2. /\ in' \in Seq(Request)
        /\ UNCHANGED <<mpc, connected, wire, clientVars, captureVars, caps, receiving>>
    BY <1>s, <1>0, <2>1
  <2> QED BY <1>5, <2>2 DEF ServerCloses, TypeOK, clientVars, captureVars
<1>6. ASSUME NEW c \in Channel, ServerCreatesAgain(c) PROVE TypeOK'
  <2>1. ServerSends("create", c, 0)
    BY <1>6 DEF ServerCreatesAgain
  <2>2. /\ in' \in Seq(Request)
        /\ UNCHANGED <<mpc, connected, wire, clientVars, captureVars, caps, receiving>>
    BY <1>s, <1>0, <2>1
  <2>3. /\ srv' \in [Channel -> {"closed", "creating", "open", "again", "closing"}]
        /\ listened' \subseteq Channel /\ half' \subseteq Channel /\ cut' \subseteq Channel
        /\ sent' = sent
    BY <1>6 DEF ServerCreatesAgain, TypeOK
  <2> QED BY <2>2, <2>3 DEF TypeOK, clientVars, captureVars
<1>7. ASSUME NEW c \in Channel, ServerGivesUp(c) PROVE TypeOK'
  <2>1. ServerSends("first", c, GivenUp)
    BY <1>7 DEF ServerGivesUp
  <2>2. /\ in' \in Seq(Request)
        /\ UNCHANGED <<mpc, connected, wire, clientVars, captureVars, caps, receiving>>
    BY <1>s, <1>0, <2>1
  <2> QED BY <1>7, <2>2 DEF ServerGivesUp, TypeOK, clientVars, captureVars
<1> QED BY <1>1, <1>2, <1>3, <1>4, <1>5, <1>6, <1>7 DEF Server

\* The client thread, whatever it handles.
LEMMA ClientTypes ==
  ASSUME TypeOK, ClientThread
  PROVE  TypeOK'
<1> USE DynamicAssumption
<1>h. ASSUME NEW k, NEW c \in Channel, Handles(k, c)
      PROVE  /\ in # <<>> /\ in' \in Seq(Request) /\ Head(in) \in Request
             /\ UNCHANGED <<mpc, connected, serverVars>>
  BY <1>h, HeadTailProperties DEF Handles, TypeOK
<1>p. ASSUME NEW k \in {"caps", "created", "refused", "closed", "first", "next"},
             NEW c \in Channel, NEW x \in Who
      PROVE  Pdu(k, c, x) \in Answer /\ <<Pdu(k, c, x)>> \in Seq(Answer)
  <2>1. Pdu(k, c, x) \in Answer
    BY DEF Pdu, Answer
  <2> QED BY <2>1
<1>e. <<>> \in Seq(Answer)
  OBVIOUS
<1>w. "client" \in Who /\ "capture" \in Who
  BY DEF Who
<1>1. ASSUME NEW c \in Channel, CapabilityRequest(c) PROVE TypeOK'
  <2>1. wire' \in Seq(Answer)
    BY <1>1, <1>p, <1>w, SendTypes DEF CapabilityRequest
  <2> QED BY <1>1, <1>h, <2>1 DEF CapabilityRequest, TypeOK, captureVars, serverVars
<1>c. ASSUME NEW c \in Channel, NEW a \in {"refused", "closed"}, Closes(c, a)
      PROVE  /\ chan' \in [Channel -> {"none", "open"}] /\ UNCHANGED dvc_data
             /\ cpc' \in {"idle", "want", "first", "next", "reopen", "close", "exited"}
             /\ cch' \in Channel /\ answer' \in {"refused", "closed"} /\ stopping' \subseteq Channel
  BY <1>c DEF Closes, TypeOK
<1>2. ASSUME NEW c \in Channel, CreateRequest(c) PROVE TypeOK'
  <2>1. /\ in # <<>> /\ in' \in Seq(Request) /\ UNCHANGED <<mpc, connected, serverVars>>
        /\ state' = "ready" /\ UNCHANGED <<channel_error, lock, capture>>
    BY <1>2, <1>h DEF CreateRequest
  <2>2. Capabilities \in Seq(Answer)
    BY <2>1, CapabilityTypes
  <2>3. CASE chan[c] = "none" /\ c \in listened
    <3>1. /\ chan' = [chan EXCEPT ![c] = "open"] /\ dvc_data' = [dvc_data EXCEPT ![c] = 0]
          /\ delivered' = [delivered EXCEPT ![c] = <<>>]
          /\ Send(Append(Capabilities, Pdu("created", c, "client")))
          /\ UNCHANGED <<cpc, cch, answer, stopping>>
      BY <1>2, <2>3 DEF CreateRequest
    <3>2. wire' \in Seq(Answer)
      BY <1>p, <1>w, <2>2, <3>1, AppendProperties, SendTypes
    <3>3. dvc_data' \in [Channel -> 0 .. GivenUp]
      BY <3>1 DEF TypeOK, GivenUp
    <3> QED BY <2>1, <3>1, <3>2, <3>3 DEF TypeOK, serverVars
  <2>4. CASE ~(chan[c] = "none" /\ c \in listened)
    <3>1. Closes(c, "refused") /\ UNCHANGED delivered
          /\ Send(IF chan[c] = "open" THEN Capabilities
                  ELSE Append(Capabilities, Pdu("refused", c, "client")))
      BY <1>2, <2>4 DEF CreateRequest, Refuses
    <3>2. wire' \in Seq(Answer)
      BY <1>p, <1>w, <2>2, <3>1, AppendProperties, SendTypes
    <3> QED BY <1>c, <2>1, <3>1, <3>2 DEF TypeOK, serverVars
  <2> QED BY <2>3, <2>4
<1>3. ASSUME NEW c \in Channel, DataFirst(c) PROVE TypeOK'
  <2>1. dvc_data' \in [Channel -> 0 .. GivenUp]
    BY <1>3, <1>h DEF DataFirst, TypeOK, Request
  <2> QED BY <1>3, <1>h, <2>1 DEF DataFirst, TypeOK, captureVars, serverVars
<1>4. ASSUME NEW c \in Channel, Data(c) PROVE TypeOK'
  <2>1. /\ in' \in Seq(Request) /\ Head(in) \in Request /\ UNCHANGED <<mpc, connected, serverVars>>
    BY <1>4, <1>h DEF Data
  <2>2. UNCHANGED <<wire, state, channel_error, chan, answer, lock>>
    BY <1>4 DEF Data
  <2>3. CASE chan[c] # "open"
    BY <1>4, <2>1, <2>2, <2>3 DEF Data, TypeOK, serverVars
  <2>4. CASE chan[c] = "open"
    <3> DEFINE p == IF dvc_data[c] = 0 THEN <<Head(in).n, Head(in).n>> ELSE <<dvc_data[c], Head(in).n>>
    <3>1. /\ delivered' = [delivered EXCEPT ![c] = Append(@, p)]
          /\ capture' = capture \/ capture' = [capture EXCEPT ![c] = "idle"]
          /\ stopping' = stopping \/ stopping' = stopping \cup {c}
          /\ cpc' \in {"want", "reopen"} /\ cch' = c /\ dvc_data' = [dvc_data EXCEPT ![c] = 0]
      BY <1>4, <2>4 DEF Data, Delivers
    <3>2. p \in (0 .. GivenUp) \X (0 .. GivenUp)
      BY <2>1 DEF Request, TypeOK
    <3> HIDE DEF p
    <3>3. Append(delivered[c], p) \in Seq((0 .. GivenUp) \X (0 .. GivenUp))
      BY <3>2, AppendProperties DEF TypeOK
    <3>4. delivered' \in [Channel -> Seq((0 .. GivenUp) \X (0 .. GivenUp))]
      BY <3>1, <3>3 DEF TypeOK
    <3>5. capture' \in [Channel -> {"none", "idle", "want", "first", "next", "ended"}]
      BY <3>1 DEF TypeOK
    <3>6. dvc_data' \in [Channel -> 0 .. GivenUp]
      BY <3>1 DEF TypeOK, GivenUp
    <3>7. stopping' \subseteq Channel
      BY <3>1 DEF TypeOK
    <3> QED BY <2>1, <2>2, <3>1, <3>4, <3>5, <3>6, <3>7 DEF TypeOK, serverVars
  <2> QED BY <2>3, <2>4
<1>5. ASSUME NEW c \in Channel, CloseRequest(c) PROVE TypeOK'
  <2>1. wire' \in Seq(Answer) /\ channel_error' \in BOOLEAN
    BY <1>5, <1>p, <1>w, SendTypes DEF CloseRequest, TypeOK
  <2> QED BY <1>5, <1>h, <1>c, <2>1 DEF CloseRequest, TypeOK, serverVars
<1>6. CASE Closed
  <2>1. cch \in Channel /\ answer \in {"refused", "closed"}
    BY DEF TypeOK
  <2>2. wire' \in Seq(Answer)
    BY <1>6, <1>p, <1>w, <2>1, SendTypes DEF Closed
  <2>3. /\ chan' \in [Channel -> {"none", "open"}] /\ dvc_data' \in [Channel -> 0 .. GivenUp]
        /\ capture' \in [Channel -> {"none", "idle", "want", "first", "next", "ended"}]
    BY <1>6, <2>1 DEF Closed, TypeOK, GivenUp
  <2>4. cpc' = "idle" /\ stopping' \subseteq Channel /\ channel_error' \in BOOLEAN
    BY <1>6 DEF Closed, TypeOK
  <2>5. UNCHANGED <<mpc, connected, in, state, delivered, cch, answer, lock, serverVars>>
    BY <1>6 DEF Closed
  <2> QED BY <2>2, <2>3, <2>4, <2>5 DEF TypeOK, serverVars
<1>7. CASE Quits
  <2>1. in' \in Seq(Request)
    BY <1>7, HeadTailProperties DEF Quits, TypeOK
  <2> QED BY <1>7, <2>1 DEF Quits, TypeOK, serverVars, captureVars
<1>8. CASE ClientWrites
  <2>1. cch \in Channel
    BY DEF TypeOK
  <2>2. wire' \in Seq(Answer) /\ channel_error' \in BOOLEAN
    BY <1>8, <1>p, <1>w, <2>1, SendTypes DEF ClientWrites, Fragment, Locks, TypeOK
  <2>3. lock' \in [Channel -> Who] /\ cpc' \in {"idle", "want", "first", "next", "reopen", "close", "exited"}
    BY <1>8, <1>w, <2>1 DEF ClientWrites, Locks, TypeOK, Who
  <2> QED BY <1>8, <2>2, <2>3 DEF ClientWrites, TypeOK, serverVars
<1>9. CASE Reopened
  BY <1>9 DEF Reopened, TypeOK, serverVars
<1> QED BY <1>1, <1>2, <1>3, <1>4, <1>5, <1>6, <1>7, <1>8, <1>9 DEF ClientThread

\* A capture thread, whatever it writes (dvcman_write_channel).
LEMMA CaptureTypes ==
  ASSUME TypeOK, NEW c \in Channel, CaptureThread(c)
  PROVE  TypeOK'
<1>1. CASE CaptureBegins(c)
  BY <1>1, ZenonT(30) DEF CaptureBegins, TypeOK, clientVars, serverVars
<1>2. CASE CaptureWrites(c)
  <2>1. \A k \in {"first", "next"} : <<Pdu(k, c, "capture")>> \in Seq(Answer)
    BY DEF Pdu, Answer, Who
  <2>2. wire' \in Seq(Answer) /\ channel_error' \in BOOLEAN
    BY <1>2, <2>1, SendTypes DEF CaptureWrites, Fragment, Locks, TypeOK
  <2>3. /\ lock' \in [Channel -> Who]
        /\ capture' \in [Channel -> {"none", "idle", "want", "first", "next", "ended"}]
    BY <1>2 DEF CaptureWrites, Locks, TypeOK, Who
  <2> QED BY <1>2, <2>2, <2>3 DEF CaptureWrites, TypeOK, serverVars
<1> QED BY <1>1, <1>2 DEF CaptureThread

\* The main thread: it posts the quit message and frees the channels (dvcman_free).
LEMMA MainTypes ==
  ASSUME TypeOK, Disconnect \/ MainThread \/ UNCHANGED vars
  PROVE  TypeOK'
<1>1. CASE Disconnect
  <2>1. [kind |-> "quit", ch |-> cch, n |-> 0] \in Request
    BY DynamicAssumption DEF Request, TypeOK, GivenUp
  <2>2. in' \in Seq(Request)
    BY <1>1, <2>1, AppendProperties DEF Disconnect, TypeOK
  <2> QED BY <1>1, <2>2 DEF Disconnect, TypeOK, clientVars, captureVars, serverVars
<1>2. CASE MainThread
  BY <1>2, ZenonT(30) DEF MainThread, Frees, FreesOne, Freed, TypeOK, clientVars, captureVars, serverVars
<1>3. CASE UNCHANGED vars
  BY <1>3 DEF vars, TypeOK, clientVars, captureVars, serverVars
<1> QED BY <1>1, <1>2, <1>3

\* The plug-in is connected and has handled nothing yet.
LEMMA InitTypes == Init => TypeOK
<1> SUFFICES ASSUME Init PROVE TypeOK
  OBVIOUS
<1>1. /\ dvc_data \in [Channel -> 0 .. GivenUp] /\ sent \in [Channel -> 0 .. MaxMessages]
      /\ delivered \in [Channel -> Seq((0 .. GivenUp) \X (0 .. GivenUp))]
  <2>1. /\ <<>> \in Seq((0 .. GivenUp) \X (0 .. GivenUp))
        /\ 0 \in 0 .. MaxMessages /\ 0 \in 0 .. GivenUp
    BY DynamicAssumption DEF GivenUp
  <2> QED BY <2>1 DEF Init
<1>2. in \in Seq(Request) /\ wire \in Seq(Answer)
  BY DEF Init
<1>3. /\ chan \in [Channel -> {"none", "open"}]
      /\ lock \in [Channel -> Who] /\ receiving \in [Channel -> Who]
      /\ capture \in [Channel -> {"none", "idle", "want", "first", "next", "ended"}]
      /\ srv \in [Channel -> {"closed", "creating", "open", "again", "closing"}]
  BY DEF Init, Who
<1> QED BY <1>1, <1>2, <1>3 DEF Init, TypeOK

\* Every variable keeps its type: no number of a message passes the bound, and
\* nothing but PDUs is in the queues.
THEOREM DynamicTypes == Spec => []TypeOK
<1>1. TypeOK /\ [Next]_vars => TypeOK'
  BY ServerTypes, ClientTypes, CaptureTypes, MainTypes DEF Next
<1> QED BY InitTypes, <1>1, PTL DEF Spec
-----------------------------------------------------------------------------
(* The invariant. *)

\* A channel as the client has it now.
AtClient(c) ==
    [at |-> IF cpc = "close" /\ cch = c
            THEN IF answer = "closed" THEN "closing" ELSE "again"
            ELSE IF chan[c] = "open" THEN "open" ELSE "closed",
     got |-> Len(delivered[c]), part |-> dvc_data[c]]

AtServer(c) == [srv |-> srv[c], who |-> receiving[c]]

\* Who has written the first fragment of a message, and not the second.
Fragmenting(c) ==
    IF cpc = "next" /\ cch = c THEN "client"
    ELSE IF capture[c] = "next" THEN "capture" ELSE "free"

\* The messages that will have been delivered are those the server has sent, but
\* for the fragment of one it has still to complete, or will not.
Numbers(c, b) ==
    IF c \in half THEN b.got + 1 = sent[c] /\ b.part = sent[c]
    ELSE b.got = sent[c] /\ b.part = IF c \in cut THEN GivenUp ELSE 0

\* Once the client has handled all there is, c is as in b, once the server has, as
\* in e; while they are connected the two are the same.
Agrees(c, b, e) ==
    /\ ServerPath(c, wire, AtServer(c), e)
    /\ cpc # "exited" => ClientPath(c, in, AtClient(c), b)
    /\ connected => /\ e.who = Fragmenting(c) /\ b.at = e.srv
                    /\ b.at = "open" => Numbers(c, b)

OnItsWay(c) == \E b, e : Agrees(c, b, e)

Counting(c) ==
    /\ srv[c] = "creating" => sent[c] = 0
    /\ c \in half => srv[c] = "open" /\ c \notin cut
    /\ c \in cut => srv[c] = "open"
    /\ \A k \in 1 .. Len(delivered[c]) : delivered[c][k] = <<k, k>>

\* Where the threads can be, and who holds the locks.
ThreadsInv ==
    /\ connected <=> mpc = "up"
    /\ connected => /\ cpc # "exited" /\ ~channel_error
                    /\ \A k \in 1 .. Len(in) : in[k].kind # "quit"
    /\ mpc \in {"free", "end"} => cpc = "exited"
    /\ cpc \in {"want", "first", "next", "reopen", "close"} => chan[cch] = "open"
    /\ \A c \in Channel :
        /\ lock[c] = "client" <=> cpc \in {"first", "next"} /\ cch = c
        /\ lock[c] = "capture" <=> capture[c] \in {"first", "next"}
        /\ capture[c] \in {"idle", "want", "first", "next"} => chan[c] = "open"

ProtocolInv == TypeOK /\ ThreadsInv /\ \A c \in Channel : Counting(c) /\ OnItsWay(c)

\* The same ways lead through the queue of the client thread as before.
KeepsIn(c) == \A s, b : ClientPath(c, in, s, b) => ClientPath(c, in', s, b)

KeepsWire(c) == \A s, e : ServerPath(c, wire, s, e) => ServerPath(c, wire', s, e)

\* p is written, and perhaps a capabilities response before it.
Writes(p) ==
    IF connected
    THEN \E r \in Seq(Answer) :
            /\ wire' = Append(r, p)
            /\ \A c, s, e : ServerPath(c, wire, s, e) => ServerPath(c, r, s, e)
    ELSE wire' = wire
-----------------------------------------------------------------------------
(* PDUs that leave a channel alone. *)

\* A PDU for another channel, or for none, keeps the ways of the channel.
LEMMA InKeeps ==
  ASSUME TypeOK, NEW d,
         \/ in' = in
         \/ \E m \in Request : in' = Append(in, m) /\ (m.ch # d \/ m.kind \in {"caps", "quit"})
         \/ /\ in # <<>> /\ in' = Tail(in)
            /\ Head(in).ch # d \/ Head(in).kind \in {"caps", "quit"}
  PROVE  KeepsIn(d)
<1> SUFFICES ASSUME NEW s, NEW b, ClientPath(d, in, s, b)
             PROVE  ClientPath(d, in', s, b)
  BY DEF KeepsIn
<1>q. in \in Seq(Request)
  BY DEF TypeOK
<1>b. b \in ClientState
  BY <1>q, ClientEnds
<1>1. CASE in' = in
  BY <1>1
<1>2. ASSUME NEW m \in Request, in' = Append(in, m), m.ch # d \/ m.kind \in {"caps", "quit"}
      PROVE  ClientPath(d, in', s, b)
  <2>1. ClientTakes(d, m, b, b)
    BY <1>2 DEF ClientTakes
  <2> QED BY <1>q, <1>b, <1>2, <2>1, ClientAppend
<1>3. CASE /\ in # <<>> /\ in' = Tail(in)
           /\ Head(in).ch # d \/ Head(in).kind \in {"caps", "quit"}
  <2>1. PICK u \in ClientState : ClientTakes(d, Head(in), s, u) /\ ClientPath(d, Tail(in), u, b)
    BY <1>q, <1>3, ClientTail
  <2>2. u = s
    BY <1>3, <2>1 DEF ClientTakes
  <2> QED BY <1>3, <2>1, <2>2
<1> QED BY <1>1, <1>2, <1>3

\* A PDU of another channel, or a capabilities response, behind the others.
LEMMA WireAppends ==
  ASSUME NEW q \in Seq(Answer), NEW m \in Answer, NEW d, m.ch # d \/ m.kind = "caps",
         NEW s, NEW e, ServerPath(d, q, s, e)
  PROVE  ServerPath(d, Append(q, m), s, e)
<1>1. e \in ServerState
  BY ServerEnds
<1>2. ServerTakes(d, m, e, e)
  BY DEF ServerTakes
<1> QED BY <1>1, <1>2, ServerAppend

\* drdynvc_send writes one PDU.
LEMMA WritesOne ==
  ASSUME TypeOK, NEW p \in Answer, Send(<<p>>)
  PROVE  Writes(p)
<1>1. wire \in Seq(Answer)
  BY DEF TypeOK
<1>2. Append(wire, p) = wire \o <<p>>
  BY <1>1, AppendIsConcat
<1> QED BY <1>1, <1>2 DEF Send, Writes

\* A capabilities response, where there is one, goes first.
LEMMA WritesCapabilities ==
  ASSUME TypeOK, in # <<>>, NEW p \in Answer, Send(Append(Capabilities, p))
  PROVE  Writes(p)
<1>1. wire \in Seq(Answer) /\ Head(in) \in Request
  BY HeadTailProperties DEF TypeOK
<1> DEFINE m == Pdu("caps", Head(in).ch, "client")
<1>2. m \in Answer /\ m.kind = "caps"
  BY <1>1 DEF Pdu, Answer, Request, Who
<1>3. Capabilities = <<m>> \/ Capabilities = <<>>
  BY DEF Capabilities
<1> HIDE DEF m
<1>4. CASE Capabilities = <<>>
  <2>1. Append(Capabilities, p) = <<p>>
    BY <1>4
  <2> QED BY <2>1, WritesOne
<1>5. CASE Capabilities = <<m>>
  <2> DEFINE r == Append(wire, m)
  <2>1. r \in Seq(Answer)
    BY <1>1, <1>2, AppendProperties
  <2>2. wire \o Append(<<m>>, p) = Append(r, p)
    <3>1. Append(<<m>>, p) = <<m>> \o <<p>> /\ <<m>> \in Seq(Answer) /\ <<p>> \in Seq(Answer)
      BY <1>2
    <3>2. wire \o (<<m>> \o <<p>>) = (wire \o <<m>>) \o <<p>>
      BY <1>1, <3>1, ConcatAssociative
    <3>3. wire \o <<m>> = r
      BY <1>1, <1>2, AppendIsConcat
    <3>4. r \o <<p>> = Append(r, p)
      BY <2>1, AppendIsConcat
    <3> QED BY <3>1, <3>2, <3>3, <3>4
  <2>3. \A c, s, e : ServerPath(c, wire, s, e) => ServerPath(c, r, s, e)
    BY <1>1, <1>2, WireAppends
  <2> HIDE DEF r
  <2>4. connected => wire' = Append(r, p)
    BY <1>5, <2>2 DEF Send
  <2>5. ~connected => wire' = wire
    BY DEF Send
  <2> QED BY <2>1, <2>3, <2>4, <2>5 DEF Writes
<1> QED BY <1>3, <1>4, <1>5

\* What is written on other channels, or read from them, changes nothing on this.
LEMMA WireKeeps ==
  ASSUME TypeOK, NEW d,
         \/ wire' = wire
         \/ \E p \in Answer : Writes(p) /\ (p.ch # d \/ p.kind = "caps")
         \/ wire # <<>> /\ wire' = Tail(wire) /\ (Head(wire).ch # d \/ Head(wire).kind = "caps")
  PROVE  KeepsWire(d)
<1> SUFFICES ASSUME NEW s, NEW e, ServerPath(d, wire, s, e)
             PROVE  ServerPath(d, wire', s, e)
  BY DEF KeepsWire
<1>q. wire \in Seq(Answer)
  BY DEF TypeOK
<1>1. CASE wire' = wire
  BY <1>1
<1>2. ASSUME NEW p \in Answer, Writes(p), p.ch # d \/ p.kind = "caps"
      PROVE  ServerPath(d, wire', s, e)
  <2>1. CASE connected
    <3>1. PICK r \in Seq(Answer) : /\ wire' = Append(r, p)
                                   /\ ServerPath(d, r, s, e)
      BY <1>2, <2>1 DEF Writes
    <3> QED BY <1>2, <3>1, WireAppends
  <2>2. CASE ~connected
    BY <1>2, <2>2 DEF Writes
  <2> QED BY <2>1, <2>2
<1>3. CASE wire # <<>> /\ wire' = Tail(wire) /\ (Head(wire).ch # d \/ Head(wire).kind = "caps")
  <2>1. PICK u \in ServerState : ServerTakes(d, Head(wire), s, u) /\ ServerPath(d, Tail(wire), u, e)
    BY <1>q, <1>3, ServerTail
  <2>2. u = s
    BY <1>3, <2>1 DEF ServerTakes
  <2> QED BY <1>3, <2>1, <2>2
<1> QED BY <1>1, <1>2, <1>3

\* A PDU for the channel goes to the end of its way.
LEMMA WritesHere ==
  ASSUME NEW p \in Answer, Writes(p), connected, NEW c, NEW s, NEW e, ServerPath(c, wire, s, e),
         NEW u \in ServerState, ServerTakes(c, p, e, u)
  PROVE  ServerPath(c, wire', s, u)
<1>1. PICK r \in Seq(Answer) : wire' = Append(r, p) /\ ServerPath(c, r, s, e)
  BY DEF Writes
<1> QED BY <1>1, ServerAppend

\* A step that changes neither end of a channel, nor what is on its way there,
\* leaves them in agreement.
LEMMA Elsewhere ==
  ASSUME NEW d, OnItsWay(d), KeepsIn(d), KeepsWire(d),
         AtClient(d)' = AtClient(d), AtServer(d)' = AtServer(d),
         connected' => /\ connected /\ Fragmenting(d)' = Fragmenting(d)
                       /\ sent'[d] = sent[d] /\ (d \in half' <=> d \in half)
                       /\ (d \in cut' <=> d \in cut),
         cpc' # "exited" => cpc # "exited"
  PROVE  OnItsWay(d)'
<1>1. PICK b, e : Agrees(d, b, e)
  BY DEF OnItsWay
<1>2. ServerPath(d, wire', AtServer(d)', e)
  BY <1>1 DEF Agrees, KeepsWire
<1>3. cpc' # "exited" => ClientPath(d, in', AtClient(d)', b)
  BY <1>1 DEF Agrees, KeepsIn
<1>4. connected' => /\ e.who = Fragmenting(d)' /\ b.at = e.srv
                    /\ b.at = "open" => Numbers(d, b)'
  BY <1>1 DEF Agrees, Numbers
<1>5. Agrees(d, b, e)'
  BY <1>2, <1>3, <1>4 DEF Agrees
<1> QED BY <1>5 DEF OnItsWay
-----------------------------------------------------------------------------
(* The server. *)

\* The server adds a PDU to what its client has still to handle.
LEMMA Sends ==
  ASSUME TypeOK, ThreadsInv, NEW c \in Channel, NEW n \in 0 .. GivenUp,
         NEW k \in {"caps", "create", "single", "first", "data", "close"}, ServerSends(k, c, n)
  PROVE  /\ ThreadsInv'
         /\ \E m \in Request : m = [kind |-> k, ch |-> c, n |-> n] /\ in' = Append(in, m)
         /\ connected /\ cpc # "exited" /\ connected' = connected /\ cpc' = cpc
         /\ wire' = wire /\ receiving' = receiving /\ delivered' = delivered
         /\ \A d : AtClient(d)' = AtClient(d) /\ Fragmenting(d)' = Fragmenting(d)
<1> DEFINE m == [kind |-> k, ch |-> c, n |-> n]
<1>1. m \in Request /\ in' = Append(in, m) /\ m.kind # "quit"
  BY DEF Request, ServerSends
<1> HIDE DEF m
<1>2. /\ mpc = "up" /\ UNCHANGED <<mpc, connected, wire, receiving>>
      /\ UNCHANGED <<channel_error, chan, dvc_data, delivered, cpc, cch, answer>>
      /\ UNCHANGED <<lock, capture, stopping>>
  BY DEF ServerSends, clientVars, captureVars
<1>3. /\ Len(in) \in Nat /\ Len(in') = Len(in) + 1 /\ in'[Len(in) + 1] = m
      /\ \A j \in 1 .. Len(in) : in'[j] = in[j]
  BY <1>1, AppendProperties DEF TypeOK
<1>4. (\A j \in 1 .. Len(in) : in[j].kind # "quit") => \A j \in 1 .. Len(in') : in'[j].kind # "quit"
  BY <1>1, <1>3
<1>5. ThreadsInv'
  BY <1>2, <1>4 DEF ThreadsInv
<1>6. \A d : AtClient(d)' = AtClient(d) /\ Fragmenting(d)' = Fragmenting(d)
  BY <1>2 DEF AtClient, Fragmenting
<1>7. connected /\ cpc # "exited"
  BY <1>2 DEF ThreadsInv
<1> QED BY <1>1, <1>2, <1>5, <1>6, <1>7 DEF m

\* While they are connected the ways of a channel end in one place, at both sides.
LEMMA Connected ==
  ASSUME TypeOK, NEW c \in Channel, OnItsWay(c), connected, cpc # "exited"
  PROVE  \E b \in ClientState, e \in ServerState :
            /\ ServerPath(c, wire, AtServer(c), e) /\ ServerGoes(AtServer(c), e)
            /\ ClientPath(c, in, AtClient(c), b) /\ ClientGoes(AtClient(c), b)
            /\ e.who = Fragmenting(c) /\ b.at = e.srv /\ (b.at = "open" => Numbers(c, b))
            /\ AtServer(c) \in ServerState /\ AtClient(c) \in ClientState
<1>1. in \in Seq(Request) /\ wire \in Seq(Answer)
  BY DEF TypeOK
<1>2. PICK b, e : Agrees(c, b, e)
  BY DEF OnItsWay
<1>3. /\ b \in ClientState /\ ClientGoes(AtClient(c), b) /\ AtClient(c) \in ClientState
      /\ ClientPath(c, in, AtClient(c), b)
  BY <1>1, <1>2, ClientEnds DEF Agrees
<1>4. /\ e \in ServerState /\ ServerGoes(AtServer(c), e) /\ AtServer(c) \in ServerState
      /\ ServerPath(c, wire, AtServer(c), e)
  BY <1>1, <1>2, ServerEnds DEF Agrees
<1> QED BY <1>2, <1>3, <1>4 DEF Agrees

\* DYNVC_CAPS belongs to no channel.
LEMMA CapabilitiesAsked ==
  ASSUME ProtocolInv, ServerCapabilities
  PROVE  ThreadsInv' /\ \A d \in Channel : Counting(d)' /\ OnItsWay(d)'
<1>1. PICK c \in Channel : ServerSends("caps", c, 0)
  BY DEF ServerCapabilities
<1>2. UNCHANGED <<srv, sent, half, cut>> /\ 0 \in 0 .. GivenUp
  BY DynamicAssumption DEF ServerCapabilities, GivenUp
<1>3. TypeOK /\ ThreadsInv
  BY DEF ProtocolInv
<1>4. PICK m \in Request : m = [kind |-> "caps", ch |-> c, n |-> 0] /\ in' = Append(in, m)
  BY <1>1, <1>2, <1>3, Sends
<1>5. /\ ThreadsInv' /\ connected' = connected /\ cpc' = cpc
      /\ wire' = wire /\ receiving' = receiving /\ delivered' = delivered
      /\ \A d : AtClient(d)' = AtClient(d) /\ Fragmenting(d)' = Fragmenting(d)
  BY <1>1, <1>2, <1>3, Sends
<1>6. ASSUME NEW d \in Channel PROVE Counting(d)' /\ OnItsWay(d)'
  <2>1. KeepsIn(d) /\ KeepsWire(d)
    BY <1>3, <1>4, <1>5, InKeeps, WireKeeps
  <2>2. AtServer(d)' = AtServer(d)
    BY <1>2, <1>5 DEF AtServer
  <2>3. OnItsWay(d) /\ Counting(d)
    BY DEF ProtocolInv
  <2>4. OnItsWay(d)'
    BY <1>2, <1>5, <2>1, <2>2, <2>3, Elsewhere
  <2> QED BY <1>2, <1>5, <2>3, <2>4 DEF Counting
<1> QED BY <1>5, <1>6

\* A channel is created when there is nothing about it on its way: the identifier
\* is used again only after the answer to its close.
LEMMA Creates ==
  ASSUME ProtocolInv, NEW c \in Channel, ServerCreates(c)
  PROVE  ThreadsInv' /\ \A d \in Channel : Counting(d)' /\ OnItsWay(d)'
<1>1. ServerSends("create", c, 0) /\ 0 \in 0 .. GivenUp
  BY DynamicAssumption DEF ServerCreates, GivenUp
<1>2. /\ srv[c] = "closed" /\ srv' = [srv EXCEPT ![c] = "creating"]
      /\ sent' = [sent EXCEPT ![c] = 0] /\ half' = half /\ cut' = cut
  BY DEF ServerCreates
<1>3. TypeOK /\ ThreadsInv
  BY DEF ProtocolInv
<1>4. PICK m \in Request : m = [kind |-> "create", ch |-> c, n |-> 0] /\ in' = Append(in, m)
  BY <1>1, <1>3, Sends
<1>5. /\ ThreadsInv' /\ connected' = connected /\ cpc' = cpc /\ connected /\ cpc # "exited"
      /\ wire' = wire /\ receiving' = receiving /\ delivered' = delivered
      /\ \A d : AtClient(d)' = AtClient(d) /\ Fragmenting(d)' = Fragmenting(d)
  BY <1>1, <1>3, Sends
<1>6. ASSUME NEW d \in Channel PROVE Counting(d)'
  <2>1. Counting(d)
    BY DEF ProtocolInv
  <2> QED BY <1>2, <1>3, <1>5, <2>1 DEF Counting, TypeOK
<1>7. ASSUME NEW d \in Channel, d # c PROVE OnItsWay(d)'
  <2>1. KeepsIn(d) /\ KeepsWire(d)
    BY <1>3, <1>4, <1>5, <1>7, InKeeps, WireKeeps
  <2>2. AtServer(d)' = AtServer(d) /\ sent'[d] = sent[d]
    BY <1>2, <1>3, <1>5, <1>7 DEF AtServer, TypeOK
  <2>3. OnItsWay(d)
    BY DEF ProtocolInv
  <2> QED BY <1>2, <1>5, <2>1, <2>2, <2>3, Elsewhere
<1>8. OnItsWay(c)'
  <2>1. OnItsWay(c)
    BY DEF ProtocolInv
  <2>2. PICK b \in ClientState, e \in ServerState :
            /\ ServerPath(c, wire, AtServer(c), e) /\ ServerGoes(AtServer(c), e)
            /\ ClientPath(c, in, AtClient(c), b)
            /\ e.who = Fragmenting(c) /\ b.at = e.srv /\ AtServer(c) \in ServerState
    BY <1>3, <1>5, <2>1, Connected
  <2>3. AtServer(c).srv = "closed" /\ AtServer(c)' = [AtServer(c) EXCEPT !.srv = "creating"]
    BY <1>2, <1>3, <1>5 DEF AtServer, TypeOK
  <2>4. AtServer(c)' \in ServerState
    BY <2>2, <2>3 DEF ServerState, Life
  <2>5. e = AtServer(c) /\ ServerPath(c, wire, AtServer(c)', AtServer(c)')
    BY <1>3, <2>2, <2>3, <2>4, ServerWaits DEF TypeOK
  <2> DEFINE v == [b EXCEPT !.at = "creating"]
  <2>6. v \in ClientState /\ v.at = "creating" /\ ClientTakes(c, m, b, v)
    BY <1>4, <2>2, <2>3, <2>5 DEF ClientTakes, ClientState, Life
  <2> HIDE DEF v
  <2>7. ClientPath(c, in', AtClient(c)', v)
    BY <1>3, <1>4, <1>5, <2>2, <2>6, ClientAppend DEF TypeOK
  <2>8. AtServer(c)'.who = Fragmenting(c)' /\ AtServer(c)'.srv = "creating"
    BY <1>5, <2>2, <2>3, <2>5 DEF ServerState
  <2>9. PICK x : x = AtServer(c)'
    OBVIOUS
  <2>10. Agrees(c, v, x)'
    BY <1>5, <2>5, <2>6, <2>7, <2>8, <2>9 DEF Agrees
  <2> QED BY <2>10 DEF OnItsWay
<1> QED BY <1>5, <1>6, <1>7, <1>8

\* The server sends messages on a channel that both have open, and counts them.
LEMMA SendsData ==
  ASSUME ProtocolInv, NEW c \in Channel, ServerData(c)
  PROVE  ThreadsInv' /\ \A d \in Channel : Counting(d)' /\ OnItsWay(d)'
<1> USE DynamicAssumption
<1>1. TypeOK /\ ThreadsInv
  BY DEF ProtocolInv
<1>2. PICK k \in {"single", "first", "data"}, n \in 0 .. GivenUp :
        /\ ServerSends(k, c, n)
        /\ \/ /\ k = "single" /\ c \notin half /\ c \notin cut /\ n = sent[c] + 1
              /\ sent' = [sent EXCEPT ![c] = n] /\ half' = half /\ cut' = cut
           \/ /\ k = "first" /\ c \notin half /\ n = sent[c] + 1
              /\ sent' = [sent EXCEPT ![c] = n] /\ half' = half \cup {c} /\ cut' = cut \ {c}
           \/ /\ k = "data" /\ c \in half /\ n = sent[c] /\ sent' = sent
              /\ half' = half \ {c} /\ cut' = cut
  <2>1. CASE c \notin half /\ sent[c] < MaxMessages /\ sent' = [sent EXCEPT ![c] = @ + 1]
    <3>1. sent[c] + 1 \in 0 .. GivenUp
      BY <1>1, <2>1 DEF TypeOK, GivenUp
    <3> QED BY <2>1, <3>1 DEF ServerData
  <2>2. CASE /\ c \in half /\ half' = half \ {c} /\ sent' = sent /\ cut' = cut
             /\ ServerSends("data", c, sent[c])
    <3>1. sent[c] \in 0 .. GivenUp
      BY <1>1 DEF TypeOK, GivenUp
    <3> QED BY <2>2, <3>1
  <2> QED BY <2>1, <2>2 DEF ServerData
<1>3. srv[c] = "open" /\ srv' = srv
  BY DEF ServerData
<1>4. PICK m \in Request : m = [kind |-> k, ch |-> c, n |-> n] /\ in' = Append(in, m)
  BY <1>1, <1>2, Sends
<1>5. /\ ThreadsInv' /\ connected' = connected /\ cpc' = cpc /\ connected /\ cpc # "exited"
      /\ wire' = wire /\ receiving' = receiving /\ delivered' = delivered
      /\ \A d : AtClient(d)' = AtClient(d) /\ Fragmenting(d)' = Fragmenting(d)
  BY <1>1, <1>2, Sends
<1>6. ASSUME NEW d \in Channel PROVE Counting(d)'
  <2>1. Counting(d)
    BY DEF ProtocolInv
  <2>2. srv[d] = "creating" => sent'[d] = sent[d]
    BY <1>1, <1>2, <1>3 DEF TypeOK
  <2>3. (d \in half' => srv[d] = "open" /\ d \notin cut') /\ (d \in cut' => srv[d] = "open")
    BY <1>2, <1>3, <2>1 DEF Counting
  <2> QED BY <1>3, <1>5, <2>1, <2>2, <2>3 DEF Counting
<1>7. ASSUME NEW d \in Channel PROVE AtServer(d)' = AtServer(d)
  BY <1>3, <1>5 DEF AtServer
<1>8. ASSUME NEW d \in Channel, d # c PROVE OnItsWay(d)'
  <2>1. KeepsIn(d) /\ KeepsWire(d)
    BY <1>1, <1>4, <1>5, <1>8, InKeeps, WireKeeps
  <2>2. sent'[d] = sent[d] /\ (d \in half' <=> d \in half) /\ (d \in cut' <=> d \in cut)
    BY <1>1, <1>2, <1>8 DEF TypeOK
  <2>3. OnItsWay(d)
    BY DEF ProtocolInv
  <2> QED BY <1>5, <1>7, <2>1, <2>2, <2>3, Elsewhere
<1>9. OnItsWay(c)'
  <2>1. OnItsWay(c)
    BY DEF ProtocolInv
  <2>2. PICK b \in ClientState, e \in ServerState :
            /\ ServerPath(c, wire, AtServer(c), e) /\ ServerGoes(AtServer(c), e)
            /\ ClientPath(c, in, AtClient(c), b)
            /\ e.who = Fragmenting(c) /\ b.at = e.srv /\ (b.at = "open" => Numbers(c, b))
    BY <1>1, <1>5, <2>1, Connected
  <2>3. e.srv = "open" /\ b.at = "open" /\ Numbers(c, b) /\ (c \in half => c \notin cut)
    BY <1>3, <2>2 DEF AtServer, ServerGoes, ProtocolInv, Counting
  <2>4. b.got \in Nat /\ b.part \in Nat
    BY DEF ClientState
  <2>5. PICK v \in ClientState : ClientTakes(c, m, b, v) /\ v.at = "open" /\ Numbers(c, v)'
    <3>1. CASE k = "single"
      <4> DEFINE v == [b EXCEPT !.got = n]
      <4>1. v \in ClientState /\ v.at = "open" /\ v.got = n /\ v.part = b.part
        BY <2>3, <2>4 DEF ClientState
      <4>2. b.part = 0 /\ n = b.got + 1
        BY <1>2, <2>3, <3>1 DEF Numbers
      <4>3. ClientTakes(c, m, b, v)
        BY <1>4, <2>3, <3>1, <4>2 DEF ClientTakes
      <4>4. c \notin half' /\ c \notin cut' /\ sent'[c] = n
        BY <1>1, <1>2, <3>1 DEF TypeOK
      <4> QED BY <4>1, <4>2, <4>3, <4>4 DEF Numbers
    <3>2. CASE k = "first"
      <4> DEFINE v == [b EXCEPT !.part = n]
      <4>1. v \in ClientState /\ v.at = "open" /\ v.got = b.got /\ v.part = n
        BY <2>3, <2>4 DEF ClientState
      <4>2. n = b.got + 1
        BY <1>2, <2>3, <3>2 DEF Numbers
      <4>3. ClientTakes(c, m, b, v)
        BY <1>4, <2>3, <3>2, <4>2 DEF ClientTakes
      <4>4. c \in half' /\ sent'[c] = n
        BY <1>1, <1>2, <3>2 DEF TypeOK
      <4> QED BY <4>1, <4>2, <4>3, <4>4 DEF Numbers
    <3>3. CASE k = "data"
      <4> DEFINE v == [at |-> "open", got |-> n, part |-> 0]
      <4>1. v \in ClientState /\ v.at = "open" /\ v.got = n /\ v.part = 0
        BY DEF ClientState, Life
      <4>2. b.part = n /\ n = b.got + 1
        BY <1>2, <2>3, <3>3 DEF Numbers
      <4>3. ClientTakes(c, m, b, v)
        BY <1>4, <2>3, <3>3, <4>2 DEF ClientTakes
      <4>4. c \notin half' /\ c \notin cut' /\ sent'[c] = n
        BY <1>2, <2>3, <3>3
      <4> QED BY <4>1, <4>2, <4>3, <4>4 DEF Numbers
    <3> QED BY <3>1, <3>2, <3>3
  <2>6. ClientPath(c, in', AtClient(c)', v)
    BY <1>1, <1>4, <1>5, <2>2, <2>5, ClientAppend DEF TypeOK
  <2>7. Agrees(c, v, e)'
    BY <1>5, <1>7, <2>2, <2>3, <2>5, <2>6 DEF Agrees
  <2> QED BY <2>7 DEF OnItsWay
<1> QED BY <1>5, <1>6, <1>8, <1>9

\* The server gives up a message: the client keeps its first fragment until it has
\* that of the next.
LEMMA GivesUp ==
  ASSUME ProtocolInv, NEW c \in Channel, ServerGivesUp(c)
  PROVE  ThreadsInv' /\ \A d \in Channel : Counting(d)' /\ OnItsWay(d)'
<1>1. ServerSends("first", c, GivenUp) /\ GivenUp \in 0 .. GivenUp /\ GivenUp \in Nat
  BY DynamicAssumption DEF ServerGivesUp, GivenUp
<1>2. /\ srv[c] = "open" /\ c \notin half /\ c \notin cut
      /\ srv' = srv /\ sent' = sent /\ half' = half /\ cut' = cut \cup {c}
  BY DEF ServerGivesUp
<1>3. TypeOK /\ ThreadsInv
  BY DEF ProtocolInv
<1>4. PICK m \in Request : m = [kind |-> "first", ch |-> c, n |-> GivenUp] /\ in' = Append(in, m)
  BY <1>1, <1>3, Sends
<1>5. /\ ThreadsInv' /\ connected' = connected /\ cpc' = cpc /\ connected /\ cpc # "exited"
      /\ wire' = wire /\ receiving' = receiving /\ delivered' = delivered
      /\ \A d : AtClient(d)' = AtClient(d) /\ Fragmenting(d)' = Fragmenting(d)
  BY <1>1, <1>3, Sends
<1>6. ASSUME NEW d \in Channel PROVE Counting(d)' /\ AtServer(d)' = AtServer(d)
  <2>1. Counting(d)
    BY DEF ProtocolInv
  <2> QED BY <1>2, <1>5, <2>1 DEF Counting, AtServer
<1>7. ASSUME NEW d \in Channel, d # c PROVE OnItsWay(d)'
  <2>1. KeepsIn(d) /\ KeepsWire(d)
    BY <1>3, <1>4, <1>5, <1>7, InKeeps, WireKeeps
  <2>2. OnItsWay(d) /\ (d \in cut' <=> d \in cut)
    BY <1>2, <1>7 DEF ProtocolInv
  <2> QED BY <1>2, <1>5, <1>6, <2>1, <2>2, Elsewhere
<1>8. OnItsWay(c)'
  <2>1. OnItsWay(c)
    BY DEF ProtocolInv
  <2>2. PICK b \in ClientState, e \in ServerState :
            /\ ServerPath(c, wire, AtServer(c), e) /\ ServerGoes(AtServer(c), e)
            /\ ClientPath(c, in, AtClient(c), b)
            /\ e.who = Fragmenting(c) /\ b.at = e.srv /\ (b.at = "open" => Numbers(c, b))
    BY <1>3, <1>5, <2>1, Connected
  <2>3. b.at = "open" /\ b.got = sent[c]
    BY <1>2, <2>2 DEF AtServer, ServerGoes, Numbers
  <2> DEFINE v == [b EXCEPT !.part = GivenUp]
  <2>4. v \in ClientState /\ v.at = "open" /\ v.got = sent[c] /\ v.part = GivenUp
    BY <1>1, <2>3 DEF ClientState
  <2>5. ClientTakes(c, m, b, v)
    BY <1>4, <2>3 DEF ClientTakes
  <2> HIDE DEF v
  <2>6. ClientPath(c, in', AtClient(c)', v)
    BY <1>3, <1>4, <1>5, <2>2, <2>4, <2>5, ClientAppend DEF TypeOK
  <2>7. GivenUp' = GivenUp
    BY DEF GivenUp
  <2>8. Numbers(c, v)'
    BY <1>2, <2>4, <2>7 DEF Numbers
  <2>9. Agrees(c, v, e)'
    BY <1>5, <1>6, <2>2, <2>3, <2>4, <2>6, <2>8 DEF Agrees
  <2> QED BY <2>9 DEF OnItsWay
<1> QED BY <1>5, <1>6, <1>7, <1>8

\* The server closes a channel that is open, or creates it again, for the client too
\* once it has handled what there is: whatever the client still writes arrives
\* before its answer.
LEMMA SendsClose ==
  ASSUME ProtocolInv, NEW c \in Channel, ServerCloses(c) \/ ServerCreatesAgain(c)
  PROVE  ThreadsInv' /\ \A d \in Channel : Counting(d)' /\ OnItsWay(d)'
<1>1. PICK k \in {"close", "create"}, z \in {"again", "closing"} :
        /\ z = IF k = "close" THEN "closing" ELSE "again"
        /\ ServerSends(k, c, 0) /\ srv' = [srv EXCEPT ![c] = z]
  BY DEF ServerCloses, ServerCreatesAgain
<1>2. /\ srv[c] = "open" /\ half' = half \ {c} /\ cut' = cut \ {c} /\ sent' = sent
      /\ 0 \in 0 .. GivenUp
  BY DynamicAssumption DEF ServerCloses, ServerCreatesAgain, GivenUp
<1>3. TypeOK /\ ThreadsInv
  BY DEF ProtocolInv
<1>4. PICK m \in Request : m = [kind |-> k, ch |-> c, n |-> 0] /\ in' = Append(in, m)
  BY <1>1, <1>2, <1>3, Sends
<1>5. /\ ThreadsInv' /\ connected' = connected /\ cpc' = cpc /\ connected /\ cpc # "exited"
      /\ wire' = wire /\ receiving' = receiving /\ delivered' = delivered
      /\ \A d : AtClient(d)' = AtClient(d) /\ Fragmenting(d)' = Fragmenting(d)
  BY <1>1, <1>2, <1>3, Sends
<1>6. ASSUME NEW d \in Channel PROVE Counting(d)'
  <2>1. Counting(d)
    BY DEF ProtocolInv
  <2>2. srv'[d] = IF d = c THEN z ELSE srv[d]
    BY <1>1, <1>3 DEF TypeOK
  <2> QED BY <1>2, <1>5, <2>1, <2>2 DEF Counting
<1>7. ASSUME NEW d \in Channel, d # c PROVE OnItsWay(d)'
  <2>1. KeepsIn(d) /\ KeepsWire(d)
    BY <1>3, <1>4, <1>5, <1>7, InKeeps, WireKeeps
  <2>2. AtServer(d)' = AtServer(d) /\ (d \in half' <=> d \in half) /\ (d \in cut' <=> d \in cut)
    BY <1>1, <1>2, <1>3, <1>5, <1>7 DEF AtServer, TypeOK
  <2>3. OnItsWay(d)
    BY DEF ProtocolInv
  <2> QED BY <1>2, <1>5, <2>1, <2>2, <2>3, Elsewhere
<1>8. OnItsWay(c)'
  <2>1. OnItsWay(c)
    BY DEF ProtocolInv
  <2>2. PICK b \in ClientState, e \in ServerState :
            /\ ServerPath(c, wire, AtServer(c), e)
            /\ ClientPath(c, in, AtClient(c), b)
            /\ e.who = Fragmenting(c) /\ b.at = e.srv /\ AtServer(c) \in ServerState
    BY <1>3, <1>5, <2>1, Connected
  <2>3. AtServer(c).srv = "open" /\ AtServer(c)' = [AtServer(c) EXCEPT !.srv = z]
    BY <1>1, <1>2, <1>3, <1>5 DEF AtServer, TypeOK
  <2> DEFINE x == [e EXCEPT !.srv = z]  v == [b EXCEPT !.at = z]
  <2>4. e.srv = "open" /\ ServerPath(c, wire, AtServer(c)', x)
    <3>1. wire \in Seq(Answer)
      BY <1>3 DEF TypeOK
    <3>2. e.srv = "open" /\ ServerPath(c, wire, [AtServer(c) EXCEPT !.srv = z], x)
      BY <2>2, <2>3, <3>1, ServerClosing
    <3> QED BY <2>3, <3>2
  <2>5. x.srv = z /\ x.who = e.who
    BY DEF ServerState
  <2>6. v \in ClientState /\ v.at = z /\ ClientTakes(c, m, b, v)
    BY <1>1, <1>4, <2>2, <2>4 DEF ClientTakes, ClientState, Life
  <2> HIDE DEF x, v
  <2>7. ClientPath(c, in', AtClient(c)', v)
    BY <1>3, <1>4, <1>5, <2>2, <2>6, ClientAppend DEF TypeOK
  <2>8. Agrees(c, v, x)'
    BY <1>5, <2>2, <2>4, <2>5, <2>6, <2>7 DEF Agrees
  <2> QED BY <2>8 DEF OnItsWay
<1> QED BY <1>5, <1>6, <1>7, <1>8

\* The server takes the answers in their order.
LEMMA Receives ==
  ASSUME ProtocolInv, ServerReceives
  PROVE  ThreadsInv' /\ \A d \in Channel : Counting(d)' /\ OnItsWay(d)'
<1>1. TypeOK /\ ThreadsInv /\ wire \in Seq(Answer)
  BY DEF ProtocolInv, TypeOK
<1>2. PICK a : a = Head(wire)
  OBVIOUS
<1>3. /\ wire # <<>> /\ wire' = Tail(wire) /\ a \in Answer
      /\ UNCHANGED <<mpc, connected, in, clientVars, captureVars, listened, sent, half, cut>>
  BY <1>1, <1>2, HeadTailProperties DEF ServerReceives
<1>4. /\ a.kind = "caps" => srv' = srv /\ receiving' = receiving
      /\ a.kind = "created" => srv' = [srv EXCEPT ![a.ch] = "open"] /\ receiving' = receiving
      /\ a.kind \in {"refused", "closed"} =>
            srv' = [srv EXCEPT ![a.ch] = "closed"] /\ receiving' = receiving
      /\ a.kind = "first" => receiving' = [receiving EXCEPT ![a.ch] = a.by] /\ srv' = srv
      /\ a.kind = "next" => receiving' = [receiving EXCEPT ![a.ch] = "free"] /\ srv' = srv
      /\ a.kind \in {"caps", "created", "refused", "closed", "first", "next"}
  BY <1>2, <1>3 DEF ServerReceives, Answer
<1>5. /\ ThreadsInv'
      /\ \A d : AtClient(d)' = AtClient(d) /\ Fragmenting(d)' = Fragmenting(d)
      /\ \A d : (d \in half' <=> d \in half) /\ (d \in cut' <=> d \in cut)
      /\ connected' = connected /\ cpc' = cpc /\ sent' = sent /\ delivered' = delivered
      /\ in' = in
  <2>1. UNCHANGED <<mpc, connected, in, state, channel_error, chan, dvc_data, delivered, cpc, cch,
                    answer, lock, capture, stopping, sent, half, cut>>
    BY <1>3 DEF clientVars, captureVars
  <2> QED BY <1>1, <2>1 DEF ThreadsInv, AtClient, Fragmenting
<1>6. ASSUME NEW d \in Channel, a.ch # d \/ a.kind = "caps"
      PROVE  Counting(d)' /\ OnItsWay(d)'
  <2>1. KeepsIn(d) /\ KeepsWire(d)
    BY <1>1, <1>2, <1>3, <1>5, <1>6, InKeeps, WireKeeps
  <2>2. srv'[d] = srv[d] /\ receiving'[d] = receiving[d]
    BY <1>1, <1>4, <1>6 DEF TypeOK
  <2>3. AtServer(d)' = AtServer(d)
    BY <2>2 DEF AtServer
  <2>4. OnItsWay(d) /\ Counting(d)
    BY DEF ProtocolInv
  <2>5. OnItsWay(d)'
    BY <1>5, <2>1, <2>3, <2>4, Elsewhere
  <2> QED BY <1>5, <2>2, <2>4, <2>5 DEF Counting
<1>7. ASSUME NEW d \in Channel, a.ch = d, a.kind # "caps"
      PROVE  Counting(d)' /\ OnItsWay(d)'
  <2>1. OnItsWay(d) /\ Counting(d)
    BY DEF ProtocolInv
  <2>2. PICK b, e : Agrees(d, b, e)
    BY <2>1 DEF OnItsWay
  <2>3. PICK u \in ServerState : ServerTakes(d, a, AtServer(d), u) /\ ServerPath(d, Tail(wire), u, e)
    BY <1>1, <1>2, <1>3, <2>2, ServerTail DEF Agrees
  <2>4. AtServer(d)' = u
    BY <1>1, <1>4, <1>7, <2>3 DEF ServerTakes, AtServer, TypeOK
  <2>5. Agrees(d, b, e)'
    BY <1>3, <1>5, <2>2, <2>3, <2>4 DEF Agrees, Numbers
  <2>6. Counting(d)'
    <3>1. srv'[d] # "creating" \/ srv'[d] = srv[d]
      BY <1>1, <1>4, <1>7 DEF TypeOK
    <3>2. srv[d] = "open" => srv'[d] = "open"
      BY <1>1, <1>4, <1>7, <2>3 DEF ServerTakes, AtServer, TypeOK
    <3> QED BY <1>5, <2>1, <3>1, <3>2 DEF Counting
  <2> QED BY <2>5, <2>6 DEF OnItsWay
<1> QED BY <1>5, <1>6, <1>7
-----------------------------------------------------------------------------
(* The client thread. *)

\* The PDU the client thread handles fits the channel as it is.
LEMMA HeadFits ==
  ASSUME ProtocolInv, NEW k, NEW c \in Channel, Handles(k, c)
  PROVE  /\ cpc = "idle" /\ in # <<>> /\ in' = Tail(in) /\ UNCHANGED <<mpc, connected, serverVars>>
         /\ Head(in) \in Request /\ Head(in).kind = k /\ Head(in).ch = c
         /\ AtClient(c) \in ClientState
         /\ \E b, e : Agrees(c, b, e) /\ b \in ClientState /\ e \in ServerState /\
               \E u \in ClientState : ClientTakes(c, Head(in), AtClient(c), u) /\ ClientPath(c, in', u, b)
<1>1. in \in Seq(Request) /\ wire \in Seq(Answer) /\ OnItsWay(c)
  BY DEF ProtocolInv, TypeOK
<1>2. /\ cpc = "idle" /\ in # <<>> /\ in' = Tail(in) /\ UNCHANGED <<mpc, connected, serverVars>>
      /\ Head(in) \in Request /\ Head(in).kind = k /\ Head(in).ch = c
  BY <1>1, HeadTailProperties DEF Handles
<1>3. PICK b, e : Agrees(c, b, e)
  BY <1>1 DEF OnItsWay
<1>4. ClientPath(c, in, AtClient(c), b) /\ ServerPath(c, wire, AtServer(c), e)
  BY <1>2, <1>3 DEF Agrees
<1>5. b \in ClientState /\ AtClient(c) \in ClientState /\ e \in ServerState
  BY <1>1, <1>4, ClientEnds, ServerEnds
<1>6. \E u \in ClientState : ClientTakes(c, Head(in), AtClient(c), u) /\ ClientPath(c, in', u, b)
  BY <1>1, <1>2, <1>4, ClientTail
<1> QED BY <1>2, <1>3, <1>5, <1>6

\* No quit message comes to light.
LEMMA StillNoQuit ==
  ASSUME TypeOK, ThreadsInv, in # <<>>, in' = Tail(in), connected
  PROVE  Head(in).kind # "quit" /\ \A j \in 1 .. Len(in') : in'[j].kind # "quit"
<1>1. \A j \in 1 .. Len(in) : in[j].kind # "quit"
  BY DEF ThreadsInv
<1>2. /\ Len(in') = Len(in) - 1 /\ \A j \in 1 .. Len(in') : in'[j] = in[j + 1]
  BY HeadTailProperties DEF TypeOK
<1>3. Len(in) \in Nat \ {0} /\ Head(in) = in[1]
  BY EmptySeq DEF TypeOK
<1> QED BY <1>1, <1>2, <1>3

\* What a step that leaves the server alone keeps.
LEMMA ServerKept ==
  ASSUME serverVars' = serverVars
  PROVE  /\ srv' = srv /\ sent' = sent /\ half' = half /\ cut' = cut
         /\ \A d : AtServer(d)' = AtServer(d)
         /\ \A d, b : Numbers(d, b)' <=> Numbers(d, b)
BY DEF serverVars, AtServer, Numbers

\* The PDUs of channels other than the one handled.
LEMMA HandlesElsewhere ==
  ASSUME ProtocolInv, NEW k, NEW c \in Channel, Handles(k, c), NEW d \in Channel, d # c,
         wire' = wire \/ \E p \in Answer : Writes(p) /\ (p.ch = c \/ p.kind = "caps"),
         AtClient(d)' = AtClient(d), Fragmenting(d)' = Fragmenting(d)
  PROVE  OnItsWay(d)'
<1>1. TypeOK /\ OnItsWay(d)
  BY DEF ProtocolInv
<1>2. /\ cpc = "idle" /\ in # <<>> /\ in' = Tail(in) /\ Head(in).ch = c
      /\ connected' = connected /\ serverVars' = serverVars
  BY HeadFits
<1>3. KeepsIn(d) /\ KeepsWire(d)
  BY <1>1, <1>2, InKeeps, WireKeeps
<1> QED BY <1>1, <1>2, <1>3, ServerKept, Elsewhere

\* The client thread answers DYNVC_CAPS, which belongs to no channel.
LEMMA HandlesCapabilities ==
  ASSUME ProtocolInv, NEW c \in Channel, CapabilityRequest(c)
  PROVE  ThreadsInv' /\ \A d \in Channel : Counting(d)' /\ OnItsWay(d)'
<1>1. TypeOK /\ ThreadsInv /\ Handles("caps", c)
  BY DEF ProtocolInv, CapabilityRequest
<1>2. /\ cpc = "idle" /\ in # <<>> /\ in' = Tail(in) /\ UNCHANGED <<mpc, connected, serverVars>>
      /\ Head(in).kind = "caps"
  BY <1>1, HeadFits
<1>3. /\ channel_error' = ~connected
      /\ UNCHANGED <<chan, dvc_data, delivered, cpc, cch, answer, lock, capture>>
  BY DEF CapabilityRequest, captureVars
<1> DEFINE p == Pdu("caps", c, "client")
<1>4. p \in Answer /\ p.kind = "caps"
  BY DEF Pdu, Answer, Who
<1>5. Writes(p)
  BY <1>1, <1>4, WritesOne DEF CapabilityRequest
<1> HIDE DEF p
<1>6. ThreadsInv'
  BY <1>1, <1>2, <1>3, StillNoQuit DEF ThreadsInv
<1>7. ASSUME NEW d \in Channel PROVE Counting(d)' /\ OnItsWay(d)'
  <2>1. OnItsWay(d) /\ Counting(d)
    BY DEF ProtocolInv
  <2>2. KeepsIn(d) /\ KeepsWire(d)
    BY <1>1, <1>2, <1>4, <1>5, InKeeps, WireKeeps
  <2>3. AtClient(d)' = AtClient(d) /\ Fragmenting(d)' = Fragmenting(d)
    BY <1>3 DEF AtClient, Fragmenting
  <2>4. OnItsWay(d)'
    BY <1>2, <1>3, <2>1, <2>2, <2>3, ServerKept, Elsewhere
  <2> QED BY <1>2, <1>3, <2>1, <2>4, ServerKept DEF Counting
<1> QED BY <1>6, <1>7

\* A channel is created, or refused, where there was none of that number.
LEMMA HandlesCreate ==
  ASSUME ProtocolInv, NEW c \in Channel, CreateRequest(c), chan[c] # "open"
  PROVE  ThreadsInv' /\ \A d \in Channel : Counting(d)' /\ OnItsWay(d)'
<1>1. TypeOK /\ ThreadsInv /\ Handles("create", c)
  BY DEF ProtocolInv, CreateRequest
<1>2. /\ cpc = "idle" /\ in # <<>> /\ in' = Tail(in) /\ UNCHANGED <<mpc, connected, serverVars>>
      /\ in' \in Seq(Request) /\ Head(in).kind = "create" /\ Head(in).ch = c
      /\ AtClient(c) \in ClientState
  <2>1. /\ cpc = "idle" /\ in # <<>> /\ in' = Tail(in) /\ UNCHANGED <<mpc, connected, serverVars>>
        /\ Head(in).kind = "create" /\ Head(in).ch = c /\ AtClient(c) \in ClientState
    BY <1>1, HeadFits
  <2>2. in' \in Seq(Request)
    BY <1>1, <2>1, HeadTailProperties DEF TypeOK
  <2> QED BY <2>1, <2>2
<1>3. PICK b, e : /\ Agrees(c, b, e) /\ b \in ClientState /\ e \in ServerState
                  /\ \E u \in ClientState : /\ ClientTakes(c, Head(in), AtClient(c), u)
                                            /\ ClientPath(c, in', u, b)
  BY <1>1, HeadFits
<1>4. PICK u \in ClientState : /\ ClientTakes(c, Head(in), AtClient(c), u)
                               /\ ClientPath(c, in', u, b)
  BY <1>3
<1>5. AtClient(c).at = "closed" /\ u.at = "creating"
  <2>1. AtClient(c).at = "closed"
    BY <1>2 DEF AtClient
  <2> QED BY <1>2, <1>4, <2>1 DEF ClientTakes, ClientState
<1>6. chan[c] = "none"
  BY <1>1 DEF TypeOK
<1>7. ASSUME NEW v \in ClientState PROVE b = u /\ ClientPath(c, in', v, v)
  <2>1. u.at \in {"creating", "again", "closing"}
    BY <1>5
  <2>2. PICK q \in Seq(Request) : q = in'
    BY <1>2
  <2>3. ClientPath(c, q, u, b)
    BY <1>4, <2>2
  <2>4. b = u /\ ClientPath(c, q, v, v)
    BY <2>1, <2>3, ClientWaits
  <2> QED BY <2>2, <2>4
<1>8. /\ ServerPath(c, wire, AtServer(c), e)
      /\ connected => e.srv = "creating" /\ srv[c] = "creating" /\ e.who = Fragmenting(c)
  <2>1. ServerPath(c, wire, AtServer(c), e) /\ wire \in Seq(Answer)
    BY <1>1, <1>3 DEF Agrees, TypeOK
  <2>2. connected => e.srv = "creating" /\ e.who = Fragmenting(c)
    BY <1>3, <1>5, <1>7 DEF Agrees
  <2>3. ServerGoes(AtServer(c), e)
    BY <2>1, ServerEnds
  <2>4. e.srv = "creating" => srv[c] = "creating"
    BY <2>3 DEF ServerGoes, AtServer
  <2> QED BY <2>1, <2>2, <2>4
<1>9. UNCHANGED <<cpc, cch, answer, channel_error, lock, capture>>
  BY <1>6 DEF CreateRequest, Refuses, Closes
<1>10. \A d : Fragmenting(d)' = Fragmenting(d)
  BY <1>9 DEF Fragmenting
<1>11. ASSUME NEW v \in ClientState, AtClient(c)' = v, NEW p \in Answer, Writes(p), NEW y,
              ServerTakes(c, p, e, [e EXCEPT !.srv = y]) \/ ~connected,
              connected => y = v.at /\ y \in Life, v.at = "open" => v.got = 0 /\ v.part = 0
       PROVE  OnItsWay(c)'
  <2>1. ClientPath(c, in', AtClient(c)', v)
    BY <1>7, <1>11
  <2>2. CASE connected
    <3> DEFINE x == [e EXCEPT !.srv = y]
    <3>1. x \in ServerState /\ x.srv = v.at /\ x.who = e.who
      BY <1>3, <1>11, <2>2 DEF ServerState
    <3>2. ServerTakes(c, p, e, x)
      BY <1>11, <2>2
    <3> HIDE DEF x
    <3>3. ServerPath(c, wire', AtServer(c)', x)
      BY <1>2, <1>8, <1>11, <2>2, <3>1, <3>2, ServerKept, WritesHere
    <3>4. v.at = "open" => Numbers(c, v)'
      <4>1. sent[c] = 0 /\ c \notin half /\ c \notin cut
        BY <1>8, <2>2 DEF ProtocolInv, Counting
      <4> QED BY <1>2, <1>11, <4>1, ServerKept DEF Numbers
    <3>5. Agrees(c, v, x)'
      BY <1>2, <1>8, <1>10, <2>1, <2>2, <3>1, <3>3, <3>4 DEF Agrees
    <3> QED BY <3>5 DEF OnItsWay
  <2>3. CASE ~connected
    <3>1. wire' = wire /\ ~connected'
      BY <1>2, <1>11, <2>3 DEF Writes
    <3>2. Agrees(c, v, e)'
      BY <1>2, <1>8, <2>1, <3>1, ServerKept DEF Agrees
    <3> QED BY <3>2 DEF OnItsWay
  <2> QED BY <2>2, <2>3
<1>12. CASE c \in listened
  <2>1. /\ chan' = [chan EXCEPT ![c] = "open"] /\ dvc_data' = [dvc_data EXCEPT ![c] = 0]
        /\ delivered' = [delivered EXCEPT ![c] = <<>>]
        /\ Send(Append(Capabilities, Pdu("created", c, "client")))
    BY <1>6, <1>12 DEF CreateRequest
  <2> DEFINE p == Pdu("created", c, "client")  v == [at |-> "open", got |-> 0, part |-> 0]
  <2>2. p \in Answer /\ p.kind = "created" /\ p.ch = c
    BY DEF Pdu, Answer, Who
  <2>3. Writes(p)
    BY <1>1, <1>2, <2>1, <2>2, WritesCapabilities
  <2>4. v \in ClientState /\ v.at = "open" /\ v.got = 0 /\ v.part = 0
    BY DEF ClientState, Life
  <2>5. AtClient(c)' = v
    BY <1>1, <1>2, <1>9, <2>1 DEF AtClient, TypeOK
  <2> HIDE DEF p, v
  <2>6. OnItsWay(c)'
    <3>1. ServerTakes(c, p, e, [e EXCEPT !.srv = "open"]) \/ ~connected
      BY <1>8, <2>2 DEF ServerTakes
    <3> QED BY <1>11, <2>2, <2>3, <2>4, <2>5, <3>1 DEF Life
  <2>7. ASSUME NEW d \in Channel, d # c PROVE OnItsWay(d)'
    <3>1. AtClient(d)' = AtClient(d)
      BY <1>1, <1>9, <2>1, <2>7 DEF AtClient, TypeOK
    <3> QED BY <1>1, <1>10, <2>2, <2>3, <2>7, <3>1, HandlesElsewhere
  <2>8. ASSUME NEW d \in Channel PROVE Counting(d)'
    <3>1. Counting(d) /\ srv' = srv /\ sent' = sent /\ half' = half /\ cut' = cut
      BY <1>2, ServerKept DEF ProtocolInv
    <3>2. delivered'[d] = IF d = c THEN <<>> ELSE delivered[d]
      BY <1>1, <2>1 DEF TypeOK
    <3> QED BY <3>1, <3>2 DEF Counting
  <2>9. ThreadsInv'
    <3>1. \A d \in Channel : chan[d] = "open" => chan'[d] = "open"
      BY <1>1, <2>1 DEF TypeOK
    <3>2. connected => \A j \in 1 .. Len(in') : in'[j].kind # "quit"
      BY <1>1, <1>2, StillNoQuit
    <3> QED BY <1>1, <1>2, <1>9, <3>1, <3>2 DEF ThreadsInv
  <2> QED BY <2>6, <2>7, <2>8, <2>9
<1>13. CASE c \notin listened
  <2>1. /\ chan' = chan /\ dvc_data' = dvc_data /\ delivered' = delivered
        /\ Send(Append(Capabilities, Pdu("refused", c, "client")))
    BY <1>1, <1>6, <1>13, ZenonT(30) DEF CreateRequest, Refuses, Closes, TypeOK
  <2> DEFINE p == Pdu("refused", c, "client")
  <2>2. p \in Answer /\ p.kind = "refused" /\ p.ch = c
    BY DEF Pdu, Answer, Who
  <2>3. Writes(p)
    BY <1>1, <1>2, <2>1, <2>2, WritesCapabilities
  <2> HIDE DEF p
  <2>4. \A d : AtClient(d)' = AtClient(d)
    BY <1>9, <2>1 DEF AtClient
  <2>5. OnItsWay(c)'
    <3>1. ServerTakes(c, p, e, [e EXCEPT !.srv = "closed"]) \/ ~connected
      BY <1>8, <2>2 DEF ServerTakes
    <3>2. PICK v \in ClientState : v = AtClient(c)
      BY <1>2
    <3>3. AtClient(c)' = v /\ v.at = "closed"
      BY <1>5, <2>4, <3>2
    <3> QED BY <1>11, <2>2, <2>3, <3>1, <3>3 DEF Life
  <2>6. ASSUME NEW d \in Channel, d # c PROVE OnItsWay(d)'
    BY <1>1, <1>10, <2>2, <2>3, <2>4, <2>6, HandlesElsewhere
  <2>7. ASSUME NEW d \in Channel PROVE Counting(d)'
    BY <1>2, <2>1, ServerKept DEF ProtocolInv, Counting
  <2>8. ThreadsInv'
    BY <1>1, <1>2, <1>9, <2>1, StillNoQuit DEF ThreadsInv
  <2> QED BY <2>5, <2>6, <2>7, <2>8
<1> QED BY <1>12, <1>13

\* A PDU that changes the channel and writes nothing about it: what the client makes
\* of it is what the way said.
LEMMA HandlesSilently ==
  ASSUME ProtocolInv, NEW k, NEW c \in Channel, Handles(k, c), cpc' # "exited",
         wire' = wire \/ \E p \in Answer : Writes(p) /\ p.kind = "caps",
         \A d \in Channel : Fragmenting(d)' = Fragmenting(d),
         \A d \in Channel : d # c => AtClient(d)' = AtClient(d),
         \A u \in ClientState : ClientTakes(c, Head(in), AtClient(c), u) => AtClient(c)' = u
  PROVE  \A d \in Channel : OnItsWay(d)'
<1>1. ASSUME NEW d \in Channel, d # c PROVE OnItsWay(d)'
  BY <1>1, HandlesElsewhere
<1>2. OnItsWay(c)'
  <2>1. PICK b, e : /\ Agrees(c, b, e)
                    /\ \E u \in ClientState : /\ ClientTakes(c, Head(in), AtClient(c), u)
                                              /\ ClientPath(c, in', u, b)
    BY HeadFits
  <2>2. connected' = connected /\ serverVars' = serverVars
    BY HeadFits
  <2>3. ClientPath(c, in', AtClient(c)', b)
    BY <2>1
  <2>4. ServerPath(c, wire', AtServer(c)', e)
    <3>1. TypeOK
      BY DEF ProtocolInv
    <3>2. KeepsWire(c)
      BY <3>1, WireKeeps
    <3> QED BY <2>1, <2>2, <3>2, ServerKept DEF Agrees, KeepsWire
  <2>5. cpc # "exited"
    BY DEF Handles
  <2>6. Agrees(c, b, e)'
    BY <2>1, <2>2, <2>3, <2>4, ServerKept DEF Agrees
  <2> QED BY <2>6 DEF OnItsWay
<1> QED BY <1>1, <1>2

\* A channel is created that is there: it is closed, as the way said.
LEMMA HandlesDuplicate ==
  ASSUME ProtocolInv, NEW c \in Channel, CreateRequest(c), chan[c] = "open"
  PROVE  ThreadsInv' /\ \A d \in Channel : Counting(d)' /\ OnItsWay(d)'
<1>1. TypeOK /\ ThreadsInv /\ Handles("create", c)
  BY DEF ProtocolInv, CreateRequest
<1>2. /\ cpc = "idle" /\ in # <<>> /\ in' = Tail(in) /\ UNCHANGED <<mpc, connected, serverVars>>
      /\ Head(in).kind = "create" /\ Head(in).ch = c
  BY <1>1, HeadFits
<1>3. /\ cpc' = "close" /\ cch' = c /\ answer' = "refused"
      /\ UNCHANGED <<chan, dvc_data, channel_error, delivered, lock, capture>>
      /\ Send(Capabilities)
  BY DEF CreateRequest, Refuses, Closes
<1>4. wire' = wire \/ \E p \in Answer : Writes(p) /\ p.kind = "caps"
  <2>1. CASE state = "capabilities"
    <3> DEFINE p == Pdu("caps", Head(in).ch, "client")
    <3>1. p \in Answer /\ p.kind = "caps"
      BY <1>2 DEF Pdu, Answer, Who
    <3>2. Send(<<p>>)
      BY <1>3, <2>1 DEF Capabilities
    <3> HIDE DEF p
    <3> QED BY <1>1, <3>1, <3>2, WritesOne
  <2>2. CASE state # "capabilities"
    <3>1. Send(<<>>) /\ wire \in Seq(Answer)
      BY <1>1, <1>3, <2>2 DEF Capabilities, TypeOK
    <3>2. wire \o <<>> = wire
      BY <3>1, ConcatEmptySeq
    <3> QED BY <3>1, <3>2 DEF Send
  <2> QED BY <2>1, <2>2
<1>5. \A d \in Channel : Fragmenting(d)' = Fragmenting(d)
  BY <1>2, <1>3 DEF Fragmenting
<1>6. ASSUME NEW d \in Channel, d # c PROVE AtClient(d)' = AtClient(d)
  BY <1>2, <1>3, <1>6 DEF AtClient
<1>7. ASSUME NEW v \in ClientState, ClientTakes(c, Head(in), AtClient(c), v)
      PROVE  AtClient(c)' = v
  <2>1. AtClient(c).at = "open"
    BY <1>2 DEF AtClient
  <2>2. v = [AtClient(c) EXCEPT !.at = "again"]
    BY <1>2, <1>7, <2>1 DEF ClientTakes
  <2> QED BY <1>3, <2>2 DEF AtClient
<1>8. \A d \in Channel : OnItsWay(d)'
  BY <1>1, <1>3, <1>4, <1>5, <1>6, <1>7, HandlesSilently
<1>9. ThreadsInv'
  BY <1>1, <1>2, <1>3, StillNoQuit DEF ThreadsInv
<1>10. \A d \in Channel : Counting(d)'
  BY <1>2, <1>3, ServerKept DEF ProtocolInv, Counting
<1> QED BY <1>8, <1>9, <1>10

\* The first fragment of a message is kept.
LEMMA HandlesFirst ==
  ASSUME ProtocolInv, NEW c \in Channel, DataFirst(c)
  PROVE  ThreadsInv' /\ \A d \in Channel : Counting(d)' /\ OnItsWay(d)'
<1>1. TypeOK /\ ThreadsInv /\ Handles("first", c)
  BY DEF ProtocolInv, DataFirst
<1>2. /\ cpc = "idle" /\ in # <<>> /\ in' = Tail(in) /\ UNCHANGED <<mpc, connected, serverVars>>
      /\ Head(in).kind = "first" /\ Head(in).ch = c /\ AtClient(c) \in ClientState
  BY <1>1, HeadFits
<1>3. /\ dvc_data' = IF chan[c] = "open" THEN [dvc_data EXCEPT ![c] = Head(in).n] ELSE dvc_data
      /\ UNCHANGED <<wire, channel_error, chan, delivered, cpc, cch, answer, lock, capture>>
  BY DEF DataFirst, captureVars
<1>4. \A d \in Channel : Fragmenting(d)' = Fragmenting(d)
  BY <1>3 DEF Fragmenting
<1>5. ASSUME NEW d \in Channel, d # c PROVE AtClient(d)' = AtClient(d)
  BY <1>1, <1>3, <1>5 DEF AtClient, TypeOK
<1>6. ASSUME NEW u \in ClientState, ClientTakes(c, Head(in), AtClient(c), u)
      PROVE  AtClient(c)' = u
  <2>1. AtClient(c).at = "open" /\ u = [AtClient(c) EXCEPT !.part = Head(in).n]
    BY <1>2, <1>6 DEF ClientTakes
  <2>2. chan[c] = "open"
    BY <2>1 DEF AtClient
  <2> QED BY <1>1, <1>3, <2>1, <2>2 DEF AtClient, TypeOK
<1>7. \A d \in Channel : OnItsWay(d)'
  BY <1>1, <1>2, <1>3, <1>4, <1>5, <1>6, HandlesSilently
<1>8. ThreadsInv'
  BY <1>1, <1>2, <1>3, StillNoQuit DEF ThreadsInv
<1>9. \A d \in Channel : Counting(d)'
  BY <1>2, <1>3, ServerKept DEF ProtocolInv, Counting
<1> QED BY <1>7, <1>8, <1>9

\* A message is delivered whole: one PDU, or the fragment kept and this one.
LEMMA HandlesData ==
  ASSUME ProtocolInv, NEW c \in Channel, Data(c)
  PROVE  ThreadsInv' /\ \A d \in Channel : Counting(d)' /\ OnItsWay(d)'
<1>1. TypeOK /\ ThreadsInv
  BY DEF ProtocolInv
<1>2. PICK k \in {"single", "data"} : Handles(k, c)
  BY DEF Data
<1>3. /\ cpc = "idle" /\ in # <<>> /\ in' = Tail(in) /\ UNCHANGED <<mpc, connected, serverVars>>
      /\ Head(in) \in Request /\ Head(in).kind = k /\ Head(in).ch = c
      /\ AtClient(c) \in ClientState
  BY <1>2, HeadFits
<1>4. PICK u \in ClientState : ClientTakes(c, Head(in), AtClient(c), u)
  BY <1>2, HeadFits
<1>5. PICK n : n = Head(in).n
  OBVIOUS
<1>6. /\ AtClient(c).at = "open" /\ n = AtClient(c).got + 1
      /\ u = [at |-> "open", got |-> n, part |-> 0]
      /\ AtClient(c).part = IF k = "single" THEN 0 ELSE n
  <2>1. CASE k = "single"
    <3>1. /\ AtClient(c).at = "open" /\ AtClient(c).part = 0 /\ n = AtClient(c).got + 1
          /\ u = [AtClient(c) EXCEPT !.got = n]
      BY <1>3, <1>4, <1>5, <2>1 DEF ClientTakes
    <3>2. u = [at |-> "open", got |-> n, part |-> 0]
      BY <3>1 DEF AtClient
    <3> QED BY <2>1, <3>1, <3>2
  <2>2. CASE k = "data"
    BY <1>3, <1>4, <1>5, <2>2 DEF ClientTakes
  <2> QED BY <2>1, <2>2
<1>7. chan[c] = "open" /\ n = Len(delivered[c]) + 1 /\ dvc_data[c] = IF k = "single" THEN 0 ELSE n
  BY <1>6 DEF AtClient
<1>8. Len(delivered[c]) \in Nat /\ n # 0
  BY <1>1, <1>7 DEF TypeOK
<1>9. /\ delivered' = [delivered EXCEPT ![c] = Append(delivered[c], <<n, n>>)]
      /\ \/ capture' = capture
         \/ capture[c] = "none" /\ capture' = [capture EXCEPT ![c] = "idle"]
      /\ cpc' \in {"want", "reopen"} /\ cch' = c /\ dvc_data' = [dvc_data EXCEPT ![c] = 0]
      /\ UNCHANGED <<wire, channel_error, chan, answer, lock>>
  <2>1. (IF dvc_data[c] = 0 THEN <<n, n>> ELSE <<dvc_data[c], n>>) = <<n, n>>
    BY <1>7, <1>8
  <2> QED BY <1>5, <1>7, <2>1 DEF Data, Delivers
<1>10. /\ delivered[c] \in Seq((0 .. GivenUp) \X (0 .. GivenUp))
       /\ delivered'[c] = Append(delivered[c], <<n, n>>)
       /\ \A d \in Channel : d # c => delivered'[d] = delivered[d]
  BY <1>1, <1>9 DEF TypeOK
<1>11. Len(delivered'[c]) = n /\ delivered'[c][n] = <<n, n>>
       /\ \A j \in 1 .. Len(delivered[c]) : delivered'[c][j] = delivered[c][j]
  <2>1. n \in 0 .. GivenUp
    BY <1>3, <1>5 DEF Request
  <2>2. <<n, n>> \in (0 .. GivenUp) \X (0 .. GivenUp)
    BY <2>1
  <2> QED BY <1>7, <1>8, <1>10, <2>2, AppendProperties
<1>12. ASSUME NEW d \in Channel PROVE Counting(d)'
  <2>1. Counting(d)
    BY DEF ProtocolInv
  <2>2. srv' = srv /\ sent' = sent /\ half' = half /\ cut' = cut
    BY <1>3, ServerKept
  <2>3. \A j \in 1 .. Len(delivered'[d]) : delivered'[d][j] = <<j, j>>
    <3>1. CASE d = c
      <4>1. ASSUME NEW j \in 1 .. n PROVE delivered'[c][j] = <<j, j>>
        <5>1. CASE j = n
          BY <1>11, <5>1
        <5>2. CASE j \in 1 .. Len(delivered[c])
          BY <1>11, <2>1, <3>1, <5>2 DEF Counting
        <5> QED BY <1>7, <1>8, <5>1, <5>2
      <4> QED BY <1>11, <3>1, <4>1
    <3>2. CASE d # c
      BY <1>10, <2>1, <3>2 DEF Counting
    <3> QED BY <3>1, <3>2
  <2> QED BY <2>1, <2>2, <2>3 DEF Counting
<1>13. \A d \in Channel : Fragmenting(d)' = Fragmenting(d)
  BY <1>1, <1>3, <1>9 DEF Fragmenting, TypeOK
<1>14. ASSUME NEW d \in Channel, d # c PROVE AtClient(d)' = AtClient(d)
  BY <1>1, <1>3, <1>9, <1>10, <1>14 DEF AtClient, TypeOK
<1>15. AtClient(c)' = [at |-> "open", got |-> n, part |-> 0]
  BY <1>1, <1>7, <1>9, <1>11 DEF AtClient, TypeOK
<1>16. ASSUME NEW v \in ClientState, ClientTakes(c, Head(in), AtClient(c), v)
       PROVE  AtClient(c)' = v
  <2>1. v = u
    BY <1>3, <1>4, <1>16 DEF ClientTakes
  <2> QED BY <1>6, <1>15, <2>1
<1>17. \A d \in Channel : OnItsWay(d)'
  BY <1>2, <1>9, <1>13, <1>14, <1>16, HandlesSilently
<1>18. ThreadsInv'
  <2>1. connected => \A j \in 1 .. Len(in') : in'[j].kind # "quit"
    BY <1>1, <1>3, StillNoQuit
  <2>2. ASSUME NEW d \in Channel
        PROVE  /\ lock'[d] = "client" <=> cpc' \in {"first", "next"} /\ cch' = d
               /\ lock'[d] = "capture" <=> capture'[d] \in {"first", "next"}
               /\ capture'[d] \in {"idle", "want", "first", "next"} => chan'[d] = "open"
    BY <1>1, <1>3, <1>7, <1>9 DEF ThreadsInv, TypeOK
  <2> QED BY <1>1, <1>3, <1>7, <1>9, <2>1, <2>2 DEF ThreadsInv
<1> QED BY <1>12, <1>17, <1>18

\* The close of an open channel, which then waits for its capture thread.
LEMMA HandlesClose ==
  ASSUME ProtocolInv, NEW c \in Channel, CloseRequest(c)
  PROVE  ThreadsInv' /\ \A d \in Channel : Counting(d)' /\ OnItsWay(d)'
<1>1. TypeOK /\ ThreadsInv /\ Handles("close", c)
  BY DEF ProtocolInv, CloseRequest
<1>2. /\ cpc = "idle" /\ in # <<>> /\ in' = Tail(in) /\ UNCHANGED <<mpc, connected, serverVars>>
      /\ Head(in).kind = "close" /\ Head(in).ch = c /\ AtClient(c) \in ClientState
  BY <1>1, HeadFits
<1>3. PICK u \in ClientState : ClientTakes(c, Head(in), AtClient(c), u)
  BY <1>1, HeadFits
<1>4. AtClient(c).at = "open"
  BY <1>2, <1>3 DEF ClientTakes
<1>5. chan[c] = "open"
  BY <1>4 DEF AtClient
<1>6. /\ cpc' = "close" /\ cch' = c /\ answer' = "closed"
      /\ UNCHANGED <<chan, dvc_data, channel_error, delivered, lock, capture>>
  BY <1>5 DEF CloseRequest, Closes
<1>7. wire' = wire
  BY <1>5 DEF CloseRequest
<1>8. \A d \in Channel : Fragmenting(d)' = Fragmenting(d)
  BY <1>2, <1>6 DEF Fragmenting
<1>9. ASSUME NEW d \in Channel, d # c PROVE AtClient(d)' = AtClient(d)
  BY <1>2, <1>6, <1>9 DEF AtClient
<1>10. ASSUME NEW v \in ClientState, ClientTakes(c, Head(in), AtClient(c), v)
       PROVE  AtClient(c)' = v
  <2>1. v = [AtClient(c) EXCEPT !.at = "closing"]
    BY <1>2, <1>10 DEF ClientTakes
  <2> QED BY <1>6, <2>1 DEF AtClient
<1>11. \A d \in Channel : OnItsWay(d)'
  BY <1>1, <1>6, <1>7, <1>8, <1>9, <1>10, HandlesSilently
<1>12. ThreadsInv'
  BY <1>1, <1>2, <1>5, <1>6, StillNoQuit DEF ThreadsInv
<1>13. \A d \in Channel : Counting(d)'
  BY <1>2, <1>6, ServerKept DEF ProtocolInv, Counting
<1> QED BY <1>11, <1>12, <1>13

\* The channel is freed and its close answered, or the create that was refused, after
\* all its capture thread wrote.
LEMMA ClosedAgrees ==
  ASSUME ProtocolInv, Closed
  PROVE  ThreadsInv' /\ \A d \in Channel : Counting(d)' /\ OnItsWay(d)'
<1>1. TypeOK /\ ThreadsInv /\ cch \in Channel
  BY DEF ProtocolInv, TypeOK
<1>2. PICK c \in Channel : c = cch
  BY <1>1
<1>3. /\ cpc = "close" /\ capture[c] \in {"none", "ended"} /\ cpc' = "idle" /\ cch' = c
      /\ capture' = [capture EXCEPT ![c] = "none"] /\ chan' = [chan EXCEPT ![c] = "none"]
      /\ dvc_data' = [dvc_data EXCEPT ![c] = 0]
      /\ channel_error' = IF answer = "closed" /\ connected THEN FALSE ELSE channel_error
      /\ UNCHANGED <<mpc, connected, in, delivered, answer, lock, serverVars>>
  BY <1>2 DEF Closed
<1>4. chan[c] = "open" /\ answer \in {"refused", "closed"}
  BY <1>1, <1>2, <1>3 DEF ThreadsInv, TypeOK
<1> DEFINE p == Pdu(answer, c, "client")
<1>5. p \in Answer /\ p.kind = answer /\ p.ch = c
  BY <1>4 DEF Pdu, Answer, Who
<1>6. Writes(p)
  BY <1>1, <1>2, <1>5, WritesOne DEF Closed
<1> HIDE DEF p
<1>7. ThreadsInv'
  <2>1. ASSUME NEW d \in Channel
        PROVE  /\ lock'[d] = "client" <=> cpc' \in {"first", "next"} /\ cch' = d
               /\ lock'[d] = "capture" <=> capture'[d] \in {"first", "next"}
               /\ capture'[d] \in {"idle", "want", "first", "next"} => chan'[d] = "open"
    BY <1>1, <1>3 DEF ThreadsInv, TypeOK
  <2>2. connected => ~channel_error'
    BY <1>1, <1>3 DEF ThreadsInv
  <2> QED BY <1>1, <1>3, <2>1, <2>2 DEF ThreadsInv
<1>8. ASSUME NEW d \in Channel, d # c PROVE OnItsWay(d)'
  <2>1. AtClient(d)' = AtClient(d) /\ Fragmenting(d)' = Fragmenting(d)
    BY <1>1, <1>2, <1>3, <1>8 DEF AtClient, Fragmenting, TypeOK
  <2>2. KeepsIn(d) /\ KeepsWire(d)
    BY <1>1, <1>3, <1>5, <1>6, <1>8, InKeeps, WireKeeps
  <2>3. OnItsWay(d)
    BY DEF ProtocolInv
  <2> QED BY <1>3, <2>1, <2>2, <2>3, ServerKept, Elsewhere
<1>9. OnItsWay(c)'
  <2>1. PICK b, e : Agrees(c, b, e)
    BY DEF ProtocolInv, OnItsWay
  <2>2. /\ ServerPath(c, wire, AtServer(c), e) /\ ClientPath(c, in, AtClient(c), b)
        /\ in \in Seq(Request) /\ wire \in Seq(Answer)
    BY <1>1, <1>3, <2>1 DEF Agrees, TypeOK
  <2>3. /\ AtClient(c).at = IF answer = "closed" THEN "closing" ELSE "again"
        /\ AtClient(c) \in ClientState /\ e \in ServerState
    BY <1>2, <1>3, <2>2, ClientEnds, ServerEnds DEF AtClient
  <2>4. PICK v \in ClientState : v = [at |-> "closed", got |-> Len(delivered[c]), part |-> 0]
    BY <2>3 DEF AtClient, ClientState, Life
  <2>5. AtClient(c)' = v /\ v.at = "closed"
    BY <1>1, <1>3, <2>4 DEF AtClient, TypeOK
  <2>6. b = AtClient(c) /\ ClientPath(c, in, v, v)
    <3>1. AtClient(c).at \in {"creating", "again", "closing"}
      BY <2>3
    <3> QED BY <2>2, <2>4, <3>1, ClientWaits
  <2>7. ClientPath(c, in', AtClient(c)', v)
    BY <1>3, <2>5, <2>6
  <2>k. connected' = connected /\ serverVars' = serverVars
    BY <1>3
  <2>8. CASE connected
    <3> DEFINE x == [e EXCEPT !.srv = "closed"]
    <3>1. e.srv = (IF answer = "closed" THEN "closing" ELSE "again") /\ e.who = Fragmenting(c)
      BY <2>1, <2>3, <2>6, <2>8 DEF Agrees
    <3>2. x \in ServerState /\ x.srv = "closed" /\ x.who = e.who
      BY <2>3 DEF ServerState, Life
    <3>3. ServerTakes(c, p, e, x)
      BY <1>4, <1>5, <3>1 DEF ServerTakes
    <3> HIDE DEF x
    <3>4. ServerPath(c, wire', AtServer(c)', x)
      BY <1>3, <1>5, <1>6, <2>2, <2>8, <3>2, <3>3, ServerKept, WritesHere
    <3>5. Fragmenting(c) = "free" /\ Fragmenting(c)' = "free"
      BY <1>1, <1>3 DEF Fragmenting, TypeOK
    <3>6. Agrees(c, v, x)'
      <4>1. connected' => /\ x.who = Fragmenting(c)' /\ v.at = x.srv
                          /\ v.at = "open" => Numbers(c, v)'
        BY <2>5, <3>1, <3>2, <3>5
      <4> QED BY <2>7, <3>4, <4>1 DEF Agrees
    <3> QED BY <3>6 DEF OnItsWay
  <2>9. CASE ~connected
    <3>1. wire' = wire
      BY <1>6, <2>9 DEF Writes
    <3>2. Agrees(c, v, e)'
      <4>1. ServerPath(c, wire', AtServer(c)', e)
        BY <2>2, <2>k, <3>1, ServerKept
      <4> QED BY <2>7, <2>9, <2>k, <4>1 DEF Agrees
    <3> QED BY <3>2 DEF OnItsWay
  <2> QED BY <2>8, <2>9
<1>10. \A d \in Channel : Counting(d)'
  BY <1>3, ServerKept DEF ProtocolInv, Counting
<1> QED BY <1>7, <1>8, <1>9, <1>10

\* The thread ends with the connection.
LEMMA QuitsAgrees ==
  ASSUME ProtocolInv, Quits
  PROVE  ThreadsInv' /\ \A d \in Channel : Counting(d)' /\ OnItsWay(d)'
<1>1. TypeOK /\ ThreadsInv
  BY DEF ProtocolInv
<1>2. /\ in # <<>> /\ Head(in).kind = "quit" /\ in' = Tail(in) /\ cpc' = "exited" /\ cpc = "idle"
      /\ UNCHANGED <<mpc, connected, wire, channel_error, chan, delivered, cch, answer,
                     lock, capture, serverVars>>
  BY DEF Quits, captureVars
<1>3. ~connected
  BY <1>1, <1>2, StillNoQuit
<1>4. ThreadsInv'
  BY <1>1, <1>2, <1>3 DEF ThreadsInv
<1>5. ASSUME NEW d \in Channel PROVE OnItsWay(d)' /\ Counting(d)'
  <2>1. PICK b, e : Agrees(d, b, e)
    BY DEF ProtocolInv, OnItsWay
  <2>2. Agrees(d, b, e)'
    BY <1>2, <1>3, <2>1, ServerKept DEF Agrees
  <2>3. Counting(d)'
    BY <1>2, ServerKept DEF ProtocolInv, Counting
  <2> QED BY <2>2, <2>3 DEF OnItsWay
<1> QED BY <1>4, <1>5
-----------------------------------------------------------------------------
(* The fragments of a message. *)

\* A thread writes a fragment under the lock: the first when nobody has a message
\* half written, the second when it is its own that is.
LEMMA WritesFragment ==
  ASSUME ProtocolInv, NEW c \in Channel, NEW x \in {"client", "capture"},
         NEW k \in {"first", "next"}, Fragment(k, c, x), chan[c] = "open",
         Fragmenting(c) = IF k = "first" THEN "free" ELSE x,
         Fragmenting(c)' = IF k = "first" THEN x ELSE "free",
         \A d \in Channel : d # c => Fragmenting(d)' = Fragmenting(d),
         \A d \in Channel : AtClient(d)' = AtClient(d),
         UNCHANGED <<connected, in, serverVars>>, cpc' # "exited" => cpc # "exited"
  PROVE  /\ \A d \in Channel : OnItsWay(d)'
         /\ channel_error' = (channel_error \/ ~connected)
<1>1. TypeOK /\ ThreadsInv
  BY DEF ProtocolInv
<1> DEFINE p == Pdu(k, c, x)
<1>2. p \in Answer /\ p.kind = k /\ p.ch = c /\ p.by = x
  BY DEF Pdu, Answer, Who
<1>3. Writes(p)
  <2>1. CASE channel_error
    BY <1>1, <2>1 DEF Fragment, Writes, ThreadsInv
  <2>2. CASE ~channel_error
    BY <1>1, <1>2, <2>2, WritesOne DEF Fragment
  <2> QED BY <2>1, <2>2
<1> HIDE DEF p
<1>4. ASSUME NEW d \in Channel, d # c PROVE OnItsWay(d)'
  <2>1. KeepsIn(d) /\ KeepsWire(d)
    BY <1>1, <1>2, <1>3, <1>4, InKeeps, WireKeeps
  <2>2. OnItsWay(d)
    BY DEF ProtocolInv
  <2> QED BY <1>4, <2>1, <2>2, ServerKept, Elsewhere
<1>5. OnItsWay(c)'
  <2>1. OnItsWay(c)
    BY DEF ProtocolInv
  <2>2. CASE connected
    <3>1. cpc # "exited"
      BY <1>1, <2>2 DEF ThreadsInv
    <3>2. PICK b \in ClientState, e \in ServerState :
            /\ ServerPath(c, wire, AtServer(c), e)
            /\ ClientPath(c, in, AtClient(c), b) /\ ClientGoes(AtClient(c), b)
            /\ e.who = Fragmenting(c) /\ b.at = e.srv /\ (b.at = "open" => Numbers(c, b))
      BY <1>1, <2>1, <2>2, <3>1, Connected
    <3>3. AtClient(c).at \in {"open", "again", "closing"}
      BY DEF AtClient
    <3>4. e.srv \in {"open", "again", "closing"}
      BY <3>2, <3>3 DEF ClientGoes
    <3> DEFINE y == [e EXCEPT !.who = IF k = "first" THEN x ELSE "free"]
    <3>5. y \in ServerState /\ y.srv = e.srv /\ y.who = IF k = "first" THEN x ELSE "free"
      BY DEF ServerState, Who
    <3>6. ServerTakes(c, p, e, y)
      <4>1. CASE k = "first"
        BY <1>2, <3>2, <3>4, <4>1 DEF ServerTakes
      <4>2. CASE k = "next"
        BY <1>2, <3>2, <3>4, <4>2 DEF ServerTakes
      <4> QED BY <4>1, <4>2
    <3> HIDE DEF y
    <3>7. ServerPath(c, wire', AtServer(c)', y)
      BY <1>2, <1>3, <2>2, <3>2, <3>5, <3>6, ServerKept, WritesHere
    <3>8. ClientPath(c, in', AtClient(c)', b)
      BY <3>2
    <3>9. Agrees(c, b, y)'
      BY <2>2, <3>2, <3>5, <3>7, <3>8, ServerKept DEF Agrees
    <3> QED BY <3>9 DEF OnItsWay
  <2>3. CASE ~connected
    <3>1. PICK b, e : Agrees(c, b, e)
      BY <2>1 DEF OnItsWay
    <3>2. wire' = wire
      BY <1>3, <2>3 DEF Writes
    <3>3. Agrees(c, b, e)'
      BY <2>3, <3>1, <3>2, ServerKept DEF Agrees
    <3> QED BY <3>3 DEF OnItsWay
  <2> QED BY <2>2, <2>3
<1> QED BY <1>4, <1>5 DEF Fragment

\* A step that writes nothing and changes no channel.
LEMMA Nothing ==
  ASSUME ProtocolInv, wire' = wire, in' = in, UNCHANGED serverVars, connected' = connected,
         \A d \in Channel : AtClient(d)' = AtClient(d) /\ Fragmenting(d)' = Fragmenting(d),
         cpc' # "exited" => cpc # "exited"
  PROVE  \A d \in Channel : OnItsWay(d)'
<1>1. ASSUME NEW d \in Channel PROVE OnItsWay(d)'
  <2>1. OnItsWay(d) /\ TypeOK
    BY DEF ProtocolInv
  <2>2. KeepsIn(d) /\ KeepsWire(d)
    BY <2>1, InKeeps, WireKeeps
  <2> QED BY <2>1, <2>2, ServerKept, Elsewhere
<1> QED BY <1>1

\* The audio device is opened again for another format.
LEMMA ReopenedAgrees ==
  ASSUME ProtocolInv, Reopened
  PROVE  ThreadsInv' /\ \A d \in Channel : Counting(d)' /\ OnItsWay(d)'
<1>1. TypeOK /\ ThreadsInv /\ cch \in Channel
  BY DEF ProtocolInv, TypeOK
<1>2. /\ cpc = "reopen" /\ cpc' = "want" /\ capture[cch] \in {"none", "ended"}
      /\ capture' = [capture EXCEPT ![cch] = "idle"]
      /\ UNCHANGED <<mpc, connected, in, wire, channel_error, chan, dvc_data, delivered, cch,
                     answer, lock, serverVars>>
  BY DEF Reopened
<1>3. \A d \in Channel : AtClient(d)' = AtClient(d) /\ Fragmenting(d)' = Fragmenting(d)
  BY <1>1, <1>2 DEF AtClient, Fragmenting, TypeOK
<1>4. \A d \in Channel : OnItsWay(d)'
  BY <1>2, <1>3, Nothing
<1>5. \A d \in Channel : Counting(d)'
  BY <1>2, ServerKept DEF ProtocolInv, Counting
<1>6. ThreadsInv'
  <2>1. chan[cch] = "open"
    BY <1>1, <1>2 DEF ThreadsInv
  <2> QED BY <1>1, <1>2, <2>1 DEF ThreadsInv, TypeOK
<1> QED BY <1>4, <1>5, <1>6

\* The client thread answers a message.
LEMMA ClientWritesAgrees ==
  ASSUME ProtocolInv, ClientWrites
  PROVE  ThreadsInv' /\ \A d \in Channel : Counting(d)' /\ OnItsWay(d)'
<1>1. TypeOK /\ ThreadsInv /\ cch \in Channel
  BY DEF ProtocolInv, TypeOK
<1>2. PICK c \in Channel : c = cch
  BY <1>1
<1>3. /\ chan[c] = "open" /\ cpc # "exited" /\ cpc' # "exited" /\ cpc' # "close" /\ cpc # "close"
      /\ cpc \in {"want", "first", "next"} /\ cch' = c
      /\ UNCHANGED <<mpc, connected, in, chan, dvc_data, delivered, answer, capture, serverVars>>
  BY <1>1, <1>2 DEF ClientWrites, ThreadsInv
<1>4. \A d \in Channel : AtClient(d)' = AtClient(d)
  BY <1>3 DEF AtClient
<1>5. \A d \in Channel : Counting(d)'
  BY <1>3, ServerKept DEF ProtocolInv, Counting
<1>6. ASSUME NEW d \in Channel, d # c PROVE Fragmenting(d)' = Fragmenting(d)
  BY <1>2, <1>3, <1>6 DEF Fragmenting
<1>7. CASE cpc = "want"
  <2>1. /\ lock[c] = "free" /\ lock' = [lock EXCEPT ![c] = "client"] /\ cpc' = "first"
        /\ UNCHANGED <<wire, channel_error>>
    BY <1>2, <1>7 DEF ClientWrites, Locks
  <2>2. \A d \in Channel : Fragmenting(d)' = Fragmenting(d)
    BY <1>3, <1>7, <2>1 DEF Fragmenting
  <2>3. \A d \in Channel : OnItsWay(d)'
    BY <1>3, <1>4, <2>1, <2>2, Nothing
  <2>4. ThreadsInv'
    BY <1>1, <1>2, <1>3, <1>7, <2>1 DEF ThreadsInv, TypeOK
  <2> QED BY <1>5, <2>3, <2>4
<1>8. CASE cpc = "first"
  <2>1. Fragment("first", c, "client") /\ cpc' = "next" /\ lock' = lock
    BY <1>2, <1>8 DEF ClientWrites
  <2>2. Fragmenting(c) = "free" /\ Fragmenting(c)' = "client"
    <3>1. lock[c] = "client"
      BY <1>1, <1>2, <1>8 DEF ThreadsInv
    <3>2. capture[c] # "next"
      BY <1>1, <3>1 DEF ThreadsInv
    <3> QED BY <1>3, <1>8, <2>1, <3>2 DEF Fragmenting
  <2>3. /\ \A d \in Channel : OnItsWay(d)'
        /\ channel_error' = (channel_error \/ ~connected)
    BY <1>3, <1>4, <1>6, <2>1, <2>2, WritesFragment
  <2>4. ThreadsInv'
    BY <1>1, <1>2, <1>3, <1>8, <2>1, <2>3 DEF ThreadsInv
  <2> QED BY <1>5, <2>3, <2>4
<1>9. CASE cpc = "next"
  <2>1. Fragment("next", c, "client") /\ cpc' = "idle" /\ lock' = [lock EXCEPT ![c] = "free"]
    BY <1>2, <1>9 DEF ClientWrites
  <2>2. lock[c] = "client" /\ capture[c] \notin {"first", "next"}
    <3>1. lock[c] = "client"
      BY <1>1, <1>2, <1>9 DEF ThreadsInv
    <3> QED BY <1>1, <3>1 DEF ThreadsInv
  <2>3. Fragmenting(c) = "client" /\ Fragmenting(c)' = "free"
    BY <1>2, <1>3, <1>9, <2>1, <2>2 DEF Fragmenting
  <2>4. /\ \A d \in Channel : OnItsWay(d)'
        /\ channel_error' = (channel_error \/ ~connected)
    BY <1>3, <1>4, <1>6, <2>1, <2>3, WritesFragment
  <2>5. ThreadsInv'
    <3>1. ASSUME NEW d \in Channel
          PROVE  /\ lock'[d] = "client" <=> cpc' \in {"first", "next"} /\ cch' = d
                 /\ lock'[d] = "capture" <=> capture'[d] \in {"first", "next"}
                 /\ capture'[d] \in {"idle", "want", "first", "next"} => chan'[d] = "open"
      BY <1>1, <1>2, <1>3, <1>9, <2>1, <2>2 DEF ThreadsInv, TypeOK
    <3> QED BY <1>1, <1>3, <2>1, <2>4, <3>1 DEF ThreadsInv
  <2> QED BY <1>5, <2>4, <2>5
<1> QED BY <1>3, <1>7, <1>8, <1>9
-----------------------------------------------------------------------------
(* The capture threads. *)

\* A capture thread begins, ends, or writes a fragment under the lock.
LEMMA CaptureAgrees ==
  ASSUME ProtocolInv, NEW c \in Channel, CaptureThread(c)
  PROVE  ThreadsInv' /\ \A d \in Channel : Counting(d)' /\ OnItsWay(d)'
<1>1. TypeOK /\ ThreadsInv
  BY DEF ProtocolInv
<1>2. /\ UNCHANGED <<mpc, connected, in, chan, dvc_data, delivered, cpc, cch, answer, serverVars>>
      /\ capture[c] \in {"idle", "want", "first", "next"}
  BY DEF CaptureThread, CaptureBegins, CaptureWrites, clientVars
<1>3. chan[c] = "open"
  BY <1>1, <1>2 DEF ThreadsInv
<1>4. \A d \in Channel : AtClient(d)' = AtClient(d)
  BY <1>2 DEF AtClient
<1>5. \A d \in Channel : Counting(d)'
  BY <1>2, ServerKept DEF ProtocolInv, Counting
<1>6. CASE CaptureBegins(c)
  <2>1. /\ capture[c] = "idle" /\ UNCHANGED <<wire, lock, channel_error>>
        /\ \E s \in {"ended", "want"} : capture' = [capture EXCEPT ![c] = s]
    BY <1>6 DEF CaptureBegins, clientVars
  <2>2. \A d \in Channel : Fragmenting(d)' = Fragmenting(d)
    BY <1>1, <1>2, <2>1 DEF Fragmenting, TypeOK
  <2>3. \A d \in Channel : OnItsWay(d)'
    BY <1>2, <1>4, <2>1, <2>2, Nothing
  <2>4. ThreadsInv'
    BY <1>1, <1>2, <1>3, <2>1 DEF ThreadsInv, TypeOK
  <2> QED BY <1>5, <2>3, <2>4
<1>7. CASE CaptureWrites(c) /\ capture[c] = "want"
  <2>1. /\ lock[c] = "free" /\ lock' = [lock EXCEPT ![c] = "capture"]
        /\ capture' = [capture EXCEPT ![c] = "first"] /\ UNCHANGED <<wire, channel_error>>
    BY <1>7 DEF CaptureWrites, Locks
  <2>2. \A d \in Channel : Fragmenting(d)' = Fragmenting(d)
    BY <1>1, <1>2, <1>7, <2>1 DEF Fragmenting, TypeOK
  <2>3. \A d \in Channel : OnItsWay(d)'
    BY <1>2, <1>4, <2>1, <2>2, Nothing
  <2>4. ThreadsInv'
    BY <1>1, <1>2, <1>3, <2>1 DEF ThreadsInv, TypeOK
  <2> QED BY <1>5, <2>3, <2>4
<1>8. ASSUME capture[c] \in {"first", "next"}
      PROVE  lock[c] = "capture" /\ ~(cpc \in {"first", "next"} /\ cch = c)
  <2>1. lock[c] = "capture"
    BY <1>1, <1>8 DEF ThreadsInv
  <2> QED BY <1>1, <2>1 DEF ThreadsInv
<1>9. CASE CaptureWrites(c) /\ capture[c] = "first"
  <2>1. /\ Fragment("first", c, "capture") /\ lock' = lock
        /\ capture' = [capture EXCEPT ![c] = "next"]
    BY <1>9 DEF CaptureWrites
  <2>2. /\ Fragmenting(c) = "free" /\ Fragmenting(c)' = "capture"
        /\ \A d \in Channel : d # c => Fragmenting(d)' = Fragmenting(d)
    BY <1>1, <1>2, <1>8, <1>9, <2>1 DEF Fragmenting, TypeOK
  <2>3. /\ \A d \in Channel : OnItsWay(d)'
        /\ channel_error' = (channel_error \/ ~connected)
    BY <1>2, <1>3, <1>4, <2>1, <2>2, WritesFragment
  <2>4. ThreadsInv'
    BY <1>1, <1>2, <1>3, <1>9, <2>1, <2>3 DEF ThreadsInv, TypeOK
  <2> QED BY <1>5, <2>3, <2>4
<1>10. CASE CaptureWrites(c) /\ capture[c] = "next"
  <2>1. /\ Fragment("next", c, "capture") /\ lock' = [lock EXCEPT ![c] = "free"]
        /\ \E s \in {"ended", "idle"} : capture' = [capture EXCEPT ![c] = s]
    BY <1>10 DEF CaptureWrites
  <2>2. /\ Fragmenting(c) = "capture" /\ Fragmenting(c)' = "free"
        /\ \A d \in Channel : d # c => Fragmenting(d)' = Fragmenting(d)
    BY <1>1, <1>2, <1>8, <1>10, <2>1 DEF Fragmenting, TypeOK
  <2>3. /\ \A d \in Channel : OnItsWay(d)'
        /\ channel_error' = (channel_error \/ ~connected)
    BY <1>2, <1>3, <1>4, <2>1, <2>2, WritesFragment
  <2>4. ThreadsInv'
    <3>1. ASSUME NEW d \in Channel
          PROVE  /\ lock'[d] = "client" <=> cpc' \in {"first", "next"} /\ cch' = d
                 /\ lock'[d] = "capture" <=> capture'[d] \in {"first", "next"}
                 /\ capture'[d] \in {"idle", "want", "first", "next"} => chan'[d] = "open"
      BY <1>1, <1>2, <1>3, <1>8, <1>10, <2>1 DEF ThreadsInv, TypeOK
    <3> QED BY <1>1, <1>2, <2>3, <3>1 DEF ThreadsInv
  <2> QED BY <1>5, <2>3, <2>4
<1> QED BY <1>2, <1>6, <1>7, <1>9, <1>10 DEF CaptureThread, CaptureWrites
-----------------------------------------------------------------------------
(* The main thread. *)

\* From now on nothing the client writes reaches the server.
LEMMA DisconnectAgrees ==
  ASSUME ProtocolInv, Disconnect
  PROVE  ThreadsInv' /\ \A d \in Channel : Counting(d)' /\ OnItsWay(d)'
<1>1. TypeOK /\ ThreadsInv
  BY DEF ProtocolInv
<1>2. /\ mpc = "up" /\ mpc' = "join" /\ connected' = FALSE
      /\ in' = Append(in, [kind |-> "quit", ch |-> cch, n |-> 0])
      /\ UNCHANGED <<wire, channel_error, chan, dvc_data, delivered, cpc, cch, answer,
                     lock, capture, serverVars>>
  BY DEF Disconnect, clientVars, captureVars
<1> DEFINE q == [kind |-> "quit", ch |-> cch, n |-> 0]
<1>q. q \in Request /\ q.kind = "quit" /\ in' = Append(in, q)
  BY <1>1, <1>2, DynamicAssumption DEF TypeOK, Request, GivenUp
<1> HIDE DEF q
<1>3. PICK m \in Request : in' = Append(in, m) /\ m.kind = "quit"
  BY <1>q
<1>4. ThreadsInv'
  BY <1>1, <1>2 DEF ThreadsInv
<1>5. ASSUME NEW d \in Channel PROVE OnItsWay(d)' /\ Counting(d)'
  <2>1. OnItsWay(d) /\ Counting(d)
    BY DEF ProtocolInv
  <2>2. KeepsIn(d) /\ KeepsWire(d)
    BY <1>1, <1>2, <1>3, InKeeps, WireKeeps
  <2>3. AtClient(d)' = AtClient(d)
    BY <1>2 DEF AtClient
  <2>4. OnItsWay(d)'
    BY <1>2, <2>1, <2>2, <2>3, ServerKept, Elsewhere
  <2> QED BY <1>2, <2>1, <2>4, ServerKept DEF Counting
<1> QED BY <1>4, <1>5

\* The main thread frees the channels once the client thread has ended.
LEMMA MainAgrees ==
  ASSUME ProtocolInv, MainThread
  PROVE  ThreadsInv' /\ \A d \in Channel : Counting(d)' /\ OnItsWay(d)'
<1>1. TypeOK /\ ThreadsInv
  BY DEF ProtocolInv
<1>2. /\ cpc = "exited" /\ mpc # "up" /\ mpc' # "up"
      /\ UNCHANGED <<connected, in, wire, channel_error, delivered, cpc, cch, answer,
                     lock, capture, serverVars>>
  BY <1>1 DEF MainThread, Frees, FreesOne, Freed, ThreadsInv, clientVars, captureVars
<1>3. \A d \in Channel : chan'[d] = chan[d] \/ capture[d] \in {"none", "ended"}
  BY <1>1 DEF MainThread, Frees, FreesOne, Freed, TypeOK, clientVars, captureVars
<1>4. ThreadsInv'
  BY <1>1, <1>2, <1>3 DEF ThreadsInv
<1>5. ASSUME NEW d \in Channel PROVE OnItsWay(d)' /\ Counting(d)'
  <2>1. PICK b, e : Agrees(d, b, e)
    BY DEF ProtocolInv, OnItsWay
  <2>2. ~connected
    BY <1>1, <1>2 DEF ThreadsInv
  <2>3. Agrees(d, b, e)'
    BY <1>2, <2>1, <2>2, ServerKept DEF Agrees
  <2>4. Counting(d)'
    BY <1>2, ServerKept DEF ProtocolInv, Counting
  <2> QED BY <2>3, <2>4 DEF OnItsWay
<1> QED BY <1>4, <1>5

\* Nothing is on its way, and no channel exists.
LEMMA ProtocolInit == Init => ProtocolInv
<1> SUFFICES ASSUME Init PROVE ProtocolInv
  OBVIOUS
<1>1. TypeOK
  BY InitTypes
<1>2. ThreadsInv
  BY DEF Init, ThreadsInv
<1>3. ASSUME NEW c \in Channel PROVE Counting(c) /\ OnItsWay(c)
  <2>1. AtClient(c) = [at |-> "closed", got |-> 0, part |-> 0]
    BY DEF Init, AtClient
  <2>2. AtServer(c) = [srv |-> "closed", who |-> "free"]
    BY DEF Init, AtServer
  <2>3. AtClient(c) \in ClientState /\ AtServer(c) \in ServerState
    BY <2>1, <2>2 DEF ClientState, ServerState, Life, Who
  <2>4. ClientPath(c, in, AtClient(c), AtClient(c)) /\ ServerPath(c, wire, AtServer(c), AtServer(c))
    BY <2>3, PathEmpty DEF Init
  <2>5. Fragmenting(c) = "free"
    BY DEF Init, Fragmenting
  <2>6. Agrees(c, AtClient(c), AtServer(c))
    BY <2>1, <2>2, <2>4, <2>5 DEF Agrees
  <2>7. Counting(c)
    BY DEF Init, Counting
  <2> QED BY <2>6, <2>7 DEF OnItsWay
<1> QED BY <1>1, <1>2, <1>3 DEF ProtocolInv
-----------------------------------------------------------------------------
(* Theorems. *)

\* Whatever is on its way, a channel ends up the same at the client and at the
\* server (drdynvc_order_recv and dvcman_write_channel): the invariant.
THEOREM ProtocolInvariance == Spec => []ProtocolInv
<1>1. ProtocolInv /\ [Next]_vars => ProtocolInv'
  <2> SUFFICES ASSUME ProtocolInv, [Next]_vars PROVE ProtocolInv'
    OBVIOUS
  <2>1. TypeOK'
    BY ServerTypes, ClientTypes, CaptureTypes, MainTypes DEF Next, ProtocolInv
  <2> SUFFICES ThreadsInv' /\ \A d \in Channel : Counting(d)' /\ OnItsWay(d)'
    BY <2>1 DEF ProtocolInv
  <2>2. CASE Server
    BY <2>2, CapabilitiesAsked, Creates, SendsData, GivesUp, SendsClose, Receives DEF Server
  <2>3. CASE ClientThread
    BY <2>3, HandlesCapabilities, HandlesCreate, HandlesDuplicate, HandlesFirst, HandlesData,
       HandlesClose, ReopenedAgrees, ClosedAgrees, QuitsAgrees, ClientWritesAgrees DEF ClientThread
  <2>4. CASE Disconnect \/ MainThread
    BY <2>4, DisconnectAgrees, MainAgrees
  <2>5. CASE \E c \in Channel : CaptureThread(c)
    BY <2>5, CaptureAgrees
  <2>6. CASE UNCHANGED vars
    <3>1. \A d \in Channel : AtClient(d)' = AtClient(d) /\ Fragmenting(d)' = Fragmenting(d)
      BY <2>6 DEF vars, clientVars, captureVars, AtClient, Fragmenting
    <3>2. \A d \in Channel : OnItsWay(d)'
      BY <2>6, <3>1, Nothing DEF vars, clientVars
    <3>3. ThreadsInv' /\ \A d \in Channel : Counting(d)'
      BY <2>6 DEF vars, clientVars, captureVars, serverVars, ThreadsInv, Counting, ProtocolInv
    <3> QED BY <3>2, <3>3
  <2> QED BY <2>2, <2>3, <2>4, <2>5, <2>6 DEF Next
<1> QED BY ProtocolInit, <1>1, PTL DEF Spec

\* The next answer fits the channel as the server has it.
LEMMA AnswerFits ==
  ASSUME ProtocolInv, wire # <<>>
  PROVE  /\ Head(wire) \in Answer
         /\ \E u \in ServerState :
               ServerTakes(Head(wire).ch, Head(wire), AtServer(Head(wire).ch), u)
<1>1. Head(wire) \in Answer /\ wire \in Seq(Answer)
  BY HeadTailProperties DEF ProtocolInv, TypeOK
<1>2. PICK c \in Channel : c = Head(wire).ch
  BY <1>1 DEF Answer
<1>3. PICK b, e : Agrees(c, b, e)
  BY DEF ProtocolInv, OnItsWay
<1>4. \E u \in ServerState : ServerTakes(c, Head(wire), AtServer(c), u)
  BY <1>1, <1>3, ServerTail DEF Agrees
<1> QED BY <1>1, <1>2, <1>4

\* The fragments of two messages on a channel never mix, whichever threads write
\* them: dvcman_write_channel holds channel->lock over all of them.
THEOREM NeverMixed == Spec => []FragmentsTogether
<1>1. ProtocolInv => FragmentsTogether
  BY AnswerFits DEF FragmentsTogether, ServerTakes, AtServer, Answer
<1> QED BY ProtocolInvariance, <1>1, PTL

\* Nothing is written on a channel the server takes for closed: dvcman_close_channel
\* waits for the capture thread before the close is answered.
THEOREM ClosedIsQuiet == Spec => []NoDataAfterClose
<1>1. ProtocolInv => NoDataAfterClose
  BY AnswerFits DEF NoDataAfterClose, ServerTakes, AtServer, Answer
<1> QED BY ProtocolInvariance, <1>1, PTL

\* What the plug-in is handed is what the server sent, whole, in order and once
\* (dvcman_receive_channel_data), also when an identifier is used again.
THEOREM DeliveredWhole == Spec => []MessagesWhole
<1>1. ASSUME ProtocolInv PROVE MessagesWhole
  <2>1. ASSUME NEW c \in Channel PROVE DOMAIN delivered[c] = 1 .. Len(delivered[c])
    BY <1>1, LenProperties DEF ProtocolInv, TypeOK
  <2> QED BY <1>1, <2>1 DEF ProtocolInv, Counting, MessagesWhole
<1> QED BY ProtocolInvariance, <1>1, PTL

\* Client and server agree on every channel about which nothing is on its way.
THEOREM BothAgree == Spec => []Agreement
<1>1. ProtocolInv => Agreement
  <2> SUFFICES ASSUME ProtocolInv, NEW c \in Channel, connected, cpc = "idle",
                      \A k \in DOMAIN in : in[k].ch # c, \A k \in DOMAIN wire : wire[k].ch # c
               PROVE  srv[c] = "open" <=> chan[c] = "open"
    BY DEF Agreement
  <2>1. in \in Seq(Request) /\ wire \in Seq(Answer)
    BY DEF ProtocolInv, TypeOK
  <2>2. PICK b, e : Agrees(c, b, e)
    BY DEF ProtocolInv, OnItsWay
  <2>d. DOMAIN in = 1 .. Len(in) /\ DOMAIN wire = 1 .. Len(wire)
    BY <2>1, LenProperties
  <2>3. b = AtClient(c)
    BY <2>1, <2>2, <2>d, ClientEnds DEF Agrees
  <2>4. e = AtServer(c)
    BY <2>1, <2>2, <2>d, ServerEnds DEF Agrees
  <2>5. AtClient(c).at = AtServer(c).srv
    BY <2>2, <2>3, <2>4 DEF Agrees
  <2> QED BY <2>5 DEF AtClient, AtServer
<1> QED BY ProtocolInvariance, <1>1, PTL
-----------------------------------------------------------------------------
(* The capabilities response. *)

\* Until it is written the client has no channel, and nothing to write on one.
Early ==
    /\ CapabilitiesFirst
    /\ state = "ready" /\ ~caps /\ connected => wire # <<>>
    /\ state = "capabilities" => /\ wire = <<>> /\ ~caps /\ cpc \in {"idle", "exited"}
                                 /\ \A c \in Channel : chan[c] # "open"

\* Once it is written, drdynvc_send puts the rest behind it.
LEMMA Behind ==
  ASSUME TypeOK, Early, state = "ready", state' = "ready", caps' = caps, connected' => connected,
         wire' = wire \/ \E s \in Seq(Answer) : Send(s)
  PROVE  Early'
<1>1. wire # <<>> => wire' # <<>> /\ Head(wire') = Head(wire)
  <2>1. CASE wire' = wire
    BY <2>1
  <2>2. ASSUME wire # <<>>, NEW s \in Seq(Answer), Send(s), connected
        PROVE  wire' # <<>> /\ Head(wire') = Head(wire)
    <3>1. wire \in Seq(Answer) /\ wire' = wire \o s
      BY <2>2 DEF Send, TypeOK
    <3>2. /\ Len(wire) \in Nat \ {0} /\ Len(s) \in Nat /\ Len(wire') = Len(wire) + Len(s)
          /\ \A j \in 1 .. Len(wire) : wire'[j] = wire[j]
      BY <2>2, <3>1, ConcatProperties, EmptySeq
    <3>3. wire' \in Seq(Answer) /\ wire'[1] = wire[1] /\ Len(wire') # 0
      BY <3>1, <3>2, ConcatProperties
    <3> QED BY <2>2, <3>1, <3>3
  <2>3. ~connected /\ (\E s \in Seq(Answer) : Send(s)) => wire' = wire
    BY DEF Send
  <2> QED BY <2>1, <2>2, <2>3
<1>2. ~caps /\ wire = <<>> => wire' = wire /\ ~connected
  BY DEF Early, Send
<1> QED BY <1>1, <1>2 DEF Early, CapabilitiesFirst

\* The client thread asked for the first time: CAPABILITY_REQUEST, or a create.
LEMMA FirstAsked ==
  ASSUME ProtocolInv, Early, state = "capabilities", NEW c \in Channel,
         CapabilityRequest(c) \/ CreateRequest(c)
  PROVE  Early'
<1>1. /\ TypeOK /\ in # <<>> /\ state' = "ready" /\ UNCHANGED <<connected, caps>>
      /\ wire = <<>> /\ ~caps /\ chan[c] # "open"
  BY DEF CapabilityRequest, CreateRequest, Handles, serverVars, Early, ProtocolInv
<1>2. Head(in) \in Request
  BY <1>1, HeadTailProperties DEF TypeOK
<1>3. ASSUME NEW d \in Channel, NEW k \in {"caps", "created", "refused"}
      PROVE  Pdu(k, d, "client") \in Answer /\ Pdu(k, d, "client").kind = k
  BY DEF Pdu, Answer, Who
<1>4. connected => wire' # <<>> /\ Head(wire').kind = "caps"
  <2>1. CASE CapabilityRequest(c)
    <3>1. PICK p \in Answer : p.kind = "caps" /\ Send(<<p>>)
      BY <1>3, <2>1 DEF CapabilityRequest
    <3>2. connected => wire' = <<>> \o <<p>>
      BY <1>1, <3>1 DEF Send
    <3>3. <<>> \o <<p>> = <<p>>
      BY <3>1
    <3> QED BY <3>1, <3>2, <3>3
  <2>2. CASE CreateRequest(c)
    <3>1. PICK q \in Answer : q.kind = "caps" /\ Capabilities = <<q>>
      BY <1>2, <1>3 DEF Capabilities, Request
    <3>2. PICK p \in Answer : Send(Append(Capabilities, p))
      BY <1>1, <1>3, <2>2 DEF CreateRequest, Refuses
    <3> DEFINE s == Append(<<q>>, p)
    <3>3. connected => wire' = <<>> \o s
      BY <1>1, <3>1, <3>2 DEF Send
    <3>4. s \in Seq(Answer) /\ Len(s) = 2 /\ s[1] = q
      <4>1. <<q>> \in Seq(Answer) /\ Len(<<q>>) = 1 /\ <<q>>[1] = q
        BY <3>1
      <4> QED BY <3>2, <4>1, AppendProperties
    <3> HIDE DEF s
    <3>5. <<>> \o s = s /\ s # <<>> /\ Head(s) = q
      BY <3>4, ConcatEmptySeq, EmptySeq
    <3> QED BY <3>1, <3>3, <3>5
  <2> QED BY <2>1, <2>2
<1>5. ~connected => wire' = <<>>
  BY <1>1 DEF CapabilityRequest, CreateRequest, Refuses, Send
<1> QED BY <1>1, <1>4, <1>5 DEF Early, CapabilitiesFirst

\* A server that sends touches nothing of the client's but the queue.
LEMMA ServerSent ==
  ASSUME Server, ~ServerReceives
  PROVE  UNCHANGED <<connected, wire, clientVars, caps>>
<1>1. ASSUME NEW k, NEW c, NEW n, ServerSends(k, c, n)
      PROVE  UNCHANGED <<connected, wire, clientVars, caps>>
  BY <1>1 DEF ServerSends
<1>2. CASE ServerCapabilities
  BY <1>1, <1>2 DEF ServerCapabilities
<1>3. ASSUME NEW c \in Channel, \/ ServerCreates(c) \/ ServerCreatesAgain(c)
                                \/ ServerData(c) \/ ServerGivesUp(c) \/ ServerCloses(c)
      PROVE  UNCHANGED <<connected, wire, clientVars, caps>>
  BY <1>1, <1>3 DEF ServerCreates, ServerCreatesAgain, ServerData, ServerGivesUp, ServerCloses
<1> QED BY <1>2, <1>3 DEF Server

\* Before it is asked, the client thread has nothing it could write.
LEMMA NothingYet ==
  ASSUME ProtocolInv, Early, state = "capabilities", [Next]_vars
  PROVE  Early'
<1>1. /\ TypeOK /\ ThreadsInv /\ wire = <<>> /\ ~caps /\ cpc \in {"idle", "exited"}
      /\ \A c \in Channel : chan[c] # "open"
      /\ \A c \in Channel : capture[c] \notin {"idle", "want", "first", "next"}
  BY DEF ProtocolInv, Early, ThreadsInv
<1>2. ASSUME UNCHANGED <<state, wire, caps, chan>>, cpc' \in {"idle", "exited"} PROVE Early'
  BY <1>1, <1>2 DEF Early, CapabilitiesFirst
<1>3. CASE Server
  <2>1. UNCHANGED <<wire, caps, clientVars>>
    BY <1>1, <1>3, ServerSent DEF ServerReceives
  <2> QED BY <1>1, <1>2, <2>1 DEF clientVars
<1>4. ASSUME NEW c \in Channel, DataFirst(c) \/ Data(c) PROVE Early'
  <2>1. UNCHANGED <<state, wire, caps, chan, cpc>>
    BY <1>1, <1>4 DEF DataFirst, Data, Handles, serverVars
  <2> QED BY <1>1, <1>2, <2>1
<1>5. ASSUME NEW c \in Channel, CloseRequest(c) PROVE FALSE
  <2>1. Handles("close", c)
    BY <1>5 DEF CloseRequest
  <2>2. /\ Head(in).kind = "close" /\ Head(in).ch = c
        /\ \E u \in ClientState : ClientTakes(c, Head(in), AtClient(c), u)
    BY <2>1, HeadFits
  <2>3. AtClient(c).at = "open"
    BY <2>2 DEF ClientTakes
  <2> QED BY <1>1, <2>3 DEF AtClient
<1>6. CASE ClientThread
  <2>1. CASE Quits
    BY <1>2, <2>1 DEF Quits, serverVars
  <2>2. ~Reopened /\ ~Closed /\ ~ClientWrites
    BY <1>1 DEF Reopened, Closed, ClientWrites
  <2> QED BY <1>4, <1>5, <1>6, <2>1, <2>2, FirstAsked DEF ClientThread
<1>7. CASE Disconnect \/ MainThread
  <2>1. UNCHANGED <<state, wire, caps, chan, cpc>>
    BY <1>1, <1>7 DEF Disconnect, MainThread, Frees, FreesOne, Freed, clientVars, serverVars
  <2> QED BY <1>1, <1>2, <2>1
<1>8. ASSUME NEW c \in Channel PROVE ~CaptureThread(c)
  BY <1>1 DEF CaptureThread, CaptureBegins, CaptureWrites
<1>9. CASE UNCHANGED vars
  BY <1>1, <1>2, <1>9 DEF vars, clientVars, serverVars
<1> QED BY <1>3, <1>6, <1>7, <1>8, <1>9 DEF Next

\* The capabilities response is the first thing the server gets, also when it asked
\* for a channel before (drdynvc_process_create_request).
THEOREM CapabilitiesAnsweredFirst == Spec => []CapabilitiesFirst
<1>1. Init => Early
  BY DEF Init, Early, CapabilitiesFirst
<1>2. ASSUME ProtocolInv, Early, [Next]_vars PROVE Early'
  <2>1. TypeOK /\ state \in {"capabilities", "ready"}
    BY <1>2 DEF ProtocolInv, TypeOK
  <2>2. CASE state = "capabilities"
    BY <1>2, <2>2, NothingYet
  <2>3. CASE state = "ready" /\ ServerReceives
    <3>1. /\ wire # <<>> /\ UNCHANGED <<state, connected>>
          /\ Head(wire).kind = "caps" => caps'
          /\ Head(wire).kind # "caps" => caps' = caps
      <4>1. Head(wire).kind \in {"caps", "created", "refused", "closed", "first", "next"}
        <5>1. wire \in Seq(Answer) /\ wire # <<>>
          BY <2>1, <2>3 DEF ServerReceives, TypeOK
        <5>2. Head(wire) \in Answer
          BY <5>1, HeadTailProperties
        <5> QED BY <5>2 DEF Answer
      <4> QED BY <2>3, <4>1 DEF ServerReceives, clientVars
    <3>2. caps'
      BY <1>2, <2>1, <3>1 DEF Early, CapabilitiesFirst, TypeOK
    <3> QED BY <2>3, <3>1, <3>2 DEF Early, CapabilitiesFirst
  <2>4. CASE state = "ready" /\ ~ServerReceives
    <3>1. caps' = caps /\ state' = "ready" /\ (connected' => connected)
      <4>1. CASE Server
        BY <2>4, <4>1, ServerSent DEF clientVars
      <4>2. CASE ClientThread
        <5>1. ASSUME NEW c \in Channel, CapabilityRequest(c) \/ CreateRequest(c)
              PROVE  caps' = caps /\ state' = "ready" /\ connected' = connected
          BY <5>1 DEF CapabilityRequest, CreateRequest, Handles, serverVars
        <5>2. ASSUME NEW c \in Channel, DataFirst(c) \/ Data(c) \/ CloseRequest(c)
              PROVE  UNCHANGED <<caps, state, connected>>
          BY <5>2 DEF DataFirst, Data, CloseRequest, Handles, serverVars
        <5>3. ASSUME Reopened \/ Closed \/ Quits \/ ClientWrites
              PROVE  UNCHANGED <<serverVars, state, connected>>
          BY <5>3 DEF Reopened, Closed, Quits, ClientWrites
        <5>4. UNCHANGED serverVars => caps' = caps
          BY DEF serverVars
        <5> QED BY <2>4, <4>2, <5>1, <5>2, <5>3, <5>4 DEF ClientThread
      <4>3. CASE Disconnect \/ MainThread
        BY <2>4, <4>3 DEF Disconnect, MainThread, Frees, FreesOne, Freed, clientVars, serverVars
      <4>4. CASE \E c \in Channel : CaptureThread(c)
        BY <2>4, <4>4 DEF CaptureThread, CaptureBegins, CaptureWrites, clientVars, serverVars
      <4>5. CASE UNCHANGED vars
        BY <2>4, <4>5 DEF vars, clientVars, serverVars
      <4> QED BY <1>2, <4>1, <4>2, <4>3, <4>4, <4>5 DEF Next
    <3>2. wire' = wire \/ \E s \in Seq(Answer) : Send(s)
      <4>1. ASSUME NEW k \in {"caps", "created", "refused", "closed", "first", "next"},
                   NEW c \in Channel, NEW x \in {"client", "capture"}
            PROVE  Pdu(k, c, x) \in Answer /\ <<Pdu(k, c, x)>> \in Seq(Answer)
        <5>1. Pdu(k, c, x) \in Answer
          BY DEF Pdu, Answer, Who
        <5> QED BY <5>1
      <4>2. CASE Server \/ Disconnect \/ MainThread \/ UNCHANGED vars
        BY <2>4, <4>2, ServerSent DEF Disconnect, MainThread, Frees, FreesOne, Freed, vars
      <4>3. ASSUME NEW c \in Channel, CapabilityRequest(c) \/ CloseRequest(c)
            PROVE  wire' = wire \/ \E s \in Seq(Answer) : Send(s)
        BY <4>1, <4>3 DEF CapabilityRequest, CloseRequest
      <4>4. ASSUME NEW c \in Channel, CreateRequest(c) PROVE \E s \in Seq(Answer) : Send(s)
        <5>1. Capabilities \in Seq(Answer)
          BY <2>1, <4>4, CapabilityTypes DEF CreateRequest, Handles
        <5>2. \A k \in {"created", "refused"} : Append(Capabilities, Pdu(k, c, "client")) \in Seq(Answer)
          BY <4>1, <5>1, AppendProperties
        <5> QED BY <4>4, <5>1, <5>2 DEF CreateRequest, Refuses
      <4>5. CASE Closed \/ ClientWrites
        <5>1. cch \in Channel /\ answer \in {"refused", "closed"}
          BY <2>1 DEF TypeOK
        <5> QED BY <4>1, <4>5, <5>1 DEF Closed, ClientWrites, Fragment
      <4>6. ASSUME NEW c \in Channel, DataFirst(c) \/ Data(c) PROVE wire' = wire
        BY <4>6 DEF DataFirst, Data
      <4>7. ASSUME NEW c \in Channel, CaptureThread(c)
            PROVE  wire' = wire \/ \E s \in Seq(Answer) : Send(s)
        BY <4>1, <4>7 DEF CaptureThread, CaptureBegins, CaptureWrites, Fragment
      <4>8. CASE Reopened \/ Quits
        BY <4>8 DEF Reopened, Quits
      <4> QED BY <1>2, <4>2, <4>3, <4>4, <4>5, <4>6, <4>7, <4>8 DEF Next, ClientThread
    <3> QED BY <1>2, <2>1, <2>4, <3>1, <3>2, Behind
  <2> QED BY <2>1, <2>2, <2>3, <2>4
<1>3. Early => CapabilitiesFirst
  BY DEF Early
<1> QED BY ProtocolInvariance, <1>1, <1>2, <1>3, PTL DEF Spec
=============================================================================
