---------------------------- MODULE TunnelProofs ----------------------------
(***************************************************************************)
(* Both tunnels are as good as a connection (TunnelIsFaithful) and, as     *)
(* long as nothing is lost and no process ends, tell the client of the     *)
(* daemon's commit (CommitIsReported), for migrations of any length and    *)
(* any number of faults.                                                   *)
(*                                                                         *)
(* The argument: the client waits for the answer to a frame before it      *)
(* sends the next, so at most one frame or answer is anywhere between the  *)
(* ends (RunpodPlace, ProxyPlace); what is lost stays lost.  Sockets are   *)
(* closed from the daemon's end to the client's, each after what it held   *)
(* was passed on (RunpodCalm, ProxyCalm).                                  *)
(***************************************************************************)
EXTENDS Tunnels, TLAPS

(* Most leaves are first-order: Zenon is tried before SMT. *)
USE ZenonT(2), SMTT(30), ZenonT(60)

Sockets == [up : Seq(FrameNumbers), down : Seq(Answers), upFin : BOOLEAN, downFin : BOOLEAN]

EndTypes ==
    /\ sdk \in BOOLEAN
    /\ client \in [sent : 0 .. Last, got : Seq(Answers),
                   result : {"none", "failed", "success", "killed"}]
    /\ daemon \in [seen : Seq(FrameNumbers), committed : BOOLEAN]
    /\ near \in Sockets /\ far \in Sockets
    /\ near.upFin = near.downFin /\ far.upFin = far.downFin

Sent == client.sent
Got == Len(client.got)
Seen == Len(daemon.seen)

(* What both ends have seen so far. *)
EndsAgree ==
    /\ AnswersMatch
    /\ \A i \in 1 .. Seen : daemon.seen[i] = i
    /\ ClientRuns /\ Sent = Got => Sent < Last
    /\ daemon.committed => Sent = Last /\ Seen = Last
    /\ client.result = "success" => daemon.committed

(* The frame that the client waits to have answered, and the answer. *)
Asked == Sent = Got + 1 /\ Sent = Seen + 1
Answered == Sent = Got + 1 /\ Sent = Seen
IsAnswer(a) == a \in Answers /\ a.to = Sent /\ (Sent = Last => a.ok = daemon.committed)

-----------------------------------------------------------------------------
(* The proxies. *)
ProxyTypes ==
    /\ EndTypes /\ tunnel = "wss"
    /\ ws \in Sockets /\ ws.upFin = ws.downFin
    /\ pipe \in [Pipes -> BOOLEAN]
    /\ proxies \in [Sides -> ProxyStates]
    /\ pipe["clientUp"] \/ pipe["clientDown"] => proxies["client"] = "pair"
    /\ pipe["serverUp"] \/ pipe["serverDown"] => proxies["server"] = "pair"
    /\ acceptFaults \in 0 .. AcceptFaults

(* Before the server's pair there is nothing behind the client's socket. *)
ProxyOpening ==
    /\ proxies["server"] \in {"accept", "accepted", "connect"} =>
          ws.down = <<>> /\ far.up = <<>> /\ far.down = <<>> /\ far.downFin
    /\ proxies["server"] \in {"accept", "accepted"} =>
          ws.up = <<>> /\ proxies["client"] \notin {"answered", "pair"}
    /\ proxies["client"] = "accept" => proxies["server"] \in {"accept", "dead"}

(* What is under way, from the client to the daemon and back. *)
ProxyHolds(a, b, c, d, e, f) ==
    /\ near.up = a /\ ws.up = b /\ far.up = c
    /\ far.down = d /\ ws.down = e /\ near.down = f

ProxyGoing ==
    \/ ProxyHolds(<<Sent>>, <<>>, <<>>, <<>>, <<>>, <<>>)
    \/ ProxyHolds(<<>>, <<Sent>>, <<>>, <<>>, <<>>, <<>>)
    \/ ProxyHolds(<<>>, <<>>, <<Sent>>, <<>>, <<>>, <<>>)

ProxyComing ==
    \E a \in Answers : IsAnswer(a) /\
        \/ ProxyHolds(<<>>, <<>>, <<>>, <<a>>, <<>>, <<>>)
        \/ ProxyHolds(<<>>, <<>>, <<>>, <<>>, <<a>>, <<>>)
        \/ ProxyHolds(<<>>, <<>>, <<>>, <<>>, <<>>, <<a>>)

ProxyNothing == ProxyHolds(<<>>, <<>>, <<>>, <<>>, <<>>, <<>>)

ProxyPlace ==
    \/ Sent = Got /\ Sent = Seen /\ ProxyNothing
    \/ Asked /\ (ProxyGoing \/ ProxyNothing)
    \/ Answered /\ (ProxyComing \/ ProxyNothing)

(* As long as no process ends, sockets are closed from the daemon's end to *)
(* the client's, each when it is empty; so a commit is on its way, and a    *)
(* client fails only after the daemon is out of its reach.                  *)
NoProxyEnds == ~sdk /\ acceptFaults = AcceptFaults

ProxiesLive ==
    /\ proxies["client"] # "dead" /\ proxies["server"] # "dead"
    /\ proxies["client"] \in {"answered", "pair"} => proxies["server"] \in {"connect", "pair"}

ProxyDrains ==
    ClientRuns =>
        /\ near.downFin => proxies["client"] = "pair" /\ DownEnds(ws)
        /\ proxies["server"] = "connect" => ~ws.downFin
        /\ proxies["server"] = "pair" /\ ws.downFin => DownEnds(far)
        /\ far.downFin => far.up = <<>>
        /\ daemon.committed => ProxyComing

ProxyFailure ==
    client.result = "failed" =>
        /\ ~daemon.committed
        /\ Sent = Got \/ (far.downFin /\ far.up = <<>> /\ proxies["server"] = "pair")

ProxyCalm == NoProxyEnds => ProxiesLive /\ ProxyDrains /\ ProxyFailure

ProxyInv == ProxyTypes /\ EndsAgree /\ ProxyOpening /\ ProxyPlace /\ ProxyCalm

-----------------------------------------------------------------------------
(* The bridge. *)
ThreadTypes == [pc : {"look", "send", "recv", "replied", "error"}, frame : FrameNumbers,
                answer : Answers \cup {0}]

RunpodTypes ==
    /\ EndTypes /\ tunnel = "runpod"
    /\ once \in BOOLEAN /\ leaked \in BOOLEAN
    /\ bridge \in [pc : {"open", "read", "post", "wait", "close", "closed", "raised"},
                   frame : FrameNumbers \cup {0}]
    /\ session \in {"none", "open", "closed"}
    /\ threads \in Seq(ThreadTypes)
    /\ httpFaults \in 0 .. HttpFaults

Ending == bridge.pc \in {"close", "closed"}
Carrying == bridge.pc \in {"post", "wait"}
Top == threads[Len(threads)]

(* One exchange at a time. *)
OneExchange ==
    /\ \A i \in 1 .. Len(threads) - 1 : threads[i].pc = "replied"
    /\ bridge.pc = "wait" => threads # <<>>
    /\ threads # <<>> /\ Top.pc # "replied" => bridge.pc = "wait" \/ Ending

RunpodHolds(a, b, c, d) ==
    near.up = a /\ far.up = b /\ far.down = c /\ near.down = d

TopIs(pcs) == threads # <<>> /\ Top.pc \in pcs

Settled == threads = <<>> \/ Top.pc \in {"replied", "error"}

RunpodGoing ==
    \/ RunpodHolds(<<Sent>>, <<>>, <<>>, <<>>) /\ ~Carrying /\ Settled
    \/ RunpodHolds(<<>>, <<>>, <<>>, <<>>) /\ bridge.pc = "post" /\ bridge.frame = Sent /\ Settled
    \/ RunpodHolds(<<>>, <<>>, <<>>, <<>>) /\ TopIs({"look", "send"}) /\ Top.frame = Sent
    \/ RunpodHolds(<<>>, <<Sent>>, <<>>, <<>>) /\ TopIs({"recv", "error"})

AtFar(a) == RunpodHolds(<<>>, <<>>, <<a>>, <<>>) /\ TopIs({"recv", "error"})
AtTop(a) == RunpodHolds(<<>>, <<>>, <<>>, <<>>) /\ TopIs({"replied"}) /\ Top.answer = a /\ bridge.pc = "wait"
AtNear(a) == RunpodHolds(<<>>, <<>>, <<>>, <<a>>) /\ Settled /\ ~Carrying

RunpodComing == \E a \in Answers : IsAnswer(a) /\ (AtFar(a) \/ AtTop(a) \/ AtNear(a))

RunpodNothing ==
    /\ RunpodHolds(<<>>, <<>>, <<>>, <<>>)
    /\ bridge.pc # "post" /\ (bridge.pc = "wait" => TopIs({"recv", "error"}))
    /\ ~TopIs({"look", "send"})

RunpodPlace ==
    \/ Sent = Got /\ Sent = Seen /\ RunpodNothing /\ Settled /\ ~Carrying
    \/ Asked /\ (RunpodGoing \/ RunpodNothing)
    \/ Answered /\ (RunpodComing \/ RunpodNothing)

(* As long as no request is lost or late, the same holds of the bridge: it *)
(* gives up only after the daemon has closed the connection.               *)
NoHttpFault == ~sdk /\ httpFaults = HttpFaults

RunpodDrains ==
    ClientRuns =>
        /\ bridge.pc # "raised"
        /\ bridge.pc \in {"read", "post", "wait"} => session = "open"
        /\ near.downFin => bridge.pc = "closed"
        /\ Ending \/ TopIs({"error"}) => far.downFin /\ ~daemon.committed
        /\ far.downFin => far.up = <<>>
        /\ daemon.committed => RunpodComing

RunpodFailure ==
    client.result = "failed" =>
        /\ ~daemon.committed
        /\ Sent = Got \/ (far.downFin /\ far.up = <<>> /\ bridge.pc # "open")

RunpodCalm == NoHttpFault => RunpodDrains /\ RunpodFailure

RunpodInv == RunpodTypes /\ EndsAgree /\ OneExchange /\ RunpodPlace /\ RunpodCalm

-----------------------------------------------------------------------------
(* Sockets. *)
\* A sequence of one: what is under way on a socket is never more.
LEMMA One ==
    ASSUME NEW S, NEW x \in S
    PROVE  /\ <<x>> \in Seq(S) /\ <<x>> # <<>> /\ Len(<<x>>) = 1
           /\ Head(<<x>>) = x /\ Tail(<<x>>) = <<>> /\ Append(<<>>, x) = <<x>>
  BY SMTT(30)

\* What closing, writing to and reading from a socket does to its parts.
LEMMA Fields ==
    ASSUME NEW s \in Sockets
    PROVE  /\ s.up \in Seq(FrameNumbers) /\ s.down \in Seq(Answers)
           /\ s.upFin \in BOOLEAN /\ s.downFin \in BOOLEAN
  BY DEF Sockets

\* A record with one of its fields replaced.
LEMMA SetField ==
    ASSUME NEW A, NEW B, NEW s \in [up : A, down : B, upFin : BOOLEAN, downFin : BOOLEAN],
           NEW x
    PROVE  LET u == [s EXCEPT !.up = x]
               d == [s EXCEPT !.down = x]
               f == [s EXCEPT !.upFin = TRUE, !.downFin = TRUE]
           IN
           /\ u.up = x /\ u.down = s.down /\ u.upFin = s.upFin /\ u.downFin = s.downFin
           /\ x \in A => u \in [up : A, down : B, upFin : BOOLEAN, downFin : BOOLEAN]
           /\ d.up = s.up /\ d.down = x /\ d.upFin = s.upFin /\ d.downFin = s.downFin
           /\ x \in B => d \in [up : A, down : B, upFin : BOOLEAN, downFin : BOOLEAN]
           /\ f.up = s.up /\ f.down = s.down /\ f.upFin = TRUE /\ f.downFin = TRUE
           /\ f \in [up : A, down : B, upFin : BOOLEAN, downFin : BOOLEAN]
  <1> DEFINE u == [s EXCEPT !.up = x]
             d == [s EXCEPT !.down = x]
             f == [s EXCEPT !.upFin = TRUE, !.downFin = TRUE]
  <1>1. u.up = x /\ u.down = s.down /\ u.upFin = s.upFin /\ u.downFin = s.downFin
    OBVIOUS
  <1>2. x \in A => u \in [up : A, down : B, upFin : BOOLEAN, downFin : BOOLEAN]
    OBVIOUS
  <1>3. d.up = s.up /\ d.down = x /\ d.upFin = s.upFin /\ d.downFin = s.downFin
    OBVIOUS
  <1>4. x \in B => d \in [up : A, down : B, upFin : BOOLEAN, downFin : BOOLEAN]
    OBVIOUS
  <1>5. f.up = s.up /\ f.down = s.down /\ f.upFin = TRUE /\ f.downFin = TRUE
    OBVIOUS
  <1>6. f \in [up : A, down : B, upFin : BOOLEAN, downFin : BOOLEAN]
    OBVIOUS
  <1> QED
    BY <1>1, <1>2, <1>3, <1>4, <1>5, <1>6

LEMMA ShutFields ==
    ASSUME NEW s \in Sockets
    PROVE  /\ Shut(s) \in Sockets
           /\ Shut(s).up = s.up /\ Shut(s).down = s.down
           /\ Shut(s).upFin = TRUE /\ Shut(s).downFin = TRUE
  BY SetField, ZenonT(60) DEF Shut, Sockets

LEMMA CloseFields ==
    ASSUME NEW s \in Sockets
    PROVE  /\ Close(s) \in Sockets
           /\ Close(s).up = <<>> /\ Close(s).down = s.down
           /\ Close(s).upFin = TRUE /\ Close(s).downFin = TRUE
  <1> DEFINE t == [s EXCEPT !.up = <<>>]
  <1>0. <<>> \in Seq(FrameNumbers)
    BY SMTT(30)
  <1>1. t \in Sockets /\ t.up = <<>> /\ t.down = s.down
    BY <1>0, SetField, ZenonT(60) DEF Sockets
  <1>2. Close(s) = Shut(t)
    BY SMTT(30) DEF Close, Shut, Sockets
  <1> HIDE DEF t
  <1> QED
    BY <1>1, <1>2, ShutFields

LEMMA TakeUpFields ==
    ASSUME NEW s \in Sockets, s.up # <<>>, NEW t, t = [s EXCEPT !.up = Tail(@)]
    PROVE  /\ t \in Sockets
           /\ t.up = Tail(s.up) /\ t.down = s.down
           /\ t.upFin = s.upFin /\ t.downFin = s.downFin
           /\ Head(s.up) \in FrameNumbers
  <1>1. Head(s.up) \in FrameNumbers /\ Tail(s.up) \in Seq(FrameNumbers)
    BY Fields, SMTT(30)
  <1> QED
    BY <1>1, SetField, ZenonT(60) DEF Sockets

LEMMA TakeDownFields ==
    ASSUME NEW s \in Sockets, s.down # <<>>, NEW t, t = [s EXCEPT !.down = Tail(@)]
    PROVE  /\ t \in Sockets
           /\ t.up = s.up /\ t.down = Tail(s.down)
           /\ t.upFin = s.upFin /\ t.downFin = s.downFin
           /\ Head(s.down) \in Answers
  <1>1. Head(s.down) \in Answers /\ Tail(s.down) \in Seq(Answers)
    BY Fields, SMTT(30)
  <1> QED
    BY <1>1, SetField, ZenonT(60) DEF Sockets

LEMMA SendUpFields ==
    ASSUME NEW s \in Sockets, NEW m \in FrameNumbers
    PROVE  /\ SendUp(s, m) \in Sockets
           /\ SendUp(s, m).down = s.down
           /\ SendUp(s, m).upFin = s.upFin /\ SendUp(s, m).downFin = s.downFin
           /\ s.upFin => SendUp(s, m).up = s.up
           /\ ~s.upFin => SendUp(s, m).up = Append(s.up, m)
  <1>1. Append(s.up, m) \in Seq(FrameNumbers)
    BY Fields, SMTT(30)
  <1>2. CASE s.upFin
    BY <1>2, ZenonT(60) DEF SendUp
  <1>3. CASE ~s.upFin
    <2> DEFINE t == [s EXCEPT !.up = Append(s.up, m)]
    <2>1. SendUp(s, m) = t
      BY <1>3, ZenonT(60) DEF SendUp
    <2>2. t.up = Append(s.up, m) /\ t.down = s.down /\ t.upFin = s.upFin /\ t.downFin = s.downFin
      BY SetField, ZenonT(60) DEF Sockets
    <2>3. t \in Sockets
      BY <1>1, SetField, ZenonT(60) DEF Sockets
    <2> HIDE DEF t
    <2> QED
      BY <1>3, <2>1, <2>2, <2>3, ZenonT(60)
  <1> QED
    BY <1>2, <1>3

LEMMA SendDownFields ==
    ASSUME NEW s \in Sockets, NEW m \in Answers
    PROVE  /\ SendDown(s, m) \in Sockets
           /\ SendDown(s, m).up = s.up
           /\ SendDown(s, m).upFin = s.upFin /\ SendDown(s, m).downFin = s.downFin
           /\ s.downFin => SendDown(s, m).down = s.down
           /\ ~s.downFin => SendDown(s, m).down = Append(s.down, m)
  <1>1. Append(s.down, m) \in Seq(Answers)
    BY Fields, SMTT(30)
  <1>2. CASE s.downFin
    BY <1>2, ZenonT(60) DEF SendDown
  <1>3. CASE ~s.downFin
    <2> DEFINE t == [s EXCEPT !.down = Append(s.down, m)]
    <2>1. SendDown(s, m) = t
      BY <1>3, ZenonT(60) DEF SendDown
    <2>2. t.down = Append(s.down, m) /\ t.up = s.up /\ t.upFin = s.upFin /\ t.downFin = s.downFin
      BY SetField, ZenonT(60) DEF Sockets
    <2>3. t \in Sockets
      BY <1>1, SetField, ZenonT(60) DEF Sockets
    <2> HIDE DEF t
    <2> QED
      BY <1>3, <2>1, <2>2, <2>3, ZenonT(60)
  <1> QED
    BY <1>2, <1>3

LEMMA ConnectedFields ==
    /\ Connected \in Sockets /\ Connected.up = <<>> /\ Connected.down = <<>>
    /\ Connected.upFin = FALSE /\ Connected.downFin = FALSE
  BY SMTT(30) DEF Connected, Sockets

LEMMA UnconnectedFields ==
    /\ Unconnected \in Sockets /\ Unconnected.up = <<>> /\ Unconnected.down = <<>>
    /\ Unconnected.upFin = TRUE /\ Unconnected.downFin = TRUE
  BY ConnectedFields, ShutFields DEF Unconnected

-----------------------------------------------------------------------------
(* The ends. *)
\* What a tunnel hands to the ends: at most the frame that was sent last, and
\* its answer.
EndsMeet ==
    /\ near.down # <<>> => Answered /\ \E a \in Answers : IsAnswer(a) /\ near.down = <<a>>
    /\ far.up # <<>> => Asked /\ far.up = <<Sent>>

LEMMA EndFields ==
    ASSUME EndTypes
    PROVE  /\ Sent \in Nat /\ Got \in Nat /\ Seen \in Nat /\ Last \in Nat /\ Sent <= Last
           /\ client.got \in Seq(Answers) /\ daemon.seen \in Seq(FrameNumbers)
           /\ daemon.committed \in BOOLEAN /\ near \in Sockets /\ far \in Sockets
           /\ sdk \in BOOLEAN
  <1>1. /\ client.sent \in 0 .. Last /\ client.got \in Seq(Answers)
        /\ daemon.seen \in Seq(FrameNumbers) /\ daemon.committed \in BOOLEAN
        /\ near \in Sockets /\ far \in Sockets /\ sdk \in BOOLEAN
    BY DEF EndTypes
  <1> QED
    BY <1>1, LastAssumption, SMTT(30) DEF Sent, Got, Seen

\* The client sends the next frame.
LEMMA ClientSends ==
    ASSUME EndTypes, EndsAgree, ClientSend
    PROVE  /\ EndTypes' /\ EndsAgree'
           /\ ClientRuns /\ Sent = Got /\ Sent' = Sent + 1 /\ Sent' \in FrameNumbers
           /\ Got' = Got /\ Seen' = Seen /\ daemon' = daemon /\ far' = far
           /\ client'.result = client.result /\ sdk' = sdk /\ tunnel' = tunnel
           /\ near'.down = near.down /\ near'.downFin = near.downFin
           /\ near'.up = near.up \/ near'.up = Append(near.up, Sent')
  <1>1. /\ ClientRuns /\ client.sent = Len(client.got)
        /\ client' = [client EXCEPT !.sent = @ + 1]
        /\ near' = SendUp(near, client.sent + 1)
        /\ UNCHANGED <<tunnel, sdk, daemon, far>>
    BY ZenonT(60) DEF ClientSend
  <1>2. /\ Sent \in Nat /\ Sent < Last /\ Last \in Nat /\ Sent = Got /\ Sent + 1 \in FrameNumbers
        /\ ~daemon.committed /\ near \in Sockets
    BY <1>1, EndFields, SMTT(30) DEF EndsAgree, Sent, Got, FrameNumbers
  <1>3. /\ client' \in [sent : 0 .. Last, got : Seq(Answers),
                        result : {"none", "failed", "success", "killed"}]
        /\ client'.sent = client.sent + 1 /\ client'.got = client.got
        /\ client'.result = client.result
    <2>1. client.sent + 1 \in 0 .. Last
      BY <1>2, SMTT(30) DEF Sent
    <2>2. client \in [sent : 0 .. Last, got : Seq(Answers),
                      result : {"none", "failed", "success", "killed"}]
      BY DEF EndTypes
    <2> QED
      BY <1>1, <2>1, <2>2, ZenonT(60)
  <1>4. /\ near' \in Sockets /\ near'.upFin = near.upFin /\ near'.downFin = near.downFin
        /\ near'.down = near.down
        /\ near'.up = near.up \/ near'.up = Append(near.up, client.sent + 1)
    BY <1>1, <1>2, SendUpFields, Fields DEF Sent
  <1>5. EndTypes'
    BY <1>1, <1>3, <1>4 DEF EndTypes
  <1>6. /\ Sent' = Sent + 1 /\ Sent' \in FrameNumbers /\ Got' = Got /\ Seen' = Seen
    BY <1>1, <1>2, <1>3 DEF Sent, Got, Seen
  <1>7. EndsAgree'
    <2>1. AnswersMatch'
      BY <1>3 DEF EndsAgree, AnswersMatch
    <2>2. \A i \in 1 .. Seen' : daemon'.seen[i] = i
      BY <1>1, <1>6 DEF EndsAgree
    <2>3. Sent' # Got'
      BY <1>2, <1>6, SMTT(30)
    <2> QED
      BY <1>1, <1>2, <1>3, <2>1, <2>2, <2>3 DEF EndsAgree, ClientRuns
  <1> QED
    BY <1>1, <1>2, <1>3, <1>4, <1>5, <1>6 , <1>7 DEF Sent

\* The client reads the answer to the frame it sent last.
LEMMA ClientReceives ==
    ASSUME EndTypes, EndsAgree, EndsMeet, ClientReceive
    PROVE  /\ EndTypes' /\ EndsAgree'
           /\ ClientRuns /\ Answered /\ near.down # <<>>
           /\ Sent' = Sent /\ Got' = Sent /\ Seen' = Seen /\ daemon' = daemon /\ far' = far
           /\ client'.result \in {"none", "failed", "success"}
           /\ client'.result = "failed" => ~daemon.committed
           /\ client'.result = "none" => near'.downFin = near.downFin
           /\ sdk' = sdk /\ tunnel' = tunnel
           /\ near'.up = near.up /\ near'.down = <<>>
  <1>1. PICK a \in Answers : IsAnswer(a) /\ near.down = <<a>>
    BY DEF EndsMeet, ClientReceive
  <1>2. Answered /\ near.down # <<>> /\ Head(near.down) = a /\ Tail(near.down) = <<>>
    BY <1>1, One DEF EndsMeet, ClientReceive
  <1> DEFINE r == ResultAfter(a)
             read == [near EXCEPT !.down = Tail(@)]
  <1>3. /\ ClientRuns
        /\ client' = [client EXCEPT !.got = Append(@, a), !.result = r]
        /\ near' = IF r = "none" THEN read ELSE Shut(read)
        /\ UNCHANGED <<tunnel, sdk, daemon, far>>
    BY <1>2 DEF ClientReceive
  <1>4. /\ Sent \in Nat /\ Got \in Nat /\ Seen \in Nat /\ Last \in Nat /\ near \in Sockets
        /\ client.got \in Seq(Answers) /\ Sent = Got + 1 /\ Sent = Seen /\ a.to = Sent
        /\ Sent <= Last /\ daemon.committed \in BOOLEAN
    BY <1>1, <1>2, EndFields DEF Answered, IsAnswer
  <1>5. /\ read \in Sockets /\ read.up = near.up /\ read.down = <<>>
        /\ read.upFin = near.upFin /\ read.downFin = near.downFin
    BY <1>2, <1>4, TakeDownFields
  <1>6. /\ r \in {"none", "failed", "success"}
        /\ r = "success" => Sent = Last /\ a.ok
        /\ r = "failed" => ~a.ok
        /\ r = "none" => Sent # Last
    BY <1>4, SMTT(30), LastAssumption DEF ResultAfter, Chunks
  <1>7. a.ok \in BOOLEAN
    BY DEF Answers
  <1>8. /\ r = "success" => daemon.committed
        /\ r = "failed" => ~daemon.committed
    BY <1>1, <1>4, <1>6, <1>7 DEF IsAnswer, EndsAgree
  <1> HIDE DEF r, read
  <1>9. /\ client' \in [sent : 0 .. Last, got : Seq(Answers),
                        result : {"none", "failed", "success", "killed"}]
        /\ client'.sent = client.sent /\ client'.got = Append(client.got, a)
        /\ client'.result = r
    <2>1. Append(client.got, a) \in Seq(Answers) /\ r \in {"none", "failed", "success", "killed"}
      BY <1>4, <1>6
    <2>2. client \in [sent : 0 .. Last, got : Seq(Answers),
                      result : {"none", "failed", "success", "killed"}]
      BY DEF EndTypes
    <2> QED
      BY <1>3, <2>1, <2>2, ZenonT(60)
  <1>10. /\ near' \in Sockets /\ near'.up = near.up /\ near'.down = <<>>
         /\ near'.upFin = near'.downFin
         /\ r = "none" => near'.downFin = near.downFin
    BY <1>3, <1>5, ShutFields, ZenonT(60) DEF EndTypes
  <1>11. EndTypes'
    BY <1>3, <1>9, <1>10 DEF EndTypes
  <1>12. /\ Len(client'.got) = Len(client.got) + 1
         /\ client'.got[Len(client.got) + 1] = a
         /\ \A i \in 1 .. Len(client.got) : client'.got[i] = client.got[i]
    BY <1>4, <1>9, SMTT(30)
  <1>13. Sent' = Sent /\ Got' = Sent /\ Seen' = Seen
    BY <1>3, <1>4, <1>9, <1>12 DEF Sent, Got, Seen
  <1>14. EndsAgree'
    <2>1. AnswersMatch'
      <3> SUFFICES ASSUME NEW i \in 1 .. Len(client'.got) PROVE client'.got[i].to = i
        BY DEF AnswersMatch
      <3>1. CASE i = Len(client.got) + 1
        BY <1>4, <1>12, <3>1 DEF Got
      <3>2. CASE i # Len(client.got) + 1
        <4>1. i \in 1 .. Len(client.got)
          BY <1>4, <1>12, <3>2, SMTT(30) DEF Got
        <4> QED
          BY <1>12, <4>1 DEF EndsAgree, AnswersMatch
      <3> QED
        BY <3>1, <3>2
    <2>2. \A i \in 1 .. Seen' : daemon'.seen[i] = i
      BY <1>3, <1>13 DEF EndsAgree
    <2>3. r = "none" => Sent < Last
      BY <1>4, <1>6, SMTT(30)
    <2>4. daemon.committed => Sent = Last /\ Seen = Last
      BY DEF EndsAgree
    <2> QED
      BY <1>3, <1>8, <1>9, <1>13, <2>1, <2>2, <2>3, <2>4 DEF EndsAgree, ClientRuns
  <1> QED
    BY <1>2, <1>3, <1>6, <1>8, <1>9, <1>10, <1>11, <1>13, <1>14

\* The client ends before its migration does: it sees the end of its
\* connection, reads too little, or is killed.
ClientStop == ClientEOF \/ ClientShortRead \/ ClientKilled

LEMMA ClientStops ==
    ASSUME EndTypes, EndsAgree, ClientStop
    PROVE  /\ EndTypes' /\ EndsAgree'
           /\ ClientRuns /\ Sent' = Sent /\ Got' = Got /\ Seen' = Seen
           /\ daemon' = daemon /\ far' = far
           /\ client'.result \in {"failed", "killed"}
           /\ client'.result = "failed" => sdk \/ (Sent # Got /\ DownEnds(near))
           /\ sdk' = sdk /\ tunnel' = tunnel
           /\ near'.up = near.up /\ near'.down = near.down
  <1>1. /\ ClientRuns
        /\ \E r \in {"failed", "killed"} :
              /\ client' = [client EXCEPT !.result = r]
              /\ r = "failed" => sdk \/ (client.sent > Len(client.got) /\ DownEnds(near))
        /\ near' = Shut(near)
        /\ UNCHANGED <<tunnel, sdk, daemon, far>>
    <2>1. CASE ClientEOF
      BY <2>1, ZenonT(60) DEF ClientEOF, ClientFails
    <2>2. CASE ClientShortRead
      BY <2>2, ZenonT(60) DEF ClientShortRead, ClientFails
    <2>3. CASE ClientKilled
      BY <2>3, ZenonT(60) DEF ClientKilled
    <2> QED
      BY <2>1, <2>2, <2>3 DEF ClientStop
  <1>2. PICK r \in {"failed", "killed"} :
              /\ client' = [client EXCEPT !.result = r]
              /\ r = "failed" => sdk \/ (client.sent > Len(client.got) /\ DownEnds(near))
    BY <1>1
  <1>3. /\ client' \in [sent : 0 .. Last, got : Seq(Answers),
                        result : {"none", "failed", "success", "killed"}]
        /\ client'.sent = client.sent /\ client'.got = client.got /\ client'.result = r
    BY <1>2, SMTT(30) DEF EndTypes
  <1>4. /\ near' \in Sockets /\ near'.up = near.up /\ near'.down = near.down
        /\ near'.upFin = TRUE /\ near'.downFin = TRUE
    BY <1>1, ShutFields, EndFields
  <1>5. EndTypes'
    BY <1>1, <1>3, <1>4 DEF EndTypes
  <1>6. Sent' = Sent /\ Got' = Got /\ Seen' = Seen
    BY <1>1, <1>3 DEF Sent, Got, Seen
  <1>7. AnswersMatch'
    BY <1>3 DEF EndsAgree, AnswersMatch
  <1>8. EndsAgree'
    BY <1>1, <1>2, <1>3, <1>6, <1>7 DEF EndsAgree, ClientRuns
  <1>9. r = "failed" => sdk \/ (Sent # Got /\ DownEnds(near))
    BY <1>2, EndFields, SMTT(30) DEF Sent, Got
  <1> QED
    BY <1>1, <1>3, <1>4, <1>5, <1>6, <1>8, <1>9

\* The daemon answers the frame that was sent last.
LEMMA DaemonSteps ==
    ASSUME EndTypes, EndsAgree, EndsMeet, DaemonStep
    PROVE  /\ EndTypes' /\ EndsAgree'
           /\ Asked /\ far.up = <<Sent>> /\ ~daemon.committed
           /\ Sent' = Sent /\ Got' = Got /\ Seen' = Sent /\ client' = client /\ near' = near
           /\ sdk' = sdk /\ tunnel' = tunnel
           /\ far'.up = <<>>
           /\ far.downFin => far'.downFin /\ far'.down = far.down
           /\ ~far.downFin => \E a \in Answers : IsAnswer(a)' /\ far'.down = Append(far.down, a)
  <1>1. /\ far.up # <<>>
        /\ \/ DaemonAnswers(TRUE, Head(far.up) = Last)
           \/ Head(far.up) \notin Chunks /\ DaemonAnswers(FALSE, FALSE)
        /\ UNCHANGED <<tunnel, sdk, client, near>>
    BY ZenonT(60) DEF DaemonStep
  <1>2. Asked /\ far.up = <<Sent>>
    BY <1>1 DEF EndsMeet
  <1>3. /\ Sent \in Nat /\ Got \in Nat /\ Seen \in Nat /\ Last \in Nat /\ far \in Sockets
        /\ daemon.seen \in Seq(FrameNumbers) /\ daemon.committed \in BOOLEAN
        /\ Sent = Got + 1 /\ Sent = Seen + 1 /\ Sent <= Last /\ far.upFin = far.downFin
    BY <1>2, EndFields DEF Asked, EndTypes
  <1>4. Sent \in FrameNumbers /\ Seen # Last
    BY <1>3, SMTT(30) DEF FrameNumbers
  <1>5. ~daemon.committed
    BY <1>4 DEF EndsAgree
  <1>6. Head(far.up) = Sent /\ Tail(far.up) = <<>>
    BY <1>2, <1>4, One
  <1>7. PICK ok \in BOOLEAN, commits \in BOOLEAN :
           /\ DaemonAnswers(ok, commits)
           /\ commits => Sent = Last
           /\ Sent = Last => ok = commits
    <2>1. CASE DaemonAnswers(TRUE, Head(far.up) = Last)
      BY <2>1, <1>6
    <2>2. CASE Head(far.up) \notin Chunks /\ DaemonAnswers(FALSE, FALSE)
      BY <2>2
    <2> QED
      BY <1>1, <2>1, <2>2
  <1>8. PICK a \in Answers : a = [to |-> Sent, ok |-> ok] /\ a.to = Sent /\ a.ok = ok
    <2>1. [to |-> Sent, ok |-> ok] \in Answers
      BY <1>4, ZenonT(60) DEF Answers
    <2>2. [to |-> Sent, ok |-> ok].to = Sent /\ [to |-> Sent, ok |-> ok].ok = ok
      OBVIOUS
    <2> QED
      BY <2>1, <2>2, ZenonT(60)
  <1> DEFINE read == [far EXCEPT !.up = Tail(@)]
             answered == SendDown(read, a)
  <1>9. /\ daemon' = [daemon EXCEPT !.seen = Append(@, Sent), !.committed = @ \/ commits]
        /\ far' = IF ok /\ ~commits THEN answered ELSE Close(answered)
    BY <1>6, <1>7, <1>8 DEF DaemonAnswers
  <1>10. /\ read \in Sockets /\ read.up = <<>> /\ read.down = far.down
         /\ read.upFin = far.upFin /\ read.downFin = far.downFin
    BY <1>1, <1>3, <1>6, TakeUpFields
  <1> HIDE DEF read
  <1>11. /\ answered \in Sockets /\ answered.up = <<>>
         /\ far.downFin => answered.down = far.down
         /\ ~far.downFin => answered.down = Append(far.down, a)
         /\ answered.upFin = far.upFin /\ answered.downFin = far.downFin
    BY <1>1, <1>8, <1>10, SendDownFields
  <1> HIDE DEF answered
  <1>12. /\ far' \in Sockets /\ far'.up = <<>> /\ far'.down = answered.down
         /\ far'.upFin = far'.downFin /\ (far.downFin => far'.downFin)
    BY <1>3, <1>9, <1>11, CloseFields, ZenonT(60)
  <1>13. /\ daemon' \in [seen : Seq(FrameNumbers), committed : BOOLEAN]
         /\ daemon'.seen = Append(daemon.seen, Sent)
         /\ daemon'.committed = (daemon.committed \/ commits)
    <2>1. Append(daemon.seen, Sent) \in Seq(FrameNumbers)
      BY <1>3, <1>4, SMTT(30)
    <2>2. (daemon.committed \/ commits) \in BOOLEAN
      OBVIOUS
    <2> QED
      BY <1>9, <2>1, <2>2 DEF EndTypes
  <1>14. EndTypes'
    BY <1>1, <1>12, <1>13 DEF EndTypes
  <1>15. /\ Len(daemon'.seen) = Len(daemon.seen) + 1
         /\ daemon'.seen[Len(daemon.seen) + 1] = Sent
         /\ \A i \in 1 .. Len(daemon.seen) : daemon'.seen[i] = daemon.seen[i]
    BY <1>3, <1>13, SMTT(30)
  <1>16. Sent' = Sent /\ Got' = Got /\ Seen' = Sent
    BY <1>1, <1>3, <1>15 DEF Sent, Got, Seen
  <1>17. daemon'.committed = commits
    BY <1>5, <1>13
  <1>18. IsAnswer(a)'
    BY <1>7, <1>8, <1>16, <1>17 DEF IsAnswer
  <1>19. EndsAgree'
    <2>1. AnswersMatch'
      BY <1>1 DEF EndsAgree, AnswersMatch
    <2>2. \A i \in 1 .. Seen' : daemon'.seen[i] = i
      <3> SUFFICES ASSUME NEW i \in 1 .. Len(daemon.seen) + 1 PROVE daemon'.seen[i] = i
        BY <1>15 DEF Seen
      <3>1. CASE i = Len(daemon.seen) + 1
        BY <3>1, <1>3, <1>15 DEF Seen
      <3>2. CASE i # Len(daemon.seen) + 1
        <4>1. i \in 1 .. Len(daemon.seen)
          BY <3>2, <1>3, SMTT(30) DEF Seen
        <4> QED
          BY <4>1, <1>15 DEF EndsAgree, Seen
      <3> QED
        BY <3>1, <3>2
    <2>3. Sent # Got
      BY <1>3, SMTT(30)
    <2>4. client.result # "success"
      BY <1>5 DEF EndsAgree
    <2> QED
      BY <1>1, <1>7, <1>16, <1>17, <2>1, <2>2, <2>3, <2>4 DEF EndsAgree, ClientRuns
  <1> QED
    BY <1>1, <1>2, <1>5, <1>8, <1>11, <1>12, <1>14, <1>16, <1>18, <1>19

\* The daemon closes its connection.
LEMMA DaemonCloses ==
    ASSUME EndTypes, EndsAgree, DaemonHangsUp \/ DaemonKilled
    PROVE  /\ EndTypes' /\ EndsAgree'
           /\ UNCHANGED <<tunnel, sdk, client, daemon, near>>
           /\ far'.up = <<>> /\ far'.down = far.down /\ far'.downFin = TRUE
  <1>1. far' = Close(far) /\ UNCHANGED <<tunnel, sdk, client, daemon, near>>
    BY ZenonT(60) DEF DaemonHangsUp, DaemonKilled
  <1>2. /\ far' \in Sockets /\ far'.up = <<>> /\ far'.down = far.down
        /\ far'.upFin = TRUE /\ far'.downFin = TRUE
    BY <1>1, CloseFields, EndFields
  <1> QED
    BY <1>1, <1>2 DEF EndTypes, EndsAgree, AnswersMatch, Seen, Sent, Got, ClientRuns

\* What a tunnel does between the ends leaves their agreement as it is.
LEMMA EndsUnchanged ==
    ASSUME EndsAgree, UNCHANGED <<client, daemon>>
    PROVE  /\ EndsAgree' /\ Sent' = Sent /\ Got' = Got /\ Seen' = Seen
           /\ Asked' = Asked /\ Answered' = Answered /\ ClientRuns' = ClientRuns
           /\ \A a \in Answers : IsAnswer(a)' = IsAnswer(a)
  BY DEF EndsAgree, AnswersMatch, Sent, Got, Seen, ClientRuns, Asked, Answered, IsAnswer

-----------------------------------------------------------------------------
(* The proxies. *)
LEMMA ProxyStarts == ProxyInit => ProxyInv
  <1> SUFFICES ASSUME ProxyInit PROVE ProxyInv
    OBVIOUS
  <1>1. /\ tunnel = "wss" /\ sdk \in BOOLEAN
        /\ client = [sent |-> 0, got |-> <<>>, result |-> "none"]
        /\ daemon = [seen |-> <<>>, committed |-> FALSE]
        /\ near = Connected /\ far = Unconnected /\ ws = Unconnected
        /\ pipe = [p \in Pipes |-> FALSE]
        /\ proxies = [s \in Sides |-> "accept"]
        /\ acceptFaults = AcceptFaults
    BY ZenonT(60) DEF ProxyInit, EndsInit
  <1>2. /\ client.sent = 0 /\ client.got = <<>> /\ client.result = "none"
        /\ daemon.seen = <<>> /\ daemon.committed = FALSE
        /\ client \in [sent : 0 .. Last, got : Seq(Answers),
                       result : {"none", "failed", "success", "killed"}]
        /\ daemon \in [seen : Seq(FrameNumbers), committed : BOOLEAN]
    BY <1>1, LastAssumption, SMTT(30)
  <1>3. EndTypes
    BY <1>1, <1>2, ConnectedFields, UnconnectedFields DEF EndTypes
  <1>4. /\ pipe \in [Pipes -> BOOLEAN] /\ \A p \in Pipes : ~pipe[p]
        /\ proxies \in [Sides -> ProxyStates]
        /\ proxies["client"] = "accept" /\ proxies["server"] = "accept"
    BY <1>1, SMTT(30) DEF Pipes, Sides, ProxyStates
  <1>5. acceptFaults \in 0 .. AcceptFaults
    BY <1>1, AcceptAssumption, SMTT(30)
  <1>6. ProxyTypes
    BY <1>1, <1>3, <1>4, <1>5, UnconnectedFields DEF ProxyTypes, Pipes
  <1>7. Sent = 0 /\ Got = 0 /\ Seen = 0 /\ 0 < Last
    BY <1>2, LastAssumption, SMTT(30) DEF Sent, Got, Seen
  <1>8. EndsAgree
    <2>1. AnswersMatch
      BY <1>2, SMTT(30) DEF AnswersMatch
    <2>2. \A i \in 1 .. Seen : daemon.seen[i] = i
      BY <1>7, SMTT(30)
    <2> QED
      BY <1>2, <1>7, <2>1, <2>2 DEF EndsAgree
  <1>9. ProxyNothing
    BY <1>1, ConnectedFields, UnconnectedFields DEF ProxyNothing, ProxyHolds
  <1>10. ProxyOpening /\ ProxyPlace
    BY <1>1, <1>4, <1>7, <1>9, UnconnectedFields DEF ProxyOpening, ProxyPlace
  <1>11. ProxiesLive /\ ProxyDrains /\ ProxyFailure
    BY <1>1, <1>2, <1>4, ConnectedFields, UnconnectedFields
    DEF ProxiesLive, ProxyDrains, ProxyFailure
  <1> QED
    BY <1>6, <1>8, <1>10, <1>11 DEF ProxyInv, ProxyCalm

\* The frame or the answer under way is at one place.
LEMMA ProxyCases ==
    ASSUME ProxyTypes, ProxyPlace
    PROVE  /\ near.up # <<>> => Asked /\ ProxyHolds(<<Sent>>, <<>>, <<>>, <<>>, <<>>, <<>>)
           /\ ws.up # <<>> => Asked /\ ProxyHolds(<<>>, <<Sent>>, <<>>, <<>>, <<>>, <<>>)
           /\ far.up # <<>> => Asked /\ ProxyHolds(<<>>, <<>>, <<Sent>>, <<>>, <<>>, <<>>)
           /\ far.down # <<>> => Answered /\ \E a \in Answers : IsAnswer(a)
                 /\ ProxyHolds(<<>>, <<>>, <<>>, <<a>>, <<>>, <<>>)
           /\ ws.down # <<>> => Answered /\ \E a \in Answers : IsAnswer(a)
                 /\ ProxyHolds(<<>>, <<>>, <<>>, <<>>, <<a>>, <<>>)
           /\ near.down # <<>> => Answered /\ \E a \in Answers : IsAnswer(a)
                 /\ ProxyHolds(<<>>, <<>>, <<>>, <<>>, <<>>, <<a>>)
           /\ Sent = Got => Sent = Seen /\ ProxyNothing
  <1>1. Asked => Sent # Got
    BY EndFields, SMTT(30) DEF ProxyTypes, Asked
  <1>2. Answered => Sent # Got
    BY EndFields, SMTT(30) DEF ProxyTypes, Answered
  <1>3. CASE Sent = Got /\ Sent = Seen /\ ProxyNothing
    BY <1>3 DEF ProxyNothing, ProxyHolds
  <1>4. CASE Asked /\ (ProxyGoing \/ ProxyNothing)
    BY <1>1, <1>4 DEF ProxyGoing, ProxyNothing, ProxyHolds
  <1>5. CASE Answered /\ ProxyNothing
    BY <1>2, <1>5 DEF ProxyNothing, ProxyHolds
  <1>6. CASE Answered /\ ProxyComing
    <2>1. PICK a \in Answers : IsAnswer(a) /\
              \/ ProxyHolds(<<>>, <<>>, <<>>, <<a>>, <<>>, <<>>)
              \/ ProxyHolds(<<>>, <<>>, <<>>, <<>>, <<a>>, <<>>)
              \/ ProxyHolds(<<>>, <<>>, <<>>, <<>>, <<>>, <<a>>)
      BY <1>6 DEF ProxyComing
    <2> QED
      BY <1>2, <1>6, <2>1 DEF ProxyHolds
  <1> QED
    BY <1>3, <1>4, <1>5, <1>6 DEF ProxyPlace

LEMMA ProxyMeets ==
    ASSUME ProxyTypes, ProxyPlace
    PROVE  EndsMeet
  BY ProxyCases DEF EndsMeet, ProxyHolds

\* The ends move; the proxies do not.
LEMMA ProxyClientSends ==
    ASSUME ProxyInv, ClientSend, UNCHANGED proxyVars
    PROVE  ProxyInv'
  <1>1. /\ EndTypes /\ EndsAgree /\ ProxyTypes /\ ProxyPlace /\ ProxyOpening /\ ProxyCalm
    BY DEF ProxyInv, ProxyTypes
  <1>2. /\ EndTypes' /\ EndsAgree'
        /\ ClientRuns /\ Sent = Got /\ Sent' = Sent + 1 /\ Sent' \in FrameNumbers
        /\ Got' = Got /\ Seen' = Seen /\ daemon' = daemon /\ far' = far
        /\ client'.result = client.result /\ sdk' = sdk /\ tunnel' = tunnel
        /\ near'.down = near.down /\ near'.downFin = near.downFin
        /\ near'.up = near.up \/ near'.up = Append(near.up, Sent')
    BY <1>1, ClientSends
  <1>3. ws' = ws /\ pipe' = pipe /\ proxies' = proxies /\ acceptFaults' = acceptFaults
    BY DEF proxyVars
  <1>4. Sent = Seen /\ ProxyNothing
    BY <1>1, <1>2, ProxyCases
  <1>5. near'.up = <<>> \/ near'.up = <<Sent'>>
    BY <1>2, <1>4, One DEF ProxyNothing, ProxyHolds
  <1>6. ProxyTypes' /\ ProxyOpening'
    BY <1>1, <1>2, <1>3 DEF ProxyTypes, ProxyOpening
  <1>7. Asked'
    BY <1>2, <1>4 DEF Asked
  <1>8. (ProxyGoing \/ ProxyNothing)'
    BY <1>2, <1>3, <1>4, <1>5 DEF ProxyGoing, ProxyNothing, ProxyHolds
  <1>9. ~daemon.committed
    BY <1>1, <1>2, EndFields, SMTT(30) DEF EndsAgree
  <1>10. ProxyCalm'
    BY <1>1, <1>2, <1>3, <1>9 DEF ProxyCalm, NoProxyEnds, ProxiesLive, ProxyDrains, ProxyFailure,
       ClientRuns, DownEnds
  <1> QED
    BY <1>2, <1>6, <1>7, <1>8, <1>10 DEF ProxyInv, ProxyPlace

LEMMA ProxyClientReceives ==
    ASSUME ProxyInv, ClientReceive, UNCHANGED proxyVars
    PROVE  ProxyInv'
  <1>1. /\ EndTypes /\ EndsAgree /\ ProxyTypes /\ ProxyPlace /\ ProxyOpening /\ ProxyCalm
    BY DEF ProxyInv, ProxyTypes
  <1>2. /\ EndTypes' /\ EndsAgree'
        /\ ClientRuns /\ Answered /\ near.down # <<>>
        /\ Sent' = Sent /\ Got' = Sent /\ Seen' = Seen /\ daemon' = daemon /\ far' = far
        /\ client'.result \in {"none", "failed", "success"}
        /\ client'.result = "failed" => ~daemon.committed
        /\ client'.result = "none" => near'.downFin = near.downFin
        /\ sdk' = sdk /\ tunnel' = tunnel
        /\ near'.up = near.up /\ near'.down = <<>>
    BY <1>1, ClientReceives, ProxyMeets
  <1>3. ws' = ws /\ pipe' = pipe /\ proxies' = proxies /\ acceptFaults' = acceptFaults
    BY DEF proxyVars
  <1>4. ProxyTypes' /\ ProxyOpening'
    BY <1>1, <1>2, <1>3 DEF ProxyTypes, ProxyOpening
  <1>5. ProxyNothing'
    BY <1>1, <1>2, <1>3, ProxyCases DEF ProxyNothing, ProxyHolds
  <1>6. Sent' = Got' /\ Sent' = Seen'
    BY <1>2 DEF Answered
  <1>7. client'.result = "none" => ~daemon.committed
    BY <1>1, <1>2, <1>6, EndFields, SMTT(30) DEF EndsAgree, ClientRuns
  <1>8. ProxyCalm'
    BY <1>1, <1>2, <1>3, <1>6, <1>7 DEF ProxyCalm, NoProxyEnds, ProxiesLive, ProxyDrains,
       ProxyFailure, ClientRuns, DownEnds
  <1> QED
    BY <1>2, <1>4, <1>5, <1>6, <1>8 DEF ProxyInv, ProxyPlace

LEMMA ProxyClientStops ==
    ASSUME ProxyInv, ClientStop, UNCHANGED proxyVars
    PROVE  ProxyInv'
  <1>1. /\ EndTypes /\ EndsAgree /\ ProxyTypes /\ ProxyPlace /\ ProxyOpening /\ ProxyCalm
    BY DEF ProxyInv, ProxyTypes
  <1>2. /\ EndTypes' /\ EndsAgree'
        /\ ClientRuns /\ Sent' = Sent /\ Got' = Got /\ Seen' = Seen
        /\ daemon' = daemon /\ far' = far
        /\ client'.result \in {"failed", "killed"}
        /\ client'.result = "failed" => sdk \/ (Sent # Got /\ DownEnds(near))
        /\ sdk' = sdk /\ tunnel' = tunnel
        /\ near'.up = near.up /\ near'.down = near.down
    BY <1>1, ClientStops
  <1>3. ws' = ws /\ pipe' = pipe /\ proxies' = proxies /\ acceptFaults' = acceptFaults
    BY DEF proxyVars
  <1>4. ProxyTypes' /\ ProxyOpening'
    BY <1>1, <1>2, <1>3 DEF ProxyTypes, ProxyOpening
  <1>5. ProxyPlace'
    BY <1>1, <1>2, <1>3 DEF ProxyPlace, Asked, Answered, ProxyGoing, ProxyComing, ProxyNothing,
       ProxyHolds, IsAnswer
  <1>6. ASSUME NoProxyEnds, client'.result = "failed"
        PROVE  ~daemon.committed /\ far.downFin /\ far.up = <<>> /\ proxies["server"] = "pair"
    <2>1. DownEnds(near) /\ DownEnds(ws) /\ DownEnds(far) /\ proxies["server"] = "pair"
      BY <1>1, <1>2, <1>6 DEF NoProxyEnds, ProxyCalm, ProxiesLive, ProxyDrains, DownEnds
    <2>2. ~ProxyComing
      BY <2>1, One DEF ProxyComing, ProxyHolds, DownEnds
    <2> QED
      BY <1>1, <1>2, <1>6, <2>1, <2>2 DEF ProxyCalm, ProxyDrains, DownEnds
  <1>7. ProxyCalm'
    BY <1>1, <1>2, <1>3, <1>6 DEF ProxyCalm, NoProxyEnds, ProxiesLive, ProxyDrains,
       ProxyFailure, ClientRuns
  <1> QED
    BY <1>2, <1>4, <1>5, <1>7 DEF ProxyInv

LEMMA ProxyDaemonSteps ==
    ASSUME ProxyInv, DaemonStep, UNCHANGED proxyVars
    PROVE  ProxyInv'
  <1>1. /\ EndTypes /\ EndsAgree /\ ProxyTypes /\ ProxyPlace /\ ProxyOpening /\ ProxyCalm
    BY DEF ProxyInv, ProxyTypes
  <1>2. /\ EndTypes' /\ EndsAgree'
        /\ Asked /\ far.up = <<Sent>> /\ ~daemon.committed
        /\ Sent' = Sent /\ Got' = Got /\ Seen' = Sent /\ client' = client /\ near' = near
        /\ sdk' = sdk /\ tunnel' = tunnel
        /\ far'.up = <<>>
        /\ far.downFin => far'.downFin /\ far'.down = far.down
        /\ ~far.downFin => \E a \in Answers : IsAnswer(a)' /\ far'.down = Append(far.down, a)
    BY <1>1, DaemonSteps, ProxyMeets
  <1>3. ws' = ws /\ pipe' = pipe /\ proxies' = proxies /\ acceptFaults' = acceptFaults
    BY DEF proxyVars
  <1>4. ProxyHolds(<<>>, <<>>, <<Sent>>, <<>>, <<>>, <<>>)
    <2>1. far.up # <<>>
      BY <1>2, One
    <2> QED
      BY <1>1, <2>1, ProxyCases
  <1>5. far.up # <<>> /\ (~far.downFin => \E a \in Answers : IsAnswer(a)' /\ far'.down = <<a>>)
    BY <1>2, <1>4, One DEF ProxyHolds
  <1>6. IF far.downFin THEN ProxyNothing' ELSE ProxyComing'
    BY <1>2, <1>3, <1>4, <1>5 DEF ProxyComing, ProxyNothing, ProxyHolds
  <1>7. Answered'
    BY <1>2 DEF Answered, Asked
  <1>8. proxies["server"] \notin {"accept", "accepted", "connect"}
    BY <1>1, <1>2, One DEF ProxyOpening
  <1>9. ProxyTypes' /\ ProxyOpening'
    BY <1>1, <1>2, <1>3, <1>8 DEF ProxyTypes, ProxyOpening
  <1>10. Sent # Got
    BY <1>1, <1>2, EndFields, SMTT(30) DEF Asked
  <1>11. ProxyCalm'
    BY <1>1, <1>2, <1>3, <1>5, <1>6, <1>10 DEF ProxyCalm, NoProxyEnds, ProxiesLive, ProxyDrains,
       ProxyFailure, ClientRuns, DownEnds
  <1> QED
    BY <1>2, <1>6, <1>7, <1>9, <1>11 DEF ProxyInv, ProxyPlace

LEMMA ProxyDaemonCloses ==
    ASSUME ProxyInv, DaemonHangsUp \/ DaemonKilled, UNCHANGED proxyVars
    PROVE  ProxyInv'
  <1>1. /\ EndTypes /\ EndsAgree /\ ProxyTypes /\ ProxyPlace /\ ProxyOpening /\ ProxyCalm
    BY DEF ProxyInv, ProxyTypes
  <1>2. /\ EndTypes' /\ EndsAgree'
        /\ UNCHANGED <<tunnel, sdk, client, daemon, near>>
        /\ far'.up = <<>> /\ far'.down = far.down /\ far'.downFin = TRUE
    BY <1>1, DaemonCloses
  <1>3. ws' = ws /\ pipe' = pipe /\ proxies' = proxies /\ acceptFaults' = acceptFaults
    BY DEF proxyVars
  <1>4. /\ Sent' = Sent /\ Got' = Got /\ Seen' = Seen /\ Asked' = Asked /\ Answered' = Answered
        /\ ClientRuns' = ClientRuns /\ \A a \in Answers : IsAnswer(a)' = IsAnswer(a)
    BY <1>1, <1>2, EndsUnchanged
  <1>5. ProxyTypes' /\ ProxyOpening'
    BY <1>1, <1>2, <1>3 DEF ProxyTypes, ProxyOpening
  <1>6. /\ ProxyGoing => (ProxyGoing \/ ProxyNothing)'
        /\ ProxyNothing => ProxyNothing'
        /\ ProxyComing => ProxyComing'
    BY <1>2, <1>3, <1>4 DEF ProxyGoing, ProxyComing, ProxyNothing, ProxyHolds
  <1>7. ProxyPlace'
    BY <1>1, <1>4, <1>6 DEF ProxyPlace
  <1>8. ProxyCalm'
    BY <1>1, <1>2, <1>3, <1>4, <1>6 DEF ProxyCalm, NoProxyEnds, ProxiesLive, ProxyDrains,
       ProxyFailure, DownEnds
  <1> QED
    BY <1>2, <1>5, <1>7, <1>8 DEF ProxyInv

\* What is under way is a matter of the frames sent, seen and answered.
LEMMA ProxyPlaces ==
    ASSUME ProxyTypes, ProxyPlace
    PROVE  /\ Asked => ProxyGoing \/ ProxyNothing
           /\ Answered => ProxyComing \/ ProxyNothing
           /\ Sent = Got => ProxyNothing
  <1>1. ~(Asked /\ Answered) /\ ~(Asked /\ Sent = Got) /\ ~(Answered /\ Sent = Got)
    BY EndFields, SMTT(30) DEF ProxyTypes, Asked, Answered
  <1> QED
    BY <1>1 DEF ProxyPlace

\* What a step between the ends has to keep.
LEMMA ProxyMoves ==
    ASSUME ProxyInv, UNCHANGED <<tunnel, sdk, client, daemon>>,
           ProxyTypes', ProxyOpening', (ProxyGoing \/ ProxyNothing)' \/ ~Asked,
           (ProxyComing \/ ProxyNothing)' \/ ~Answered, Sent = Got => ProxyNothing',
           ProxyCalm'
    PROVE  ProxyInv'
  <1>1. /\ EndsAgree' /\ Sent' = Sent /\ Got' = Got /\ Seen' = Seen
        /\ Asked' = Asked /\ Answered' = Answered
    BY EndsUnchanged DEF ProxyInv
  <1> QED
    BY <1>1 DEF ProxyInv, ProxyPlace

\* The client's process reads a frame of the client.
LEMMA ProxyClientUp ==
    ASSUME ProxyInv, ClientUp
    PROVE  ProxyInv'
  <1>1. /\ EndTypes /\ EndsAgree /\ ProxyTypes /\ ProxyPlace /\ ProxyOpening /\ ProxyCalm
        /\ near \in Sockets /\ ws \in Sockets /\ near.upFin = near.downFin /\ ws.upFin = ws.downFin
    BY DEF ProxyInv, ProxyTypes, EndTypes
  <1>2. /\ pipe["clientUp"] /\ UNCHANGED <<tunnel, sdk, client, daemon, far, proxies, acceptFaults>>
    BY ZenonT(60) DEF ClientUp
  <1>3. /\ Sent' = Sent /\ Got' = Got /\ Seen' = Seen /\ Asked' = Asked /\ Answered' = Answered
        /\ ClientRuns' = ClientRuns /\ \A a \in Answers : IsAnswer(a)' = IsAnswer(a)
    BY <1>1, <1>2, EndsUnchanged
  <1>4. proxies["client"] = "pair" /\ proxies["server"] \notin {"accept", "accepted"}
    BY <1>1, <1>2 DEF ProxyTypes, ProxyOpening
  <1>5. pipe' = pipe \/ pipe' = [pipe EXCEPT !["clientUp"] = FALSE]
    BY ZenonT(60) DEF ClientUp, Wrote, PipeEnds
  <1>6. /\ pipe' \in [Pipes -> BOOLEAN]
        /\ \A p \in Pipes : pipe'[p] => pipe[p]
    BY <1>1, <1>5 DEF ProxyTypes
  <1>7. CASE near.up # <<>> /\ near' = [near EXCEPT !.up = Tail(@)] /\ ws' = SendUp(ws, Head(near.up))
    <2>1. Asked /\ ProxyHolds(<<Sent>>, <<>>, <<>>, <<>>, <<>>, <<>>)
      BY <1>1, <1>7, ProxyCases
    <2>2. Head(near.up) \in FrameNumbers /\ Tail(near.up) = <<>> /\ Head(near.up) = Sent
      <3>1. Head(near.up) \in FrameNumbers
        BY <1>1, <1>7, TakeUpFields
      <3> QED
        BY <2>1, <3>1, One DEF ProxyHolds
    <2>3. /\ near' \in Sockets /\ near'.up = <<>> /\ near'.down = near.down
          /\ near'.upFin = near.upFin /\ near'.downFin = near.downFin
      BY <1>1, <1>7, <2>2, TakeUpFields
    <2>4. /\ ws' \in Sockets /\ ws'.down = ws.down /\ ws'.upFin = ws.upFin
          /\ ws'.downFin = ws.downFin /\ (ws'.up = <<>> \/ ws'.up = <<Sent>>)
      BY <1>1, <1>7, <2>1, <2>2, SendUpFields, One DEF ProxyHolds
    <2>5. ProxyTypes' /\ ProxyOpening'
      BY <1>1, <1>2, <1>4, <1>6, <2>3, <2>4 DEF ProxyTypes, EndTypes, ProxyOpening, Pipes
    <2>6. (ProxyGoing \/ ProxyNothing)'
      BY <1>2, <1>3, <2>1, <2>3, <2>4 DEF ProxyGoing, ProxyNothing, ProxyHolds
    <2>7. ~Answered /\ Sent # Got /\ ~ProxyComing
      <3>1. ~Answered /\ Sent # Got
        BY <1>1, <2>1, EndFields, SMTT(30) DEF Asked, Answered
      <3>2. ~ProxyComing
        BY <2>1, One DEF ProxyComing, ProxyHolds
      <3> QED
        BY <3>1, <3>2
    <2>8. ProxyCalm'
      BY <1>1, <1>2, <1>3, <2>3, <2>4, <2>7 DEF ProxyCalm, NoProxyEnds, ProxiesLive, ProxyDrains,
         ProxyFailure, DownEnds
    <2> QED
      BY <1>2, <2>5, <2>6, <2>7, <2>8, ProxyMoves
  <1>8. CASE UpEnds(near) /\ ws' = Shut(ws) /\ UNCHANGED near
    <2>1. /\ ws' \in Sockets /\ ws'.up = ws.up /\ ws'.down = ws.down
          /\ ws'.upFin = TRUE /\ ws'.downFin = TRUE
      BY <1>1, <1>8, ShutFields
    <2>2. ProxyTypes' /\ ProxyOpening'
      BY <1>1, <1>2, <1>4, <1>6, <1>8, <2>1 DEF ProxyTypes, EndTypes, ProxyOpening, Pipes
    <2>3. ProxyGoing' = ProxyGoing /\ ProxyNothing' = ProxyNothing /\ ProxyComing' = ProxyComing
      BY <1>2, <1>3, <1>8, <2>1 DEF ProxyGoing, ProxyComing, ProxyNothing, ProxyHolds
    <2>4. /\ Asked => ProxyGoing \/ ProxyNothing
          /\ Answered => ProxyComing \/ ProxyNothing
          /\ Sent = Got => ProxyNothing
      BY <1>1, ProxyPlaces
    <2>5. ProxyCalm'
      <3>1. NoProxyEnds /\ ClientRuns => DownEnds(ws) /\ ws.downFin /\ DownEnds(far)
        BY <1>1, <1>8 DEF ProxyCalm, ProxyDrains, ProxiesLive, UpEnds, DownEnds
      <3> QED
        BY <1>1, <1>2, <1>3, <1>8, <2>1, <2>3, <3>1 DEF ProxyCalm, NoProxyEnds, ProxiesLive,
           ProxyDrains, ProxyFailure, DownEnds
    <2> QED
      BY <1>2, <2>2, <2>3, <2>4, <2>5, ProxyMoves
  <1> QED
    BY <1>7, <1>8 DEF ClientUp

\* The server's process hands the frame to the daemon.
LEMMA ProxyServerUp ==
    ASSUME ProxyInv, ServerUp
    PROVE  ProxyInv'
  <1>1. /\ EndTypes /\ EndsAgree /\ ProxyTypes /\ ProxyPlace /\ ProxyOpening /\ ProxyCalm
        /\ ws \in Sockets /\ far \in Sockets
        /\ ws.upFin = ws.downFin /\ far.upFin = far.downFin
    BY DEF ProxyInv, ProxyTypes, EndTypes
  <1>2. /\ pipe["serverUp"] /\ UNCHANGED <<tunnel, sdk, client, daemon, near, proxies, acceptFaults>>
    BY ZenonT(60) DEF ServerUp
  <1>3. /\ Sent' = Sent /\ Got' = Got /\ Seen' = Seen /\ Asked' = Asked /\ Answered' = Answered
        /\ ClientRuns' = ClientRuns /\ \A a \in Answers : IsAnswer(a)' = IsAnswer(a)
    BY <1>1, <1>2, EndsUnchanged
  <1>4. proxies["server"] = "pair" /\ proxies["server"] \notin {"accept", "accepted"}
    BY <1>1, <1>2 DEF ProxyTypes, ProxyOpening
  <1>5. pipe' = pipe \/ pipe' = [pipe EXCEPT !["serverUp"] = FALSE]
    BY ZenonT(60) DEF ServerUp, Wrote, PipeEnds
  <1>6. /\ pipe' \in [Pipes -> BOOLEAN]
        /\ \A p \in Pipes : pipe'[p] => pipe[p]
    BY <1>1, <1>5 DEF ProxyTypes
  <1>7. CASE ws.up # <<>> /\ ws' = [ws EXCEPT !.up = Tail(@)] /\ far' = SendUp(far, Head(ws.up))
    <2>1. Asked /\ ProxyHolds(<<>>, <<Sent>>, <<>>, <<>>, <<>>, <<>>)
      BY <1>1, <1>7, ProxyCases
    <2>2. Head(ws.up) \in FrameNumbers /\ Tail(ws.up) = <<>> /\ Head(ws.up) = Sent
      <3>1. Head(ws.up) \in FrameNumbers
        BY <1>1, <1>7, TakeUpFields
      <3> QED
        BY <2>1, <3>1, One DEF ProxyHolds
    <2>3. /\ ws' \in Sockets /\ ws'.up = <<>> /\ ws'.down = ws.down
          /\ ws'.upFin = ws.upFin /\ ws'.downFin = ws.downFin
      BY <1>1, <1>7, <2>2, TakeUpFields
    <2>4. /\ far' \in Sockets /\ far'.down = far.down /\ far'.upFin = far.upFin
          /\ far'.downFin = far.downFin /\ (far'.up = <<>> \/ far'.up = <<Sent>>)
          /\ far.downFin => far'.up = far.up
      BY <1>1, <1>7, <2>1, <2>2, SendUpFields, One DEF ProxyHolds
    <2>5. ProxyTypes' /\ ProxyOpening'
      BY <1>1, <1>2, <1>4, <1>6, <2>3, <2>4 DEF ProxyTypes, EndTypes, ProxyOpening, Pipes
    <2>6. (ProxyGoing \/ ProxyNothing)'
      BY <1>2, <1>3, <2>1, <2>3, <2>4 DEF ProxyGoing, ProxyNothing, ProxyHolds
    <2>7. ~Answered /\ Sent # Got /\ ~ProxyComing
      <3>1. ~Answered /\ Sent # Got
        BY <1>1, <2>1, EndFields, SMTT(30) DEF Asked, Answered
      <3>2. ~ProxyComing
        BY <2>1, One DEF ProxyComing, ProxyHolds
      <3> QED
        BY <3>1, <3>2
    <2>8. ProxyCalm'
      BY <1>1, <1>2, <1>3, <2>3, <2>4, <2>7 DEF ProxyCalm, NoProxyEnds, ProxiesLive, ProxyDrains,
         ProxyFailure, DownEnds
    <2> QED
      BY <1>2, <2>5, <2>6, <2>7, <2>8, ProxyMoves
  <1>8. CASE UpEnds(ws) /\ far' = Shut(far) /\ UNCHANGED ws
    <2>1. /\ far' \in Sockets /\ far'.up = far.up /\ far'.down = far.down
          /\ far'.upFin = TRUE /\ far'.downFin = TRUE
      BY <1>1, <1>8, ShutFields
    <2>2. ProxyTypes' /\ ProxyOpening'
      BY <1>1, <1>2, <1>4, <1>6, <1>8, <2>1 DEF ProxyTypes, EndTypes, ProxyOpening, Pipes
    <2>3. ProxyGoing' = ProxyGoing /\ ProxyNothing' = ProxyNothing /\ ProxyComing' = ProxyComing
      BY <1>2, <1>3, <1>8, <2>1 DEF ProxyGoing, ProxyComing, ProxyNothing, ProxyHolds
    <2>4. /\ Asked => ProxyGoing \/ ProxyNothing
          /\ Answered => ProxyComing \/ ProxyNothing
          /\ Sent = Got => ProxyNothing
      BY <1>1, ProxyPlaces
    <2>5. ProxyCalm'
      <3>1. NoProxyEnds /\ ClientRuns => DownEnds(far)
        BY <1>1, <1>4, <1>8 DEF ProxyCalm, ProxyDrains, UpEnds
      <3> QED
        BY <1>1, <1>2, <1>3, <1>4, <1>8, <2>1, <2>3, <3>1 DEF ProxyCalm, NoProxyEnds, ProxiesLive,
           ProxyDrains, ProxyFailure, DownEnds
    <2> QED
      BY <1>2, <2>2, <2>3, <2>4, <2>5, ProxyMoves
  <1> QED
    BY <1>7, <1>8 DEF ServerUp

\* The server's process reads the daemon's answer.
LEMMA ProxyServerDown ==
    ASSUME ProxyInv, ServerDown
    PROVE  ProxyInv'
  <1>1. /\ EndTypes /\ EndsAgree /\ ProxyTypes /\ ProxyPlace /\ ProxyOpening /\ ProxyCalm
        /\ far \in Sockets /\ ws \in Sockets
        /\ far.upFin = far.downFin /\ ws.upFin = ws.downFin
    BY DEF ProxyInv, ProxyTypes, EndTypes
  <1>2. /\ pipe["serverDown"] /\ UNCHANGED <<tunnel, sdk, client, daemon, near, proxies, acceptFaults>>
    BY ZenonT(60) DEF ServerDown
  <1>3. /\ Sent' = Sent /\ Got' = Got /\ Seen' = Seen /\ Asked' = Asked /\ Answered' = Answered
        /\ ClientRuns' = ClientRuns /\ \A a \in Answers : IsAnswer(a)' = IsAnswer(a)
    BY <1>1, <1>2, EndsUnchanged
  <1>4. proxies["server"] = "pair" /\ proxies["server"] \notin {"accept", "accepted"}
    BY <1>1, <1>2 DEF ProxyTypes, ProxyOpening
  <1>5. pipe' = pipe \/ pipe' = [pipe EXCEPT !["serverDown"] = FALSE]
    BY ZenonT(60) DEF ServerDown, Wrote, PipeEnds
  <1>6. /\ pipe' \in [Pipes -> BOOLEAN]
        /\ \A p \in Pipes : pipe'[p] => pipe[p]
    BY <1>1, <1>5 DEF ProxyTypes
  <1>7. CASE far.down # <<>> /\ far' = [far EXCEPT !.down = Tail(@)] /\ ws' = SendDown(ws, Head(far.down))
    <2>1. PICK a \in Answers : IsAnswer(a) /\ ProxyHolds(<<>>, <<>>, <<>>, <<a>>, <<>>, <<>>)
      BY <1>1, <1>7, ProxyCases
    <2>2. Answered /\ Tail(far.down) = <<>> /\ Head(far.down) = a
      BY <1>1, <1>7, <2>1, ProxyCases, One DEF ProxyHolds
    <2>3. /\ far' \in Sockets /\ far'.down = <<>> /\ far'.up = far.up
          /\ far'.upFin = far.upFin /\ far'.downFin = far.downFin
      BY <1>1, <1>7, <2>2, TakeDownFields
    <2>4. /\ ws' \in Sockets /\ ws'.up = ws.up /\ ws'.upFin = ws.upFin
          /\ ws'.downFin = ws.downFin
          /\ ws.downFin => ws'.down = <<>>
          /\ ~ws.downFin => ws'.down = <<a>>
      BY <1>1, <1>7, <2>1, <2>2, SendDownFields, One DEF ProxyHolds
    <2>5. ProxyTypes' /\ ProxyOpening'
      BY <1>1, <1>2, <1>4, <1>6, <2>3, <2>4 DEF ProxyTypes, EndTypes, ProxyOpening, Pipes
    <2>6. /\ ws.downFin => ProxyNothing'
          /\ ~ws.downFin => ProxyComing'
      <3>1. CASE ws.downFin
        BY <1>2, <2>1, <2>3, <2>4, <3>1 DEF ProxyNothing, ProxyHolds
      <3>2. CASE ~ws.downFin
        <4>1. ProxyHolds(<<>>, <<>>, <<>>, <<>>, <<a>>, <<>>)'
          BY <1>2, <2>1, <2>3, <2>4, <3>2 DEF ProxyHolds
        <4> QED
          BY <1>3, <2>1, <3>2, <4>1 DEF ProxyComing
      <3> QED
        BY <3>1, <3>2
    <2>7. ~Asked /\ Sent # Got
      BY <1>1, <2>2, EndFields, SMTT(30) DEF Asked, Answered
    <2>8. far.down # <<>>
      BY <1>7
    <2>9. NoProxyEnds /\ ClientRuns => ~ws.downFin
      BY <1>1, <1>4, <2>8 DEF ProxyCalm, ProxyDrains, DownEnds
    <2>10. ProxyCalm'
      BY <1>1, <1>2, <1>3, <2>3, <2>4, <2>6, <2>7, <2>9 DEF ProxyCalm, NoProxyEnds, ProxiesLive,
         ProxyDrains, ProxyFailure, DownEnds
    <2> QED
      BY <1>2, <2>5, <2>6, <2>7, <2>10, ProxyMoves
  <1>8. CASE DownEnds(far) /\ ws' = Shut(ws) /\ UNCHANGED far
    <2>1. /\ ws' \in Sockets /\ ws'.up = ws.up /\ ws'.down = ws.down
          /\ ws'.upFin = TRUE /\ ws'.downFin = TRUE
      BY <1>1, <1>8, ShutFields
    <2>2. ProxyTypes' /\ ProxyOpening'
      BY <1>1, <1>2, <1>4, <1>6, <1>8, <2>1 DEF ProxyTypes, EndTypes, ProxyOpening, Pipes
    <2>3. ProxyGoing' = ProxyGoing /\ ProxyNothing' = ProxyNothing /\ ProxyComing' = ProxyComing
      BY <1>2, <1>3, <1>8, <2>1 DEF ProxyGoing, ProxyComing, ProxyNothing, ProxyHolds
    <2>4. /\ Asked => ProxyGoing \/ ProxyNothing
          /\ Answered => ProxyComing \/ ProxyNothing
          /\ Sent = Got => ProxyNothing
      BY <1>1, ProxyPlaces
    <2>5. ProxyCalm'
      <3>1. DownEnds(far)
        BY <1>8
      <3> QED
        BY <1>1, <1>2, <1>3, <1>4, <1>8, <2>1, <2>3, <3>1 DEF ProxyCalm, NoProxyEnds, ProxiesLive,
           ProxyDrains, ProxyFailure, DownEnds
    <2> QED
      BY <1>2, <2>2, <2>3, <2>4, <2>5, ProxyMoves
  <1> QED
    BY <1>7, <1>8 DEF ServerDown

\* The client's process hands the answer to the client.
LEMMA ProxyClientDown ==
    ASSUME ProxyInv, ClientDown
    PROVE  ProxyInv'
  <1>1. /\ EndTypes /\ EndsAgree /\ ProxyTypes /\ ProxyPlace /\ ProxyOpening /\ ProxyCalm
        /\ ws \in Sockets /\ near \in Sockets
        /\ ws.upFin = ws.downFin /\ near.upFin = near.downFin
    BY DEF ProxyInv, ProxyTypes, EndTypes
  <1>2. /\ pipe["clientDown"] /\ UNCHANGED <<tunnel, sdk, client, daemon, far, proxies, acceptFaults>>
    BY ZenonT(60) DEF ClientDown
  <1>3. /\ Sent' = Sent /\ Got' = Got /\ Seen' = Seen /\ Asked' = Asked /\ Answered' = Answered
        /\ ClientRuns' = ClientRuns /\ \A a \in Answers : IsAnswer(a)' = IsAnswer(a)
    BY <1>1, <1>2, EndsUnchanged
  <1>4. proxies["client"] = "pair" /\ proxies["server"] \notin {"accept", "accepted"}
    BY <1>1, <1>2 DEF ProxyTypes, ProxyOpening
  <1>5. pipe' = pipe \/ pipe' = [pipe EXCEPT !["clientDown"] = FALSE]
    BY ZenonT(60) DEF ClientDown, Wrote, PipeEnds
  <1>6. /\ pipe' \in [Pipes -> BOOLEAN]
        /\ \A p \in Pipes : pipe'[p] => pipe[p]
    BY <1>1, <1>5 DEF ProxyTypes
  <1>7. CASE ws.down # <<>> /\ ws' = [ws EXCEPT !.down = Tail(@)] /\ near' = SendDown(near, Head(ws.down))
    <2>1. PICK a \in Answers : IsAnswer(a) /\ ProxyHolds(<<>>, <<>>, <<>>, <<>>, <<a>>, <<>>)
      BY <1>1, <1>7, ProxyCases
    <2>2. Answered /\ Tail(ws.down) = <<>> /\ Head(ws.down) = a
      BY <1>1, <1>7, <2>1, ProxyCases, One DEF ProxyHolds
    <2>3. /\ ws' \in Sockets /\ ws'.down = <<>> /\ ws'.up = ws.up
          /\ ws'.upFin = ws.upFin /\ ws'.downFin = ws.downFin
      BY <1>1, <1>7, <2>2, TakeDownFields
    <2>4. /\ near' \in Sockets /\ near'.up = near.up /\ near'.upFin = near.upFin
          /\ near'.downFin = near.downFin
          /\ near.downFin => near'.down = <<>>
          /\ ~near.downFin => near'.down = <<a>>
      BY <1>1, <1>7, <2>1, <2>2, SendDownFields, One DEF ProxyHolds
    <2>5. ProxyTypes' /\ ProxyOpening'
      BY <1>1, <1>2, <1>4, <1>6, <2>3, <2>4 DEF ProxyTypes, EndTypes, ProxyOpening, Pipes
    <2>6. /\ near.downFin => ProxyNothing'
          /\ ~near.downFin => ProxyComing'
      <3>1. CASE near.downFin
        BY <1>2, <2>1, <2>3, <2>4, <3>1 DEF ProxyNothing, ProxyHolds
      <3>2. CASE ~near.downFin
        <4>1. ProxyHolds(<<>>, <<>>, <<>>, <<>>, <<>>, <<a>>)'
          BY <1>2, <2>1, <2>3, <2>4, <3>2 DEF ProxyHolds
        <4> QED
          BY <1>3, <2>1, <3>2, <4>1 DEF ProxyComing
      <3> QED
        BY <3>1, <3>2
    <2>7. ~Asked /\ Sent # Got
      BY <1>1, <2>2, EndFields, SMTT(30) DEF Asked, Answered
    <2>8. ws.down # <<>>
      BY <1>7
    <2>9. NoProxyEnds /\ ClientRuns => ~near.downFin
      BY <1>1, <1>4, <2>8 DEF ProxyCalm, ProxyDrains, DownEnds
    <2>10. ProxyCalm'
      BY <1>1, <1>2, <1>3, <2>3, <2>4, <2>6, <2>7, <2>9 DEF ProxyCalm, NoProxyEnds, ProxiesLive,
         ProxyDrains, ProxyFailure, DownEnds
    <2> QED
      BY <1>2, <2>5, <2>6, <2>7, <2>10, ProxyMoves
  <1>8. CASE DownEnds(ws) /\ near' = Shut(near) /\ UNCHANGED ws
    <2>1. /\ near' \in Sockets /\ near'.up = near.up /\ near'.down = near.down
          /\ near'.upFin = TRUE /\ near'.downFin = TRUE
      BY <1>1, <1>8, ShutFields
    <2>2. ProxyTypes' /\ ProxyOpening'
      BY <1>1, <1>2, <1>4, <1>6, <1>8, <2>1 DEF ProxyTypes, EndTypes, ProxyOpening, Pipes
    <2>3. ProxyGoing' = ProxyGoing /\ ProxyNothing' = ProxyNothing /\ ProxyComing' = ProxyComing
      BY <1>2, <1>3, <1>8, <2>1 DEF ProxyGoing, ProxyComing, ProxyNothing, ProxyHolds
    <2>4. /\ Asked => ProxyGoing \/ ProxyNothing
          /\ Answered => ProxyComing \/ ProxyNothing
          /\ Sent = Got => ProxyNothing
      BY <1>1, ProxyPlaces
    <2>5. ProxyCalm'
      <3>1. DownEnds(ws)
        BY <1>8
      <3> QED
        BY <1>1, <1>2, <1>3, <1>4, <1>8, <2>1, <2>3, <3>1 DEF ProxyCalm, NoProxyEnds, ProxiesLive,
           ProxyDrains, ProxyFailure, DownEnds
    <2> QED
      BY <1>2, <2>2, <2>3, <2>4, <2>5, ProxyMoves
  <1> QED
    BY <1>7, <1>8 DEF ClientDown

\* The two processes take up the client's connection.
LEMMA ProxyAcceptClient ==
    ASSUME ProxyInv, AcceptClient
    PROVE  ProxyInv'
  <1>1. /\ EndTypes /\ EndsAgree /\ ProxyTypes /\ ProxyPlace /\ ProxyOpening /\ ProxyCalm
    BY DEF ProxyInv, ProxyTypes
  <1>2. /\ proxies["client"] = "accept" /\ proxies["server"] # "dead"
        /\ proxies' = [proxies EXCEPT !["client"] = "upgrade", !["server"] = "accepted"]
        /\ UNCHANGED <<tunnel, sdk, client, daemon, near, far, ws, pipe, acceptFaults>>
    BY ZenonT(60) DEF AcceptClient, endVars
  <1>3. proxies["server"] = "accept"
    BY <1>1, <1>2 DEF ProxyOpening
  <1>4. /\ proxies' \in [Sides -> ProxyStates]
        /\ proxies'["client"] = "upgrade" /\ proxies'["server"] = "accepted"
    BY <1>1, <1>2 DEF ProxyTypes, Sides, ProxyStates
  <1>5. /\ EndsAgree' /\ EndTypes' /\ Sent' = Sent /\ Got' = Got /\ ClientRuns' = ClientRuns
    BY <1>1, <1>2, EndsUnchanged DEF EndTypes
  <1>6. ProxyPlace'
    BY <1>1, <1>2 DEF ProxyPlace, Asked, Answered, IsAnswer, Sent, Got, Seen, ProxyGoing,
       ProxyComing, ProxyNothing, ProxyHolds
  <1>7. ProxyTypes' /\ ProxyOpening'
    BY <1>1, <1>2, <1>3, <1>4, <1>5 DEF ProxyTypes, ProxyOpening
  <1>8. ProxyComing' = ProxyComing
    BY <1>2 DEF ProxyComing, ProxyHolds, IsAnswer, Sent
  <1>9. ProxyCalm'
    BY <1>1, <1>2, <1>3, <1>4, <1>5, <1>8 DEF ProxyCalm, NoProxyEnds, ProxiesLive, ProxyDrains,
       ProxyFailure, DownEnds
  <1> QED
    BY <1>5, <1>6, <1>7, <1>9 DEF ProxyInv

LEMMA ProxyAcceptServer ==
    ASSUME ProxyInv, AcceptServer
    PROVE  ProxyInv'
  <1>1. /\ EndTypes /\ EndsAgree /\ ProxyTypes /\ ProxyPlace /\ ProxyOpening /\ ProxyCalm
    BY DEF ProxyInv, ProxyTypes
  <1>2. /\ proxies["server"] = "accepted"
        /\ UNCHANGED <<tunnel, sdk, client, daemon, near, far, pipe, acceptFaults>>
    BY ZenonT(60) DEF AcceptServer, endVars
  <1>3. /\ proxies["client"] \notin {"answered", "pair", "accept"}
        /\ ws.up = <<>> /\ ws.down = <<>>
    BY <1>1, <1>2 DEF ProxyOpening
  <1>4. /\ proxies' \in [Sides -> ProxyStates]
        /\ proxies'["client"] = IF proxies["client"] = "dead" THEN "dead" ELSE "answered"
        /\ proxies'["server"] = "connect"
    BY <1>1 DEF AcceptServer, ProxyTypes, Sides, ProxyStates
  <1>5. /\ ws' \in Sockets /\ ws'.up = <<>> /\ ws'.down = <<>> /\ ws'.upFin = ws'.downFin
        /\ proxies["client"] # "dead" => ~ws'.downFin
    BY ConnectedFields, UnconnectedFields DEF AcceptServer
  <1>6. /\ Sent' = Sent /\ Got' = Got /\ Seen' = Seen /\ Asked' = Asked /\ Answered' = Answered
        /\ ClientRuns' = ClientRuns /\ \A a \in Answers : IsAnswer(a)' = IsAnswer(a)
    BY <1>1, <1>2, EndsUnchanged
  <1>7. ProxyTypes' /\ ProxyOpening'
    BY <1>1, <1>2, <1>3, <1>4, <1>5 DEF ProxyTypes, EndTypes, ProxyOpening
  <1>8. ProxyGoing' = ProxyGoing /\ ProxyNothing' = ProxyNothing /\ ProxyComing' = ProxyComing
    BY <1>2, <1>3, <1>5, <1>6 DEF ProxyGoing, ProxyComing, ProxyNothing, ProxyHolds
  <1>9. /\ Asked => ProxyGoing \/ ProxyNothing
        /\ Answered => ProxyComing \/ ProxyNothing
        /\ Sent = Got => ProxyNothing
    BY <1>1, ProxyPlaces
  <1>10. ProxyCalm'
    BY <1>1, <1>2, <1>3, <1>4, <1>5, <1>6, <1>8 DEF ProxyCalm, NoProxyEnds, ProxiesLive,
       ProxyDrains, ProxyFailure, DownEnds
  <1> QED
    BY <1>2, <1>7, <1>8, <1>9, <1>10, ProxyMoves

LEMMA ProxyStartServerPair ==
    ASSUME ProxyInv, StartServerPair
    PROVE  ProxyInv'
  <1>1. /\ EndTypes /\ EndsAgree /\ ProxyTypes /\ ProxyPlace /\ ProxyOpening /\ ProxyCalm
    BY DEF ProxyInv, ProxyTypes
  <1>2. /\ proxies["server"] = "connect" /\ proxies' = [proxies EXCEPT !["server"] = "pair"]
        /\ far' = Connected
        /\ pipe' = [pipe EXCEPT !["serverUp"] = TRUE, !["serverDown"] = TRUE]
        /\ UNCHANGED <<tunnel, sdk, client, daemon, near, ws, acceptFaults>>
    BY ZenonT(60) DEF StartServerPair
  <1>3. /\ far.up = <<>> /\ far.down = <<>> /\ proxies["client"] # "accept"
        /\ pipe' \in [Pipes -> BOOLEAN]
        /\ pipe'["clientUp"] = pipe["clientUp"] /\ pipe'["clientDown"] = pipe["clientDown"]
    BY <1>1, <1>2 DEF ProxyOpening, ProxyTypes, Pipes
  <1>4. /\ proxies' \in [Sides -> ProxyStates]
        /\ proxies'["client"] = proxies["client"] /\ proxies'["server"] = "pair"
    BY <1>1, <1>2 DEF ProxyTypes, Sides, ProxyStates
  <1>5. /\ far' \in Sockets /\ far'.up = <<>> /\ far'.down = <<>> /\ far'.upFin = far'.downFin
    BY <1>2, ConnectedFields
  <1>6. /\ Sent' = Sent /\ Got' = Got /\ Seen' = Seen /\ Asked' = Asked /\ Answered' = Answered
        /\ ClientRuns' = ClientRuns /\ \A a \in Answers : IsAnswer(a)' = IsAnswer(a)
    BY <1>1, <1>2, EndsUnchanged
  <1>7. ProxyTypes' /\ ProxyOpening'
    BY <1>1, <1>2, <1>3, <1>4, <1>5 DEF ProxyTypes, EndTypes, ProxyOpening
  <1>8. ProxyGoing' = ProxyGoing /\ ProxyNothing' = ProxyNothing /\ ProxyComing' = ProxyComing
    BY <1>2, <1>3, <1>5, <1>6 DEF ProxyGoing, ProxyComing, ProxyNothing, ProxyHolds
  <1>9. /\ Asked => ProxyGoing \/ ProxyNothing
        /\ Answered => ProxyComing \/ ProxyNothing
        /\ Sent = Got => ProxyNothing
    BY <1>1, ProxyPlaces
  <1>10. ProxyCalm'
    BY <1>1, <1>2, <1>3, <1>4, <1>5, <1>6, <1>8 DEF ProxyCalm, NoProxyEnds, ProxiesLive,
       ProxyDrains, ProxyFailure, DownEnds
  <1> QED
    BY <1>2, <1>7, <1>8, <1>9, <1>10, ProxyMoves

LEMMA ProxyStartClientPair ==
    ASSUME ProxyInv, StartClientPair
    PROVE  ProxyInv'
  <1>1. /\ EndTypes /\ EndsAgree /\ ProxyTypes /\ ProxyPlace /\ ProxyOpening /\ ProxyCalm
    BY DEF ProxyInv, ProxyTypes
  <1>2. /\ proxies["client"] = "answered" /\ proxies' = [proxies EXCEPT !["client"] = "pair"]
        /\ pipe' = [pipe EXCEPT !["clientUp"] = TRUE, !["clientDown"] = TRUE]
        /\ UNCHANGED <<tunnel, sdk, client, daemon, near, far, ws, acceptFaults>>
    BY ZenonT(60) DEF StartClientPair, endVars
  <1>3. /\ proxies["server"] \notin {"accept", "accepted"}
        /\ pipe' \in [Pipes -> BOOLEAN]
        /\ pipe'["serverUp"] = pipe["serverUp"] /\ pipe'["serverDown"] = pipe["serverDown"]
    BY <1>1, <1>2 DEF ProxyOpening, ProxyTypes, Pipes
  <1>4. /\ proxies' \in [Sides -> ProxyStates]
        /\ proxies'["client"] = "pair" /\ proxies'["server"] = proxies["server"]
    BY <1>1, <1>2 DEF ProxyTypes, Sides, ProxyStates
  <1>5. far' = far /\ ws' = ws
    BY <1>2
  <1>6. /\ Sent' = Sent /\ Got' = Got /\ Seen' = Seen /\ Asked' = Asked /\ Answered' = Answered
        /\ ClientRuns' = ClientRuns /\ \A a \in Answers : IsAnswer(a)' = IsAnswer(a)
    BY <1>1, <1>2, EndsUnchanged
  <1>7. ProxyTypes' /\ ProxyOpening'
    BY <1>1, <1>2, <1>3, <1>4, <1>5 DEF ProxyTypes, EndTypes, ProxyOpening
  <1>8. ProxyGoing' = ProxyGoing /\ ProxyNothing' = ProxyNothing /\ ProxyComing' = ProxyComing
    BY <1>2, <1>3, <1>5, <1>6 DEF ProxyGoing, ProxyComing, ProxyNothing, ProxyHolds
  <1>9. /\ Asked => ProxyGoing \/ ProxyNothing
        /\ Answered => ProxyComing \/ ProxyNothing
        /\ Sent = Got => ProxyNothing
    BY <1>1, ProxyPlaces
  <1>10. ProxyCalm'
    BY <1>1, <1>2, <1>3, <1>4, <1>5, <1>6, <1>8 DEF ProxyCalm, NoProxyEnds, ProxiesLive,
       ProxyDrains, ProxyFailure, DownEnds
  <1> QED
    BY <1>2, <1>7, <1>8, <1>9, <1>10, ProxyMoves

\* A process ends: what it carried is lost, and is not calm any more.
LEMMA ProxyDies ==
    ASSUME ProxyInv, NEW s \in Sides, Dies(s), ~NoProxyEnds', acceptFaults' \in 0 .. AcceptFaults
    PROVE  ProxyInv'
  <1>1. /\ EndTypes /\ EndsAgree /\ ProxyTypes /\ ProxyPlace /\ ProxyOpening /\ ProxyCalm
        /\ near \in Sockets /\ far \in Sockets /\ ws \in Sockets
    BY DEF ProxyInv, ProxyTypes, EndTypes
  <1>2. /\ proxies' = [proxies EXCEPT ![s] = "dead"]
        /\ pipe' = [p \in Pipes |->
                      pipe[p] /\ p \notin (IF s = "client" THEN {"clientUp", "clientDown"}
                                                           ELSE {"serverUp", "serverDown"})]
        /\ ws' = Shut(ws)
        /\ near' = IF s = "client" THEN Shut(near) ELSE near
        /\ far' = IF s = "server" THEN Shut(far) ELSE far
        /\ UNCHANGED <<tunnel, sdk, client, daemon>>
    BY ZenonT(60) DEF Dies
  <1>3. /\ proxies' \in [Sides -> ProxyStates]
        /\ \A t \in Sides : proxies'[t] = IF t = s THEN "dead" ELSE proxies[t]
    BY <1>1, <1>2 DEF ProxyTypes, Sides, ProxyStates
  <1>4. s = "client" \/ s = "server"
    BY DEF Sides
  <1>5. /\ pipe' \in [Pipes -> BOOLEAN]
        /\ \A p \in Pipes : pipe'[p] => pipe[p]
        /\ s = "client" => ~pipe'["clientUp"] /\ ~pipe'["clientDown"]
        /\ s = "server" => ~pipe'["serverUp"] /\ ~pipe'["serverDown"]
    BY <1>1, <1>2, <1>4 DEF ProxyTypes, Pipes
  <1>6. /\ ws' \in Sockets /\ ws'.up = ws.up /\ ws'.down = ws.down /\ ws'.upFin = ws'.downFin
        /\ near' \in Sockets /\ near'.up = near.up /\ near'.down = near.down
        /\ near'.upFin = near'.downFin
        /\ far' \in Sockets /\ far'.up = far.up /\ far'.down = far.down
        /\ far'.upFin = far'.downFin /\ (far.downFin => far'.downFin)
    BY <1>1, <1>2, ShutFields DEF EndTypes, ProxyTypes
  <1>7. /\ Sent' = Sent /\ Got' = Got /\ Seen' = Seen /\ Asked' = Asked /\ Answered' = Answered
        /\ ClientRuns' = ClientRuns /\ \A a \in Answers : IsAnswer(a)' = IsAnswer(a)
    BY <1>1, <1>2, EndsUnchanged
  <1>8. "client" \in Sides /\ "server" \in Sides
    BY DEF Sides
  <1>9. ProxyTypes'
    <2>1. EndTypes'
      BY <1>1, <1>2, <1>6 DEF EndTypes
    <2>2. /\ (pipe["clientUp"] \/ pipe["clientDown"])' => proxies'["client"] = "pair"
          /\ (pipe["serverUp"] \/ pipe["serverDown"])' => proxies'["server"] = "pair"
      BY <1>1, <1>3, <1>4, <1>5, <1>8 DEF ProxyTypes, Pipes
    <2>3. tunnel' = "wss"
      BY <1>1, <1>2 DEF ProxyTypes
    <2> QED
      BY <1>3, <1>5, <1>6, <2>1, <2>2, <2>3 DEF ProxyTypes
  <1>10. ProxyOpening'
    BY <1>1, <1>3, <1>4, <1>6, <1>8 DEF ProxyOpening
  <1>11. ProxyGoing' = ProxyGoing /\ ProxyNothing' = ProxyNothing /\ ProxyComing' = ProxyComing
    BY <1>6, <1>7 DEF ProxyGoing, ProxyComing, ProxyNothing, ProxyHolds
  <1>12. /\ Asked => ProxyGoing \/ ProxyNothing
         /\ Answered => ProxyComing \/ ProxyNothing
         /\ Sent = Got => ProxyNothing
    BY <1>1, ProxyPlaces
  <1>13. ProxyCalm'
    BY DEF ProxyCalm
  <1> QED
    BY <1>2, <1>9, <1>10, <1>11, <1>12, <1>13, ProxyMoves

LEMMA ProxyStep == ProxyInv /\ [ProxyNext]_<<endVars, proxyVars>> => ProxyInv'
  <1> SUFFICES ASSUME ProxyInv, [ProxyNext]_<<endVars, proxyVars>> PROVE ProxyInv'
    OBVIOUS
  <1>1. acceptFaults \in 0 .. AcceptFaults
    BY DEF ProxyInv, ProxyTypes
  <1>2. CASE EndsNext /\ UNCHANGED proxyVars
    BY <1>2, ProxyClientSends, ProxyClientReceives, ProxyClientStops, ProxyDaemonSteps,
       ProxyDaemonCloses DEF EndsNext, ClientStop
  <1>3. CASE AcceptStep
    <2>1. CASE UpgradeFails
      <3>1. proxies["server"] = "dead" /\ Dies("client") /\ acceptFaults' = acceptFaults
        BY <2>1 DEF UpgradeFails
      <3>2. sdk' = sdk
        BY <3>1 DEF Dies
      <3>3. ~NoProxyEnds'
        BY <3>1, <3>2 DEF ProxyInv, ProxyCalm, ProxiesLive, NoProxyEnds
      <3> QED
        BY <1>1, <3>1, <3>3, ProxyDies DEF Sides
    <2> QED
      BY <1>3, <2>1, ProxyAcceptClient, ProxyAcceptServer, ProxyStartServerPair,
         ProxyStartClientPair DEF AcceptStep
  <1>4. CASE ClientUp \/ ServerUp \/ ServerDown \/ ClientDown
    BY <1>4, ProxyClientUp, ProxyServerUp, ProxyServerDown, ProxyClientDown
  <1>5. ASSUME NEW s \in Sides, AcceptFails(s) PROVE ProxyInv'
    <2>1. acceptFaults > 0 /\ acceptFaults' = acceptFaults - 1 /\ Dies(s)
      BY <1>5 DEF AcceptFails
    <2>2. acceptFaults' \in 0 .. AcceptFaults /\ acceptFaults' # AcceptFaults
      BY <1>1, <2>1, AcceptAssumption, SMTT(30)
    <2> QED
      BY <2>1, <2>2, ProxyDies DEF NoProxyEnds
  <1>6. CASE UNCHANGED <<endVars, proxyVars>>
    <2>1. /\ UNCHANGED <<tunnel, sdk, client, daemon, near, far>>
          /\ UNCHANGED <<ws, pipe, proxies, acceptFaults>>
      BY <1>6, ZenonT(60) DEF endVars, proxyVars
    <2>2. ProxyTypes' /\ ProxyOpening'
      BY <2>1 DEF ProxyInv, ProxyTypes, EndTypes, ProxyOpening
    <2>3. /\ EndsAgree' /\ Sent' = Sent /\ Got' = Got /\ Seen' = Seen /\ Asked' = Asked
          /\ Answered' = Answered /\ ClientRuns' = ClientRuns
          /\ \A a \in Answers : IsAnswer(a)' = IsAnswer(a)
      BY <2>1, EndsUnchanged DEF ProxyInv
    <2>4. ProxyGoing' = ProxyGoing /\ ProxyNothing' = ProxyNothing /\ ProxyComing' = ProxyComing
      BY <2>1, <2>3 DEF ProxyGoing, ProxyComing, ProxyNothing, ProxyHolds
    <2>5. ProxyPlace'
      BY <2>3, <2>4 DEF ProxyInv, ProxyPlace
    <2>6. ProxyCalm'
      BY <2>1, <2>3, <2>4 DEF ProxyInv, ProxyCalm, NoProxyEnds, ProxiesLive, ProxyDrains,
         ProxyFailure, DownEnds
    <2> QED
      BY <2>2, <2>3, <2>5, <2>6 DEF ProxyInv
  <1> QED
    BY <1>2, <1>3, <1>4, <1>5, <1>6 DEF ProxyNext

\* What the ends agree on and one frame at a time are what a tunnel owes them.
LEMMA Faithful ==
    ASSUME EndTypes, EndsAgree,
           Sent = Seen \/ Sent = Seen + 1
    PROVE  TunnelIsFaithful
  <1>1. Len(daemon.seen) <= client.sent
    BY EndFields, SMTT(30) DEF Sent, Seen
  <1> QED
    BY <1>1 DEF TunnelIsFaithful, EndsAgree, FramesInOrder, SuccessIsCommitted, Seen

\* Sockets in the sense of the proofs are those of the models.
LEMMA SocketTypes ==
    ASSUME NEW s \in Sockets
    PROVE  SocketTypeOK(s, FrameNumbers, Answers)
  <1>1. DOMAIN s = {"up", "down", "upFin", "downFin"}
    BY SMTT(30) DEF Sockets
  <1>2. DOMAIN Connected = {"up", "down", "upFin", "downFin"}
    BY SMTT(30) DEF Connected
  <1> QED
    BY <1>1, <1>2, Fields DEF SocketTypeOK

\* The types of the proxies' state.
THEOREM ProxyTypesHold == ProxySpec => []ProxyTypeOK
  <1>1. ProxyInit => ProxyInv
    BY ProxyStarts
  <1>2. ProxyInv /\ [ProxyNext]_<<endVars, proxyVars>> => ProxyInv'
    BY ProxyStep
  <1>3. ProxyInv => ProxyTypeOK
    BY SocketTypes DEF ProxyInv, ProxyTypeOK, ProxyTypes, EndTypes, Pipes
  <1> QED
    BY <1>1, <1>2, <1>3, PTL DEF ProxySpec

\* Through the proxies of production_transport_proxy.py, whichever process ends
\* and whatever is cut off, no answer is shifted, no frame doubled and no
\* success invented.
THEOREM ProxyIsFaithful == ProxySpec => []TunnelIsFaithful
  <1>1. ProxyInit => ProxyInv
    BY ProxyStarts
  <1>2. ProxyInv /\ [ProxyNext]_<<endVars, proxyVars>> => ProxyInv'
    BY ProxyStep
  <1>3. ProxyInv => TunnelIsFaithful
    BY Faithful DEF ProxyInv, ProxyTypes, ProxyPlace, Asked, Answered
  <1> QED
    BY <1>1, <1>2, <1>3, PTL DEF ProxySpec

\* As long as both proxy processes run, the daemon's commit reaches a client
\* that waits for it: shutting sockets down in both directions loses no answer.
THEOREM ProxyReports == ProxySpec => []CommitIsReported
  <1>1. ProxyInit => ProxyInv
    BY ProxyStarts
  <1>2. ProxyInv /\ [ProxyNext]_<<endVars, proxyVars>> => ProxyInv'
    BY ProxyStep
  <1>3. ProxyInv => CommitIsReported
    BY DEF ProxyInv, ProxyTypes, CommitIsReported, RunpodReportsCommit, ProxyReportsCommit,
       ProxyCalm, NoProxyEnds, ProxyFailure
  <1> QED
    BY <1>1, <1>2, <1>3, PTL DEF ProxySpec

-----------------------------------------------------------------------------
(* The bridge. *)
LEMMA RunpodStarts == RunpodInit => RunpodInv
  <1> SUFFICES ASSUME RunpodInit PROVE RunpodInv
    OBVIOUS
  <1>1. /\ tunnel = "runpod" /\ sdk \in BOOLEAN
        /\ client = [sent |-> 0, got |-> <<>>, result |-> "none"]
        /\ daemon = [seen |-> <<>>, committed |-> FALSE]
        /\ near = Connected /\ far = Unconnected
        /\ once \in BOOLEAN /\ bridge = [pc |-> "open", frame |-> 0]
        /\ session = "none" /\ threads = <<>> /\ leaked = FALSE /\ httpFaults = HttpFaults
    BY ZenonT(60) DEF RunpodInit, EndsInit
  <1>2. /\ client.sent = 0 /\ client.got = <<>> /\ client.result = "none"
        /\ daemon.seen = <<>> /\ daemon.committed = FALSE
        /\ client \in [sent : 0 .. Last, got : Seq(Answers),
                       result : {"none", "failed", "success", "killed"}]
        /\ daemon \in [seen : Seq(FrameNumbers), committed : BOOLEAN]
    BY <1>1, LastAssumption, SMTT(30)
  <1>3. EndTypes
    BY <1>1, <1>2, ConnectedFields, UnconnectedFields DEF EndTypes
  <1>4. /\ bridge.pc = "open"
        /\ bridge \in [pc : {"open", "read", "post", "wait", "close", "closed", "raised"},
                       frame : FrameNumbers \cup {0}]
        /\ threads \in Seq(ThreadTypes)
    BY <1>1, SMTT(30)
  <1>5. httpFaults \in 0 .. HttpFaults
    BY <1>1, HttpAssumption, SMTT(30)
  <1>6. RunpodTypes
    BY <1>1, <1>3, <1>4, <1>5 DEF RunpodTypes
  <1>7. Sent = 0 /\ Got = 0 /\ Seen = 0 /\ 0 < Last /\ Len(threads) = 0
    BY <1>1, <1>2, LastAssumption, SMTT(30) DEF Sent, Got, Seen
  <1>8. EndsAgree
    <2>1. AnswersMatch
      BY <1>2, SMTT(30) DEF AnswersMatch
    <2>2. \A i \in 1 .. Seen : daemon.seen[i] = i
      BY <1>7, SMTT(30)
    <2> QED
      BY <1>2, <1>7, <2>1, <2>2 DEF EndsAgree
  <1>9. OneExchange
    <2>1. \A i \in 1 .. Len(threads) - 1 : threads[i].pc = "replied"
      BY <1>7, SMTT(30)
    <2> QED
      BY <1>1, <1>4, <2>1 DEF OneExchange
  <1>10. RunpodNothing /\ Settled /\ ~Carrying
    BY <1>1, <1>4, ConnectedFields, UnconnectedFields DEF RunpodNothing, RunpodHolds, Settled,
       Carrying, TopIs
  <1>11. RunpodDrains /\ RunpodFailure
    BY <1>1, <1>2, <1>4, ConnectedFields, UnconnectedFields
    DEF RunpodDrains, RunpodFailure, Ending, TopIs
  <1> QED
    BY <1>6, <1>7, <1>8, <1>9, <1>10, <1>11 DEF RunpodInv, RunpodPlace, RunpodCalm

\* What is under way is a matter of the frames sent, seen and answered.
LEMMA RunpodPlaces ==
    ASSUME RunpodTypes, RunpodPlace
    PROVE  /\ Asked => (RunpodGoing \/ RunpodNothing) /\ ~Answered /\ Sent # Got
           /\ Answered => (RunpodComing \/ RunpodNothing) /\ Sent # Got
           /\ Sent = Got => Sent = Seen /\ RunpodNothing /\ Settled /\ ~Carrying
  <1>1. ~(Asked /\ Answered) /\ ~(Asked /\ Sent = Got) /\ ~(Answered /\ Sent = Got)
    BY EndFields, SMTT(30) DEF RunpodTypes, Asked, Answered
  <1> QED
    BY <1>1 DEF RunpodPlace

\* The frame or the answer under way is at one place.
LEMMA RunpodCases ==
    ASSUME RunpodTypes, RunpodPlace, OneExchange
    PROVE  /\ near.up # <<>> => /\ Asked /\ ~Carrying /\ Settled
                                /\ RunpodHolds(<<Sent>>, <<>>, <<>>, <<>>)
           /\ bridge.pc = "post" => /\ Asked /\ bridge.frame = Sent /\ Settled
                                    /\ RunpodHolds(<<>>, <<>>, <<>>, <<>>)
           /\ TopIs({"look", "send"}) => /\ Asked /\ Top.frame = Sent
                                         /\ RunpodHolds(<<>>, <<>>, <<>>, <<>>)
           /\ far.up # <<>> => /\ Asked /\ TopIs({"recv", "error"})
                               /\ RunpodHolds(<<>>, <<Sent>>, <<>>, <<>>)
           /\ far.down # <<>> => Answered /\ \E a \in Answers : IsAnswer(a) /\ AtFar(a)
           /\ bridge.pc = "wait" /\ TopIs({"replied"}) =>
                 Answered /\ \E a \in Answers : IsAnswer(a) /\ AtTop(a)
           /\ near.down # <<>> => Answered /\ \E a \in Answers : IsAnswer(a) /\ AtNear(a)
  <1>0. TopIs({"look", "send", "recv", "error"}) => bridge.pc # "post"
    BY DEF OneExchange, TopIs, Ending
  <1>1. CASE Sent = Got /\ Sent = Seen /\ RunpodNothing /\ Settled /\ ~Carrying
    BY <1>1 DEF RunpodNothing, RunpodHolds, TopIs, Settled, Carrying
  <1>2. CASE Asked /\ RunpodGoing
    <2>1. CASE RunpodHolds(<<Sent>>, <<>>, <<>>, <<>>) /\ ~Carrying /\ Settled
      BY <1>2, <2>1 DEF RunpodHolds, TopIs, Settled, Carrying
    <2>2. CASE /\ RunpodHolds(<<>>, <<>>, <<>>, <<>>) /\ bridge.pc = "post"
               /\ bridge.frame = Sent /\ Settled
      BY <1>2, <2>2 DEF RunpodHolds, TopIs, Settled
    <2>3. CASE RunpodHolds(<<>>, <<>>, <<>>, <<>>) /\ TopIs({"look", "send"}) /\ Top.frame = Sent
      BY <1>0, <1>2, <2>3 DEF RunpodHolds, TopIs
    <2>4. CASE RunpodHolds(<<>>, <<Sent>>, <<>>, <<>>) /\ TopIs({"recv", "error"})
      BY <1>0, <1>2, <2>4 DEF RunpodHolds, TopIs
    <2> QED
      BY <1>2, <2>1, <2>2, <2>3, <2>4 DEF RunpodGoing
  <1>3. CASE Asked /\ RunpodNothing
    BY <1>3 DEF RunpodNothing, RunpodHolds, TopIs
  <1>4. CASE Answered /\ RunpodNothing
    BY <1>4 DEF RunpodNothing, RunpodHolds, TopIs
  <1>5. CASE Answered /\ RunpodComing
    <2>1. PICK a \in Answers : IsAnswer(a) /\ (AtFar(a) \/ AtTop(a) \/ AtNear(a))
      BY <1>5 DEF RunpodComing
    <2>2. CASE AtFar(a)
      BY <1>0, <1>5, <2>1, <2>2 DEF AtFar, RunpodHolds, TopIs
    <2>3. CASE AtTop(a)
      BY <1>5, <2>1, <2>3 DEF AtTop, RunpodHolds, TopIs
    <2>4. CASE AtNear(a)
      BY <1>5, <2>1, <2>4 DEF AtNear, RunpodHolds, TopIs, Settled, Carrying
    <2> QED
      BY <2>1, <2>2, <2>3, <2>4
  <1> QED
    BY <1>1, <1>2, <1>3, <1>4, <1>5 DEF RunpodPlace

LEMMA RunpodMeets ==
    ASSUME RunpodTypes, RunpodPlace, OneExchange
    PROVE  EndsMeet
  BY RunpodCases DEF EndsMeet, RunpodHolds, AtNear

\* The ends move; the bridge does not.
LEMMA RunpodClientSends ==
    ASSUME RunpodInv, ClientSend, UNCHANGED runpodVars
    PROVE  RunpodInv'
  <1>1. /\ EndTypes /\ EndsAgree /\ RunpodTypes /\ OneExchange /\ RunpodPlace /\ RunpodCalm
    BY DEF RunpodInv, RunpodTypes
  <1>2. /\ EndTypes' /\ EndsAgree'
        /\ ClientRuns /\ Sent = Got /\ Sent' = Sent + 1 /\ Sent' \in FrameNumbers
        /\ Got' = Got /\ Seen' = Seen /\ daemon' = daemon /\ far' = far
        /\ client'.result = client.result /\ sdk' = sdk /\ tunnel' = tunnel
        /\ near'.down = near.down /\ near'.downFin = near.downFin
        /\ near'.up = near.up \/ near'.up = Append(near.up, Sent')
    BY <1>1, ClientSends
  <1>3. /\ once' = once /\ bridge' = bridge /\ session' = session /\ threads' = threads
        /\ leaked' = leaked /\ httpFaults' = httpFaults
    BY DEF runpodVars
  <1>4. Sent = Seen /\ RunpodNothing /\ Settled /\ ~Carrying
    BY <1>1, <1>2, RunpodPlaces
  <1>5. near'.up = <<>> \/ near'.up = <<Sent'>>
    BY <1>2, <1>4, One DEF RunpodNothing, RunpodHolds
  <1>6. RunpodTypes' /\ OneExchange'
    BY <1>1, <1>2, <1>3 DEF RunpodTypes, OneExchange, Top, Ending
  <1>7. Asked'
    BY <1>2, <1>4 DEF Asked
  <1>8. Settled' /\ ~Carrying'
    BY <1>3, <1>4 DEF Settled, Carrying, Top
  <1>9. (RunpodGoing \/ RunpodNothing)'
    <2>1. CASE near'.up = <<>>
      BY <1>2, <1>3, <1>4, <2>1 DEF RunpodNothing, RunpodHolds, TopIs, Top
    <2>2. CASE near'.up = <<Sent'>>
      <3>1. RunpodHolds(<<Sent>>, <<>>, <<>>, <<>>)'
        BY <1>2, <1>4, <2>2 DEF RunpodNothing, RunpodHolds
      <3> QED
        BY <1>8, <3>1 DEF RunpodGoing
    <2> QED
      BY <1>5, <2>1, <2>2
  <1>10. ~daemon.committed
    BY <1>1, <1>2, EndFields, SMTT(30) DEF EndsAgree
  <1>11. RunpodCalm'
    BY <1>1, <1>2, <1>3, <1>10 DEF RunpodCalm, NoHttpFault, RunpodDrains, RunpodFailure,
       ClientRuns, Ending, TopIs, Top
  <1> QED
    BY <1>2, <1>6, <1>7, <1>9, <1>11 DEF RunpodInv, RunpodPlace

LEMMA RunpodClientReceives ==
    ASSUME RunpodInv, ClientReceive, UNCHANGED runpodVars
    PROVE  RunpodInv'
  <1>1. /\ EndTypes /\ EndsAgree /\ RunpodTypes /\ OneExchange /\ RunpodPlace /\ RunpodCalm
    BY DEF RunpodInv, RunpodTypes
  <1>2. /\ EndTypes' /\ EndsAgree'
        /\ ClientRuns /\ Answered /\ near.down # <<>>
        /\ Sent' = Sent /\ Got' = Sent /\ Seen' = Seen /\ daemon' = daemon /\ far' = far
        /\ client'.result \in {"none", "failed", "success"}
        /\ client'.result = "failed" => ~daemon.committed
        /\ client'.result = "none" => near'.downFin = near.downFin
        /\ sdk' = sdk /\ tunnel' = tunnel
        /\ near'.up = near.up /\ near'.down = <<>>
    BY <1>1, ClientReceives, RunpodMeets
  <1>3. /\ once' = once /\ bridge' = bridge /\ session' = session /\ threads' = threads
        /\ leaked' = leaked /\ httpFaults' = httpFaults
    BY DEF runpodVars
  <1>4. RunpodTypes' /\ OneExchange'
    BY <1>1, <1>2, <1>3 DEF RunpodTypes, OneExchange, Top, Ending
  <1>5. PICK a \in Answers : AtNear(a)
    BY <1>1, <1>2, RunpodCases
  <1>6. Settled' /\ ~Carrying'
    BY <1>3, <1>5 DEF AtNear, Settled, Carrying, Top
  <1>7. RunpodHolds(<<>>, <<>>, <<>>, <<>>)'
    BY <1>2, <1>5 DEF AtNear, RunpodHolds
  <1>8. RunpodNothing'
    BY <1>6, <1>7 DEF RunpodNothing, Carrying, Settled, TopIs
  <1>9. Sent' = Got' /\ Sent' = Seen'
    BY <1>2 DEF Answered
  <1>10. client'.result = "none" => ~daemon.committed
    BY <1>1, <1>2, <1>9, EndFields, SMTT(30) DEF EndsAgree, ClientRuns
  <1>11. RunpodCalm'
    BY <1>1, <1>2, <1>3, <1>9, <1>10 DEF RunpodCalm, NoHttpFault, RunpodDrains, RunpodFailure,
       ClientRuns, Ending, TopIs, Top
  <1> QED
    BY <1>2, <1>4, <1>6, <1>8, <1>9, <1>11 DEF RunpodInv, RunpodPlace

LEMMA RunpodClientStops ==
    ASSUME RunpodInv, ClientStop, UNCHANGED runpodVars
    PROVE  RunpodInv'
  <1>1. /\ EndTypes /\ EndsAgree /\ RunpodTypes /\ OneExchange /\ RunpodPlace /\ RunpodCalm
    BY DEF RunpodInv, RunpodTypes
  <1>2. /\ EndTypes' /\ EndsAgree'
        /\ ClientRuns /\ Sent' = Sent /\ Got' = Got /\ Seen' = Seen
        /\ daemon' = daemon /\ far' = far
        /\ client'.result \in {"failed", "killed"}
        /\ client'.result = "failed" => sdk \/ (Sent # Got /\ DownEnds(near))
        /\ sdk' = sdk /\ tunnel' = tunnel
        /\ near'.up = near.up /\ near'.down = near.down
    BY <1>1, ClientStops
  <1>3. /\ once' = once /\ bridge' = bridge /\ session' = session /\ threads' = threads
        /\ leaked' = leaked /\ httpFaults' = httpFaults
    BY DEF runpodVars
  <1>4. RunpodTypes' /\ OneExchange'
    BY <1>1, <1>2, <1>3 DEF RunpodTypes, OneExchange, Top, Ending
  <1>5. RunpodPlace'
    BY <1>1, <1>2, <1>3 DEF RunpodPlace, Asked, Answered, RunpodGoing, RunpodComing, RunpodNothing,
       RunpodHolds, IsAnswer, AtFar, AtTop, AtNear, TopIs, Top, Settled, Carrying
  <1>6. ASSUME NoHttpFault, client'.result = "failed"
        PROVE  ~daemon.committed /\ far.downFin /\ far.up = <<>> /\ bridge.pc # "open"
    <2>1. near.downFin
      BY <1>2, <1>6 DEF NoHttpFault, DownEnds
    <2>2. bridge.pc = "closed"
      BY <1>1, <1>2, <1>6, <2>1 DEF RunpodCalm, RunpodDrains
    <2> QED
      BY <1>1, <1>2, <1>6, <2>2 DEF RunpodCalm, RunpodDrains, Ending
  <1>7. RunpodCalm'
    BY <1>1, <1>2, <1>3, <1>6 DEF RunpodCalm, NoHttpFault, RunpodDrains, RunpodFailure, ClientRuns
  <1> QED
    BY <1>2, <1>4, <1>5, <1>7 DEF RunpodInv

LEMMA RunpodDaemonSteps ==
    ASSUME RunpodInv, DaemonStep, UNCHANGED runpodVars
    PROVE  RunpodInv'
  <1>1. /\ EndTypes /\ EndsAgree /\ RunpodTypes /\ OneExchange /\ RunpodPlace /\ RunpodCalm
    BY DEF RunpodInv, RunpodTypes
  <1>2. /\ EndTypes' /\ EndsAgree'
        /\ Asked /\ far.up = <<Sent>> /\ ~daemon.committed
        /\ Sent' = Sent /\ Got' = Got /\ Seen' = Sent /\ client' = client /\ near' = near
        /\ sdk' = sdk /\ tunnel' = tunnel
        /\ far'.up = <<>>
        /\ far.downFin => far'.downFin /\ far'.down = far.down
        /\ ~far.downFin => \E a \in Answers : IsAnswer(a)' /\ far'.down = Append(far.down, a)
    BY <1>1, DaemonSteps, RunpodMeets
  <1>3. /\ once' = once /\ bridge' = bridge /\ session' = session /\ threads' = threads
        /\ leaked' = leaked /\ httpFaults' = httpFaults
    BY DEF runpodVars
  <1>4. RunpodTypes' /\ OneExchange'
    BY <1>1, <1>2, <1>3 DEF RunpodTypes, OneExchange, Top, Ending
  <1>5. RunpodHolds(<<>>, <<Sent>>, <<>>, <<>>) /\ TopIs({"recv", "error"})
    <2>1. far.up # <<>>
      BY <1>2, One
    <2> QED
      BY <1>1, <2>1, RunpodCases
  <1>6. ASSUME ~far.downFin PROVE RunpodComing'
    <2>1. PICK a \in Answers : IsAnswer(a)' /\ far'.down = <<a>>
      BY <1>2, <1>5, <1>6, One DEF RunpodHolds
    <2>2. AtFar(a)'
      BY <1>2, <1>3, <1>5, <2>1 DEF AtFar, RunpodHolds, TopIs, Top
    <2> QED
      BY <2>1, <2>2 DEF RunpodComing
  <1>7. ASSUME far.downFin PROVE RunpodNothing'
    <2>1. bridge.pc # "post"
      BY <1>1, <1>5 DEF OneExchange, TopIs, Ending
    <2> QED
      BY <1>2, <1>3, <1>5, <1>7, <2>1 DEF RunpodNothing, RunpodHolds, TopIs, Top
  <1>8. far.up # <<>>
    BY <1>2, One
  <1>9. Answered'
    BY <1>2 DEF Answered, Asked
  <1>10. Sent # Got
    BY <1>1, <1>2, RunpodPlaces
  <1>11. RunpodCalm'
    BY <1>1, <1>2, <1>3, <1>6, <1>8, <1>10 DEF RunpodCalm, NoHttpFault, RunpodDrains, RunpodFailure,
       ClientRuns, Ending, TopIs, Top
  <1> QED
    BY <1>2, <1>4, <1>6, <1>7, <1>9, <1>11 DEF RunpodInv, RunpodPlace

LEMMA RunpodDaemonCloses ==
    ASSUME RunpodInv, DaemonHangsUp \/ DaemonKilled, UNCHANGED runpodVars
    PROVE  RunpodInv'
  <1>1. /\ EndTypes /\ EndsAgree /\ RunpodTypes /\ OneExchange /\ RunpodPlace /\ RunpodCalm
    BY DEF RunpodInv, RunpodTypes
  <1>2. /\ EndTypes' /\ EndsAgree'
        /\ UNCHANGED <<tunnel, sdk, client, daemon, near>>
        /\ far'.up = <<>> /\ far'.down = far.down /\ far'.downFin = TRUE
    BY <1>1, DaemonCloses
  <1>3. /\ once' = once /\ bridge' = bridge /\ session' = session /\ threads' = threads
        /\ leaked' = leaked /\ httpFaults' = httpFaults
    BY DEF runpodVars
  <1>4. RunpodTypes' /\ OneExchange'
    BY <1>1, <1>2, <1>3 DEF RunpodTypes, OneExchange, Top, Ending
  <1>5. RunpodGoing => (RunpodGoing \/ RunpodNothing)'
    <2>1. CASE far.up = <<>>
      BY <1>2, <1>3, <2>1 DEF RunpodGoing, RunpodHolds, TopIs, Top, Settled, Carrying, Sent
    <2>2. CASE far.up # <<>>
      <3> SUFFICES ASSUME RunpodGoing PROVE RunpodNothing'
        OBVIOUS
      <3>1. RunpodHolds(<<>>, <<Sent>>, <<>>, <<>>) /\ TopIs({"recv", "error"})
        BY <1>1, <2>2, RunpodCases
      <3>2. bridge.pc # "post"
        BY <1>1, <3>1 DEF OneExchange, TopIs, Ending
      <3> QED
        BY <1>2, <1>3, <3>1, <3>2 DEF RunpodNothing, RunpodHolds, TopIs, Top
    <2> QED
      BY <2>1, <2>2
  <1>6. /\ RunpodComing => RunpodComing'
        /\ RunpodNothing => RunpodNothing'
        /\ Settled' = Settled /\ Carrying' = Carrying
    BY <1>2, <1>3 DEF RunpodComing, RunpodNothing, RunpodHolds, IsAnswer, AtFar, AtTop, AtNear, TopIs,
       Top, Settled, Carrying, Sent
  <1>7. Sent' = Sent /\ Got' = Got /\ ClientRuns' = ClientRuns
    BY <1>1, <1>2, EndsUnchanged
  <1>8. RunpodCalm'
    BY <1>1, <1>2, <1>3, <1>6, <1>7 DEF RunpodCalm, NoHttpFault, RunpodDrains, RunpodFailure,
       Ending, TopIs, Top
  <1>9. RunpodPlace'
    <2>1. Asked' = Asked /\ Answered' = Answered /\ Seen' = Seen
      BY <1>1, <1>2, EndsUnchanged
    <2> QED
      BY <1>1, <1>5, <1>6, <1>7, <2>1 DEF RunpodPlace
  <1> QED
    BY <1>2, <1>4, <1>8, <1>9 DEF RunpodInv

\* What a step between the ends has to keep.
LEMMA RunpodMoves ==
    ASSUME RunpodInv, UNCHANGED <<tunnel, sdk, client, daemon>>,
           RunpodTypes', OneExchange',
           (RunpodGoing \/ RunpodNothing)' \/ ~Asked,
           (RunpodComing \/ RunpodNothing)' \/ ~Answered,
           Sent = Got => (RunpodNothing /\ Settled /\ ~Carrying)',
           RunpodCalm'
    PROVE  RunpodInv'
  <1>1. /\ EndsAgree' /\ Sent' = Sent /\ Got' = Got /\ Seen' = Seen
        /\ Asked' = Asked /\ Answered' = Answered
    BY EndsUnchanged DEF RunpodInv
  <1> QED
    BY <1>1 DEF RunpodInv, RunpodPlace

\* The bridge goes on to another point of handle_local_client.
LEMMA BridgeFields ==
    ASSUME RunpodTypes,
           NEW pc \in {"open", "read", "post", "wait", "close", "closed", "raised"}, BridgeGoto(pc)
    PROVE  /\ bridge'.pc = pc /\ bridge'.frame = bridge.frame
           /\ bridge' \in [pc : {"open", "read", "post", "wait", "close", "closed", "raised"},
                           frame : FrameNumbers \cup {0}]
  BY DEF BridgeGoto, RunpodTypes

\* A fault is one less.
LEMMA FaultCount ==
    ASSUME RunpodTypes, HttpFault
    PROVE  httpFaults' \in 0 .. HttpFaults /\ ~NoHttpFault'
  <1>1. httpFaults' \in 0 .. HttpFaults /\ httpFaults' # HttpFaults
    BY HttpAssumption, SMTT(30) DEF RunpodTypes, HttpFault
  <1> QED
    BY <1>1 DEF NoHttpFault

LEMMA RunpodOpens ==
    ASSUME RunpodInv, OpenRemoteSession
    PROVE  RunpodInv'
  <1>1. /\ EndTypes /\ EndsAgree /\ RunpodTypes /\ OneExchange /\ RunpodPlace /\ RunpodCalm
        /\ near \in Sockets /\ far \in Sockets
    BY DEF RunpodInv, RunpodTypes, EndTypes
  <1>2. bridge.pc = "open" /\ UNCHANGED <<tunnel, sdk, client, daemon, once, threads>>
    BY ZenonT(60) DEF OpenRemoteSession, BridgeAt
  <1>3. /\ Sent' = Sent /\ Got' = Got /\ Seen' = Seen /\ Asked' = Asked /\ Answered' = Answered
        /\ ClientRuns' = ClientRuns /\ \A a \in Answers : IsAnswer(a)' = IsAnswer(a)
    BY <1>1, <1>2, EndsUnchanged
  <1>4. Settled /\ ~TopIs({"look", "send", "recv", "error"})
    BY <1>1, <1>2 DEF OneExchange, Ending, Settled, TopIs
  <1>5. far.up = <<>> /\ far.down = <<>>
    BY <1>1, <1>4, RunpodCases DEF AtFar, TopIs
  <1>6. /\ near'.up = near.up /\ near'.down = near.down /\ far'.up = <<>> /\ far'.down = <<>>
        /\ near' \in Sockets /\ far' \in Sockets
        /\ near'.upFin = near'.downFin /\ far'.upFin = far'.downFin
        /\ session' \in {"none", "open", "closed"} /\ leaked' \in BOOLEAN
        /\ bridge'.pc \in {"read", "raised"}
        /\ bridge' \in [pc : {"open", "read", "post", "wait", "close", "closed", "raised"},
                        frame : FrameNumbers \cup {0}]
        /\ httpFaults' \in 0 .. HttpFaults
        /\ NoHttpFault' => /\ NoHttpFault /\ session' = "open" /\ bridge'.pc = "read"
                           /\ near' = near
    <2>1. CASE OpenSession /\ BridgeGoto("read") /\ NoFault /\ UNCHANGED <<near, leaked>>
      <3>1. bridge'.pc = "read" /\ bridge' \in [pc : {"open", "read", "post", "wait", "close",
                 "closed", "raised"}, frame : FrameNumbers \cup {0}]
        BY <1>1, <2>1, BridgeFields
      <3> QED
        BY <1>1, <1>2, <2>1, <3>1, ConnectedFields DEF OpenSession, NoFault, RunpodTypes, EndTypes,
           NoHttpFault
    <2>2. CASE /\ HttpFault /\ BridgeGoto("raised")
               /\ near' = IF once THEN Shut(near) ELSE near
               /\ UNCHANGED <<session, far, leaked>> \/ (OpenSession /\ leaked' = TRUE)
      <3>1. bridge'.pc = "raised" /\ bridge' \in [pc : {"open", "read", "post", "wait", "close",
                 "closed", "raised"}, frame : FrameNumbers \cup {0}]
        BY <1>1, <2>2, BridgeFields
      <3>2. httpFaults' \in 0 .. HttpFaults /\ ~NoHttpFault'
        BY <1>1, <2>2, FaultCount
      <3>3. /\ near' \in Sockets /\ near'.up = near.up /\ near'.down = near.down
            /\ near'.upFin = near'.downFin
        BY <1>1, <2>2, ShutFields DEF EndTypes
      <3>4. /\ far' \in Sockets /\ far'.up = <<>> /\ far'.down = <<>> /\ far'.upFin = far'.downFin
            /\ session' \in {"none", "open", "closed"} /\ leaked' \in BOOLEAN
        BY <1>1, <1>5, <2>2, ConnectedFields DEF OpenSession, RunpodTypes, EndTypes
      <3> QED
        BY <3>1, <3>2, <3>3, <3>4
    <2> QED
      BY <2>1, <2>2 DEF OpenRemoteSession
  <1>7. RunpodTypes' /\ OneExchange'
    BY <1>1, <1>2, <1>4, <1>6 DEF RunpodTypes, EndTypes, OneExchange, Top, Ending, TopIs
  <1>8. Settled' /\ ~Carrying' /\ ~TopIs({"look", "send", "recv", "error"})'
    BY <1>2, <1>4, <1>6 DEF Settled, Carrying, Top, TopIs
  <1>9. \A a \in Answers : AtNear(a) => AtNear(a)'
    BY <1>6, <1>8 DEF AtNear, RunpodHolds
  <1>10. RunpodComing => RunpodComing'
    BY <1>2, <1>3, <1>4, <1>9 DEF RunpodComing, AtFar, AtTop, TopIs
  <1>11. RunpodNothing => RunpodNothing'
    BY <1>6, <1>8 DEF RunpodNothing, RunpodHolds, Carrying, TopIs
  <1>12. RunpodGoing => RunpodGoing'
    BY <1>2, <1>3, <1>4, <1>6, <1>8 DEF RunpodGoing, RunpodHolds, TopIs
  <1>13. RunpodCalm'
    BY <1>1, <1>2, <1>3, <1>6, <1>8, <1>10 DEF RunpodCalm, RunpodDrains, RunpodFailure, Ending,
       TopIs
  <1> QED
    BY <1>1, <1>2, <1>7, <1>8, <1>10, <1>11, <1>12, <1>13, RunpodPlaces, RunpodMoves

\* The bridge reads a frame of the client.
LEMMA RunpodReads ==
    ASSUME RunpodInv, ReadLocalFrame, near.up # <<>>
    PROVE  RunpodInv'
  <1>1. /\ EndTypes /\ EndsAgree /\ RunpodTypes /\ OneExchange /\ RunpodPlace /\ RunpodCalm
        /\ near \in Sockets /\ far \in Sockets
    BY DEF RunpodInv, RunpodTypes, EndTypes
  <1>2. /\ bridge.pc = "read"
        /\ bridge' = [pc |-> "post", frame |-> Head(near.up)]
        /\ near' = [near EXCEPT !.up = Tail(@)]
        /\ UNCHANGED <<tunnel, sdk, client, daemon, far, once, session, threads, leaked, httpFaults>>
    BY ZenonT(60) DEF ReadLocalFrame, BridgeAt, UpEnds
  <1>3. /\ Sent' = Sent /\ Got' = Got /\ Seen' = Seen /\ Asked' = Asked /\ Answered' = Answered
        /\ ClientRuns' = ClientRuns /\ \A a \in Answers : IsAnswer(a)' = IsAnswer(a)
    BY <1>1, <1>2, EndsUnchanged
  <1>4. Asked /\ Settled /\ RunpodHolds(<<Sent>>, <<>>, <<>>, <<>>) /\ ~Answered /\ Sent # Got
    BY <1>1, RunpodCases, RunpodPlaces
  <1>5. Head(near.up) = Sent /\ Tail(near.up) = <<>> /\ Sent \in FrameNumbers
    <2>1. Head(near.up) \in FrameNumbers
      BY <1>1, TakeUpFields
    <2> QED
      BY <1>4, <2>1, One DEF RunpodHolds
  <1>6. /\ near' \in Sockets /\ near'.up = <<>> /\ near'.down = near.down
        /\ near'.upFin = near.upFin /\ near'.downFin = near.downFin
    BY <1>1, <1>2, <1>5, TakeUpFields
  <1>7. /\ bridge'.pc = "post" /\ bridge'.frame = Sent
        /\ bridge' \in [pc : {"open", "read", "post", "wait", "close", "closed", "raised"},
                        frame : FrameNumbers \cup {0}]
    BY <1>2, <1>5
  <1>8. RunpodTypes' /\ OneExchange'
    BY <1>1, <1>2, <1>6, <1>7 DEF RunpodTypes, EndTypes, OneExchange, Top, Ending
  <1>9. RunpodGoing'
    <2>1. RunpodHolds(<<>>, <<>>, <<>>, <<>>)' /\ Settled'
      BY <1>2, <1>4, <1>6 DEF RunpodHolds, Settled, Top
    <2> QED
      BY <1>3, <1>7, <2>1 DEF RunpodGoing
  <1>10. ~daemon.committed
    BY <1>1, <1>4, EndFields, SMTT(30) DEF EndsAgree, Asked
  <1>11. RunpodCalm'
    BY <1>1, <1>2, <1>3, <1>6, <1>7, <1>10 DEF RunpodCalm, NoHttpFault, RunpodDrains, RunpodFailure,
       Ending, TopIs, Top
  <1> QED
    BY <1>2, <1>4, <1>8, <1>9, <1>11, RunpodMoves

\* The bridge gives up: at the end of the client's frames, after an error or
\* after a fault.
GivesUp ==
    /\ bridge.pc \in {"read", "post", "wait"} /\ BridgeGoto("close")
    /\ bridge.pc = "read" /\ NoFault => near.downFin
    /\ bridge.pc = "post" => HttpFault
    /\ bridge.pc = "wait" /\ NoFault => TopIs({"error"})
    /\ NoFault \/ HttpFault
    /\ UNCHANGED <<endVars, once, session, threads, leaked>>

LEMMA RunpodGivesUp ==
    ASSUME RunpodInv, GivesUp
    PROVE  RunpodInv'
  <1>1. /\ EndTypes /\ EndsAgree /\ RunpodTypes /\ OneExchange /\ RunpodPlace /\ RunpodCalm
    BY DEF RunpodInv, RunpodTypes
  <1>2. /\ bridge.pc \in {"read", "post", "wait"}
        /\ UNCHANGED <<tunnel, sdk, client, daemon, near, far, once, session, threads, leaked>>
    BY ZenonT(60) DEF GivesUp, endVars
  <1>3. /\ Sent' = Sent /\ Got' = Got /\ Seen' = Seen /\ Asked' = Asked /\ Answered' = Answered
        /\ ClientRuns' = ClientRuns /\ \A a \in Answers : IsAnswer(a)' = IsAnswer(a)
    BY <1>1, <1>2, EndsUnchanged
  <1>4. /\ bridge'.pc = "close"
        /\ bridge' \in [pc : {"open", "read", "post", "wait", "close", "closed", "raised"},
                        frame : FrameNumbers \cup {0}]
    BY <1>1, BridgeFields DEF GivesUp
  <1>5. httpFaults' \in 0 .. HttpFaults /\ (NoHttpFault' => NoHttpFault /\ NoFault)
    <2>1. CASE NoFault
      BY <1>1, <1>2, <2>1 DEF NoFault, RunpodTypes, NoHttpFault
    <2>2. CASE HttpFault
      BY <1>1, <2>2, FaultCount
    <2> QED
      BY <2>1, <2>2 DEF GivesUp
  <1>6. RunpodTypes' /\ OneExchange'
    BY <1>1, <1>2, <1>4, <1>5 DEF RunpodTypes, EndTypes, OneExchange, Top, Ending
  <1>7. /\ Settled' = Settled /\ ~Carrying' /\ \A S : TopIs(S)' = TopIs(S)
        /\ \A a, b, c, d : RunpodHolds(a, b, c, d)' = RunpodHolds(a, b, c, d)
        /\ Top' = Top
    BY <1>2, <1>4 DEF Settled, Carrying, TopIs, Top, RunpodHolds
  <1>8. RunpodNothing => RunpodNothing'
    BY <1>4, <1>7 DEF RunpodNothing
  <1>9. RunpodGoing => (RunpodGoing \/ RunpodNothing)'
    <2>1. CASE RunpodHolds(<<Sent>>, <<>>, <<>>, <<>>) /\ ~Carrying /\ Settled
      BY <1>3, <1>7, <2>1 DEF RunpodGoing
    <2>2. CASE /\ RunpodHolds(<<>>, <<>>, <<>>, <<>>) /\ bridge.pc = "post"
               /\ bridge.frame = Sent /\ Settled
      BY <1>4, <1>7, <2>2 DEF RunpodNothing, Settled, TopIs
    <2>3. CASE RunpodHolds(<<>>, <<>>, <<>>, <<>>) /\ TopIs({"look", "send"}) /\ Top.frame = Sent
      BY <1>3, <1>7, <2>3 DEF RunpodGoing
    <2>4. CASE RunpodHolds(<<>>, <<Sent>>, <<>>, <<>>) /\ TopIs({"recv", "error"})
      BY <1>3, <1>7, <2>4 DEF RunpodGoing
    <2> QED
      BY <2>1, <2>2, <2>3, <2>4 DEF RunpodGoing
  <1>10. RunpodComing => (RunpodComing \/ RunpodNothing)'
    <2> SUFFICES ASSUME NEW a \in Answers, IsAnswer(a), AtFar(a) \/ AtTop(a) \/ AtNear(a)
                 PROVE  (RunpodComing \/ RunpodNothing)'
      BY DEF RunpodComing
    <2>1. CASE AtFar(a)
      <3>1. AtFar(a)'
        BY <1>7, <2>1 DEF AtFar
      <3> QED
        BY <1>3, <3>1 DEF RunpodComing
    <2>2. CASE AtTop(a)
      BY <1>4, <1>7, <2>2 DEF AtTop, RunpodNothing, TopIs
    <2>3. CASE AtNear(a)
      <3>1. AtNear(a)'
        BY <1>7, <2>3 DEF AtNear
      <3> QED
        BY <1>3, <3>1 DEF RunpodComing
    <2> QED
      BY <2>1, <2>2, <2>3
  <1>11. ASSUME NoHttpFault', ClientRuns PROVE far.downFin /\ ~daemon.committed /\ ~near.downFin
    <2>1. ~near.downFin
      BY <1>1, <1>2, <1>5, <1>11 DEF RunpodCalm, RunpodDrains
    <2>2. bridge.pc = "wait" /\ TopIs({"error"})
      <3>1. bridge.pc # "read"
        BY <1>5, <1>11, <2>1 DEF GivesUp
      <3>2. bridge.pc # "post"
        BY <1>1, <1>11, FaultCount DEF GivesUp
      <3> QED
        BY <1>2, <1>5, <1>11, <3>1, <3>2 DEF GivesUp
    <2> QED
      BY <1>1, <1>5, <1>11, <2>1, <2>2 DEF RunpodCalm, RunpodDrains
  <1>12. RunpodCalm'
    BY <1>1, <1>2, <1>3, <1>4, <1>5, <1>11 DEF RunpodCalm, RunpodDrains, RunpodFailure
  <1> QED
    BY <1>1, <1>2, <1>6, <1>7, <1>8, <1>9, <1>10, <1>12, RunpodPlaces, RunpodMoves

\* The finally block of handle_local_client.
LEMMA RunpodCloses ==
    ASSUME RunpodInv, CloseRemoteSession
    PROVE  RunpodInv'
  <1>1. /\ EndTypes /\ EndsAgree /\ RunpodTypes /\ OneExchange /\ RunpodPlace /\ RunpodCalm
        /\ near \in Sockets /\ far \in Sockets
    BY DEF RunpodInv, RunpodTypes, EndTypes
  <1>2. /\ bridge.pc = "close" /\ BridgeGoto("closed") /\ near' = Shut(near)
        /\ UNCHANGED <<tunnel, sdk, client, daemon, once, threads>>
        /\ \/ session' = "closed" /\ far' = Shut(far) /\ NoFault /\ UNCHANGED leaked
           \/ HttpFault /\ leaked' = TRUE /\ UNCHANGED <<session, far>>
    BY ZenonT(60) DEF CloseRemoteSession, BridgeAt
  <1>3. /\ Sent' = Sent /\ Got' = Got /\ Seen' = Seen /\ Asked' = Asked /\ Answered' = Answered
        /\ ClientRuns' = ClientRuns /\ \A a \in Answers : IsAnswer(a)' = IsAnswer(a)
    BY <1>1, <1>2, EndsUnchanged
  <1>4. /\ bridge'.pc = "closed"
        /\ bridge' \in [pc : {"open", "read", "post", "wait", "close", "closed", "raised"},
                        frame : FrameNumbers \cup {0}]
    BY <1>1, <1>2, BridgeFields
  <1>5. /\ near' \in Sockets /\ near'.up = near.up /\ near'.down = near.down
        /\ near'.upFin = TRUE /\ near'.downFin = TRUE
    BY <1>1, <1>2, ShutFields
  <1>6. /\ far' \in Sockets /\ far'.up = far.up /\ far'.down = far.down
        /\ far'.upFin = far'.downFin /\ (far.downFin => far'.downFin)
        /\ session' \in {"none", "open", "closed"} /\ leaked' \in BOOLEAN
        /\ httpFaults' \in 0 .. HttpFaults /\ (NoHttpFault' => NoHttpFault)
    <2>1. CASE session' = "closed" /\ far' = Shut(far) /\ NoFault /\ UNCHANGED leaked
      BY <1>1, <1>2, <2>1, ShutFields DEF NoFault, RunpodTypes, NoHttpFault
    <2>2. CASE HttpFault /\ leaked' = TRUE /\ UNCHANGED <<session, far>>
      BY <1>1, <2>2, FaultCount DEF RunpodTypes, EndTypes
    <2> QED
      BY <1>2, <2>1, <2>2
  <1>7. RunpodTypes' /\ OneExchange'
    BY <1>1, <1>2, <1>4, <1>5, <1>6 DEF RunpodTypes, EndTypes, OneExchange, Top, Ending
  <1>8. /\ Settled' = Settled /\ ~Carrying' /\ ~Carrying /\ \A S : TopIs(S)' = TopIs(S)
        /\ \A a, b, c, d : RunpodHolds(a, b, c, d)' = RunpodHolds(a, b, c, d)
        /\ Top' = Top
    BY <1>2, <1>4, <1>5, <1>6 DEF Settled, Carrying, TopIs, Top, RunpodHolds
  <1>9. RunpodNothing => RunpodNothing'
    BY <1>4, <1>8 DEF RunpodNothing
  <1>10. RunpodGoing => RunpodGoing'
    BY <1>2, <1>3, <1>8 DEF RunpodGoing
  <1>11. RunpodComing => RunpodComing'
    BY <1>2, <1>3, <1>8 DEF RunpodComing, AtFar, AtTop, AtNear
  <1>12. RunpodCalm'
    BY <1>1, <1>2, <1>3, <1>4, <1>6, <1>8, <1>11 DEF RunpodCalm, RunpodDrains, RunpodFailure, Ending
  <1> QED
    BY <1>1, <1>2, <1>7, <1>8, <1>9, <1>10, <1>11, <1>12, RunpodPlaces, RunpodMoves

\* The bridge posts its frame: a thread of the server takes it up.
LEMMA RunpodPosts ==
    ASSUME RunpodInv, bridge.pc = "post", BridgeGoto("wait"), NoFault,
           threads' = Append(threads, [pc |-> "look", frame |-> bridge.frame, answer |-> 0]),
           UNCHANGED <<endVars, once, session, leaked>>
    PROVE  RunpodInv'
  <1>1. /\ EndTypes /\ EndsAgree /\ RunpodTypes /\ OneExchange /\ RunpodPlace /\ RunpodCalm
        /\ threads \in Seq(ThreadTypes)
    BY DEF RunpodInv, RunpodTypes
  <1>2. UNCHANGED <<tunnel, sdk, client, daemon, near, far, once, session, leaked, httpFaults>>
    BY ZenonT(60) DEF endVars, NoFault
  <1>3. /\ Sent' = Sent /\ Got' = Got /\ Seen' = Seen /\ Asked' = Asked /\ Answered' = Answered
        /\ ClientRuns' = ClientRuns /\ \A a \in Answers : IsAnswer(a)' = IsAnswer(a)
    BY <1>1, <1>2, EndsUnchanged
  <1>4. /\ bridge'.pc = "wait"
        /\ bridge' \in [pc : {"open", "read", "post", "wait", "close", "closed", "raised"},
                        frame : FrameNumbers \cup {0}]
    BY <1>1, BridgeFields
  <1>5. /\ Asked /\ bridge.frame = Sent /\ RunpodHolds(<<>>, <<>>, <<>>, <<>>)
        /\ ~Answered /\ Sent # Got
    BY <1>1, RunpodCases, RunpodPlaces
  <1>6. Sent \in FrameNumbers
    BY <1>1, <1>5, EndFields, SMTT(30) DEF Asked, FrameNumbers
  <1>7. PICK t \in ThreadTypes : threads' = Append(threads, t) /\ t.pc = "look" /\ t.frame = Sent
    <2> DEFINE t == [pc |-> "look", frame |-> Sent, answer |-> 0]
    <2>1. t \in ThreadTypes
      BY <1>6, ZenonT(60) DEF ThreadTypes
    <2>2. t.pc = "look" /\ t.frame = Sent
      OBVIOUS
    <2>3. threads' = Append(threads, t)
      BY <1>5
    <2> QED
      BY <2>1, <2>2, <2>3, ZenonT(60)
  <1>8. /\ threads' \in Seq(ThreadTypes) /\ threads' # <<>> /\ Len(threads') = Len(threads) + 1
        /\ threads'[Len(threads) + 1] = t
        /\ \A i \in 1 .. Len(threads) : threads'[i] = threads[i]
    BY <1>1, <1>7, SMTT(30)
  <1>9. Top' = t
    BY <1>8 DEF Top
  <1>10. \A i \in 1 .. Len(threads) : threads[i].pc = "replied"
    <2> SUFFICES ASSUME NEW i \in 1 .. Len(threads) PROVE threads[i].pc = "replied"
      OBVIOUS
    <2>1. CASE i = Len(threads)
      <3>1. threads # <<>>
        BY <1>1, <2>1, SMTT(30)
      <3> QED
        BY <1>1, <2>1, <3>1 DEF OneExchange, Ending, Top
    <2>2. CASE i # Len(threads)
      <3>1. i \in 1 .. Len(threads) - 1
        BY <1>1, <2>2, SMTT(30)
      <3> QED
        BY <1>1, <3>1 DEF OneExchange
    <2> QED
      BY <2>1, <2>2
  <1>11. OneExchange'
    <2>1. Len(threads') - 1 = Len(threads)
      BY <1>1, <1>8, SMTT(30)
    <2> QED
      BY <1>4, <1>8, <1>10, <2>1 DEF OneExchange
  <1>12. RunpodTypes'
    BY <1>1, <1>2, <1>4, <1>8 DEF RunpodTypes, EndTypes
  <1>13. RunpodGoing'
    <2>1. RunpodHolds(<<>>, <<>>, <<>>, <<>>)'
      BY <1>2, <1>5 DEF RunpodHolds
    <2> QED
      BY <1>3, <1>7, <1>8, <1>9, <2>1 DEF RunpodGoing, TopIs
  <1>14. ~daemon.committed
    BY <1>1, <1>5, EndFields, SMTT(30) DEF EndsAgree, Asked
  <1>15. RunpodCalm'
    BY <1>1, <1>2, <1>3, <1>4, <1>7, <1>9, <1>14 DEF RunpodCalm, NoHttpFault, RunpodDrains,
       RunpodFailure, Ending, TopIs
  <1> QED
    BY <1>2, <1>5, <1>11, <1>12, <1>13, <1>15, RunpodMoves

\* The bridge writes the answer to the client, who may be gone.
LEMMA RunpodAnswers ==
    ASSUME RunpodInv, bridge.pc = "wait", TopIs({"replied"}), NoFault,
           near' = SendDown(near, Top.answer),
           BridgeGoto("read") \/ (near.downFin /\ BridgeGoto("close")),
           UNCHANGED <<tunnel, sdk, client, daemon, far, once, session, threads, leaked>>
    PROVE  RunpodInv'
  <1>1. /\ EndTypes /\ EndsAgree /\ RunpodTypes /\ OneExchange /\ RunpodPlace /\ RunpodCalm
        /\ near \in Sockets
    BY DEF RunpodInv, RunpodTypes, EndTypes
  <1>2. UNCHANGED <<tunnel, sdk, client, daemon, far, once, session, threads, leaked, httpFaults>>
    BY ZenonT(60) DEF NoFault
  <1>3. /\ Sent' = Sent /\ Got' = Got /\ Seen' = Seen /\ Asked' = Asked /\ Answered' = Answered
        /\ ClientRuns' = ClientRuns /\ \A a \in Answers : IsAnswer(a)' = IsAnswer(a)
    BY <1>1, <1>2, EndsUnchanged
  <1>4. /\ bridge'.pc \in {"read", "close"} /\ (bridge'.pc = "close" => near.downFin)
        /\ bridge' \in [pc : {"open", "read", "post", "wait", "close", "closed", "raised"},
                        frame : FrameNumbers \cup {0}]
    <2>1. CASE BridgeGoto("read")
      BY <1>1, <2>1, BridgeFields
    <2>2. CASE near.downFin /\ BridgeGoto("close")
      BY <1>1, <2>2, BridgeFields
    <2> QED
      BY <2>1, <2>2
  <1>5. PICK a \in Answers : IsAnswer(a) /\ AtTop(a)
    BY <1>1, RunpodCases
  <1>6. Answered /\ ~Asked /\ Sent # Got
    BY <1>1, RunpodCases, RunpodPlaces
  <1>7. /\ near' \in Sockets /\ near'.up = near.up /\ near'.upFin = near.upFin
        /\ near'.downFin = near.downFin
        /\ near.downFin => near'.down = <<>>
        /\ ~near.downFin => near'.down = <<a>>
    <2>1. near' = SendDown(near, a) /\ near.down = <<>>
      BY <1>5 DEF AtTop, RunpodHolds
    <2> QED
      BY <1>1, <2>1, SendDownFields, One
  <1>8. RunpodTypes' /\ OneExchange'
    BY <1>1, <1>2, <1>4, <1>7 DEF RunpodTypes, EndTypes, OneExchange, Top, Ending, TopIs
  <1>9. Settled' /\ ~Carrying' /\ TopIs({"replied"})'
    BY <1>2, <1>4 DEF Settled, Carrying, TopIs, Top
  <1>10. near.downFin => RunpodNothing'
    <2>1. near.downFin => RunpodHolds(<<>>, <<>>, <<>>, <<>>)'
      BY <1>2, <1>5, <1>7 DEF AtTop, RunpodHolds
    <2> QED
      BY <1>4, <1>9, <2>1 DEF RunpodNothing, TopIs
  <1>11. ~near.downFin => RunpodComing'
    <2>1. ~near.downFin => AtNear(a)'
      BY <1>2, <1>5, <1>7, <1>9 DEF AtTop, AtNear, RunpodHolds
    <2> QED
      BY <1>3, <1>5, <2>1 DEF RunpodComing
  <1>12. NoHttpFault /\ ClientRuns => ~near.downFin
    BY <1>1 DEF RunpodCalm, RunpodDrains
  <1>13. RunpodCalm'
    BY <1>1, <1>2, <1>3, <1>4, <1>7, <1>9, <1>11, <1>12 DEF RunpodCalm, NoHttpFault, RunpodDrains,
       RunpodFailure, Ending, TopIs
  <1> QED
    BY <1>2, <1>6, <1>8, <1>10, <1>11, <1>13, RunpodMoves

\* A thread of the server goes on: it is the last one.
LEMMA ThreadMoves ==
    ASSUME RunpodTypes, OneExchange, NEW i \in 1 .. Len(threads), threads[i].pc # "replied",
           NEW pc \in {"look", "send", "recv", "replied", "error"}, NEW x \in Answers \cup {0},
           ThreadTo(i, pc, x)
    PROVE  /\ threads # <<>> /\ threads[i] = Top /\ (bridge.pc = "wait" \/ Ending)
           /\ threads' \in Seq(ThreadTypes) /\ threads' # <<>>
           /\ Len(threads') = Len(threads)
           /\ \A j \in 1 .. Len(threads) - 1 : threads'[j].pc = "replied"
           /\ Top'.pc = pc /\ Top'.answer = x /\ Top'.frame = Top.frame
  <1>1. threads \in Seq(ThreadTypes)
    BY DEF RunpodTypes
  <1>2. i = Len(threads)
    <2>1. i \notin 1 .. Len(threads) - 1
      BY DEF OneExchange
    <2> QED
      BY <1>1, <2>1, SMTT(30)
  <1>3. threads # <<>> /\ threads[i] = Top /\ Top \in ThreadTypes
    BY <1>1, <1>2, SMTT(30) DEF Top
  <1>4. bridge.pc = "wait" \/ Ending
    BY <1>3 DEF OneExchange
  <1> DEFINE t == [Top EXCEPT !.pc = pc, !.answer = x]
  <1>5. t \in ThreadTypes
    BY <1>3 DEF ThreadTypes
  <1>6. t.pc = pc /\ t.answer = x /\ t.frame = Top.frame
    BY <1>3 DEF ThreadTypes
  <1>7. threads' = [threads EXCEPT ![i] = t]
    BY <1>3, ZenonT(60) DEF ThreadTo
  <1> HIDE DEF t
  <1>8. /\ threads' \in Seq(ThreadTypes) /\ Len(threads') = Len(threads)
        /\ threads'[Len(threads)] = t
        /\ \A j \in 1 .. Len(threads) - 1 : threads'[j] = threads[j]
    BY <1>1, <1>2, <1>5, <1>7, SMTT(30)
  <1>9. threads' # <<>>
    BY <1>1, <1>3, <1>8, SMTT(30)
  <1>10. Top' = t
    BY <1>8 DEF Top
  <1>11. \A j \in 1 .. Len(threads) - 1 : threads'[j].pc = "replied"
    BY <1>8 DEF OneExchange
  <1> QED
    BY <1>3, <1>4, <1>6, <1>8, <1>9, <1>10, <1>11

\* What is left to show of the step of a thread.
LEMMA RunpodThread ==
    ASSUME RunpodInv, NEW i \in 1 .. Len(threads), threads[i].pc # "replied",
           NEW pc \in {"send", "recv", "replied", "error"}, NEW x \in Answers \cup {0},
           ThreadTo(i, pc, x),
           UNCHANGED <<tunnel, sdk, client, daemon, near, once, bridge, session, leaked>>,
           far' \in Sockets, far'.upFin = far'.downFin, far'.downFin = far.downFin,
           far.downFin /\ far.up = <<>> => far'.up = <<>>,
           httpFaults' \in 0 .. HttpFaults, NoHttpFault' => NoHttpFault,
           Asked => (RunpodGoing \/ RunpodNothing)',
           Answered => (RunpodComing \/ RunpodNothing)',
           Asked \/ Answered,
           NoHttpFault' /\ ClientRuns /\ daemon.committed => RunpodComing' /\ pc # "error",
           NoHttpFault' /\ ClientRuns /\ pc = "error" => far.downFin
    PROVE  RunpodInv'
  <1>1. /\ EndTypes /\ EndsAgree /\ RunpodTypes /\ OneExchange /\ RunpodPlace /\ RunpodCalm
    BY DEF RunpodInv, RunpodTypes
  <1>2. /\ threads' \in Seq(ThreadTypes) /\ threads' # <<>> /\ Len(threads') = Len(threads)
        /\ (bridge.pc = "wait" \/ Ending)
        /\ \A j \in 1 .. Len(threads) - 1 : threads'[j].pc = "replied"
        /\ Top'.pc = pc
    BY <1>1, ThreadMoves
  <1>3. /\ Sent' = Sent /\ Got' = Got /\ ClientRuns' = ClientRuns /\ Ending' = Ending
    BY <1>1, EndsUnchanged DEF Ending
  <1>4. OneExchange'
    BY <1>2, <1>3 DEF OneExchange
  <1>5. RunpodTypes'
    BY <1>1, <1>2 DEF RunpodTypes, EndTypes
  <1>6. Sent # Got
    BY <1>1, RunpodPlaces
  <1>7. RunpodCalm'
    BY <1>1, <1>2, <1>3 DEF RunpodCalm, RunpodDrains, RunpodFailure, TopIs
  <1> QED
    BY <1>4, <1>5, <1>6, <1>7, RunpodMoves

\* SessionRegistry.exchange, from the lookup to the answer.
LEMMA RunpodExchanges ==
    ASSUME RunpodInv, NEW i \in 1 .. Len(threads), Exchange(i)
    PROVE  RunpodInv'
  <1>1. /\ EndTypes /\ EndsAgree /\ RunpodTypes /\ OneExchange /\ RunpodPlace /\ RunpodCalm
        /\ far \in Sockets /\ far.upFin = far.downFin
    BY DEF RunpodInv, RunpodTypes, EndTypes
  <1>2. UNCHANGED <<tunnel, sdk, client, daemon, near, once, bridge, session, leaked, httpFaults>>
    BY ZenonT(60) DEF Exchange
  <1>3. httpFaults' \in 0 .. HttpFaults /\ NoHttpFault' = NoHttpFault
    BY <1>1, <1>2 DEF RunpodTypes, NoHttpFault
  <1>4. /\ Sent' = Sent /\ Got' = Got /\ Seen' = Seen /\ Asked' = Asked /\ Answered' = Answered
        /\ ClientRuns' = ClientRuns /\ \A a \in Answers : IsAnswer(a)' = IsAnswer(a)
    BY <1>1, <1>2, EndsUnchanged
  <1>5. 0 \in Answers \cup {0}
    OBVIOUS
  <1>6. CASE /\ threads[i].pc = "look"
             /\ ThreadTo(i, IF session = "open" THEN "send" ELSE "error", 0)
             /\ UNCHANGED far
    <2> DEFINE pc == IF session = "open" THEN "send" ELSE "error"
    <2>1. pc \in {"send", "error"} /\ (pc = "error" => session # "open")
      OBVIOUS
    <2>2. ThreadTo(i, pc, 0) /\ threads[i].pc # "replied"
      BY <1>6
    <2> HIDE DEF pc
    <2>3. /\ threads # <<>> /\ threads[i] = Top /\ (bridge.pc = "wait" \/ Ending)
          /\ threads' # <<>> /\ Top'.pc = pc /\ Top'.frame = Top.frame
      BY <1>1, <1>5, <2>1, <2>2, ThreadMoves
    <2>4. TopIs({"look", "send"})
      BY <1>6, <2>3 DEF TopIs
    <2>5. Asked /\ Top.frame = Sent /\ RunpodHolds(<<>>, <<>>, <<>>, <<>>) /\ ~Answered
      BY <1>1, <2>4, RunpodCases, RunpodPlaces
    <2>6. RunpodHolds(<<>>, <<>>, <<>>, <<>>)'
      BY <1>2, <1>6, <2>5 DEF RunpodHolds
    <2>7. bridge'.pc # "post"
      BY <1>2, <2>3 DEF Ending
    <2>8. (RunpodGoing \/ RunpodNothing)'
      <3>1. CASE pc = "send"
        BY <1>4, <2>3, <2>5, <2>6, <3>1 DEF RunpodGoing, TopIs
      <3>2. CASE pc = "error"
        BY <2>3, <2>6, <2>7, <3>2 DEF RunpodNothing, TopIs
      <3> QED
        BY <2>1, <3>1, <3>2
    <2>9. ~daemon.committed
      BY <1>1, <2>5, EndFields, SMTT(30) DEF EndsAgree, Asked
    <2>10. NoHttpFault /\ ClientRuns /\ pc = "error" => far.downFin
      BY <1>1, <2>1, <2>3 DEF RunpodCalm, RunpodDrains
    <2>11. pc \in {"send", "recv", "replied", "error"}
      BY <2>1
    <2>12. /\ far' \in Sockets /\ far'.upFin = far'.downFin /\ far'.downFin = far.downFin
           /\ far.downFin /\ far.up = <<>> => far'.up = <<>>
      BY <1>1, <1>6
    <2> QED
      BY <1>2, <1>3, <1>5, <2>2, <2>5, <2>8, <2>9, <2>10, <2>11, <2>12, RunpodThread
  <1>7. CASE /\ threads[i].pc = "send"
             /\ ThreadTo(i, IF far.upFin THEN "error" ELSE "recv", 0)
             /\ far' = SendUp(far, threads[i].frame)
    <2> DEFINE pc == IF far.upFin THEN "error" ELSE "recv"
    <2>1. pc \in {"recv", "error"} /\ (pc = "error" => far.upFin) /\ (pc = "recv" => ~far.upFin)
      OBVIOUS
    <2>2. ThreadTo(i, pc, 0) /\ threads[i].pc # "replied"
      BY <1>7
    <2> HIDE DEF pc
    <2>3. /\ threads # <<>> /\ threads[i] = Top /\ (bridge.pc = "wait" \/ Ending)
          /\ threads' # <<>> /\ Top'.pc = pc
      BY <1>1, <1>5, <2>1, <2>2, ThreadMoves
    <2>4. TopIs({"look", "send"})
      BY <1>7, <2>3 DEF TopIs
    <2>5. Asked /\ Top.frame = Sent /\ RunpodHolds(<<>>, <<>>, <<>>, <<>>) /\ ~Answered
      BY <1>1, <2>4, RunpodCases, RunpodPlaces
    <2>6. Sent \in FrameNumbers
      BY <1>1, <2>5, EndFields, SMTT(30) DEF Asked, FrameNumbers
    <2>7. /\ far' \in Sockets /\ far'.down = far.down /\ far'.upFin = far.upFin
          /\ far'.downFin = far.downFin
          /\ far.upFin => far'.up = <<>>
          /\ ~far.upFin => far'.up = <<Sent>>
      <3>1. far' = SendUp(far, Sent) /\ far.up = <<>>
        BY <1>7, <2>3, <2>5 DEF RunpodHolds
      <3> QED
        BY <1>1, <2>6, <3>1, SendUpFields, One
    <2>8. bridge'.pc # "post"
      BY <1>2, <2>3 DEF Ending
    <2>9. (RunpodGoing \/ RunpodNothing)'
      <3>1. CASE pc = "recv"
        <4>1. RunpodHolds(<<>>, <<Sent>>, <<>>, <<>>)'
          BY <1>2, <1>4, <2>1, <2>5, <2>7, <3>1 DEF RunpodHolds
        <4> QED
          BY <2>3, <3>1, <4>1 DEF RunpodGoing, TopIs
      <3>2. CASE pc = "error"
        <4>1. RunpodHolds(<<>>, <<>>, <<>>, <<>>)'
          BY <1>2, <2>1, <2>5, <2>7, <3>2 DEF RunpodHolds
        <4> QED
          BY <2>3, <2>8, <3>2, <4>1 DEF RunpodNothing, TopIs
      <3> QED
        BY <2>1, <3>1, <3>2
    <2>10. ~daemon.committed
      BY <1>1, <2>5, EndFields, SMTT(30) DEF EndsAgree, Asked
    <2>11. pc \in {"send", "recv", "replied", "error"} /\ (pc = "error" => far.downFin)
      BY <1>1, <2>1
    <2>12. /\ far' \in Sockets /\ far'.upFin = far'.downFin /\ far'.downFin = far.downFin
           /\ far.downFin /\ far.up = <<>> => far'.up = <<>>
      BY <1>1, <2>7
    <2> QED
      BY <1>2, <1>3, <1>5, <2>2, <2>5, <2>9, <2>10, <2>11, <2>12, RunpodThread
  <1>8. CASE /\ threads[i].pc = "recv" /\ far.down # <<>>
             /\ ThreadTo(i, "replied", Head(far.down))
             /\ far' = [far EXCEPT !.down = Tail(@)]
    <2>1. PICK a \in Answers : IsAnswer(a) /\ AtFar(a)
      BY <1>1, <1>8, RunpodCases
    <2>2. Answered /\ ~Asked /\ Head(far.down) = a /\ Tail(far.down) = <<>>
      BY <1>1, <1>8, <2>1, RunpodCases, RunpodPlaces, One DEF AtFar, RunpodHolds
    <2>3. ThreadTo(i, "replied", a) /\ threads[i].pc # "replied" /\ a \in Answers \cup {0}
      BY <1>8, <2>2
    <2>4. /\ (bridge.pc = "wait" \/ Ending)
          /\ threads' # <<>> /\ Top'.pc = "replied" /\ Top'.answer = a
      BY <1>1, <2>3, ThreadMoves
    <2>5. /\ far' \in Sockets /\ far'.up = far.up /\ far'.down = <<>> /\ far'.upFin = far.upFin
          /\ far'.downFin = far.downFin
      BY <1>1, <1>8, <2>2, TakeDownFields
    <2>6. RunpodHolds(<<>>, <<>>, <<>>, <<>>)'
      BY <1>2, <2>1, <2>5 DEF AtFar, RunpodHolds
    <2>7. bridge.pc = "wait" => RunpodComing'
      <3>1. bridge.pc = "wait" => AtTop(a)'
        BY <1>2, <2>4, <2>6 DEF AtTop, TopIs
      <3> QED
        BY <1>4, <2>1, <3>1 DEF RunpodComing
    <2>8. Ending => RunpodNothing'
      BY <1>2, <2>4, <2>6 DEF RunpodNothing, Ending, TopIs
    <2>9. NoHttpFault /\ ClientRuns /\ daemon.committed => RunpodComing'
      BY <1>1, <2>4, <2>7 DEF RunpodCalm, RunpodDrains
    <2>10. /\ far' \in Sockets /\ far'.upFin = far'.downFin /\ far'.downFin = far.downFin
           /\ far.downFin /\ far.up = <<>> => far'.up = <<>>
      BY <1>1, <2>5
    <2> QED
      BY <1>2, <1>3, <2>2, <2>3, <2>4, <2>7, <2>8, <2>9, <2>10, RunpodThread
  <1>9. CASE threads[i].pc = "recv" /\ DownEnds(far) /\ ThreadTo(i, "error", 0) /\ UNCHANGED far
    <2>1. /\ threads # <<>> /\ threads[i] = Top /\ (bridge.pc = "wait" \/ Ending)
          /\ threads' # <<>> /\ Top'.pc = "error"
      BY <1>1, <1>5, <1>9, ThreadMoves
    <2>2. TopIs({"recv"}) /\ far.down = <<>> /\ far.downFin
      BY <1>9, <2>1 DEF TopIs, DownEnds
    <2>3. ~RunpodComing
      <3>1. \A a \in Answers : ~AtFar(a)
        BY <2>2, One DEF AtFar, RunpodHolds
      <3> QED
        BY <2>2, <3>1 DEF RunpodComing, AtTop, AtNear, Settled, TopIs
    <2>4. ~Settled
      BY <2>2 DEF Settled, TopIs
    <2>5. RunpodNothing => RunpodNothing'
      BY <1>2, <1>9, <2>1 DEF RunpodNothing, RunpodHolds, TopIs
    <2>6. RunpodGoing => RunpodGoing'
      <3>1. RunpodGoing => RunpodHolds(<<>>, <<Sent>>, <<>>, <<>>)
        BY <2>2, <2>4 DEF RunpodGoing, TopIs
      <3> QED
        BY <1>2, <1>4, <1>9, <2>1, <3>1 DEF RunpodGoing, RunpodHolds, TopIs
    <2>7. Asked \/ Answered
      BY <1>1, <2>4, RunpodPlaces DEF RunpodPlace
    <2>8. NoHttpFault /\ ClientRuns => ~daemon.committed
      BY <1>1, <2>3 DEF RunpodCalm, RunpodDrains
    <2>9. /\ far' \in Sockets /\ far'.upFin = far'.downFin /\ far'.downFin = far.downFin
          /\ far.downFin /\ far.up = <<>> => far'.up = <<>>
      BY <1>1, <1>9
    <2>10. /\ Asked => (RunpodGoing \/ RunpodNothing)'
           /\ Answered => (RunpodComing \/ RunpodNothing)'
      BY <1>1, <2>3, <2>5, <2>6, RunpodPlaces
    <2> QED
      BY <1>2, <1>3, <1>5, <1>9, <2>2, <2>7, <2>8, <2>9, <2>10, RunpodThread
  <1> QED
    BY <1>6, <1>7, <1>8, <1>9 DEF Exchange

\* The daemon takes longer than the socket's timeout.
LEMMA RunpodTimesOut ==
    ASSUME RunpodInv, NEW i \in 1 .. Len(threads), ExchangeTimeout(i)
    PROVE  RunpodInv'
  <1>1. /\ EndTypes /\ EndsAgree /\ RunpodTypes /\ OneExchange /\ RunpodPlace
        /\ far \in Sockets /\ far.upFin = far.downFin
    BY DEF RunpodInv, RunpodTypes, EndTypes
  <1>2. /\ threads[i].pc = "recv" /\ HttpFault /\ ThreadTo(i, "error", 0)
        /\ UNCHANGED <<tunnel, sdk, client, daemon, near, far, once, bridge, session, leaked>>
    BY ZenonT(60) DEF ExchangeTimeout, endVars
  <1>3. httpFaults' \in 0 .. HttpFaults /\ ~NoHttpFault'
    BY <1>1, <1>2, FaultCount
  <1>4. /\ Sent' = Sent /\ \A a \in Answers : IsAnswer(a)' = IsAnswer(a)
    BY <1>1, <1>2, EndsUnchanged DEF RunpodInv
  <1>5. 0 \in Answers \cup {0}
    OBVIOUS
  <1>6. /\ threads # <<>> /\ threads[i] = Top /\ threads' # <<>> /\ Top'.pc = "error"
    BY <1>1, <1>2, <1>5, ThreadMoves
  <1>7. TopIs({"recv"}) /\ ~Settled
    BY <1>2, <1>6 DEF TopIs, Settled
  <1>8. RunpodNothing => RunpodNothing'
    BY <1>2, <1>6 DEF RunpodNothing, RunpodHolds, TopIs
  <1>9. RunpodGoing => RunpodGoing'
    <2>1. RunpodGoing => RunpodHolds(<<>>, <<Sent>>, <<>>, <<>>)
      BY <1>7 DEF RunpodGoing, TopIs
    <2> QED
      BY <1>2, <1>4, <1>6, <2>1 DEF RunpodGoing, RunpodHolds, TopIs
  <1>10. RunpodComing => RunpodComing'
    <2>1. \A a \in Answers : AtFar(a) => AtFar(a)'
      BY <1>2, <1>6 DEF AtFar, RunpodHolds, TopIs
    <2> QED
      BY <1>4, <1>7, <2>1 DEF RunpodComing, AtTop, AtNear, TopIs
  <1>11. /\ Asked => (RunpodGoing \/ RunpodNothing)'
         /\ Answered => (RunpodComing \/ RunpodNothing)'
    BY <1>1, <1>8, <1>9, <1>10, RunpodPlaces
  <1>12. Asked \/ Answered
    BY <1>1, <1>7 DEF RunpodPlace
  <1>13. far' = far
    BY <1>2
  <1> QED
    BY <1>1, <1>2, <1>3, <1>5, <1>11, <1>12, <1>13, RunpodThread

LEMMA RunpodStep == RunpodInv /\ [RunpodNext]_<<endVars, runpodVars>> => RunpodInv'
  <1> SUFFICES ASSUME RunpodInv, [RunpodNext]_<<endVars, runpodVars>> PROVE RunpodInv'
    OBVIOUS
  <1>1. CASE EndsNext /\ UNCHANGED runpodVars
    BY <1>1, RunpodClientSends, RunpodClientReceives, RunpodClientStops, RunpodDaemonSteps,
       RunpodDaemonCloses DEF EndsNext, ClientStop
  <1>2. CASE ReadLocalFrame
    <2>1. CASE near.up # <<>>
      BY <1>2, <2>1, RunpodReads
    <2>2. CASE near.up = <<>>
      <3>1. near.upFin = near.downFin
        BY DEF RunpodInv, RunpodTypes, EndTypes
      <3>2. GivesUp
        BY <1>2, <2>2, <3>1 DEF ReadLocalFrame, GivesUp, BridgeAt, UpEnds, NoFault, endVars
      <3> QED
        BY <3>2, RunpodGivesUp
    <2> QED
      BY <2>1, <2>2
  <1>3. CASE LocalTimeout
    <2>1. ~NoFault
      BY <1>3, FaultCount, SMTT(30) DEF LocalTimeout, RunpodInv, RunpodTypes, HttpFault, NoFault
    <2>2. GivesUp
      BY <1>3, <2>1 DEF LocalTimeout, GivesUp, BridgeAt
    <2> QED
      BY <2>2, RunpodGivesUp
  <1>4. CASE PostExchange
    <2>1. CASE HttpFault /\ BridgeGoto("close") /\ UNCHANGED threads
      <3>1. GivesUp
        BY <1>4, <2>1 DEF PostExchange, GivesUp, BridgeAt
      <3> QED
        BY <3>1, RunpodGivesUp
    <2> QED
      BY <1>4, <2>1, RunpodPosts DEF PostExchange, BridgeAt
  <1>5. CASE ExchangeReply
    <2>1. BridgeAt("wait") /\ UNCHANGED <<tunnel, sdk, client, daemon, far, once, session, threads, leaked>>
      BY <1>5 DEF ExchangeReply
    <2>2. CASE /\ Replied /\ Top.pc = "replied" /\ near' = SendDown(near, Top.answer)
               /\ BridgeGoto("read") \/ (near.downFin /\ BridgeGoto("close"))
               /\ NoFault
      BY <2>1, <2>2, RunpodAnswers DEF BridgeAt, Replied, TopIs
    <2>3. CASE Replied /\ Top.pc = "error" /\ BridgeGoto("close") /\ NoFault /\ UNCHANGED near
      <3>1. GivesUp
        BY <2>1, <2>3 DEF GivesUp, BridgeAt, Replied, TopIs, endVars
      <3> QED
        BY <3>1, RunpodGivesUp
    <2>4. CASE HttpFault /\ BridgeGoto("close") /\ UNCHANGED near
      <3>1. ~NoFault
        BY <2>4, SMTT(30) DEF RunpodInv, RunpodTypes, HttpFault, NoFault
      <3>2. GivesUp
        BY <2>1, <2>4, <3>1 DEF GivesUp, BridgeAt, endVars
      <3> QED
        BY <3>2, RunpodGivesUp
    <2> QED
      BY <1>5, <2>2, <2>3, <2>4 DEF ExchangeReply, Top
  <1>6. CASE OpenRemoteSession \/ CloseRemoteSession
    BY <1>6, RunpodOpens, RunpodCloses
  <1>7. CASE ServerStep \/ \E i \in 1 .. Len(threads) : ExchangeTimeout(i)
    BY <1>7, RunpodExchanges, RunpodTimesOut DEF ServerStep
  <1>8. CASE UNCHANGED <<endVars, runpodVars>>
    <2>1. /\ UNCHANGED <<tunnel, sdk, client, daemon, near, far>>
          /\ UNCHANGED <<once, bridge, session, threads, leaked, httpFaults>>
      BY <1>8, ZenonT(60) DEF endVars, runpodVars
    <2>2. RunpodTypes' /\ OneExchange'
      BY <2>1 DEF RunpodInv, RunpodTypes, EndTypes, OneExchange, Top, Ending
    <2>3. /\ EndsAgree' /\ Sent' = Sent /\ Got' = Got /\ Seen' = Seen /\ Asked' = Asked
          /\ Answered' = Answered /\ ClientRuns' = ClientRuns
          /\ \A a \in Answers : IsAnswer(a)' = IsAnswer(a)
      BY <2>1, EndsUnchanged DEF RunpodInv
    <2>4. /\ Settled' = Settled /\ Carrying' = Carrying /\ Ending' = Ending /\ Top' = Top
          /\ \A S : TopIs(S)' = TopIs(S)
          /\ \A a, b, c, d : RunpodHolds(a, b, c, d)' = RunpodHolds(a, b, c, d)
      BY <2>1, ZenonT(60) DEF Settled, Carrying, Ending, TopIs, Top, RunpodHolds
    <2>5. RunpodGoing' = RunpodGoing /\ RunpodNothing' = RunpodNothing
      BY <2>1, <2>3, <2>4 DEF RunpodGoing, RunpodNothing
    <2>6. RunpodComing' = RunpodComing
      BY <2>1, <2>3, <2>4 DEF RunpodComing, AtFar, AtTop, AtNear
    <2>7. RunpodPlace'
      BY <2>3, <2>4, <2>5, <2>6 DEF RunpodInv, RunpodPlace
    <2>8. RunpodCalm'
      BY <2>1, <2>3, <2>4, <2>6 DEF RunpodInv, RunpodCalm, NoHttpFault, RunpodDrains, RunpodFailure
    <2> QED
      BY <2>2, <2>3, <2>7, <2>8 DEF RunpodInv
  <1> QED
    BY <1>1, <1>2, <1>3, <1>4, <1>5, <1>6, <1>7, <1>8 DEF RunpodNext, BridgeStep

\* The types of the bridge's state; one exchange is under way at a time.
THEOREM RunpodTypesHold == RunpodSpec => []RunpodTypeOK
  <1>1. RunpodInit => RunpodInv
    BY RunpodStarts
  <1>2. RunpodInv /\ [RunpodNext]_<<endVars, runpodVars>> => RunpodInv'
    BY RunpodStep
  <1>3. RunpodInv => RunpodTypeOK
    <2> SUFFICES ASSUME RunpodInv PROVE RunpodTypeOK
      OBVIOUS
    <2>1. /\ near \in Sockets /\ far \in Sockets /\ threads \in Seq(ThreadTypes)
          /\ bridge.pc \in {"open", "read", "post", "wait", "close", "closed", "raised"}
          /\ session \in {"none", "open", "closed"}
      BY DEF RunpodInv, RunpodTypes, EndTypes
    <2>2. \A i \in 1 .. Len(threads) : threads[i] \in ThreadTypes
      BY <2>1, SMTT(30)
    <2>3. \A i \in 1 .. Len(threads) : threads[i].pc \in {"look", "send", "recv", "replied", "error"}
      BY <2>2 DEF ThreadTypes
    <2> QED
      BY <2>1, <2>3, SocketTypes DEF RunpodInv, OneExchange, RunpodTypeOK
  <1> QED
    BY <1>1, <1>2, <1>3, PTL DEF RunpodSpec

\* Through the bridge of runpod_http_daemon_bridge.py, whatever is lost, late
\* or closed, no answer is shifted, no frame doubled and no success invented.
THEOREM RunpodIsFaithful == RunpodSpec => []TunnelIsFaithful
  <1>1. RunpodInit => RunpodInv
    BY RunpodStarts
  <1>2. RunpodInv /\ [RunpodNext]_<<endVars, runpodVars>> => RunpodInv'
    BY RunpodStep
  <1>3. RunpodInv => TunnelIsFaithful
    BY Faithful DEF RunpodInv, RunpodTypes, RunpodPlace, Asked, Answered
  <1> QED
    BY <1>1, <1>2, <1>3, PTL DEF RunpodSpec

\* As long as no request is lost or late, the daemon's commit reaches a client
\* that waits for it: neither end is closed before the last answer is through.
THEOREM RunpodReports == RunpodSpec => []CommitIsReported
  <1>1. RunpodInit => RunpodInv
    BY RunpodStarts
  <1>2. RunpodInv /\ [RunpodNext]_<<endVars, runpodVars>> => RunpodInv'
    BY RunpodStep
  <1>3. RunpodInv => CommitIsReported
    BY DEF RunpodInv, RunpodTypes, CommitIsReported, RunpodReportsCommit, ProxyReportsCommit,
       RunpodCalm, NoHttpFault, RunpodFailure
  <1> QED
    BY <1>1, <1>2, <1>3, PTL DEF RunpodSpec
=============================================================================
