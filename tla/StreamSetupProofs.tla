-------------------------- MODULE StreamSetupProofs --------------------------
(***************************************************************************)
(* Proofs about StreamSetup.                                               *)
(***************************************************************************)
EXTENDS StreamSetup, FiniteSetTheorems, TLAPS

-----------------------------------------------------------------------------
(* The socket factory.                                                     *)

Readers(n) ==
    [port : Ports \cup {0}, active : BOOLEAN, thread : BOOLEAN, left : BOOLEAN,
     members : SUBSET (Streams \X Nat), sock : 0 .. n]

\* What the factory has made.
FactoryInv ==
    /\ made \in 0 .. MaxSockets
    /\ used_sockets \subseteq 1 .. made /\ reception_flows \subseteq 1 .. made
    /\ bound \in [Ids -> Ports \cup {0}]
    /\ used_ports \in [Ports -> 0 .. made]
    /\ readers \in [Ids -> Readers(made)]
    /\ \A r \in Ids : readers[r].port # 0 => r <= made
    /\ \A p \in Ports : used_ports[p] # 0 => bound[used_ports[p]] = p

\* A stream's place in its life.
PlaceInv ==
    /\ scenario \in Scenarios
    /\ at \in [Streams -> Steps] /\ life \in [Streams -> Nat]
    /\ \A s \in Streams : at[s] # "none" => life[s] \in DOMAIN scenario[s]

Rtcps(n) == [state : {"none", "made", "active"}, sock : 0 .. n, reader : 0 .. n]

\* What a stream holds.
StreamInv ==
    /\ sock \in [Streams -> 0 .. made] /\ flow_of \in [Streams -> 0 .. made]
    /\ rtcp \in [Streams -> Rtcps(made)]
    /\ \A s \in Streams : at[s] = "connect" => sock[s] # 0
    /\ \A s \in Streams : at[s] = "rtcp_reader" => rtcp[s].sock # 0
    /\ \A s \in Streams :
           at[s] = "rtcp_start" => Config(s).rtcp = "mux" \/ rtcp[s].sock # 0

Reasons == {"overlap", "failed", "refused", "held_by_ZRTP", "same_SSRC"}
ReasonsInv == disturbed \subseteq Ports \X Reasons

LEMMA MadeIsNat ==
    ASSUME FactoryInv
    PROVE  made \in Nat /\ made <= MaxSockets
BY SetupAssumption DEF FactoryInv

LEMMA MaxIsNat == MaxSockets \in Nat
BY SetupAssumption

LEMMA NumberIsNat ==
    ASSUME NEW m \in 0 .. MaxSockets
    PROVE  m \in Nat
BY MaxIsNat

LEMMA MoreRtcps ==
    ASSUME NEW m \in Nat, NEW n \in Nat, m <= n
    PROVE  0 .. m \subseteq 0 .. n /\ Rtcps(m) \subseteq Rtcps(n)
BY DEF Rtcps

LEMMA NoRtcpTyped ==
    ASSUME NEW n \in Nat
    PROVE  NoRtcp \in Rtcps(n)
BY DEF NoRtcp, Rtcps

LEMMA ConfigOf ==
    ASSUME PlaceInv, NEW s \in Streams, at[s] # "none"
    PROVE  Config(s) \in Configs
<1>1. scenario[s] \in Seq(Configs)
  BY SetupAssumption DEF PlaceInv
<1> QED
  BY <1>1 DEF PlaceInv, Config

LEMMA ConfigsTyped ==
    ASSUME NEW c \in Configs
    PROVE  /\ c.port \in Ports /\ c.port + 1 \in Ports
           /\ c.kind \in {"plain", "user", "dh", "msm"}
           /\ c.rtcp \in {"none", "mux", "own"}
           /\ c.auto \in BOOLEAN
           /\ PortsOf(c) \subseteq Ports
BY DEF Configs, PortsOf

LEMMA BindKeeps ==
    ASSUME FactoryInv, NEW i \in 1 .. made, NEW port \in Ports, Bind(i, port),
           UNCHANGED <<made, used_sockets, reception_flows, readers>>
    PROVE  FactoryInv'
<1>1. i \in Ids
  <2>1. made \in 0 .. MaxSockets /\ MaxSockets \in Nat
    BY SetupAssumption DEF FactoryInv
  <2> QED
    BY <2>1 DEF Ids
<1>2. CASE used_ports[port] = 0 /\ Binds(i, port)
  <2>1. /\ bound' = [bound EXCEPT ![i] = port]
        /\ used_ports' = [used_ports EXCEPT ![port] = i]
        /\ bound[i] = 0
    BY <1>2 DEF Bind, Binds
  <2>2. bound' \in [Ids -> Ports \cup {0}] /\ used_ports' \in [Ports -> 0 .. made']
    BY <2>1, <1>1 DEF FactoryInv
  <2>3. ASSUME NEW p \in Ports, used_ports'[p] # 0
        PROVE  bound'[used_ports'[p]] = p
    <3>1. CASE p = port
      BY <3>1, <2>1, <1>1 DEF FactoryInv
    <3>2. CASE p # port
      <4>1. used_ports'[p] = used_ports[p] /\ used_ports[p] # 0
        BY <3>2, <2>1, <2>3 DEF FactoryInv
      <4>2. bound[used_ports[p]] = p /\ used_ports[p] \in Ids
        <5>1. used_ports[p] \in 1 .. made /\ made \in 0 .. MaxSockets /\ MaxSockets \in Nat
          BY <4>1, SetupAssumption DEF FactoryInv
        <5> QED
          BY <4>1, <5>1 DEF FactoryInv, Ids
      <4>3. p # 0
        BY SetupAssumption
      <4> QED
        BY <4>1, <4>2, <4>3, <2>1 DEF FactoryInv
    <3> QED BY <3>1, <3>2
  <2> QED
    BY <2>2, <2>3 DEF FactoryInv, Readers
<1>3. CASE ~(used_ports[port] = 0 /\ Binds(i, port))
  BY <1>3 DEF Bind, FactoryInv, Readers
<1> QED
  BY <1>2, <1>3

\* More sockets only add to what a variable may hold.
LEMMA SocketKeeps ==
    ASSUME FactoryInv, NEW type, NEW port \in Ports, get_socket_ptr(type, port)
    PROVE  /\ FactoryInv'
           /\ made \in Nat /\ made' \in Nat /\ made <= made'
           /\ SocketOf(port) \in 1 .. made'
<1>1. CASE used_ports[port] # 0
  <2>1. UNCHANGED <<made, bound, used_ports, used_sockets, reception_flows, readers>>
    BY <1>1 DEF get_socket_ptr, factory
  <2>2. SocketOf(port) \in 1 .. made /\ made \in Nat
    BY <1>1, SetupAssumption DEF FactoryInv, SocketOf
  <2>3. FactoryInv'
    BY <2>1 DEF FactoryInv, Readers
  <2> QED
    BY <2>1, <2>2, <2>3
<1>2. CASE used_ports[port] = 0
  <2>1. /\ made < MaxSockets /\ made' = made + 1
        /\ used_sockets' = used_sockets \cup {made'}
        /\ Bind(made', port)
        /\ reception_flows' = IF type = 2 THEN reception_flows \cup {made'} ELSE reception_flows
        /\ readers' = IF type = 1 THEN [readers EXCEPT ![made'].port = port] ELSE readers
    BY <1>2 DEF get_socket_ptr, create_new_socket
  <2>2. /\ made \in Nat /\ made' \in 1 .. MaxSockets /\ made' = made + 1
        /\ SocketOf(port) = made' /\ made' \in Ids
    BY <2>1, <1>2, SetupAssumption DEF FactoryInv, SocketOf, Ids
  <2>3. used_sockets' \subseteq 1 .. made' /\ reception_flows' \subseteq 1 .. made'
    BY <2>1, <2>2 DEF FactoryInv
  <2>4. readers \in [Ids -> Readers(made')]
    <3>1. Readers(made) \subseteq Readers(made')
      BY <2>2 DEF Readers
    <3> QED
      BY <3>1 DEF FactoryInv
  <2>5. readers' \in [Ids -> Readers(made')]
    <3>1. ASSUME NEW r \in Ids
          PROVE  [readers[r] EXCEPT !.port = port] \in Readers(made')
      BY <2>4 DEF Readers
    <3> QED
      BY <2>1, <2>4, <3>1
  <2>6. ASSUME NEW r \in Ids, readers'[r].port # 0
        PROVE  r <= made'
    <3>1. CASE r = made'
      BY <3>1, <2>2
    <3>2. CASE r # made'
      <4>1. readers'[r] = readers[r]
        BY <3>2, <2>1, <2>4
      <4>2. r <= made /\ r \in Nat
        BY <4>1, <2>6 DEF FactoryInv, Ids
      <4> QED
        BY <4>2, <2>2
    <3> QED BY <3>1, <3>2
  <2>7. /\ bound' \in [Ids -> Ports \cup {0}] /\ used_ports' \in [Ports -> 0 .. made']
        /\ \A p \in Ports : used_ports'[p] # 0 => bound'[used_ports'[p]] = p
    <3>1. CASE Binds(made', port)
      <4>1. /\ bound' = [bound EXCEPT ![made'] = port]
            /\ used_ports' = [used_ports EXCEPT ![port] = made']
        BY <2>1, <1>2, <3>1 DEF Bind
      <4>2. bound' \in [Ids -> Ports \cup {0}] /\ used_ports' \in [Ports -> 0 .. made']
        BY <4>1, <2>2 DEF FactoryInv
      <4>3. ASSUME NEW p \in Ports, used_ports'[p] # 0
            PROVE  bound'[used_ports'[p]] = p
        <5>1. CASE p = port
          BY <5>1, <4>1, <2>2 DEF FactoryInv
        <5>2. CASE p # port
          <6>1. used_ports'[p] = used_ports[p] /\ used_ports[p] # 0
            BY <5>2, <4>1, <4>3 DEF FactoryInv
          <6>2. bound[used_ports[p]] = p /\ used_ports[p] \in Ids /\ used_ports[p] # made'
            <7>1. used_ports[p] \in 1 .. made /\ made \in 0 .. MaxSockets /\ MaxSockets \in Nat
            BY <6>1, SetupAssumption DEF FactoryInv
          <7> QED
            BY <6>1, <7>1, <2>2 DEF FactoryInv, Ids
          <6> QED
            BY <6>1, <6>2, <4>1 DEF FactoryInv
        <5> QED BY <5>1, <5>2
      <4> QED BY <4>2, <4>3
    <3>2. CASE ~Binds(made', port)
      BY <3>2, <2>1, <2>2 DEF Bind, FactoryInv
    <3> QED BY <3>1, <3>2
  <2> QED
    BY <2>2, <2>3, <2>5, <2>6, <2>7 DEF FactoryInv
<1> QED
  BY <1>1, <1>2

LEMMA ReadersKept ==
    ASSUME FactoryInv, NEW port \in Ports, Unregister(port), made' = made
    PROVE  /\ readers' \in [Ids -> Readers(made')]
           /\ \A r \in Ids : readers'[r].port # 0 => r <= made'
<1>1. CASE UNCHANGED readers
  BY <1>1 DEF FactoryInv
<1>2. CASE \E r \in get_rtcp_reader(port) : readers' = [readers EXCEPT ![r].port = 0]
  <2>1. PICK r \in Ids : readers' = [readers EXCEPT ![r].port = 0]
    BY <1>2 DEF get_rtcp_reader
  <2>2. [readers[r] EXCEPT !.port = 0] \in Readers(made)
    BY DEF FactoryInv, Readers
  <2> QED
    BY <2>1, <2>2 DEF FactoryInv, Readers
<1> QED
  BY <1>1, <1>2 DEF Unregister

LEMMA ClearKeeps ==
    ASSUME FactoryInv, NEW port \in Ports, NEW i, clear_port(port, i)
    PROVE  FactoryInv' /\ made' = made
<1>1. /\ made' = made /\ bound' = bound
      /\ used_ports' = [used_ports EXCEPT ![port] = 0]
      /\ used_sockets' \subseteq used_sockets /\ reception_flows' \subseteq reception_flows
  BY DEF clear_port
<1>2. /\ readers' \in [Ids -> Readers(made')]
      /\ \A r \in Ids : readers'[r].port # 0 => r <= made'
  BY <1>1, ReadersKept DEF clear_port
<1>3. used_ports' \in [Ports -> 0 .. made']
  BY <1>1 DEF FactoryInv
<1>4. \A p \in Ports : used_ports'[p] # 0 => bound'[used_ports'[p]] = p
  BY <1>1 DEF FactoryInv
<1> QED
  BY <1>1, <1>2, <1>3, <1>4 DEF FactoryInv

-----------------------------------------------------------------------------
(* The steps of a stream.                                                  *)

TypeInv == FactoryInv /\ PlaceInv /\ StreamInv /\ ReasonsInv

\* A stream goes from one step of its life to the next one.
LEMMA MoveKeeps ==
    ASSUME PlaceInv, NEW s \in Streams, NEW from \in Steps \ {"none"}, NEW to \in Steps,
           Goes(s, from, to), UNCHANGED <<life, scenario>>
    PROVE  /\ PlaceInv'
           /\ at'[s] = to /\ \A t \in Streams \ {s} : at'[t] = at[t]
           /\ Config(s) \in Configs
           /\ \A t \in Streams : Config(t)' = Config(t)
<1>1. at' = [at EXCEPT ![s] = to] /\ at[s] = from /\ at[s] # "none"
  BY DEF Goes, Steps, Creating, Deleting
<1>2. PlaceInv'
  BY <1>1 DEF PlaceInv
<1> QED
  BY <1>1, <1>2, ConfigOf DEF PlaceInv, Config

\* The steps before which a stream must have got a socket.
NeedsSocket == {"connect", "rtcp_reader", "rtcp_start"}

LEMMA StreamStays ==
    ASSUME PlaceInv, StreamInv, NEW s \in Streams, NEW from \in Steps \ {"none"},
           NEW to \in Steps \ NeedsSocket, Goes(s, from, to),
           UNCHANGED <<life, scenario, sock, flow_of, rtcp, made>>
    PROVE  StreamInv'
<1>1. /\ at'[s] = to /\ \A t \in Streams \ {s} : at'[t] = at[t]
      /\ \A t \in Streams : Config(t)' = Config(t)
  BY MoveKeeps
<1> QED
  BY <1>1 DEF StreamInv, NeedsSocket

LEMMA FactoryStays ==
    ASSUME FactoryInv, UNCHANGED <<factory, readers>>
    PROVE  FactoryInv'
BY DEF FactoryInv, factory, Readers

\* A step that concerns neither the factory nor what a stream holds.
LEMMA OtherStep ==
    ASSUME TypeInv, NEW s \in Streams, NEW from \in Steps \ {"none"},
           NEW to \in Steps \ NeedsSocket, Goes(s, from, to),
           UNCHANGED <<life, scenario, stream, factory, readers, disturbed>>
    PROVE  TypeInv'
<1>1. UNCHANGED <<sock, flow_of, rtcp, made>>
  BY DEF stream, factory
<1> QED
  BY <1>1, MoveKeeps, StreamStays, FactoryStays DEF TypeInv, ReasonsInv

LEMMA MarkedTyped ==
    ASSUME NEW P, P \subseteq Ports, NEW reason \in Reasons
    PROVE  {<<p, reason>> : p \in P} \subseteq Ports \X Reasons
OBVIOUS

LEMMA MarkTyped ==
    ASSUME NEW p \in Ports, NEW reason \in Reasons
    PROVE  <<p, reason>> \in Ports \X Reasons
OBVIOUS

LEMMA OverlapTyped ==
    ASSUME NEW c \in Configs, NEW s, NEW steps
    PROVE  Overlap(c, s, steps) \subseteq Ports \X Reasons
<1> DEFINE both == {q \in PortsOf(c) : \E t \in Streams \ {s} :
                       at[t] \in steps /\ q \in PortsOf(Config(t))}
<1>1. both \subseteq Ports /\ "overlap" \in Reasons
  BY ConfigsTyped DEF Reasons
<1>2. Overlap(c, s, steps) = {<<p, "overlap">> : p \in both}
  BY DEF Overlap
<1> HIDE DEF both
<1> QED
  BY <1>1, <1>2, MarkedTyped

LEMMA SameSsrcTyped ==
    ASSUME NEW s, NEW i, NEW ssrc, Config(s) \in Configs
    PROVE  SameSsrc(s, i, ssrc) \subseteq Ports \X Reasons
<1>1. Config(s).port \in Ports /\ "same_SSRC" \in Reasons
  BY ConfigsTyped DEF Reasons
<1>2. <<Config(s).port, "same_SSRC">> \in Ports \X Reasons
  BY <1>1, MarkTyped, Zenon
<1> QED
  BY <1>2, Zenon DEF SameSsrc

LEMMA FailsKeeps ==
    ASSUME TypeInv, NEW s \in Streams, NEW from \in Steps \ {"none"}, Fails(s, from)
    PROVE  TypeInv'
<1>1. PICK to \in {"broken", "delete"} : Goes(s, from, to)
  BY DEF Fails
<1>2. /\ UNCHANGED <<life, scenario, flow_of, made, factory, readers>>
      /\ rtcp' = [rtcp EXCEPT ![s] = NoRtcp] /\ sock' = [sock EXCEPT ![s] = 0]
  BY DEF Fails, free_resources, factory
<1>3. /\ PlaceInv'
      /\ at'[s] = to /\ \A t \in Streams \ {s} : at'[t] = at[t]
      /\ Config(s) \in Configs
      /\ \A t \in Streams : Config(t)' = Config(t)
  <2>1. to \in Steps
    BY DEF Steps, Deleting
  <2> QED
    BY <1>1, <1>2, <2>1, MoveKeeps DEF TypeInv
<1>4. FactoryInv'
  BY <1>2, FactoryStays DEF TypeInv
<1>5. StreamInv'
  <2>1. made \in Nat /\ NoRtcp \in Rtcps(made) /\ made' = made
    BY <1>2, MadeIsNat, NoRtcpTyped DEF TypeInv
  <2>2. /\ sock' \in [Streams -> 0 .. made'] /\ flow_of' \in [Streams -> 0 .. made']
        /\ rtcp' \in [Streams -> Rtcps(made')]
    <3>1. 0 \in 0 .. made
      BY <2>1
    <3> QED
      BY <1>2, <2>1, <3>1 DEF TypeInv, StreamInv
  <2>3. \A t \in Streams \ {s} : sock'[t] = sock[t] /\ rtcp'[t] = rtcp[t]
    BY <1>2 DEF TypeInv, StreamInv
  <2> QED
    BY <2>2, <2>3, <1>1, <1>3 DEF TypeInv, StreamInv
<1>6. ReasonsInv'
  <2> DEFINE reason == IF flow_of[s] = 0 THEN "refused" ELSE "failed"
  <2>1. PortsOf(Config(s)) \subseteq Ports /\ reason \in Reasons
    BY <1>3, ConfigsTyped DEF Reasons
  <2>3. disturbed' = disturbed \cup {<<p, reason>> : p \in PortsOf(Config(s))}
    BY DEF Fails
  <2> HIDE DEF reason
  <2>2. {<<p, reason>> : p \in PortsOf(Config(s))} \subseteq Ports \X Reasons
    BY <2>1, MarkedTyped
  <2> QED
    BY <2>2, <2>3 DEF TypeInv, ReasonsInv
<1> QED
  BY <1>3, <1>4, <1>5, <1>6 DEF TypeInv

-----------------------------------------------------------------------------
(* create_stream() and init().                                             *)

LEMMA CreateTyped ==
    ASSUME TypeInv, NEW s \in Streams, Create(s)
    PROVE  TypeInv'
<1>1. /\ at[s] = "none" /\ life[s] < Len(scenario[s])
      /\ life' = [life EXCEPT ![s] = @ + 1] /\ at' = [at EXCEPT ![s] = "socket"]
      /\ UNCHANGED <<sock, flow_of, rtcp, factory, made, readers, scenario>>
      /\ disturbed' = disturbed \cup Overlap(scenario[s][life'[s]], s, Deleting)
  BY DEF Create, factory
<1>2. scenario \in Scenarios /\ scenario[s] \in Seq(Configs) /\ life[s] \in Nat
  BY SetupAssumption DEF TypeInv, PlaceInv
<1>3. life'[s] \in DOMAIN scenario[s] /\ scenario[s][life'[s]] \in Configs
  BY <1>1, <1>2 DEF TypeInv, PlaceInv
<1>4. PlaceInv'
  <2>1. life' \in [Streams -> Nat] /\ at' \in [Streams -> Steps]
    <3>1. life[s] + 1 \in Nat /\ "socket" \in Steps
      BY <1>2 DEF Steps, Creating
    <3> QED
      BY <1>1, <3>1 DEF TypeInv, PlaceInv
  <2>2. \A t \in Streams \ {s} : life'[t] = life[t] /\ at'[t] = at[t]
    BY <1>1 DEF TypeInv, PlaceInv
  <2> QED
    BY <1>1, <1>3, <2>1, <2>2 DEF TypeInv, PlaceInv
<1>5. FactoryInv'
  BY <1>1, FactoryStays DEF TypeInv
<1>6. StreamInv'
  <2>1. \A t \in Streams : at'[t] \in NeedsSocket => at'[t] = at[t] /\ Config(t)' = Config(t)
    BY <1>1 DEF TypeInv, PlaceInv, Config, NeedsSocket
  <2> QED
    BY <1>1, <2>1 DEF TypeInv, StreamInv, NeedsSocket
<1>7. ReasonsInv'
  BY <1>1, <1>3, OverlapTyped DEF TypeInv, ReasonsInv
<1> QED
  BY <1>4, <1>5, <1>6, <1>7 DEF TypeInv

LEMMA GetSocketTyped ==
    ASSUME TypeInv, NEW s \in Streams, GetSocket(s)
    PROVE  TypeInv'
<1> DEFINE port == Config(s).port
<1>1. /\ Goes(s, "socket", "connect") /\ get_socket_ptr(2, port)
      /\ sock' = [sock EXCEPT ![s] = SocketOf(port)]
      /\ UNCHANGED <<life, scenario, flow_of, rtcp, disturbed>>
  BY DEF GetSocket, ghosts
<1>2. /\ PlaceInv'
      /\ at'[s] = "connect" /\ \A t \in Streams \ {s} : at'[t] = at[t]
      /\ port \in Ports
      /\ \A t \in Streams : Config(t)' = Config(t)
  BY <1>1, MoveKeeps, ConfigsTyped DEF TypeInv, Steps, Creating, Deleting
<1> HIDE DEF port
<1>3. /\ FactoryInv'
      /\ made \in Nat /\ made' \in Nat /\ made <= made'
      /\ SocketOf(port) \in 1 .. made'
  BY <1>1, <1>2, SocketKeeps DEF TypeInv
<1>4. StreamInv'
  <2>1. /\ sock' \in [Streams -> 0 .. made'] /\ flow_of' \in [Streams -> 0 .. made']
        /\ rtcp' \in [Streams -> Rtcps(made')]
    <3>1. 0 .. made \subseteq 0 .. made' /\ Rtcps(made) \subseteq Rtcps(made')
      BY <1>3, MoreRtcps
    <3>2. SocketOf(port) \in 0 .. made'
      BY <1>3
    <3> QED
      BY <3>1, <3>2, <1>1 DEF TypeInv, StreamInv
  <2>2. sock'[s] # 0 /\ \A t \in Streams \ {s} : sock'[t] = sock[t]
    <3>1. sock'[s] = SocketOf(port) /\ \A t \in Streams \ {s} : sock'[t] = sock[t]
      BY <1>1 DEF TypeInv, StreamInv
    <3> QED
      BY <3>1, <1>3
  <2> QED
    BY <2>1, <2>2, <1>1, <1>2 DEF TypeInv, StreamInv
<1> QED
  BY <1>1, <1>2, <1>3, <1>4 DEF TypeInv, ReasonsInv

LEMMA ConnectTyped ==
    ASSUME TypeInv, NEW s \in Streams, Connect(s)
    PROVE  TypeInv'
<1>1. /\ Goes(s, "connect", "flow") /\ at[s] = "connect"
      /\ UNCHANGED <<life, scenario, sock, flow_of, rtcp, made, used_sockets,
                     reception_flows, readers, disturbed>>
  BY DEF Connect, ghosts, stream, Goes
<1>2. PlaceInv' /\ Config(s) \in Configs
  BY <1>1, MoveKeeps DEF TypeInv, Steps, Creating, Deleting
<1>3. StreamInv'
  BY <1>1, StreamStays DEF TypeInv, Steps, Creating, Deleting, NeedsSocket
<1>4. FactoryInv'
  <2>1. CASE Config(s).anyip
    <3>1. sock[s] \in 1 .. made
      <4>1. sock[s] \in 0 .. made /\ sock[s] # 0 /\ made \in Nat
        BY <1>1, MadeIsNat DEF TypeInv, StreamInv
      <4> QED BY <4>1
    <3>2. Bind(sock[s], Config(s).port) /\ Config(s).port \in Ports
      BY <2>1, <1>2, ConfigsTyped DEF Connect
    <3> QED
      BY <3>1, <3>2, <1>1, BindKeeps DEF TypeInv
  <2>2. CASE ~Config(s).anyip
    BY <2>2, <1>1, FactoryStays DEF Connect, factory, TypeInv
  <2> QED BY <2>1, <2>2
<1> QED
  BY <1>1, <1>2, <1>3, <1>4 DEF TypeInv, ReasonsInv

LEMMA NoFlowTyped ==
    ASSUME TypeInv, NEW s \in Streams, NoFlow(s)
    PROVE  TypeInv'
<1>1. CASE Fails(s, "flow")
  BY <1>1, FailsKeeps DEF Steps, Creating, Deleting
<1>2. CASE ~Fails(s, "flow")
  <2>1. /\ Goes(s, "flow", "delete")
        /\ disturbed' = disturbed \cup {<<p, "refused">> : p \in PortsOf(Config(s))}
        /\ UNCHANGED <<life, stream, factory, sock, flow_of, rtcp, made, readers, scenario>>
    BY <1>2 DEF NoFlow, stream, factory
  <2>2. PlaceInv' /\ Config(s) \in Configs
    BY <2>1, MoveKeeps DEF TypeInv, Steps, Creating, Deleting
  <2>3. StreamInv'
    BY <2>1, StreamStays DEF TypeInv, Steps, Creating, Deleting, NeedsSocket
  <2>4. FactoryInv'
    BY <2>1, FactoryStays DEF TypeInv
  <2>5. {<<p, "refused">> : p \in PortsOf(Config(s))} \subseteq Ports \X Reasons
    <3>1. PortsOf(Config(s)) \subseteq Ports /\ "refused" \in Reasons
      BY <2>2, ConfigsTyped DEF Reasons
    <3> QED BY <3>1, MarkedTyped
  <2>6. ReasonsInv'
    BY <2>1, <2>5 DEF TypeInv, ReasonsInv
  <2> QED
    BY <2>2, <2>3, <2>4, <2>6 DEF TypeInv
<1> QED
  BY <1>1, <1>2

LEMMA GetFlowTyped ==
    ASSUME TypeInv, NEW s \in Streams, GetFlow(s)
    PROVE  TypeInv'
<1>1. /\ Goes(s, "flow", "install") /\ sock[s] \in reception_flows
      /\ flow_of' = [flow_of EXCEPT ![s] = sock[s]]
      /\ UNCHANGED <<life, scenario, sock, rtcp, factory, made, readers>>
      /\ disturbed' = disturbed \cup SameSsrc(s, sock[s], remote[s])
  BY DEF GetFlow, factory
<1>2. /\ PlaceInv'
      /\ at'[s] = "install" /\ \A t \in Streams \ {s} : at'[t] = at[t]
      /\ \A t \in Streams : Config(t)' = Config(t)
      /\ Config(s) \in Configs
  BY <1>1, MoveKeeps DEF TypeInv, Steps, Creating, Deleting
<1>3. StreamInv'
  <2>1. flow_of' \in [Streams -> 0 .. made']
    BY <1>1 DEF TypeInv, StreamInv
  <2> QED
    BY <2>1, <1>1, <1>2 DEF TypeInv, StreamInv
<1>4. ReasonsInv'
  BY <1>1, <1>2, SameSsrcTyped DEF TypeInv, ReasonsInv
<1> QED
  BY <1>1, <1>2, <1>3, <1>4, FactoryStays DEF TypeInv

LEMMA AddSrtpCtxTyped ==
    ASSUME TypeInv, NEW s \in Streams, AddSrtpCtx(s)
    PROVE  TypeInv'
<1>1. /\ Goes(s, "user", "media") /\ at[s] = "user"
      /\ "user" \in Steps \ {"none"} /\ "media" \in Steps \ NeedsSocket
      /\ UNCHANGED <<life, scenario, sock, flow_of, rtcp, made, factory, readers>>
      /\ disturbed' = disturbed \cup Overlap(Config(s), s, Deleting)
  BY DEF AddSrtpCtx, stream, factory, Steps, Creating, NeedsSocket, Goes
<1>2. PlaceInv' /\ StreamInv' /\ FactoryInv' /\ Config(s) \in Configs
  BY <1>1, MoveKeeps, StreamStays, FactoryStays DEF TypeInv
<1>3. ReasonsInv'
  BY <1>1, <1>2, OverlapTyped DEF TypeInv, ReasonsInv
<1> QED
  BY <1>2, <1>3 DEF TypeInv

\* The state of the RTCP of a stream changes, and its step.
LEMMA RtcpKeeps ==
    ASSUME TypeInv, NEW s \in Streams, NEW from \in Steps \ {"none"}, NEW to \in Steps,
           Goes(s, from, to), to # "connect",
           UNCHANGED <<life, scenario, sock, flow_of, disturbed>>, FactoryInv',
           made <= made',
           NEW r \in Rtcps(made'),
           rtcp' = [rtcp EXCEPT ![s] = r],
           to = "rtcp_reader" => r.sock # 0,
           to = "rtcp_start" => Config(s).rtcp = "mux" \/ r.sock # 0
    PROVE  TypeInv'
<1>1. /\ PlaceInv'
      /\ at'[s] = to /\ \A t \in Streams \ {s} : at'[t] = at[t]
      /\ \A t \in Streams : Config(t)' = Config(t)
  BY MoveKeeps DEF TypeInv
<1>2. 0 .. made \subseteq 0 .. made' /\ Rtcps(made) \subseteq Rtcps(made')
  <2>1. made \in 0 .. MaxSockets /\ made' \in 0 .. MaxSockets
    BY DEF TypeInv, FactoryInv
  <2>2. made \in Nat /\ made' \in Nat
    BY <2>1, NumberIsNat, Zenon
  <2> QED BY <2>2, MoreRtcps
<1>3. /\ sock' \in [Streams -> 0 .. made'] /\ flow_of' \in [Streams -> 0 .. made']
      /\ rtcp' \in [Streams -> Rtcps(made')]
  BY <1>2 DEF TypeInv, StreamInv
<1>4. rtcp'[s] = r /\ \A t \in Streams \ {s} : rtcp'[t] = rtcp[t]
  BY DEF TypeInv, StreamInv
<1>5. StreamInv'
  BY <1>1, <1>3, <1>4 DEF TypeInv, StreamInv
<1> QED
  BY <1>1, <1>5 DEF TypeInv, ReasonsInv

LEMMA InstallTyped ==
    ASSUME TypeInv, NEW s \in Streams, Install(s)
    PROVE  TypeInv'
<1> DEFINE r  == [rtcp[s] EXCEPT !.state = "made"]
           to == IF Config(s).kind = "user" THEN "user" ELSE "media"
<1>1. /\ Goes(s, "install", to) /\ "install" \in Steps \ {"none"}
      /\ to \in Steps \ NeedsSocket /\ to # "connect"
      /\ rtcp' = [rtcp EXCEPT ![s] = r]
      /\ UNCHANGED <<life, scenario, sock, flow_of, factory, made, readers, disturbed>>
  BY DEF Install, ghosts, factory, Steps, Creating, NeedsSocket
<1>2. made \in Nat /\ made' = made /\ r \in Rtcps(made')
  BY <1>1, MadeIsNat DEF TypeInv, StreamInv, Rtcps
<1>3. FactoryInv' /\ made <= made'
  BY <1>1, <1>2, FactoryStays DEF TypeInv
<1>4. /\ to = "rtcp_reader" => r.sock # 0
      /\ to = "rtcp_start" => Config(s).rtcp = "mux" \/ r.sock # 0
  BY <1>1 DEF NeedsSocket
<1> HIDE DEF r, to
<1> QED
  BY <1>1, <1>2, <1>3, <1>4, RtcpKeeps

-----------------------------------------------------------------------------
(* start_components().                                                     *)

LEMMA CreateMediaTyped ==
    ASSUME TypeInv, NEW s \in Streams, CreateMedia(s)
    PROVE  TypeInv'
<1> DEFINE mux == Config(s).rtcp = "mux"
           r   == IF mux THEN [rtcp[s] EXCEPT !.sock = sock[s]] ELSE rtcp[s]
           to  == AfterMedia[Config(s).rtcp]
<1>1. /\ Goes(s, "media", to) /\ "media" \in Steps \ {"none"} /\ at[s] = "media"
      /\ rtcp' = IF mux THEN [rtcp EXCEPT ![s].sock = sock[s]] ELSE rtcp
      /\ UNCHANGED <<life, scenario, sock, flow_of, factory, made, readers, disturbed>>
  BY DEF CreateMedia, ghosts, factory, Steps, Creating, Goes
<1>2. Config(s).rtcp \in {"none", "mux", "own"}
  BY <1>1, ConfigOf, ConfigsTyped DEF TypeInv
<1>3. /\ to \in Steps /\ to \notin {"connect", "rtcp_reader"}
      /\ to = "rtcp_start" => mux
  <2>1. /\ AfterMedia["none"] = "start" /\ AfterMedia["mux"] = "rtcp_start"
        /\ AfterMedia["own"] = "rtcp_socket"
    BY DEF AfterMedia
  <2>2. {"start", "rtcp_start", "rtcp_socket"} \subseteq Steps
    BY DEF Steps, Creating
  <2> QED
    BY <1>2, <2>1, <2>2
<1>4. made \in Nat /\ made' = made /\ r \in Rtcps(made') /\ rtcp' = [rtcp EXCEPT ![s] = r]
  BY <1>1, MadeIsNat DEF TypeInv, StreamInv, Rtcps
<1>5. FactoryInv' /\ made <= made'
  BY <1>1, <1>4, FactoryStays DEF TypeInv
<1>6. /\ to # "connect" /\ to = "rtcp_reader" => r.sock # 0
      /\ to = "rtcp_start" => Config(s).rtcp = "mux" \/ r.sock # 0
  BY <1>3
<1> HIDE DEF r, to
<1> QED
  BY <1>1, <1>3, <1>4, <1>5, <1>6, RtcpKeeps

LEMMA RtcpSocketTyped ==
    ASSUME TypeInv, NEW s \in Streams, RtcpSocket(s)
    PROVE  TypeInv'
<1> DEFINE port == Config(s).port + 1
           r    == [rtcp[s] EXCEPT !.sock = SocketOf(port)]
<1>1. /\ Goes(s, "rtcp_socket", "rtcp_reader") /\ at[s] = "rtcp_socket"
      /\ {"rtcp_socket", "rtcp_reader"} \subseteq Steps \ {"none"}
      /\ get_socket_ptr(1, port)
      /\ rtcp' = [rtcp EXCEPT ![s].sock = SocketOf(port)]
      /\ UNCHANGED <<life, scenario, sock, flow_of, disturbed>>
  BY DEF RtcpSocket, ghosts, Steps, Creating, Goes
<1>2. port \in Ports
  BY <1>1, ConfigOf, ConfigsTyped DEF TypeInv
<1>3. rtcp' = [rtcp EXCEPT ![s] = r] /\ r.sock = SocketOf(port)
  BY <1>1 DEF TypeInv, StreamInv, Rtcps
<1> HIDE DEF port
<1>4. /\ FactoryInv' /\ made \in Nat /\ made' \in Nat /\ made <= made'
      /\ SocketOf(port) \in 1 .. made'
  BY <1>1, <1>2, SocketKeeps DEF TypeInv
<1>5. r \in Rtcps(made')
  <2>1. rtcp[s] \in Rtcps(made')
    BY <1>4, MoreRtcps DEF TypeInv, StreamInv
  <2>2. SocketOf(port) \in 0 .. made'
    BY <1>4
  <2> QED BY <2>1, <2>2 DEF Rtcps
<1>6. r.sock # 0
  BY <1>3, <1>4
<1> HIDE DEF r
<1> QED
  BY <1>1, <1>3, <1>4, <1>5, <1>6, RtcpKeeps

\* A reader changes, and the step of a stream.
LEMMA ReaderKeeps ==
    ASSUME TypeInv, NEW r \in Ids, NEW new \in Readers(made),
           readers' = [readers EXCEPT ![r] = new], new.port = readers[r].port,
           UNCHANGED factory
    PROVE  FactoryInv'
<1>1. UNCHANGED <<made, bound, used_ports, used_sockets, reception_flows>>
  BY DEF factory
<1>2. readers' \in [Ids -> Readers(made')]
  BY <1>1 DEF TypeInv, FactoryInv
<1>3. \A x \in Ids : readers'[x].port = readers[x].port
  BY DEF TypeInv, FactoryInv
<1> QED
  BY <1>1, <1>2, <1>3 DEF TypeInv, FactoryInv

LEMMA RtcpReaderTyped ==
    ASSUME TypeInv, NEW s \in Streams, RtcpReader(s)
    PROVE  TypeInv'
<1>1. /\ Goes(s, "rtcp_reader", "rtcp_start") /\ at[s] = "rtcp_reader"
      /\ {"rtcp_start", "rtcp_reader"} \subseteq Steps \ {"none"}
      /\ UNCHANGED <<life, stream, scenario, sock, flow_of, rtcp, made, factory, disturbed>>
  BY DEF RtcpReader, ghosts, stream, factory, Steps, Creating, Goes
<1>2. PICK r \in Ids :
        readers' = [readers EXCEPT ![r].members = @ \cup {Me(s)}, ![r].sock = rtcp[s].sock]
  BY DEF RtcpReader, get_rtcp_reader
<1> DEFINE new == [readers[r] EXCEPT !.members = @ \cup {Me(s)}, !.sock = rtcp[s].sock]
<1>3. readers' = [readers EXCEPT ![r] = new]
  BY <1>2 DEF TypeInv, FactoryInv
<1>4. new \in Readers(made) /\ new.port = readers[r].port
  <2>1. readers[r] \in Readers(made) /\ rtcp[s].sock \in 0 .. made
    BY DEF TypeInv, FactoryInv, StreamInv, Rtcps
  <2>2. Me(s) \in Streams \X Nat
    BY DEF Me, TypeInv, PlaceInv
  <2> QED BY <2>1, <2>2 DEF Readers
<1> HIDE DEF new
<1>5. FactoryInv'
  BY <1>1, <1>3, <1>4, ReaderKeeps
<1>6. /\ rtcp[s] \in Rtcps(made') /\ rtcp' = [rtcp EXCEPT ![s] = rtcp[s]]
      /\ rtcp[s].sock # 0 /\ made <= made'
  <2>1. made \in Nat /\ made' = made
    BY <1>1, MadeIsNat DEF TypeInv
  <2>2. rtcp \in [Streams -> Rtcps(made)] /\ rtcp[s].sock # 0 /\ rtcp' = rtcp
    BY <1>1 DEF TypeInv, StreamInv
  <2> QED
    BY <2>1, <2>2
<1> QED
  BY <1>1, <1>5, <1>6, RtcpKeeps

LEMMA NoReaderTyped ==
    ASSUME TypeInv, NEW s \in Streams, NoReader(s)
    PROVE  TypeInv'
<1>1. PICK from \in {"rtcp_reader", "rtcp_start"} : Goes(s, from, "crashed")
  BY DEF NoReader
<1>2. from \in Steps \ {"none"} /\ "crashed" \in Steps \ NeedsSocket
  BY DEF Steps, Creating, NeedsSocket
<1>3. UNCHANGED <<life, scenario, stream, factory, readers, disturbed>>
  BY DEF NoReader, Crash
<1> QED
  BY <1>1, <1>2, <1>3, OtherStep

LEMMA RtcpStartTyped ==
    ASSUME TypeInv, NEW s \in Streams, RtcpStart(s)
    PROVE  TypeInv'
<1> DEFINE port  == Config(s).port + 1
           mux   == Config(s).rtcp = "mux"
           fails == ~mux /\ BindFails(rtcp[s].sock, port)
           to    == IF mux \/ fails THEN "start" ELSE "reader_start"
<1>1. /\ Goes(s, "rtcp_start", to) /\ at[s] = "rtcp_start"
      /\ "rtcp_start" \in Steps \ {"none"}
      /\ to \in Steps /\ to \notin NeedsSocket
      /\ UNCHANGED <<life, scenario, sock, flow_of, made, used_sockets, reception_flows,
                     readers, disturbed>>
  BY DEF RtcpStart, ghosts, Steps, Creating, Goes, NeedsSocket
<1>2. port \in Ports
  BY <1>1, ConfigOf, ConfigsTyped DEF TypeInv
<1>3. made \in Nat /\ made' = made /\ rtcp[s] \in Rtcps(made)
  BY <1>1, MadeIsNat DEF TypeInv, StreamInv
<1>4. CASE mux
  <2> DEFINE r == [rtcp[s] EXCEPT !.state = "active"]
  <2>1. rtcp' = [rtcp EXCEPT ![s] = r] /\ r \in Rtcps(made')
    BY <1>3, <1>4 DEF RtcpStart, Rtcps
  <2>2. FactoryInv'
    BY <1>1, <1>4, FactoryStays DEF RtcpStart, factory, TypeInv
  <2>3. to # "connect" /\ to # "rtcp_reader" /\ to # "rtcp_start" /\ made <= made'
    <3> HIDE DEF to
    <3>1. to # "connect" /\ to # "rtcp_reader" /\ to # "rtcp_start"
      BY <1>1, Zenon DEF NeedsSocket
    <3>2. made <= made'
      BY <1>3
    <3> QED BY <3>1, <3>2
  <2> HIDE DEF r, to
  <2> QED
    BY <1>1, <2>1, <2>2, <2>3, RtcpKeeps
<1>5. CASE ~mux
  <2>1. PICK x \in get_rtcp_reader(port) \cup {0} :
          rtcp' = [rtcp EXCEPT ![s].state = "active", ![s].reader = x]
    BY <1>5 DEF RtcpStart
  <2> DEFINE r == [rtcp[s] EXCEPT !.state = "active", !.reader = x]
  <2>2. x \in 0 .. made
    <3>1. CASE x = 0
      BY <3>1, <1>3
    <3>2. CASE x # 0
      <4>1. x \in Ids /\ readers[x].port = port
        BY <2>1, <3>2 DEF get_rtcp_reader
      <4>2. port # 0
        BY <1>2, SetupAssumption
      <4>3. x \in Nat /\ x <= made
        BY <4>1, <4>2 DEF TypeInv, FactoryInv, Ids
      <4> QED BY <4>3, <1>3
    <3> QED BY <3>1, <3>2
  <2>3. rtcp' = [rtcp EXCEPT ![s] = r] /\ r \in Rtcps(made')
    BY <1>3, <2>1, <2>2 DEF Rtcps, TypeInv, StreamInv
  <2>4. Bind(rtcp[s].sock, port) /\ rtcp[s].sock \in 1 .. made
    <3>1. Bind(rtcp[s].sock, port) /\ rtcp[s].sock # 0
      BY <1>1, <1>5 DEF RtcpStart, TypeInv, StreamInv
    <3>2. rtcp[s].sock \in 0 .. made
      BY <1>3 DEF Rtcps
    <3> QED BY <3>1, <3>2, <1>3
  <2>5. FactoryInv'
    BY <1>1, <1>2, <2>4, BindKeeps DEF TypeInv
  <2>6. to # "connect" /\ to # "rtcp_reader" /\ to # "rtcp_start" /\ made <= made'
    <3> HIDE DEF to
    <3>1. to # "connect" /\ to # "rtcp_reader" /\ to # "rtcp_start"
      BY <1>1, Zenon DEF NeedsSocket
    <3>2. made <= made'
      BY <1>3
    <3> QED BY <3>1, <3>2
  <2> HIDE DEF r, to
  <2> QED
    BY <1>1, <2>3, <2>5, <2>6, RtcpKeeps
<1> QED
  BY <1>4, <1>5

\* A step that changes a reader and nothing else of what there is.
LEMMA ReaderStep ==
    ASSUME TypeInv, NEW s \in Streams, NEW from \in Steps \ {"none"},
           NEW to \in Steps \ NeedsSocket, Goes(s, from, to), FactoryInv',
           UNCHANGED <<life, scenario, sock, flow_of, rtcp, made, disturbed>>
    PROVE  TypeInv'
BY MoveKeeps, StreamStays DEF TypeInv, ReasonsInv

\* rtcp_reader::start() makes the thread, which may leave, and sets active_.
Launches(s) == ReaderLaunch(s) \/ ReaderLeaves(s) \/ ReaderMark(s)

LEMMA LaunchesTyped ==
    ASSUME TypeInv, NEW s \in Streams, Launches(s)
    PROVE  TypeInv'
<1> DEFINE r == rtcp[s].reader
<1>1. PICK from \in {"reader_launch", "reader_mark"}, to \in {"reader_mark", "start"} :
          Goes(s, from, to)
  BY DEF Launches, ReaderLaunch, ReaderLeaves, ReaderMark
<1>2. /\ from \in Steps \ {"none"} /\ to \in Steps \ NeedsSocket
      /\ UNCHANGED <<life, scenario, sock, flow_of, rtcp, made, factory, disturbed>>
  BY DEF Launches, ReaderLaunch, ReaderLeaves, ReaderMark, ghosts, stream, factory, Steps,
         Creating, NeedsSocket
<1>3. FactoryInv'
  <2>1. CASE r \in Ids
    <3>1. PICK new \in {[readers[r] EXCEPT !.thread = TRUE, !.left = FALSE],
                       [readers[r] EXCEPT !.left = TRUE], [readers[r] EXCEPT !.active = TRUE]} :
            readers' = [readers EXCEPT ![r] = new]
      BY <2>1 DEF Launches, ReaderLaunch, ReaderLeaves, ReaderMark, TypeInv, FactoryInv
    <3>2. new \in Readers(made) /\ new.port = readers[r].port
      <4>1. readers[r] \in Readers(made)
        BY <2>1 DEF TypeInv, FactoryInv
      <4> QED BY <3>1, <4>1 DEF Readers
    <3> HIDE DEF r
    <3> QED
      BY <2>1, <3>1, <3>2, <1>2, ReaderKeeps
  <2>2. CASE r \notin Ids
    <3>1. readers' = readers
      BY <2>2 DEF Launches, ReaderLaunch, ReaderLeaves, ReaderMark, TypeInv, FactoryInv
    <3> QED BY <3>1, <1>2, FactoryStays DEF TypeInv
  <2> QED BY <2>1, <2>2
<1> QED
  BY <1>1, <1>2, <1>3, ReaderStep

-----------------------------------------------------------------------------
(* ~media_stream().                                                        *)

LEMMA DestroyTyped ==
    ASSUME TypeInv, NEW s \in Streams, Destroy(s)
    PROVE  TypeInv'
<1>1. PICK from \in {"up", "user", "manual", "broken"} : Goes(s, from, "delete")
  BY DEF Destroy
<1>2. from \in Steps \ {"none"} /\ "delete" \in Steps \ NeedsSocket
  BY DEF Steps, Deleting, NeedsSocket
<1>3. /\ UNCHANGED <<life, scenario, sock, flow_of, rtcp, made, factory, readers>>
      /\ disturbed' = disturbed \cup Overlap(Config(s), s, Creating)
  BY DEF Destroy, stream, factory
<1>4. PlaceInv' /\ Config(s) \in Configs
  BY <1>1, <1>2, <1>3, MoveKeeps DEF TypeInv
<1>5. StreamInv'
  BY <1>1, <1>2, <1>3, StreamStays DEF TypeInv
<1>6. ReasonsInv'
  BY <1>3, <1>4, OverlapTyped DEF TypeInv, ReasonsInv
<1> QED
  BY <1>3, <1>4, <1>5, <1>6, FactoryStays DEF TypeInv

LEMMA AfterRtcpTyped ==
    ASSUME NEW s
    PROVE  AfterRtcp(s) \in Steps \ NeedsSocket /\ AfterRtcp(s) # "none"
BY DEF AfterRtcp, Steps, Deleting, NeedsSocket

LEMMA StopRtcpTyped ==
    ASSUME TypeInv, NEW s \in Streams, StopRtcp(s)
    PROVE  TypeInv'
<1> DEFINE r   == rtcp[s].reader
           new == [readers[r] EXCEPT !.members = @ \ {Me(s)}]
           to  == IF r # 0 THEN "reader_check" ELSE AfterRtcp(s)
<1>1. /\ Goes(s, "delete", to)
      /\ "delete" \in Steps \ {"none"} /\ to \in Steps \ NeedsSocket
      /\ readers' = IF r # 0 THEN [readers EXCEPT ![r].members = @ \ {Me(s)}] ELSE readers
      /\ UNCHANGED <<life, scenario, sock, flow_of, rtcp, made, factory, disturbed>>
  BY AfterRtcpTyped DEF StopRtcp, ghosts, stream, factory, Steps, Deleting, NeedsSocket
<1>2. FactoryInv'
  <2>1. CASE r # 0 /\ r \in Ids
    <3>1. new \in Readers(made) /\ new.port = readers[r].port
      <4>1. readers[r] \in Readers(made)
        BY <2>1 DEF TypeInv, FactoryInv
      <4> QED BY <4>1 DEF Readers
    <3>2. readers' = [readers EXCEPT ![r] = new]
      BY <1>1, <2>1 DEF TypeInv, FactoryInv
    <3> HIDE DEF r, new
    <3> QED
      BY <2>1, <3>1, <3>2, <1>1, ReaderKeeps
  <2>2. CASE ~(r # 0 /\ r \in Ids)
    <3>1. readers' = readers
      BY <1>1, <2>2 DEF TypeInv, FactoryInv
    <3> QED BY <3>1, <1>1, FactoryStays DEF TypeInv
  <2> QED BY <2>1, <2>2
<1> HIDE DEF to
<1> QED
  BY <1>1, <1>2, ReaderStep

LEMMA ReaderCheckTyped ==
    ASSUME TypeInv, NEW s \in Streams, ReaderCheck(s)
    PROVE  TypeInv'
<1> DEFINE r     == rtcp[s].reader
           empty == readers[r].members = {}
           new   == [readers[r] EXCEPT !.active = FALSE, !.thread = FALSE]
           to    == IF empty THEN "clear_rtcp" ELSE AfterRtcp(s)
<1>1. /\ Goes(s, "reader_check", to)
      /\ "reader_check" \in Steps \ {"none"} /\ to \in Steps \ NeedsSocket
      /\ readers' = IF empty THEN [readers EXCEPT ![r].active = FALSE, ![r].thread = FALSE]
                    ELSE readers
      /\ UNCHANGED <<life, scenario, sock, flow_of, rtcp, made, factory, disturbed>>
  BY AfterRtcpTyped DEF ReaderCheck, ghosts, stream, factory, Steps, Deleting, NeedsSocket
<1>2. FactoryInv'
  <2>1. CASE empty /\ r \in Ids
    <3>1. new \in Readers(made) /\ new.port = readers[r].port
      <4>1. readers[r] \in Readers(made)
        BY <2>1 DEF TypeInv, FactoryInv
      <4> QED BY <4>1 DEF Readers
    <3>2. readers' = [readers EXCEPT ![r] = new]
      BY <1>1, <2>1 DEF TypeInv, FactoryInv
    <3> HIDE DEF r, new
    <3> QED
      BY <2>1, <3>1, <3>2, <1>1, ReaderKeeps
  <2>2. CASE ~(empty /\ r \in Ids)
    <3>1. readers' = readers
      BY <1>1, <2>2 DEF TypeInv, FactoryInv
    <3> QED BY <3>1, <1>1, FactoryStays DEF TypeInv
  <2> QED BY <2>1, <2>2
<1> HIDE DEF to
<1> QED
  BY <1>1, <1>2, ReaderStep

LEMMA ClearRtcpTyped ==
    ASSUME TypeInv, NEW s \in Streams, ClearRtcp(s)
    PROVE  TypeInv'
<1>1. /\ Goes(s, "clear_rtcp", AfterRtcp(s)) /\ at[s] = "clear_rtcp"
      /\ "clear_rtcp" \in Steps \ {"none"} /\ AfterRtcp(s) \in Steps \ NeedsSocket
      /\ clear_port(Config(s).port + 1, rtcp[s].sock)
      /\ UNCHANGED <<life, scenario, sock, flow_of, rtcp, disturbed>>
  BY AfterRtcpTyped DEF ClearRtcp, ghosts, stream, Steps, Deleting, Goes
<1>2. Config(s).port + 1 \in Ports
  BY <1>1, ConfigOf, ConfigsTyped DEF TypeInv
<1>3. FactoryInv' /\ made' = made
  BY <1>1, <1>2, ClearKeeps DEF TypeInv
<1> QED
  BY <1>1, <1>3, ReaderStep

LEMMA ClearPortTyped ==
    ASSUME TypeInv, NEW s \in Streams, ClearPort(s)
    PROVE  TypeInv'
<1>1. /\ Goes(s, "clear", "free") /\ at[s] = "clear"
      /\ "clear" \in Steps \ {"none"} /\ "free" \in Steps \ NeedsSocket
      /\ clear_port(Config(s).port, sock[s])
      /\ UNCHANGED <<life, scenario, sock, flow_of, rtcp>>
      /\ \/ disturbed' = disturbed \cup {<<Config(s).port, "held_by_ZRTP">>}
         \/ disturbed' = disturbed
  BY DEF ClearPort, ghosts, stream, Steps, Deleting, NeedsSocket, Goes
<1>2. Config(s).port \in Ports
  BY <1>1, ConfigOf, ConfigsTyped DEF TypeInv
<1>3. FactoryInv' /\ made' = made
  BY <1>1, <1>2, ClearKeeps DEF TypeInv
<1>4. ReasonsInv'
  <2>1. "held_by_ZRTP" \in Reasons
    BY DEF Reasons
  <2>2. <<Config(s).port, "held_by_ZRTP">> \in Ports \X Reasons
    BY <1>2, <2>1, MarkTyped, Zenon
  <2>3. disturbed \subseteq Ports \X Reasons
    BY DEF TypeInv, ReasonsInv
  <2>4. disturbed' \subseteq Ports \X Reasons
    BY <1>1, <2>2, <2>3, Zenon
  <2> QED BY <2>4 DEF ReasonsInv
<1>5. PlaceInv' /\ StreamInv'
  BY <1>1, <1>3, MoveKeeps, StreamStays DEF TypeInv
<1> QED
  BY <1>3, <1>4, <1>5 DEF TypeInv

LEMMA FreeTyped ==
    ASSUME TypeInv, NEW s \in Streams, Free(s)
    PROVE  TypeInv'
<1>1. /\ Goes(s, "free", "none")
      /\ "free" \in Steps \ {"none"} /\ "none" \in Steps \ NeedsSocket
      /\ rtcp' = [rtcp EXCEPT ![s] = NoRtcp] /\ sock' = [sock EXCEPT ![s] = 0]
      /\ flow_of' = [flow_of EXCEPT ![s] = 0]
      /\ UNCHANGED <<life, scenario, factory, made, readers, disturbed>>
  BY DEF Free, free_resources, factory, Steps, Deleting, NeedsSocket
<1>2. /\ PlaceInv'
      /\ at'[s] = "none" /\ \A t \in Streams \ {s} : at'[t] = at[t]
      /\ \A t \in Streams : Config(t)' = Config(t)
  BY <1>1, MoveKeeps DEF TypeInv
<1>3. made \in Nat /\ NoRtcp \in Rtcps(made) /\ 0 \in 0 .. made
  <2>1. made \in Nat
    BY MadeIsNat DEF TypeInv
  <2> QED BY <2>1, NoRtcpTyped
<1>4. /\ sock' \in [Streams -> 0 .. made'] /\ flow_of' \in [Streams -> 0 .. made']
      /\ rtcp' \in [Streams -> Rtcps(made')]
      /\ \A t \in Streams \ {s} : sock'[t] = sock[t] /\ rtcp'[t] = rtcp[t]
  BY <1>1, <1>3 DEF TypeInv, StreamInv
<1>5. StreamInv'
  BY <1>2, <1>4 DEF TypeInv, StreamInv
<1> QED
  BY <1>1, <1>2, <1>5, FactoryStays DEF TypeInv, ReasonsInv

-----------------------------------------------------------------------------
(* The other steps, and the theorem.                                       *)

LEMMA SetRemoteSsrcTyped ==
    ASSUME TypeInv, NEW s \in Streams, SetRemoteSsrc(s)
    PROVE  TypeInv'
<1>1. /\ Goes(s, "up", "up") /\ at[s] = "up"
      /\ "up" \in Steps \ {"none"} /\ "up" \in Steps \ NeedsSocket
      /\ UNCHANGED <<life, scenario, sock, flow_of, rtcp, made, factory, readers>>
  BY DEF SetRemoteSsrc, factory, Steps, NeedsSocket, Goes
<1>2. PICK new : disturbed' = disturbed \cup SameSsrc(s, flow_of[s], new)
  BY DEF SetRemoteSsrc
<1>3. ReasonsInv'
  BY <1>1, <1>2, ConfigOf, SameSsrcTyped DEF TypeInv, ReasonsInv
<1> QED
  BY <1>1, <1>3, MoveKeeps, StreamStays, FactoryStays DEF TypeInv

\* The steps of the thread alone, of the flow and of ZRTP.
LEMMA OthersTyped ==
    ASSUME TypeInv, NEW s \in Streams,
           \/ ReaderStart(s) \/ LaunchTwice(s) \/ StartFlow(s)
           \/ StartZrtp(s) \/ WaitForDh(s) \/ try_lock_zrtp(s) \/ BeginZrtp(s)
           \/ Negotiated(s) \/ TakeKeys(s) \/ UnlockZrtp(s) \/ InstallAfterZrtp(s)
           \/ RemoveHandlers(s) \/ StopFlow(s)
    PROVE  TypeInv'
<1>1. UNCHANGED <<life, scenario, stream, factory, readers, disturbed>>
  BY DEF ReaderStart, LaunchTwice, Crash, StartFlow, StartZrtp, WaitForDh,
         try_lock_zrtp, BeginZrtp, Negotiated, TakeKeys, UnlockZrtp, InstallAfterZrtp,
         RemoveHandlers, StopFlow, ghosts
<1>2. PICK from \in {"reader_start", "reader_launch", "start", "manual", "dh_wait",
                    "lock", "begin", "negotiate", "keys", "unlock", "handlers", "remove",
                    "stop"} :
      \E to \in {"start", "reader_launch", "crashed", "up", "dh_wait", "begin",
                 "manual", "lock", "negotiate", "keys", "unlock", "handlers", "stop", "free",
                 "clear"} : Goes(s, from, to)
  BY DEF ReaderStart, LaunchTwice, StartFlow, StartZrtp, WaitForDh, Zrtp,
         try_lock_zrtp, BeginZrtp, Negotiated, TakeKeys, UnlockZrtp, InstallAfterZrtp,
         RemoveHandlers, StopFlow
<1>3. PICK to \in {"start", "reader_launch", "crashed", "up", "dh_wait", "begin",
                  "manual", "lock", "negotiate", "keys", "unlock", "handlers", "stop", "free",
                  "clear"} : Goes(s, from, to)
  BY <1>2
<1>4. from \in Steps \ {"none"} /\ to \in Steps \ NeedsSocket
  BY DEF Steps, Creating, Deleting, NeedsSocket
<1> QED
  BY <1>1, <1>3, <1>4, OtherStep

LEMMA FailuresTyped ==
    ASSUME TypeInv, NEW s \in Streams,
           \/ ConnectFails(s) \/ WrongCtx(s) \/ UnknownFormat(s) \/ GiveUpOnDh(s)
           \/ GiveUpOnLock(s) \/ ZrtpFails(s)
    PROVE  TypeInv'
<1>1. PICK from \in {"connect", "up", "media", "dh_wait", "lock", "negotiate"} : Fails(s, from)
  BY DEF ConnectFails, WrongCtx, UnknownFormat, GiveUpOnDh, GiveUpOnLock, ZrtpFails
<1>2. from \in Steps \ {"none"}
  BY DEF Steps, Creating
<1> QED
  BY <1>1, <1>2, FailsKeeps

LEMMA InitTyped == Init => TypeInv
<1> SUFFICES ASSUME Init PROVE TypeInv
  OBVIOUS
<1>1. PlaceInv
  BY DEF Init, PlaceInv, Steps
<1>2. FactoryInv
  <2>1. readers \in [Ids -> Readers(0)] /\ made = 0
    BY DEF Init, Readers
  <2>2. bound \in [Ids -> Ports \cup {0}] /\ used_ports \in [Ports -> 0 .. 0]
    BY DEF Init
  <2>3. made \in 0 .. MaxSockets
    BY SetupAssumption DEF Init
  <2> QED
    BY <2>1, <2>2, <2>3 DEF Init, FactoryInv
<1>3. StreamInv
  <2>1. NoRtcp \in Rtcps(0) /\ made = 0
    BY NoRtcpTyped DEF Init
  <2> QED
    BY <2>1 DEF Init, StreamInv
<1>4. ReasonsInv
  BY DEF Init, ReasonsInv
<1> QED
  BY <1>1, <1>2, <1>3, <1>4 DEF TypeInv

LEMMA NextTyped == TypeInv /\ [Next]_vars => TypeInv'
<1> SUFFICES ASSUME TypeInv, [Next]_vars PROVE TypeInv'
  OBVIOUS
<1>1. CASE UNCHANGED vars
  BY <1>1 DEF vars, stream, factory, ghosts, TypeInv, FactoryInv, PlaceInv, StreamInv,
              ReasonsInv, Config, Readers, Rtcps
<1>2. CASE Next
  BY <1>2, CreateTyped, GetSocketTyped, ConnectTyped, NoFlowTyped, GetFlowTyped, InstallTyped,
     AddSrtpCtxTyped,
     CreateMediaTyped, RtcpSocketTyped, RtcpReaderTyped, NoReaderTyped, RtcpStartTyped,
     LaunchesTyped, DestroyTyped, StopRtcpTyped, ReaderCheckTyped, ClearRtcpTyped,
     ClearPortTyped, FreeTyped, SetRemoteSsrcTyped, OthersTyped, FailuresTyped, Zenon DEF Next, Launches
<1> QED
  BY <1>1, <1>2

LEMMA TypeOKOf == TypeInv => TypeOK
<1> SUFFICES ASSUME TypeInv PROVE TypeOK
  OBVIOUS
<1>1. \A s \in Streams : {sock[s], flow_of[s], rtcp[s].sock, rtcp[s].reader} \subseteq 0 .. made
  BY DEF TypeInv, StreamInv, Rtcps
<1> QED
  BY <1>1 DEF TypeInv, FactoryInv, PlaceInv, ReasonsInv, Reasons, TypeOK

\* However the calls of the streams interleave, whatever fails, what a stream or the factory
\* points to was made by the factory, a port that is entered has a socket bound to it, and a
\* stream that exists has a configuration (create_new_socket(), bind_socket(), clear_port(),
\* ~media_stream()).
THEOREM SetupTypes == Spec => []TypeOK
<1> QED
  BY InitTyped, NextTyped, TypeOKOf, PTL DEF Spec

-----------------------------------------------------------------------------
(* Streams negotiate one at a time.                                        *)

Kind(s) == Config(s).kind
Negotiating == {"begin", "negotiate", "keys"}

\* The steps of a stream before it has the keys of Diffie-Hellman.
BeforeKeys == Creating \cup {"manual"} \cup Negotiating

\* The steps that only a stream with ZRTP takes.
WithZrtp == Negotiating \cup {"manual", "dh_wait", "lock"}

Zrtps == [made : BOOLEAN, dh : BOOLEAN, busy : Streams \cup {0}, socket : Nat]

\* Who does what.
KindInv ==
    \A s \in Streams : /\ at[s] \in Negotiating \cup {"manual"} => Kind(s) \in ByZrtp
                       /\ at[s] \in {"dh_wait", "lock"} => Kind(s) = "msm"
                       /\ at[s] = "user" => Kind(s) = "user"

\* Multistream mode comes after Diffie-Hellman, which no stream has yet to do then.
PhaseInv ==
    /\ \A s \in Streams : Kind(s) = "msm" /\ at[s] \in Negotiating \cup {"lock"} => zrtp.dh
    /\ \A s \in Streams : \A i \in DOMAIN scenario[s] :
           /\ scenario[s][i].kind = "dh"
           /\ life[s] < i \/ (life[s] = i /\ at[s] \in BeforeKeys)
           => ~zrtp.dh

\* A stream in multistream mode holds the lock until somebody takes it away.
LockInv ==
    \A s \in Streams : Kind(s) = "msm" /\ at[s] \in Negotiating => zrtp.busy = s \/ intruded

NegotiationInv ==
    TypeInv /\ zrtp \in Zrtps /\ intruded \in BOOLEAN /\ KindInv /\ PhaseInv /\ LockInv

\* What a step may do to the lock.
LockStays == zrtp'.busy = zrtp.busy /\ intruded' = intruded
LockFreed(s) == zrtp'.busy = 0 /\ intruded' = (intruded \/ zrtp.busy \notin {0, s})

LEMMA UnlockFrees ==
    ASSUME zrtp \in Zrtps, NEW s, Unlock(s)
    PROVE  zrtp' \in Zrtps /\ zrtp'.dh = zrtp.dh /\ LockFreed(s)
BY DEF Zrtps, Unlock, LockFreed

\* The lock when a stream goes to a step that holds no lock.
LEMMA LockKept ==
    ASSUME NegotiationInv, NEW s \in Streams, NEW from \in Steps \ {"none"},
           NEW to \in Steps, Goes(s, from, to), UNCHANGED <<life, scenario>>,
           \/ LockStays /\ (to \in Negotiating => from \in Negotiating \/ Kind(s) # "msm")
           \/ LockFreed(s) /\ to \notin Negotiating
    PROVE  LockInv'
<1>1. /\ at'[s] = to /\ at[s] = from /\ \A t \in Streams \ {s} : at'[t] = at[t]
      /\ \A t \in Streams : Config(t)' = Config(t)
  BY MoveKeeps DEF NegotiationInv, TypeInv, Goes
<1>2. \A t \in Streams : Kind(t)' = Kind(t)
  BY <1>1 DEF Kind
<1> SUFFICES ASSUME NEW t \in Streams, Kind(t) = "msm", at'[t] \in Negotiating
             PROVE  zrtp'.busy = t \/ intruded'
  BY <1>2 DEF LockInv
<1>3. CASE LockStays
  <2>1. at[t] \in Negotiating
    BY <1>1, <1>3 DEF LockFreed
  <2> QED
    BY <1>3, <2>1 DEF NegotiationInv, LockInv, LockStays
<1>4. CASE LockFreed(s) /\ to \notin Negotiating
  <2>1. t # s /\ at[t] \in Negotiating
    BY <1>1, <1>4
  <2>2. zrtp.busy = t \/ intruded
    BY <2>1 DEF NegotiationInv, LockInv
  <2>3. t # 0
    BY SetupAssumption
  <2> QED
    BY <1>4, <2>1, <2>2, <2>3 DEF LockFreed
<1> QED
  BY <1>3, <1>4

\* What a stream does when it goes to the steps with ZRTP, and back to none of them.
LEMMA KindKept ==
    ASSUME NegotiationInv, NEW s \in Streams, NEW from \in Steps \ {"none"},
           NEW to \in Steps, Goes(s, from, to), UNCHANGED <<life, scenario>>,
           to \in Negotiating \cup {"manual"} => Kind(s) \in ByZrtp,
           to \in {"dh_wait", "lock"} => Kind(s) = "msm",
           to = "user" => Kind(s) = "user"
    PROVE  KindInv'
<1>1. /\ at'[s] = to /\ \A t \in Streams \ {s} : at'[t] = at[t]
      /\ \A t \in Streams : Config(t)' = Config(t)
  BY MoveKeeps DEF NegotiationInv, TypeInv
<1>2. \A t \in Streams : Kind(t)' = Kind(t)
  BY <1>1 DEF Kind
<1> SUFFICES ASSUME NEW t \in Streams
             PROVE  /\ at'[t] \in Negotiating \cup {"manual"} => Kind(t) \in ByZrtp
                    /\ at'[t] \in {"dh_wait", "lock"} => Kind(t) = "msm"
                    /\ at'[t] = "user" => Kind(t) = "user"
  BY <1>2 DEF KindInv
<1>3. CASE t = s
  BY <1>1, <1>3
<1>4. CASE t # s
  BY <1>1, <1>4 DEF NegotiationInv, KindInv
<1> QED
  BY <1>3, <1>4

LEMMA PhaseKept ==
    ASSUME NegotiationInv, NEW s \in Streams, NEW from \in Steps \ {"none"},
           NEW to \in Steps, Goes(s, from, to), UNCHANGED <<life, scenario>>,
           zrtp'.dh = zrtp.dh,
           Kind(s) = "msm" /\ to \in Negotiating \cup {"lock"} => zrtp.dh,
           Kind(s) = "dh" /\ to \in BeforeKeys => from \in BeforeKeys
    PROVE  PhaseInv'
<1>1. /\ at'[s] = to /\ at[s] = from /\ \A t \in Streams \ {s} : at'[t] = at[t]
      /\ \A t \in Streams : Config(t)' = Config(t)
  BY MoveKeeps DEF NegotiationInv, TypeInv, Goes
<1>2. \A t \in Streams : Kind(t)' = Kind(t)
  BY <1>1 DEF Kind
<1>3. ASSUME NEW t \in Streams, Kind(t) = "msm", at'[t] \in Negotiating \cup {"lock"}
      PROVE  zrtp.dh
  BY <1>1, <1>3 DEF NegotiationInv, PhaseInv
<1>4. ASSUME NEW t \in Streams, NEW i \in DOMAIN scenario[t], scenario[t][i].kind = "dh",
             life[t] < i \/ (life[t] = i /\ at'[t] \in BeforeKeys)
      PROVE  ~zrtp.dh
  <2>1. CASE life[t] < i \/ t # s
    BY <1>1, <1>4, <2>1 DEF NegotiationInv, PhaseInv
  <2>2. CASE ~(life[t] < i) /\ t = s
    <3>1. life[s] = i /\ Kind(s) = "dh" /\ to \in BeforeKeys
      BY <1>1, <1>4, <2>2 DEF Kind, Config
    <3> QED
      BY <1>1, <1>4, <2>2, <3>1 DEF NegotiationInv, PhaseInv
  <2> QED BY <2>1, <2>2
<1> QED
  BY <1>2, <1>3, <1>4 DEF PhaseInv

\* A step that leads to none of the steps with ZRTP.
LEMMA FarStep ==
    ASSUME NegotiationInv, TypeInv', NEW s \in Streams, NEW from \in Steps \ {"none"},
           NEW to \in Steps \ (WithZrtp \cup {"user"}), Goes(s, from, to),
           UNCHANGED <<life, scenario>>,
           to \in Creating => from \in Creating \cup {"user"},
           UNCHANGED <<zrtp, intruded>> \/ Unlock(s)
    PROVE  NegotiationInv'
<1>1. zrtp' \in Zrtps /\ zrtp'.dh = zrtp.dh /\ (LockStays \/ LockFreed(s))
  BY UnlockFrees DEF NegotiationInv, LockStays
<1>2. intruded' \in BOOLEAN
  BY DEF NegotiationInv, Unlock
<1>3. to \notin Negotiating /\ to \notin {"manual", "dh_wait", "lock", "user"}
  BY DEF WithZrtp
<1>4. Kind(s) = "dh" /\ to \in BeforeKeys => from \in BeforeKeys
  <2>1. from = "user" => Kind(s) = "user"
    BY DEF NegotiationInv, KindInv, Goes
  <2>2. to \in BeforeKeys => from \in Creating \cup {"user"}
    BY <1>3 DEF BeforeKeys
  <2> QED
    BY <2>1, <2>2 DEF BeforeKeys
<1>5. LockInv'
  BY <1>1, <1>3, LockKept
<1>6. KindInv'
  BY <1>3, KindKept
<1>7. PhaseInv'
  BY <1>1, <1>3, <1>4, PhaseKept
<1> QED
  BY <1>1, <1>2, <1>5, <1>6, <1>7 DEF NegotiationInv

LEMMA FailsFar ==
    ASSUME NegotiationInv, TypeInv', NEW s \in Streams, NEW from \in Steps \ {"none"},
           Fails(s, from)
    PROVE  NegotiationInv'
<1>1. PICK to \in {"broken", "delete"} : Goes(s, from, to)
  BY DEF Fails
<1>2. /\ to \in Steps \ (WithZrtp \cup {"user"}) /\ to \notin Creating
  BY DEF Steps, Deleting, Creating, WithZrtp, Negotiating
<1>3. UNCHANGED <<life, scenario>> /\ (UNCHANGED <<zrtp, intruded>> \/ Unlock(s))
  BY DEF Fails, free_resources
<1> QED
  BY <1>1, <1>2, <1>3, FarStep

LEMMA CreateNegotiates ==
    ASSUME NegotiationInv, TypeInv', NEW s \in Streams, Create(s)
    PROVE  NegotiationInv'
<1>1. /\ at[s] = "none" /\ life' = [life EXCEPT ![s] = @ + 1]
      /\ at' = [at EXCEPT ![s] = "socket"] /\ UNCHANGED <<scenario, intruded>>
      /\ zrtp' = [zrtp EXCEPT !.made = @ \/ scenario[s][life'[s]].kind # "plain"]
  BY DEF Create
<1>2. zrtp' \in Zrtps /\ zrtp'.dh = zrtp.dh /\ zrtp'.busy = zrtp.busy
  BY <1>1 DEF NegotiationInv, Zrtps
<1>3. /\ at'[s] = "socket" /\ life'[s] = life[s] + 1 /\ life[s] \in Nat
      /\ \A t \in Streams \ {s} : at'[t] = at[t] /\ life'[t] = life[t] /\ Kind(t)' = Kind(t)
  BY <1>1 DEF NegotiationInv, TypeInv, PlaceInv, Kind, Config
<1>4. "socket" \notin Negotiating \cup {"manual", "dh_wait", "lock", "user"}
  BY DEF Negotiating
<1>5. KindInv'
  BY <1>3, <1>4 DEF NegotiationInv, KindInv
<1>6. LockInv'
  BY <1>1, <1>2, <1>3, <1>4 DEF NegotiationInv, LockInv
<1>7. PhaseInv'
  <2>1. ASSUME NEW t \in Streams, Kind(t)' = "msm", at'[t] \in Negotiating \cup {"lock"}
        PROVE  zrtp'.dh
    BY <1>2, <1>3, <1>4, <2>1 DEF NegotiationInv, PhaseInv
  <2>2. ASSUME NEW t \in Streams, NEW i \in DOMAIN scenario[t], scenario[t][i].kind = "dh",
               life'[t] < i \/ (life'[t] = i /\ at'[t] \in BeforeKeys)
        PROVE  ~zrtp'.dh
    <3>1. CASE t # s
      BY <1>2, <1>3, <2>2, <3>1 DEF NegotiationInv, PhaseInv
    <3>2. CASE t = s
      <4>1. scenario[s] \in Seq(Configs)
        BY SetupAssumption DEF NegotiationInv, TypeInv, PlaceInv
      <4>2. i \in Nat
        BY <2>2, <3>2, <4>1
      <4>3. life[s] < i
        BY <1>3, <2>2, <3>2, <4>2
      <4> QED
        BY <1>2, <2>2, <3>2, <4>3 DEF NegotiationInv, PhaseInv
    <3> QED BY <3>1, <3>2
  <2> QED
    BY <1>1, <2>1, <2>2 DEF PhaseInv
<1> QED
  BY <1>1, <1>2, <1>5, <1>6, <1>7 DEF NegotiationInv

LEMMA StartFlowNegotiates ==
    ASSUME NegotiationInv, TypeInv', NEW s \in Streams, StartFlow(s)
    PROVE  NegotiationInv'
<1> DEFINE to == IF Kind(s) \notin ByZrtp THEN "up"
                 ELSE IF Config(s).auto THEN Zrtp(s) ELSE "manual"
<1>1. /\ Goes(s, "start", to) /\ UNCHANGED <<life, scenario, zrtp, intruded>>
      /\ "start" \in Steps \ {"none"} /\ "start" \in BeforeKeys /\ to \in Steps
  BY DEF StartFlow, ghosts, Kind, Steps, Creating, BeforeKeys, Zrtp
<1>2. LockStays /\ to # "user" /\ to \notin {"lock", "negotiate", "keys"}
  BY <1>1 DEF LockStays, Zrtp
<1>3. /\ to \in {"begin", "manual"} => Kind(s) \in ByZrtp
      /\ to = "dh_wait" => Kind(s) = "msm"
      /\ to = "begin" => Kind(s) # "msm"
  BY DEF Zrtp, Kind, ByZrtp
<1> HIDE DEF to
<1>4. /\ to \in Negotiating \cup {"manual"} => Kind(s) \in ByZrtp
      /\ to \in {"dh_wait", "lock"} => Kind(s) = "msm"
      /\ to \in Negotiating => Kind(s) # "msm"
  BY <1>2, <1>3 DEF Negotiating
<1>5. KindInv'
  BY <1>1, <1>2, <1>4, KindKept
<1>6. LockInv'
  BY <1>1, <1>2, <1>4, LockKept
<1>7. PhaseInv'
  BY <1>1, <1>2, <1>4, PhaseKept
<1> QED
  BY <1>1, <1>5, <1>6, <1>7 DEF NegotiationInv

LEMMA StartZrtpNegotiates ==
    ASSUME NegotiationInv, TypeInv', NEW s \in Streams, StartZrtp(s)
    PROVE  NegotiationInv'
<1> DEFINE to == Zrtp(s)
<1>1. /\ Goes(s, "manual", to) /\ UNCHANGED <<life, scenario, zrtp, intruded>>
      /\ "manual" \in Steps \ {"none"} /\ "manual" \in BeforeKeys /\ to \in Steps
  BY DEF StartZrtp, ghosts, Steps, BeforeKeys, Zrtp
<1>2. LockStays /\ to # "user" /\ to \notin {"lock", "negotiate", "keys", "manual"}
  BY <1>1 DEF LockStays, Zrtp
<1>3. /\ Kind(s) \in ByZrtp
      /\ to = "dh_wait" => Kind(s) = "msm"
      /\ to = "begin" => Kind(s) # "msm"
  BY <1>1 DEF Zrtp, Kind, NegotiationInv, KindInv, Goes
<1> HIDE DEF to
<1>4. /\ to \in {"dh_wait", "lock"} => Kind(s) = "msm"
      /\ to \in Negotiating => Kind(s) # "msm"
  BY <1>2, <1>3 DEF Negotiating
<1>5. KindInv'
  BY <1>1, <1>2, <1>3, <1>4, KindKept
<1>6. LockInv'
  BY <1>1, <1>2, <1>4, LockKept
<1>7. PhaseInv'
  BY <1>1, <1>2, <1>4, PhaseKept
<1> QED
  BY <1>1, <1>5, <1>6, <1>7 DEF NegotiationInv

LEMMA WaitForDhNegotiates ==
    ASSUME NegotiationInv, TypeInv', NEW s \in Streams, WaitForDh(s)
    PROVE  NegotiationInv'
<1>1. /\ Goes(s, "dh_wait", "lock") /\ UNCHANGED <<life, scenario, zrtp, intruded>> /\ zrtp.dh
      /\ "dh_wait" \in Steps \ {"none"} /\ "lock" \in Steps
      /\ "lock" \notin Negotiating \cup BeforeKeys \cup {"manual", "user"}
  BY DEF WaitForDh, ghosts, Steps, BeforeKeys, Creating, Negotiating
<1>2. LockStays /\ Kind(s) = "msm"
  BY <1>1 DEF LockStays, NegotiationInv, KindInv, Goes
<1>3. KindInv'
  BY <1>1, <1>2, KindKept
<1>4. LockInv'
  BY <1>1, <1>2, LockKept
<1>5. PhaseInv'
  BY <1>1, <1>2, PhaseKept
<1> QED
  BY <1>1, <1>3, <1>4, <1>5 DEF NegotiationInv

LEMMA LockNegotiates ==
    ASSUME NegotiationInv, TypeInv', NEW s \in Streams, try_lock_zrtp(s)
    PROVE  NegotiationInv'
<1>1. /\ Goes(s, "lock", "begin") /\ UNCHANGED <<life, scenario, intruded>>
      /\ zrtp.busy = 0 /\ zrtp' = [zrtp EXCEPT !.busy = s]
      /\ "lock" \in Steps \ {"none"} /\ "begin" \in Steps /\ "begin" \in Negotiating
  BY DEF try_lock_zrtp, ghosts, Steps, Negotiating
<1>2. zrtp' \in Zrtps /\ zrtp'.dh = zrtp.dh /\ zrtp'.busy = s
  BY <1>1 DEF NegotiationInv, Zrtps
<1>3. Kind(s) = "msm" /\ zrtp.dh
  BY <1>1 DEF NegotiationInv, KindInv, PhaseInv, Goes
<1>4. KindInv'
  BY <1>1, <1>3, KindKept DEF ByZrtp
<1>5. PhaseInv'
  BY <1>1, <1>2, <1>3, PhaseKept
<1>6. LockInv'
  <2>1. /\ \A t \in Streams \ {s} : at'[t] = at[t]
        /\ \A t \in Streams : Kind(t)' = Kind(t)
    BY <1>1, MoveKeeps DEF NegotiationInv, TypeInv, Kind
  <2> SUFFICES ASSUME NEW t \in Streams, Kind(t) = "msm", at'[t] \in Negotiating
               PROVE  zrtp'.busy = t \/ intruded'
    BY <2>1 DEF LockInv
  <2>2. CASE t # s
    <3>1. zrtp.busy = t \/ intruded
      BY <2>1, <2>2 DEF NegotiationInv, LockInv
    <3>2. t # 0
      BY SetupAssumption
    <3> QED
      BY <3>1, <3>2, <1>1
  <2> QED
    BY <2>2, <1>2
<1> QED
  BY <1>1, <1>2, <1>4, <1>5, <1>6 DEF NegotiationInv

\* The steps of the negotiation.
LEMMA NegotiatesOn ==
    ASSUME NegotiationInv, TypeInv', NEW s \in Streams, BeginZrtp(s) \/ Negotiated(s)
    PROVE  NegotiationInv'
<1>1. /\ \/ Goes(s, "begin", "negotiate") \/ Goes(s, "negotiate", "keys")
      /\ UNCHANGED <<life, scenario, intruded>>
      /\ zrtp' = zrtp \/ zrtp' = [zrtp EXCEPT !.socket = sock[s]]
  BY DEF BeginZrtp, Negotiated, ghosts
<1>2. /\ Negotiating \subseteq Steps \ {"none"} /\ Negotiating \subseteq BeforeKeys
      /\ {"user", "manual", "dh_wait", "lock"} \cap Negotiating = {}
  BY DEF Steps, Negotiating, BeforeKeys
<1>3. PICK from \in Negotiating, to \in Negotiating : Goes(s, from, to)
  BY <1>1 DEF Negotiating
<1>4. /\ zrtp' \in Zrtps /\ zrtp'.dh = zrtp.dh /\ zrtp'.busy = zrtp.busy
  <2>1. sock[s] \in Nat
    <3>1. sock[s] \in 0 .. made /\ made \in Nat
      BY MadeIsNat DEF NegotiationInv, TypeInv, StreamInv
    <3> QED BY <3>1
  <2> QED
    BY <1>1, <2>1 DEF NegotiationInv, Zrtps
<1>5. Kind(s) \in ByZrtp /\ (Kind(s) = "msm" => zrtp.dh)
  BY <1>3 DEF NegotiationInv, KindInv, PhaseInv, Goes
<1>6. KindInv'
  BY <1>1, <1>2, <1>3, <1>5, KindKept
<1>7. PhaseInv'
  BY <1>1, <1>2, <1>3, <1>4, <1>5, PhaseKept
<1>8. LockInv'
  BY <1>1, <1>2, <1>3, <1>4, LockKept DEF LockStays
<1> QED
  BY <1>1, <1>4, <1>6, <1>7, <1>8 DEF NegotiationInv

LEMMA TakeKeysNegotiates ==
    ASSUME NegotiationInv, TypeInv', NEW s \in Streams, TakeKeys(s)
    PROVE  NegotiationInv'
<1>1. /\ Goes(s, "keys", "unlock") /\ UNCHANGED <<life, scenario, intruded>>
      /\ zrtp' = [zrtp EXCEPT !.dh = @ \/ Kind(s) = "dh"]
      /\ "keys" \in Steps \ {"none"} /\ "unlock" \in Steps
      /\ "unlock" \notin Negotiating \cup BeforeKeys \cup WithZrtp \cup {"user"}
  BY DEF TakeKeys, ghosts, Kind, Steps, BeforeKeys, Creating, Negotiating, WithZrtp
<1>2. /\ zrtp' \in Zrtps /\ zrtp'.busy = zrtp.busy
      /\ zrtp'.dh = (zrtp.dh \/ Kind(s) = "dh")
  BY <1>1 DEF NegotiationInv, Zrtps
<1>3. KindInv'
  BY <1>1, KindKept DEF WithZrtp
<1>4. LockInv'
  BY <1>1, <1>2, LockKept DEF LockStays
<1>5. PhaseInv'
  <2>1. /\ at'[s] = "unlock" /\ at[s] = "keys" /\ \A t \in Streams \ {s} : at'[t] = at[t]
        /\ \A t \in Streams : Kind(t)' = Kind(t)
    BY <1>1, MoveKeeps DEF NegotiationInv, TypeInv, Kind, Goes
  <2>2. ASSUME NEW t \in Streams, Kind(t) = "msm", at'[t] \in Negotiating \cup {"lock"}
        PROVE  zrtp'.dh
    BY <1>1, <1>2, <2>1, <2>2 DEF NegotiationInv, PhaseInv, WithZrtp
  <2>3. ASSUME NEW t \in Streams, NEW i \in DOMAIN scenario[t], scenario[t][i].kind = "dh",
               life[t] < i \/ (life[t] = i /\ at'[t] \in BeforeKeys)
        PROVE  ~zrtp'.dh
    <3>1. ~zrtp.dh
      BY <1>1, <2>1, <2>3 DEF NegotiationInv, PhaseInv
    <3>2. Kind(s) # "dh"
      <4> SUFFICES ASSUME Kind(s) = "dh" PROVE FALSE
        OBVIOUS
      <4>1. life[s] \in DOMAIN scenario[s] /\ scenario[s][life[s]].kind = "dh"
        BY <2>1 DEF NegotiationInv, TypeInv, PlaceInv, Kind, Config
      <4>2. t = s /\ i = life[s]
        BY <2>3, <4>1, OneDhAssumption DEF NegotiationInv, TypeInv, PlaceInv
      <4>3. life[s] \in Nat
        BY DEF NegotiationInv, TypeInv, PlaceInv
      <4> QED
        BY <1>1, <2>1, <2>3, <4>2, <4>3
    <3> QED
      BY <1>2, <3>1, <3>2
  <2> QED
    BY <1>1, <2>1, <2>2, <2>3 DEF PhaseInv
<1> QED
  BY <1>1, <1>2, <1>3, <1>4, <1>5 DEF NegotiationInv

LEMMA UnlockNegotiates ==
    ASSUME NegotiationInv, TypeInv', NEW s \in Streams, UnlockZrtp(s)
    PROVE  NegotiationInv'
<1>1. /\ Goes(s, "unlock", "handlers") /\ UNCHANGED <<life, scenario>> /\ Unlock(s)
      /\ "unlock" \in Steps \ {"none"}
      /\ "handlers" \in Steps \ (WithZrtp \cup {"user"}) /\ "handlers" \notin Creating
  BY DEF UnlockZrtp, Steps, Creating, Negotiating, WithZrtp
<1> QED
  BY <1>1, FarStep

LEMMA InstallNegotiates ==
    ASSUME NegotiationInv, TypeInv', NEW s \in Streams, Install(s)
    PROVE  NegotiationInv'
<1> DEFINE to == IF Kind(s) = "user" THEN "user" ELSE "media"
<1>1. /\ Goes(s, "install", to) /\ UNCHANGED <<life, scenario, zrtp, intruded>>
      /\ "install" \in Steps \ {"none"} /\ "install" \in BeforeKeys
  BY DEF Install, ghosts, Kind, Steps, Creating, BeforeKeys
<1>2. to \in Steps \ WithZrtp /\ (to = "user" => Kind(s) = "user") /\ LockStays
  BY <1>1 DEF Steps, Creating, WithZrtp, Negotiating, LockStays
<1> HIDE DEF to
<1>3. KindInv'
  BY <1>1, <1>2, KindKept DEF WithZrtp
<1>4. LockInv'
  BY <1>1, <1>2, LockKept DEF WithZrtp
<1>5. PhaseInv'
  BY <1>1, <1>2, PhaseKept DEF WithZrtp
<1> QED
  BY <1>1, <1>3, <1>4, <1>5 DEF NegotiationInv

\* The other steps of create_stream() that go well.
LEMMA CreatingIsFar ==
    ASSUME NegotiationInv, TypeInv', NEW s \in Streams,
           \/ GetSocket(s) \/ Connect(s) \/ GetFlow(s) \/ AddSrtpCtx(s) \/ CreateMedia(s)
           \/ RtcpSocket(s) \/ RtcpReader(s) \/ RtcpStart(s) \/ ReaderStart(s)
           \/ Launches(s)
    PROVE  NegotiationInv'
<1>1. UNCHANGED <<life, scenario, zrtp, intruded>>
  BY DEF GetSocket, Connect, GetFlow, AddSrtpCtx, CreateMedia, RtcpSocket, RtcpReader,
         RtcpStart, ReaderStart, Launches, ReaderLaunch, ReaderLeaves, ReaderMark, ghosts
<1>2. PICK from \in {"socket", "connect", "flow", "user", "media", "rtcp_socket",
                    "rtcp_reader", "rtcp_start", "reader_start", "reader_launch",
                    "reader_mark"} :
      \E to \in Creating : Goes(s, from, to)
  <2>1. CASE CreateMedia(s)
    <3>1. Goes(s, "media", AfterMedia[Config(s).rtcp]) /\ at[s] = "media"
      BY <2>1 DEF CreateMedia, Goes
    <3>2. Config(s).rtcp \in {"none", "mux", "own"}
      BY <3>1, ConfigOf, ConfigsTyped DEF NegotiationInv, TypeInv
    <3>3. /\ AfterMedia["none"] = "start" /\ AfterMedia["mux"] = "rtcp_start"
          /\ AfterMedia["own"] = "rtcp_socket"
      BY DEF AfterMedia
    <3>4. AfterMedia[Config(s).rtcp] \in Creating
      BY <3>2, <3>3 DEF Creating
    <3> QED
      BY <3>1, <3>4
  <2>2. CASE ~CreateMedia(s)
    BY <2>2 DEF GetSocket, Connect, GetFlow, AddSrtpCtx, RtcpSocket, RtcpReader,
                RtcpStart, ReaderStart, Launches, ReaderLaunch, ReaderLeaves, ReaderMark, Creating
  <2> QED BY <2>1, <2>2
<1>3. PICK to \in Creating : Goes(s, from, to)
  BY <1>2
<1>4. /\ from \in Steps \ {"none"} /\ from \in Creating \cup {"user"}
      /\ to \in Steps \ (WithZrtp \cup {"user"})
  BY DEF Steps, Creating, WithZrtp, Negotiating
<1> QED
  BY <1>1, <1>3, <1>4, FarStep

LEMMA DeletingIsFar ==
    ASSUME NegotiationInv, TypeInv', NEW s \in Streams,
           \/ NoReader(s) \/ LaunchTwice(s) \/ InstallAfterZrtp(s) \/ SetRemoteSsrc(s)
           \/ Destroy(s) \/ StopRtcp(s) \/ ReaderCheck(s) \/ ClearRtcp(s)
           \/ RemoveHandlers(s) \/ StopFlow(s) \/ ClearPort(s) \/ Free(s)
    PROVE  NegotiationInv'
<1>1. /\ UNCHANGED <<life, scenario>>
      /\ UNCHANGED <<zrtp, intruded>> \/ Unlock(s)
  BY DEF NoReader, LaunchTwice, Crash, InstallAfterZrtp, SetRemoteSsrc, Destroy, StopRtcp,
         ReaderCheck, ClearRtcp, RemoveHandlers, StopFlow, ClearPort, Free, free_resources,
         ghosts
<1>2. PICK from \in {"rtcp_reader", "rtcp_start", "reader_launch", "handlers", "up", "user",
                    "manual", "broken", "delete", "reader_check", "clear_rtcp", "remove",
                    "stop", "clear", "free"} :
      \E to \in Deleting \cup {"crashed", "up", "none"} : Goes(s, from, to)
  BY DEF NoReader, LaunchTwice, InstallAfterZrtp, SetRemoteSsrc, Destroy, StopRtcp,
         ReaderCheck, ClearRtcp, RemoveHandlers, StopFlow, ClearPort, Free, AfterRtcp, Deleting
<1>3. PICK to \in Deleting \cup {"crashed", "up", "none"} : Goes(s, from, to)
  BY <1>2
<1>4. /\ from \in Steps \ {"none"}
      /\ to \in Steps \ (WithZrtp \cup {"user"}) /\ to \notin Creating
  BY DEF Steps, Creating, Deleting, WithZrtp, Negotiating
<1> QED
  BY <1>1, <1>3, <1>4, FarStep

LEMMA FailuresFar ==
    ASSUME NegotiationInv, TypeInv', NEW s \in Streams,
           \/ ConnectFails(s) \/ WrongCtx(s) \/ UnknownFormat(s) \/ GiveUpOnDh(s)
           \/ GiveUpOnLock(s) \/ ZrtpFails(s) \/ NoFlow(s)
    PROVE  NegotiationInv'
<1>1. CASE \E from \in {"connect", "up", "media", "dh_wait", "lock", "negotiate", "flow"} :
             Fails(s, from)
  <2>1. PICK from \in {"connect", "up", "media", "dh_wait", "lock", "negotiate", "flow"} :
          Fails(s, from)
    BY <1>1
  <2>2. from \in Steps \ {"none"}
    BY DEF Steps, Creating
  <2> QED
    BY <2>1, <2>2, FailsFar
<1>2. CASE NoFlow(s) /\ ~Fails(s, "flow")
  <2>1. Goes(s, "flow", "delete") /\ UNCHANGED <<life, scenario, zrtp, intruded>>
    BY <1>2 DEF NoFlow
  <2>2. /\ "flow" \in Steps \ {"none"}
        /\ "delete" \in Steps \ (WithZrtp \cup {"user"}) /\ "delete" \notin Creating
    BY DEF Steps, Creating, Deleting, WithZrtp, Negotiating
  <2> QED
    BY <2>1, <2>2, FarStep
<1> QED
  BY <1>1, <1>2 DEF ConnectFails, WrongCtx, UnknownFormat, GiveUpOnDh, GiveUpOnLock, ZrtpFails

LEMMA InitNegotiation == Init => NegotiationInv
<1> SUFFICES ASSUME Init PROVE NegotiationInv
  OBVIOUS
<1>1. zrtp \in Zrtps /\ intruded \in BOOLEAN /\ zrtp.dh = FALSE
  BY DEF Init, Zrtps
<1>2. \A s \in Streams : at[s] = "none"
  BY DEF Init
<1>3. KindInv /\ LockInv
  BY <1>2 DEF KindInv, LockInv, Negotiating
<1>4. PhaseInv
  BY <1>1, <1>2 DEF PhaseInv, Negotiating
<1> QED
  BY <1>1, <1>3, <1>4, InitTyped DEF NegotiationInv

LEMMA NextNegotiation == NegotiationInv /\ [Next]_vars => NegotiationInv'
<1> SUFFICES ASSUME NegotiationInv, [Next]_vars PROVE NegotiationInv'
  OBVIOUS
<1>1. TypeInv'
  BY NextTyped DEF NegotiationInv
<1>2. CASE UNCHANGED vars
  BY <1>1, <1>2 DEF vars, ghosts, NegotiationInv, KindInv, PhaseInv, LockInv, Kind, Config
<1>3. CASE Next
  BY <1>1, <1>3, CreateNegotiates, InstallNegotiates, StartFlowNegotiates,
     StartZrtpNegotiates, WaitForDhNegotiates, LockNegotiates, NegotiatesOn,
     TakeKeysNegotiates, UnlockNegotiates, CreatingIsFar, DeletingIsFar, FailuresFar, Zenon
     DEF Next, Launches
<1> QED
  BY <1>2, <1>3

LEMMA OneNegotiates ==
    ASSUME NegotiationInv, ~intruded, NEW s \in Streams, NEW t \in Streams,
           at[s] \in Negotiating, at[t] \in Negotiating
    PROVE  s = t
<1>1. Kind(s) \in {"dh", "msm"} /\ Kind(t) \in {"dh", "msm"}
  BY DEF NegotiationInv, KindInv, ByZrtp
<1>2. ASSUME NEW u \in Streams, Kind(u) = "dh", at[u] \in Negotiating
      PROVE  /\ life[u] \in DOMAIN scenario[u] /\ scenario[u][life[u]].kind = "dh"
             /\ ~zrtp.dh
  <2>1. life[u] \in DOMAIN scenario[u] /\ scenario[u][life[u]].kind = "dh"
    BY <1>2 DEF NegotiationInv, TypeInv, PlaceInv, Negotiating, Kind, Config
  <2>2. at[u] \in BeforeKeys
    BY <1>2 DEF BeforeKeys
  <2> QED
    BY <2>1, <2>2 DEF NegotiationInv, PhaseInv
<1>3. ASSUME NEW u \in Streams, Kind(u) = "msm", at[u] \in Negotiating
      PROVE  zrtp.dh /\ zrtp.busy = u
  BY <1>3 DEF NegotiationInv, PhaseInv, LockInv
<1>4. CASE Kind(s) = "dh" /\ Kind(t) = "dh"
  BY <1>2, <1>4, OneDhAssumption DEF NegotiationInv, TypeInv, PlaceInv
<1> QED
  BY <1>1, <1>2, <1>3, <1>4

\* As long as no stream has unlocked ZRTP for another one, at most one of the streams
\* negotiates or reads the keys of the ZRTP object that they share: the one stream in
\* Diffie-Hellman mode comes before all others, which start_zrtp() makes wait for it, and
\* they take turns by try_lock_zrtp().
THEOREM OneAtATime == Spec => []NegotiatesAlone
<1>1. ASSUME NegotiationInv PROVE NegotiatesAlone
  <2> SUFFICES ASSUME ~intruded
               PROVE  Cardinality({s \in Streams : at[s] \in Negotiating}) <= 1
    BY DEF NegotiatesAlone, Negotiating
  <2>1. CASE {s \in Streams : at[s] \in Negotiating} = {}
    BY <2>1, FS_EmptySet
  <2>2. CASE {s \in Streams : at[s] \in Negotiating} # {}
    <3>1. PICK s \in Streams : at[s] \in Negotiating
      BY <2>2
    <3>2. {t \in Streams : at[t] \in Negotiating} = {s}
      BY <1>1, <3>1, OneNegotiates
    <3>3. Cardinality({t \in Streams : at[t] \in Negotiating}) = 1
      BY <3>2, FS_Singleton, Zenon
    <3> QED
      BY <3>3
  <2> QED
    BY <2>1, <2>2
<1> QED
  BY <1>1, InitNegotiation, NextNegotiation, PTL DEF Spec

-----------------------------------------------------------------------------
(* Streams that are up are heard: the inductive invariant.                 *)

\* Where nothing went wrong, the ports of a stream.
Undisturbed(p) == ~Disturbed(p)
Own(s) == Config(s).rtcp = "own"
RtpPort(s) == Config(s).port
RtcpPort(s) == Config(s).port + 1

\* The steps of a stream that has its flow, until it goes; with the parts of them in which
\* it has its media, reads RTCP, and has a running flow.
Up == {"manual", "dh_wait", "lock", "begin", "negotiate", "keys", "unlock", "handlers", "up"}
Reading == {"rtcp_start", "reader_start", "reader_launch", "reader_mark", "start"} \cup Up
WithMedia == {"rtcp_socket", "rtcp_reader"} \cup Reading
InFlow == {"crashed", "install", "user", "media"} \cup WithMedia
Leaving == {"delete", "reader_check", "clear_rtcp", "remove"}
BeforeRtcp == {"install", "user", "media", "rtcp_socket"}

\* A stream has its flow; has its handlers there; is the last one, and stops the flow; is
\* in its reader.
Attached(s) == at[s] \in InFlow \/ (at[s] \in Leaving /\ flow_of[s] # 0)
Installed(s) == Attached(s) /\ at[s] # "install"
Lasts(s) == at[s] \in {"stop", "clear"}
Reads(s) == at[s] \in Reading \/ (at[s] = "delete" /\ rtcp[s].reader # 0)

\* What a stream holds at its step.
Shape(s) ==
    /\ at[s] \in {"none", "socket", "broken"} => sock[s] = 0
    /\ at[s] \in {"none", "socket", "connect", "flow", "broken"} => rtcp[s] = NoRtcp
    /\ at[s] \in {"none", "socket", "connect", "flow"} => flow_of[s] = 0
    /\ at[s] \in InFlow \cup {"broken", "remove", "reader_check", "clear_rtcp", "stop", "clear"}
       => flow_of[s] # 0
    /\ rtcp[s].reader # 0 => flow_of[s] # 0 /\ Own(s)
    /\ at[s] \in {"reader_check", "clear_rtcp"} => rtcp[s].reader # 0
    /\ at[s] \in {"rtcp_socket", "rtcp_reader", "reader_start", "reader_launch", "reader_mark"}
       => Own(s)
    /\ at[s] = "rtcp_start" => Own(s) \/ Config(s).rtcp = "mux"
    /\ at[s] # "none" /\ Own(s) /\ at[s] \in BeforeRtcp => rtcp[s].sock = 0 /\ rtcp[s].reader = 0
    /\ at[s] # "none" /\ ~Own(s) => rtcp[s].sock \in {0, sock[s]}
    /\ at[s] = "broken" => \A p \in PortsOf(Config(s)) : Disturbed(p)
    /\ at[s] = "crashed" => crashed
ShapeInv == \A s \in Streams : Shape(s)

\* A socket belongs to one port for good, whoever holds it.
Belongs(b) ==
    /\ \A i \in Ids : bound[i] \in {0, b[i]} /\ readers[i].port \in {0, b[i]}
    /\ \A p \in Ports : used_ports[p] # 0 => b[used_ports[p]] = p
    /\ \A r \in Ids : readers[r].port # 0 /\ readers[r].sock # 0 => b[readers[r].sock] = readers[r].port
    /\ \A s \in Streams : sock[s] # 0 => b[sock[s]] = RtpPort(s)
    /\ \A s \in Streams : flow_of[s] # 0 => b[flow_of[s]] = RtpPort(s)
    /\ \A s \in Streams : rtcp[s].sock # 0 => b[rtcp[s].sock] = IF Own(s) THEN RtcpPort(s) ELSE RtpPort(s)
    /\ \A s \in Streams : rtcp[s].reader # 0 => b[rtcp[s].reader] = RtcpPort(s)

\* Nothing is known of a socket before it is created.
FreshInv ==
    /\ zrtp.socket \in 0 .. made
    /\ \A i \in Ids : made < i => /\ flow[i].handlers = {} /\ ~flow[i].active
                                  /\ bound[i] = 0 /\ readers[i].sock = 0

\* The handlers that a stream must have by now.
Needs(s) ==
    {x \in AllHandlers(Config(s)) :
        \/ Installed(s) /\ x \in FirstHandlers(Config(s))
        \/ at[s] \in WithMedia /\ x = "media"
        \/ at[s] = "up"}

\* What a stream relies on at its RTP port.
Rtp(s) ==
    /\ at[s] \in {"connect", "flow"} => sock[s] # 0 /\ used_ports[RtpPort(s)] = sock[s]
    /\ Attached(s) \/ Lasts(s) =>
           /\ flow_of[s] # 0 /\ sock[s] = flow_of[s] /\ used_ports[RtpPort(s)] = flow_of[s]
           /\ flow_of[s] \in reception_flows
    /\ \A x \in Needs(s) : <<remote[s], x>> \in flow[flow_of[s]].handlers
    /\ at[s] \in Up => flow[flow_of[s]].active
    /\ Lasts(s) => flow[flow_of[s]].handlers = {}
    /\ at[s] = "clear" => ~flow[flow_of[s]].active
RtpInv == \A s \in Streams : at[s] # "none" /\ Undisturbed(RtpPort(s)) => Rtp(s)

\* The streams of a flow: one of them stops it, and they receive from different SSRCs.
AloneInv ==
    \A s, t \in Streams :
        s # t /\ Lasts(s) /\ Lasts(t) /\ Undisturbed(RtpPort(s)) => flow_of[s] # flow_of[t]
RemoteInv ==
    \A s, t \in Streams :
        s # t /\ flow_of[s] # 0 /\ flow_of[s] = flow_of[t] /\ Undisturbed(RtpPort(s))
        => remote[s] # remote[t]

\* A handler belongs to a stream that has not gone.
OwnerInv ==
    \A i \in Ids : bound[i] # 0 /\ Undisturbed(bound[i]) =>
        \A h \in flow[i].handlers :
            \E s \in Streams : flow_of[s] = i /\ h[1] = remote[s] /\ Installed(s)

\* Where nothing is disturbed, streams that come and go do not overlap.
OverlapInv ==
    \A s, t \in Streams : at[s] \in Deleting /\ at[t] \in Creating /\ flow_of[s] # 0 =>
        \A p \in PortsOf(Config(s)) \cap PortsOf(Config(t)) : Disturbed(p)

\* A bound socket that is held is the one of its port.
Kept(i) ==
    \/ i \in used_sockets \cup reception_flows \/ zrtp.socket = i \/ flow[i].active
    \/ \E r \in Ids : readers[r].port # 0 /\ readers[r].sock = i
Holds(s, i) == sock[s] = i \/ rtcp[s].sock = i
Held(i) ==
    /\ Kept(i) => used_ports[bound[i]] = i
    /\ zrtp.socket = i \/ flow[i].active => i \in reception_flows
    /\ used_ports[bound[i]] # i =>
           /\ \A s \in Streams : Holds(s, i) => at[s] \in Deleting
           /\ \A s, t \in Streams : Holds(s, i) /\ at[t] \in Creating =>
                  bound[i] \notin PortsOf(Config(t))
HeldInv == \A i \in Ids : bound[i] # 0 /\ Undisturbed(bound[i]) => Held(i)

\* The readers.
RegInv ==
    \A r \in Ids : readers[r].port # 0 =>
        /\ r \notin reception_flows
        /\ Undisturbed(readers[r].port) => used_ports[readers[r].port] = r
\* Where nothing went wrong, a reader that is active has its thread.
RunsInv ==
    \A r \in Ids : readers[r].active =>
        /\ r <= made
        /\ readers[r].thread \/ readers[r].port = 0 \/ Disturbed(readers[r].port)

\* What a stream with RTCP on a port of its own relies on there.
Rtcp(s) ==
    LET r == rtcp[s].sock IN
    /\ at[s] = "rtcp_reader" => r # 0 /\ used_ports[RtcpPort(s)] = r
    /\ Reads(s) => /\ r # 0 /\ used_ports[RtcpPort(s)] = r
                   /\ readers[r].port = RtcpPort(s) /\ readers[r].sock = r
                   /\ Me(s) \in readers[r].members
    /\ at[s] \in Reading \ {"rtcp_start"} \/ rtcp[s].reader # 0 => rtcp[s].reader = r
    /\ at[s] \in {"reader_check", "clear_rtcp"} =>
           \/ used_ports[RtcpPort(s)] = 0
           \/ used_ports[RtcpPort(s)] = r /\ readers[r].port = RtcpPort(s)
    /\ at[s] = "clear_rtcp" => readers[r].members = {}
    /\ at[s] = "reader_mark" => readers[r].thread
    /\ at[s] \in {"start"} \cup Up => readers[r].active
RtcpInv ==
    \A s \in Streams : at[s] # "none" /\ Own(s) /\ Undisturbed(RtcpPort(s)) => Rtcp(s)

\* The handlers of a flow and its flags, and the SSRCs that streams receive from.
HandlerTypes == {"rtp", "rtcp_common", "rtcp", "srtp", "zrtp", "media"}
FlowRecords ==
    [active : BOOLEAN, handlers : SUBSET (Nat \X HandlerTypes),
     flags : SUBSET {"srtp", "rtcp", "mux"}, unserved : SUBSET Streams]
FlowsInv ==
    /\ flow \in [Ids -> FlowRecords]
    /\ remote \in [Streams -> Nat]

\* The inductive invariant; b[i] is the port that socket i was made for.
SetupInv(b) ==
    /\ NegotiationInv /\ FlowsInv /\ ShapeInv /\ b \in [Ids -> Nat] /\ Belongs(b) /\ FreshInv
    /\ RtpInv /\ AloneInv /\ RemoteInv /\ OwnerInv /\ OverlapInv /\ HeldInv
    /\ RegInv /\ RunsInv /\ RtcpInv

\* What a step of another stream leaves as it is.
Same(t) ==
    /\ at'[t] = at[t] /\ Config(t)' = Config(t) /\ Me(t)' = Me(t)
    /\ sock'[t] = sock[t] /\ flow_of'[t] = flow_of[t] /\ rtcp'[t] = rtcp[t]
    /\ remote'[t] = remote[t]

\* A step of a stream that stays the same stream.
Step(s, from, to) ==
    /\ ~crashed /\ at[s] = from /\ at'[s] = to
    /\ \A t \in Streams \ {s} : Same(t)
    /\ Config(s)' = Config(s) /\ Me(s)' = Me(s) /\ Config(s) \in Configs
    /\ disturbed \subseteq disturbed'

LEMMA StepOf ==
    ASSUME TypeInv, FlowsInv, NEW s \in Streams, NEW from \in Steps \ {"none"},
           NEW to \in Steps, Goes(s, from, to), UNCHANGED <<life, scenario>>,
           disturbed \subseteq disturbed',
           \A t \in Streams \ {s} : /\ sock'[t] = sock[t] /\ flow_of'[t] = flow_of[t]
                                    /\ rtcp'[t] = rtcp[t] /\ remote'[t] = remote[t]
    PROVE  Step(s, from, to)
<1>1. /\ at'[s] = to /\ at[s] = from /\ \A t \in Streams \ {s} : at'[t] = at[t]
      /\ \A t \in Streams : Config(t)' = Config(t)
      /\ Config(s) \in Configs
  BY MoveKeeps DEF TypeInv, Goes
<1>2. \A t \in Streams : Me(t)' = Me(t)
  BY DEF Me
<1> QED
  BY <1>1, <1>2 DEF Step, Same, Goes

\* Another stream keeps what it relies on.
LEMMA SameUses ==
    ASSUME NEW t, Same(t)
    PROVE  /\ Attached(t)' = Attached(t) /\ Installed(t)' = Installed(t)
           /\ Lasts(t)' = Lasts(t) /\ Reads(t)' = Reads(t) /\ Own(t)' = Own(t)
           /\ RtpPort(t)' = RtpPort(t) /\ RtcpPort(t)' = RtcpPort(t)
           /\ Needs(t)' = Needs(t)
<1>1. /\ Attached(t)' = Attached(t) /\ Installed(t)' = Installed(t)
      /\ Lasts(t)' = Lasts(t) /\ Reads(t)' = Reads(t) /\ Own(t)' = Own(t)
      /\ RtpPort(t)' = RtpPort(t) /\ RtcpPort(t)' = RtcpPort(t)
  BY DEF Same, Attached, Installed, Lasts, Reads, Own, RtpPort, RtcpPort
<1>2. /\ AllHandlers(Config(t))' = AllHandlers(Config(t))
      /\ FirstHandlers(Config(t))' = FirstHandlers(Config(t))
  BY DEF Same, AllHandlers, FirstHandlers, PacketHandlers, ByZrtp
<1> QED
  BY <1>1, <1>2 DEF Same, Needs

\* A port that was disturbed stays so.
LEMMA MorePorts ==
    ASSUME disturbed \subseteq disturbed', NEW p
    PROVE  /\ Undisturbed(p)' => Undisturbed(p)
           /\ Disturbed(p) => Disturbed(p)'
BY DEF Undisturbed, Disturbed

\* A step marks a port.
LEMMA Marks ==
    ASSUME NEW p, NEW why, why # "refused", <<p, why>> \in disturbed'
    PROVE  Disturbed(p)' /\ ~Undisturbed(p)'
<1>1. <<p, why>>[1] = p /\ <<p, why>>[2] = why
  OBVIOUS
<1> QED
  BY <1>1 DEF Disturbed, Undisturbed

\* Where streams that come and go overlap, the port is marked.
LEMMA OverlapMarks ==
    ASSUME NEW s, NEW phase, NEW t \in Streams \ {s}, at[t] \in phase,
           NEW c, NEW p \in PortsOf(c), p \in PortsOf(Config(t)),
           Overlap(c, s, phase) \subseteq disturbed'
    PROVE  Disturbed(p)' /\ ~Undisturbed(p)'
<1>1. <<p, "overlap">> \in disturbed'
  BY DEF Overlap
<1> QED
  BY <1>1, Marks

\* One lemma for each part of the invariant: what a step of one stream has to keep.
LEMMA ShapeStep ==
    ASSUME ShapeInv, NEW s \in Streams, NEW from, NEW to, Step(s, from, to), Shape(s)'
    PROVE  ShapeInv'
<1> SUFFICES ASSUME NEW t \in Streams \ {s} PROVE Shape(t)'
  BY DEF ShapeInv
<1>1. Same(t) /\ ~crashed /\ disturbed \subseteq disturbed'
  BY DEF Step
<1>2. /\ Own(t)' = Own(t) /\ PortsOf(Config(t))' = PortsOf(Config(t))
      /\ \A p : Disturbed(p) => Disturbed(p)'
  BY <1>1, SameUses, MorePorts DEF Same, PortsOf
<1>3. Shape(t)
  BY DEF ShapeInv
<1>4. (at[t] = "broken" => \A p \in PortsOf(Config(t)) : Disturbed(p))'
  BY <1>1, <1>2, <1>3 DEF Shape, Same
<1> QED
  BY <1>1, <1>2, <1>3, <1>4 DEF Shape, Same

\* What the streams of other ports, and those that share one, need of a step.
RtpFrame(t) ==
    /\ at[t] \in {"connect", "flow"} \/ Attached(t) \/ Lasts(t) =>
           (used_ports[RtpPort(t)] # 0 => used_ports'[RtpPort(t)] = used_ports[RtpPort(t)])
    /\ Attached(t) \/ Lasts(t) =>
           LET i == flow_of[t] IN
           /\ i \in reception_flows => i \in reception_flows'
           /\ \A x : <<remote[t], x>> \in flow[i].handlers => <<remote[t], x>> \in flow'[i].handlers
           /\ flow[i].active /\ at[t] \in Up => flow'[i].active
           /\ Lasts(t) /\ flow[i].handlers = {} => flow'[i].handlers = {}
           /\ at[t] = "clear" /\ ~flow[i].active => ~flow'[i].active

LEMMA NeedsFlow ==
    ASSUME NEW t, ~Attached(t)
    PROVE  Needs(t) = {} /\ at[t] \notin Up /\ ~Installed(t)
<1>1. at[t] \notin InFlow /\ ~Installed(t)
  BY DEF Attached, Installed
<1>2. at[t] \notin WithMedia /\ at[t] \notin Up
  BY <1>1 DEF InFlow, WithMedia, Reading
<1> QED
  BY <1>1, <1>2 DEF Needs, Up

LEMMA RtpStep ==
    ASSUME RtpInv, NEW s \in Streams, NEW from, NEW to, Step(s, from, to),
           to # "none" /\ Undisturbed(RtpPort(s))' => Rtp(s)',
           \A t \in Streams \ {s} : at[t] # "none" /\ Undisturbed(RtpPort(t)) /\ Rtp(t) => RtpFrame(t)
    PROVE  RtpInv'
<1>1. RtpPort(s)' = RtpPort(s) /\ at'[s] = to
  BY DEF Step, RtpPort
<1> SUFFICES ASSUME NEW t \in Streams \ {s}, at'[t] # "none", Undisturbed(RtpPort(t))'
             PROVE  Rtp(t)'
  BY <1>1 DEF RtpInv
<1>2. Same(t)
  BY DEF Step
<1>3. /\ Attached(t)' = Attached(t) /\ Lasts(t)' = Lasts(t) /\ Needs(t)' = Needs(t)
      /\ RtpPort(t)' = RtpPort(t)
  BY <1>2, SameUses
<1>4. Undisturbed(RtpPort(t)) /\ at[t] # "none"
  BY <1>2, <1>3, MorePorts DEF Step, Same
<1>5. Rtp(t) /\ RtpFrame(t)
  BY <1>4 DEF RtpInv
<1>6. Attached(t) \/ (Needs(t) = {} /\ at[t] \notin Up)
  BY NeedsFlow
<1> QED
  BY <1>2, <1>3, <1>5, <1>6 DEF Rtp, RtpFrame, Same, Lasts

RtcpFrame(t) ==
    LET r == rtcp[t].sock  q == RtcpPort(t)  checks == at[t] \in {"reader_check", "clear_rtcp"} IN
    /\ \/ used_ports'[q] = used_ports[q]
       \/ used_ports[q] = 0 /\ ~checks
       \/ used_ports'[q] = 0 /\ at[t] # "rtcp_reader" /\ ~Reads(t)
    /\ checks \/ Reads(t) => readers'[r].port = readers[r].port \/ used_ports'[q] = 0
    /\ Reads(t) => /\ readers'[r].sock = readers[r].sock
                   /\ Me(t) \in readers[r].members => Me(t) \in readers'[r].members
                   /\ readers[r].active => readers'[r].active
                   /\ readers[r].thread => readers'[r].thread
    /\ at[t] = "clear_rtcp" /\ readers[r].members = {} => readers'[r].members = {}

LEMMA ReadsAt ==
    ASSUME NEW t, at[t] \in Reading
    PROVE  Reads(t) /\ at[t] \notin {"rtcp_reader", "reader_check", "clear_rtcp"}
BY DEF Reads, Reading, Up

LEMMA RtcpStep ==
    ASSUME RtcpInv, NEW s \in Streams, NEW from, NEW to, Step(s, from, to),
           to # "none" /\ Own(s) /\ Undisturbed(RtcpPort(s))' => Rtcp(s)',
           \A t \in Streams \ {s} :
               at[t] # "none" /\ Own(t) /\ Undisturbed(RtcpPort(t)) /\ Rtcp(t) => RtcpFrame(t)
    PROVE  RtcpInv'
<1>1. RtcpPort(s)' = RtcpPort(s) /\ Own(s)' = Own(s) /\ at'[s] = to
  BY DEF Step, RtcpPort, Own
<1> SUFFICES ASSUME NEW t \in Streams \ {s}, at'[t] # "none", Own(t)', Undisturbed(RtcpPort(t))'
             PROVE  Rtcp(t)'
  BY <1>1 DEF RtcpInv
<1>2. Same(t)
  BY DEF Step
<1>3. /\ Reads(t)' = Reads(t) /\ Own(t)' = Own(t) /\ RtcpPort(t)' = RtcpPort(t)
  BY <1>2, SameUses
<1>4. Undisturbed(RtcpPort(t)) /\ at[t] # "none" /\ Own(t)
  BY <1>2, <1>3, MorePorts DEF Step, Same
<1>5. Rtcp(t) /\ RtcpFrame(t)
  BY <1>4 DEF RtcpInv
<1>6. /\ at[t] \in Reading => Reads(t)
      /\ at[t] \in {"reader_mark", "start"} \cup Up => Reads(t)
      /\ Reads(t) => at[t] \notin {"rtcp_reader", "reader_check", "clear_rtcp"}
  BY ReadsAt DEF Reading, Reads
<1> DEFINE r == rtcp[t].sock  q == RtcpPort(t)
<1>7. rtcp'[t].sock = r /\ rtcp'[t].reader = rtcp[t].reader /\ at'[t] = at[t] /\ Me(t)' = Me(t)
  BY <1>2 DEF Same
<1>8. ASSUME at[t] = "rtcp_reader" PROVE r # 0 /\ used_ports'[q] = r
  BY <1>5, <1>8 DEF Rtcp, RtcpFrame
<1>9. ASSUME Reads(t)
      PROVE  /\ r # 0 /\ used_ports'[q] = r /\ readers'[r].port = q /\ readers'[r].sock = r
             /\ Me(t) \in readers'[r].members
             /\ readers[r].active => readers'[r].active
             /\ readers[r].thread => readers'[r].thread
  BY <1>5, <1>6, <1>9 DEF Rtcp, RtcpFrame
<1>10. ASSUME at[t] \in {"reader_check", "clear_rtcp"}
       PROVE  used_ports'[q] = 0 \/ (used_ports'[q] = r /\ readers'[r].port = q)
  BY <1>5, <1>10 DEF Rtcp, RtcpFrame
<1>11. at[t] = "clear_rtcp" => readers'[r].members = {}
  BY <1>5 DEF Rtcp, RtcpFrame
<1>12. /\ at[t] \in Reading \ {"rtcp_start"} \/ rtcp[t].reader # 0 => rtcp[t].reader = r
       /\ at[t] = "reader_mark" => readers[r].thread
       /\ at[t] \in {"start"} \cup Up => readers[r].active
  BY <1>5 DEF Rtcp
<1> QED
  BY <1>3, <1>6, <1>7, <1>8, <1>9, <1>10, <1>11, <1>12 DEF Rtcp


\* Who holds a socket, a flow or a reader has it for a port of its own.
LEMMA Holder ==
    ASSUME NEW b, Belongs(b), ShapeInv, NEW s \in Streams
    PROVE  /\ \A i \in Ids : i = sock[s] \/ i = flow_of[s] => b[i] = RtpPort(s)
           /\ \A i \in Ids : Holds(s, i) /\ at[s] # "none" => b[i] \in PortsOf(Config(s))
           /\ \A i \in Ids : (rtcp[s].sock = i /\ Own(s)) \/ rtcp[s].reader = i => b[i] = RtcpPort(s)
           /\ \A i \in Ids : Holds(s, i) => at[s] # "none"
<1>1. \A i \in Ids : i # 0
  BY DEF Ids
<1>2. Shape(s)
  BY DEF ShapeInv
<1>3. \A i \in Ids : i = sock[s] \/ i = flow_of[s] => b[i] = RtpPort(s)
  BY <1>1 DEF Belongs
<1>4. \A i \in Ids : (rtcp[s].sock = i /\ Own(s)) \/ rtcp[s].reader = i => b[i] = RtcpPort(s)
  BY <1>1 DEF Belongs
<1>5. \A i \in Ids : Holds(s, i) => at[s] # "none"
  BY <1>1, <1>2 DEF Shape, Holds, NoRtcp
<1>6. \A i \in Ids : Holds(s, i) /\ at[s] # "none" => b[i] \in PortsOf(Config(s))
  <2>1. RtpPort(s) \in PortsOf(Config(s)) /\ (Own(s) => RtcpPort(s) \in PortsOf(Config(s)))
    BY DEF RtpPort, RtcpPort, PortsOf, Own
  <2>2. \A i \in Ids : rtcp[s].sock = i => b[i] = IF Own(s) THEN RtcpPort(s) ELSE RtpPort(s)
    BY <1>1 DEF Belongs
  <2> QED
    BY <1>3, <2>1, <2>2 DEF Holds
<1> QED
  BY <1>3, <1>4, <1>5, <1>6

\* The flow of a stream is one of the factory's.
LEMMA FlowOfLast ==
    ASSUME TypeInv, ShapeInv, NEW s \in Streams, Attached(s) \/ Lasts(s)
    PROVE  flow_of[s] \in Ids
<1>1. flow_of[s] # 0
  <2>1. Shape(s)
    BY DEF ShapeInv
  <2> QED
    BY <2>1 DEF Shape, Attached, Lasts
<1>2. flow_of[s] \in 0 .. made /\ made \in Nat /\ made <= MaxSockets /\ MaxSockets \in Nat
  BY MadeIsNat, MaxIsNat DEF TypeInv, StreamInv
<1> QED
  BY <1>1, <1>2 DEF Ids

LEMMA AloneStep ==
    ASSUME NEW b, Belongs(b), TypeInv, ShapeInv,
           AloneInv, NEW s \in Streams, NEW from, NEW to, Step(s, from, to),
           Lasts(s)' => flow_of'[s] = flow_of[s] /\ (Attached(s) \/ Lasts(s)),
           Lasts(s)' /\ Undisturbed(RtpPort(s))' =>
               Lasts(s) \/ \A t \in Streams \ {s} : Lasts(t) => flow_of[t] # flow_of[s]
    PROVE  AloneInv'
<1> SUFFICES ASSUME NEW x \in Streams, NEW t \in Streams, x # t, Lasts(x)', Lasts(t)',
                    Undisturbed(RtpPort(x))', flow_of'[x] = flow_of'[t]
             PROVE  FALSE
  BY DEF AloneInv
<1>1. \A y \in Streams \ {s} : /\ Lasts(y)' = Lasts(y) /\ RtpPort(y)' = RtpPort(y)
                               /\ flow_of'[y] = flow_of[y]
  BY SameUses DEF Step, Same
<1>2. RtpPort(s)' = RtpPort(s)
  BY DEF Step, RtpPort
<1>3. /\ flow_of[x] = flow_of[t] /\ flow_of[x] \in Ids
      /\ flow_of'[x] = flow_of[x] /\ flow_of'[t] = flow_of[t]
  BY <1>1, FlowOfLast
<1>4. RtpPort(x) = RtpPort(t)
  BY <1>3, Holder
<1>5. Undisturbed(RtpPort(x))' /\ Undisturbed(RtpPort(x)) /\ Undisturbed(RtpPort(t))'
  BY <1>1, <1>2, <1>4, MorePorts DEF Step
<1>6. CASE x # s /\ t # s
  BY <1>1, <1>3, <1>5, <1>6 DEF AloneInv
<1>7. CASE x = s
  BY <1>1, <1>3, <1>5, <1>7 DEF AloneInv
<1>8. CASE t = s
  BY <1>1, <1>3, <1>4, <1>5, <1>8 DEF AloneInv
<1> QED
  BY <1>6, <1>7, <1>8

LEMMA RemoteStep ==
    ASSUME RemoteInv, NEW s \in Streams, NEW from, NEW to, Step(s, from, to),
           \/ flow_of'[s] = flow_of[s] /\ remote'[s] = remote[s]
           \/ flow_of'[s] = 0
           \/ \A t \in Streams \ {s} : flow_of[t] = flow_of'[s] /\ remote[t] = remote'[s] =>
                  Disturbed(RtpPort(s))' /\ Disturbed(RtpPort(t))'
    PROVE  RemoteInv'
<1> SUFFICES ASSUME NEW x \in Streams, NEW t \in Streams, x # t, flow_of'[x] # 0,
                    flow_of'[x] = flow_of'[t], Undisturbed(RtpPort(x))',
                    remote'[x] = remote'[t]
             PROVE  FALSE
  BY DEF RemoteInv
<1>1. \A y \in Streams \ {s} : /\ RtpPort(y)' = RtpPort(y)
                               /\ flow_of'[y] = flow_of[y] /\ remote'[y] = remote[y]
  BY SameUses DEF Step, Same
<1>2. RtpPort(s)' = RtpPort(s)
  BY DEF Step, RtpPort
<1>3. Undisturbed(RtpPort(x)) /\ ~Disturbed(RtpPort(x))'
  BY <1>1, <1>2, MorePorts DEF Step, Undisturbed
<1>4. CASE x # s /\ t # s
  BY <1>1, <1>3, <1>4 DEF RemoteInv
<1>5. CASE x = s \/ t = s
  <2>1. CASE flow_of'[s] = flow_of[s] /\ remote'[s] = remote[s]
    BY <1>1, <1>3, <2>1 DEF RemoteInv
  <2>2. CASE flow_of'[s] = 0
    BY <1>5, <2>2
  <2>3. CASE \A y \in Streams \ {s} : flow_of[y] = flow_of'[s] /\ remote[y] = remote'[s] =>
                  Disturbed(RtpPort(s))' /\ Disturbed(RtpPort(y))'
    BY <1>1, <1>2, <1>3, <1>5, <2>3
  <2> QED BY <2>1, <2>2, <2>3
<1> QED
  BY <1>4, <1>5


LEMMA OwnerStep ==
    ASSUME OwnerInv, NEW s \in Streams, NEW from, NEW to, Step(s, from, to),
           \A i \in Ids : bound'[i] # 0 /\ ~Disturbed(bound[i])' =>
               bound'[i] = bound[i] \/ flow'[i].handlers = {},
           \A i \in Ids : bound[i] # 0 /\ bound'[i] = bound[i] /\ ~Disturbed(bound[i])' =>
               \A h \in flow'[i].handlers :
                   \/ /\ h \in flow[i].handlers
                      /\ ~(flow_of[s] = i /\ h[1] = remote[s] /\ Installed(s))
                   \/ flow_of'[s] = i /\ h[1] = remote'[s] /\ Installed(s)'
    PROVE  OwnerInv'
<1> SUFFICES ASSUME NEW i \in Ids, bound'[i] # 0, ~Disturbed(bound[i])',
                    NEW h \in flow'[i].handlers
             PROVE  \E t \in Streams : flow_of'[t] = i /\ h[1] = remote'[t] /\ Installed(t)'
  BY DEF OwnerInv, Undisturbed
<1>1. bound'[i] = bound[i]
  OBVIOUS
<1>2. ~Disturbed(bound[i])
  BY <1>1, MorePorts DEF Step
<1>3. CASE flow_of'[s] = i /\ h[1] = remote'[s] /\ Installed(s)'
  BY <1>3
<1>4. CASE h \in flow[i].handlers /\ ~(flow_of[s] = i /\ h[1] = remote[s] /\ Installed(s))
  <2>1. PICK t \in Streams : flow_of[t] = i /\ h[1] = remote[t] /\ Installed(t)
    BY <1>1, <1>2, <1>4 DEF OwnerInv, Undisturbed
  <2>2. t # s
    BY <1>4, <2>1
  <2>3. Same(t)
    BY <2>2 DEF Step
  <2> QED
    BY <2>1, <2>3, SameUses DEF Same
<1> QED
  BY <1>1, <1>3, <1>4

LEMMA OverlapStep ==
    ASSUME OverlapInv, NEW s \in Streams, NEW from, NEW to, Step(s, from, to),
           to \in Deleting /\ flow_of'[s] # 0 =>
               \/ from \in Deleting /\ flow_of[s] # 0
               \/ \A p \in PortsOf(Config(s)) : Disturbed(p)'
               \/ Overlap(Config(s), s, Creating) \subseteq disturbed',
           to \in Creating =>
               from \in Creating \/ Overlap(Config(s), s, Deleting) \subseteq disturbed'
    PROVE  OverlapInv'
<1> SUFFICES ASSUME NEW x \in Streams, NEW t \in Streams, at'[x] \in Deleting,
                    at'[t] \in Creating, flow_of'[x] # 0,
                    NEW p \in PortsOf(Config(x))' \cap PortsOf(Config(t))'
             PROVE  Disturbed(p)'
  BY DEF OverlapInv
<1>1. \A y \in Streams \ {s} : at'[y] = at[y] /\ flow_of'[y] = flow_of[y]
  BY DEF Step, Same
<1>2. \A y \in Streams : PortsOf(Config(y))' = PortsOf(Config(y))
  BY DEF Step, Same, PortsOf
<1>3. x # t
  BY DEF Creating, Deleting
<1>4. disturbed \subseteq disturbed' /\ at'[s] = to /\ at[s] = from
  BY DEF Step
<1>5. CASE at[x] \in Deleting /\ at[t] \in Creating /\ flow_of[x] # 0
  <2>1. Disturbed(p)
    BY <1>2, <1>5 DEF OverlapInv
  <2> QED
    BY <2>1, <1>4, MorePorts
<1>6. CASE x = s /\ at[t] \in Creating
  BY <1>2, <1>3, <1>4, <1>5, <1>6, OverlapMarks
<1>7. CASE t = s /\ at[x] \in Deleting
  BY <1>1, <1>2, <1>3, <1>4, <1>5, <1>7, OverlapMarks
<1> QED
  BY <1>1, <1>3, <1>4, <1>5, <1>6, <1>7

\* A step that leaves the factory alone.
LEMMA HeldStep ==
    ASSUME HeldInv, NEW b, Belongs(b), ShapeInv,
           NEW s \in Streams, NEW from, NEW to, Step(s, from, to),
           UNCHANGED <<bound, used_ports, used_sockets, reception_flows>>,
           \A j \in Ids : bound[j] # 0 /\ Undisturbed(bound[j]) =>
               /\ Kept(j)' => Kept(j) \/ used_ports[bound[j]] = j
               /\ zrtp'.socket = j \/ flow'[j].active =>
                      zrtp.socket = j \/ flow[j].active \/ j \in reception_flows
               /\ Holds(s, j)' => \/ Holds(s, j) /\ (from \in Deleting => to \in Deleting)
                                  \/ used_ports[bound[j]] = j,
           to \in Creating =>
               from \in Creating \/ Overlap(Config(s), s, Deleting) \subseteq disturbed'
    PROVE  HeldInv'
<1> SUFFICES ASSUME NEW j \in Ids, bound'[j] # 0, ~Disturbed(bound[j])'
             PROVE  Held(j)'
  BY DEF HeldInv, Undisturbed
<1>1. /\ bound'[j] = bound[j] /\ used_ports' = used_ports /\ reception_flows' = reception_flows
      /\ bound[j] # 0 /\ Undisturbed(bound[j])
      /\ \A y \in Streams : PortsOf(Config(y))' = PortsOf(Config(y))
  BY MorePorts DEF Undisturbed, Step, Same, PortsOf
<1>2. Held(j)
  BY <1>1 DEF HeldInv
<1>3. Kept(j)' => used_ports'[bound'[j]] = j
  BY <1>1, <1>2 DEF Held
<1>4. zrtp'.socket = j \/ flow'[j].active => j \in reception_flows'
  BY <1>1, <1>2 DEF Held
<1>5. ASSUME used_ports'[bound'[j]] # j, NEW x \in Streams, Holds(x, j)'
      PROVE  /\ at'[x] \in Deleting
             /\ \A t \in Streams : at'[t] \in Creating => bound'[j] \notin PortsOf(Config(t))'
  <2>1. Holds(x, j) /\ (at[x] \in Deleting => at'[x] \in Deleting)
    <3>1. CASE x = s
      BY <1>1, <1>5, <3>1 DEF Step
    <3>2. CASE x # s
      BY <1>5, <3>2 DEF Holds, Step, Same
    <3> QED BY <3>1, <3>2
  <2>2. at[x] \in Deleting /\ \A t \in Streams : at[t] \in Creating => bound[j] \notin PortsOf(Config(t))
    BY <1>1, <1>2, <1>5, <2>1 DEF Held
  <2>3. ASSUME NEW t \in Streams, at'[t] \in Creating, bound'[j] \in PortsOf(Config(t))'
        PROVE  FALSE
    <3>1. t = s /\ from \notin Creating
      BY <1>1, <2>2, <2>3 DEF Step, Same
    <3>2. Overlap(Config(s), s, Deleting) \subseteq disturbed' /\ at'[t] = to
      BY <2>3, <3>1 DEF Step
    <3>3. x # s
      BY <2>1, <2>2, <2>3, <3>1 DEF Creating, Deleting
    <3>4. bound[j] \in PortsOf(Config(x))
      BY <1>1, <2>1, Holder DEF Belongs
    <3> QED
      BY <1>1, <2>2, <2>3, <3>1, <3>2, <3>3, <3>4, OverlapMarks
  <2> QED BY <2>1, <2>2, <2>3
<1> QED
  BY <1>3, <1>4, <1>5 DEF Held

\* Whoever points to a socket, it stays with its port.
LEMMA BelongsAny ==
    ASSUME NEW b, Belongs(b), NEW s \in Streams, NEW from, NEW to, Step(s, from, to),
           \A i \in Ids : bound'[i] \in {0, b[i]},
           \A p \in Ports : used_ports'[p] # 0 => b[used_ports'[p]] = p,
           \A r \in Ids : /\ \/ readers'[r].port \in {0, readers[r].port}
                             \/ readers'[r].port = b[r] /\ readers'[r].sock = 0
                          /\ \/ readers'[r].sock = readers[r].sock
                             \/ readers'[r].port # 0 => b[readers'[r].sock] = readers'[r].port,
           sock'[s] # 0 => b[sock'[s]] = RtpPort(s), flow_of'[s] \in {0, flow_of[s], sock[s]},
           \/ rtcp'[s].sock \in {0, rtcp[s].sock}
           \/ ~Own(s) /\ rtcp'[s].sock = sock[s]
           \/ Own(s) /\ b[rtcp'[s].sock] = RtcpPort(s),
           rtcp'[s].reader # 0 => b[rtcp'[s].reader] = RtcpPort(s)
    PROVE  Belongs(b)'
<1>1. \A t \in Streams : RtpPort(t)' = RtpPort(t) /\ RtcpPort(t)' = RtcpPort(t) /\ Own(t)' = Own(t)
  BY DEF Step, Same, RtpPort, RtcpPort, Own
<1>2. \A t \in Streams \ {s} : sock'[t] = sock[t] /\ flow_of'[t] = flow_of[t] /\ rtcp'[t] = rtcp[t]
  BY DEF Step, Same
<1>3. \A t \in Streams : sock'[t] # 0 => b[sock'[t]] = RtpPort(t)
  BY <1>2 DEF Belongs
<1>4. \A t \in Streams : flow_of'[t] # 0 => b[flow_of'[t]] = RtpPort(t)
  BY <1>2 DEF Belongs
<1>5. \A t \in Streams : rtcp'[t].sock # 0 => b[rtcp'[t].sock] = IF Own(t) THEN RtcpPort(t) ELSE RtpPort(t)
  BY <1>2 DEF Belongs
<1>6. \A t \in Streams : rtcp'[t].reader # 0 => b[rtcp'[t].reader] = RtcpPort(t)
  BY <1>2 DEF Belongs
<1>7. /\ \A i \in Ids : bound'[i] \in {0, b[i]} /\ readers'[i].port \in {0, b[i]}
      /\ \A p \in Ports : used_ports'[p] # 0 => b[used_ports'[p]] = p
      /\ \A r \in Ids : readers'[r].port # 0 /\ readers'[r].sock # 0 => b[readers'[r].sock] = readers'[r].port
  BY DEF Belongs
<1> QED
  BY <1>1, <1>3, <1>4, <1>5, <1>6, <1>7 DEF Belongs

LEMMA BelongsStep ==
    ASSUME NEW b, Belongs(b), NEW s \in Streams, NEW from, NEW to, Step(s, from, to),
           UNCHANGED <<bound, used_ports>>,
           \A r \in Ids : /\ readers'[r].port \in {0, readers[r].port}
                          /\ \/ readers'[r].sock = readers[r].sock
                             \/ readers'[r].port # 0 => b[readers'[r].sock] = readers'[r].port,
           sock'[s] \in {0, sock[s]}, flow_of'[s] \in {0, flow_of[s], sock[s]},
           \/ rtcp'[s].sock \in {0, rtcp[s].sock}
           \/ ~Own(s) /\ rtcp'[s].sock = sock[s],
           rtcp'[s].reader \in {0, rtcp[s].reader}
    PROVE  Belongs(b)'
<1>1. \A i \in Ids : bound'[i] \in {0, b[i]} /\ readers'[i].port \in {0, b[i]}
  BY DEF Belongs
<1>2. \A p \in Ports : used_ports'[p] # 0 => b[used_ports'[p]] = p
  BY DEF Belongs
<1>3. sock'[s] # 0 => b[sock'[s]] = RtpPort(s)
  BY DEF Belongs
<1>4. rtcp'[s].reader # 0 => b[rtcp'[s].reader] = RtcpPort(s)
  BY DEF Belongs
<1> QED
  BY <1>1, <1>2, <1>3, <1>4, BelongsAny

LEMMA RegStep ==
    ASSUME RegInv, NEW s, NEW from, NEW to, Step(s, from, to), UNCHANGED <<used_ports, reception_flows>>,
           \A r \in Ids : readers'[r].port = readers[r].port
    PROVE  RegInv'
<1> SUFFICES ASSUME NEW r \in Ids, readers'[r].port # 0
             PROVE  /\ r \notin reception_flows'
                    /\ Undisturbed(readers[r].port)' => used_ports'[readers'[r].port] = r
  BY DEF RegInv
<1>1. Undisturbed(readers[r].port)' => Undisturbed(readers[r].port)
  BY MorePorts DEF Step
<1> QED
  BY <1>1 DEF RegInv

\* A step may stop a reader, take its port, and make a thread.
LEMMA RunsStep ==
    ASSUME RunsInv, disturbed \subseteq disturbed', made' = made,
           \A r \in Ids : /\ readers'[r].port \in {0, readers[r].port}
                          /\ readers'[r].active => readers[r].active
                          /\ readers[r].thread => readers'[r].thread \/ ~readers'[r].active
    PROVE  RunsInv'
BY MorePorts DEF RunsInv

\* What a step that leaves the factory alone may do to a flow and to ZRTP.
LEMMA FreshStep ==
    ASSUME FreshInv, TypeInv, UNCHANGED <<made, bound>>,
           NEW s \in Streams, zrtp'.socket \in {zrtp.socket, sock[s]},
           \A i \in Ids : made < i => flow'[i] = flow[i],
           \A i \in Ids : readers'[i].sock = readers[i].sock
    PROVE  FreshInv'
BY DEF FreshInv, TypeInv, StreamInv

\* The handlers that a stream needs at its next step.
LEMMA NeedsStep ==
    ASSUME NEW s, Config(s)' = Config(s), Installed(s)' => Installed(s),
           at'[s] \in WithMedia => at[s] \in WithMedia, at'[s] = "up" => at[s] = "up"
    PROVE  Needs(s)' \subseteq Needs(s)
<1>1. /\ AllHandlers(Config(s))' = AllHandlers(Config(s))
      /\ FirstHandlers(Config(s))' = FirstHandlers(Config(s))
  BY DEF AllHandlers, FirstHandlers, PacketHandlers, ByZrtp
<1> QED
  BY <1>1 DEF Needs

\* The steps of a stream at which nothing about the factory, its flow or its RTCP is new.
Plain(to) ==
    to \notin {"none", "connect", "flow", "stop", "clear", "rtcp_reader", "reader_mark",
               "reader_check", "clear_rtcp"}

-----------------------------------------------------------------------------
(* The steps.                                                              *)

LEMMA FactoryParts ==
    ASSUME UNCHANGED factory
    PROVE  UNCHANGED <<made, bound, used_ports, used_sockets, reception_flows>>
BY DEF factory

\* A step that only leads a stream from one step to the next one.
LEMMA MoveStep ==
    ASSUME NEW b, SetupInv(b), NegotiationInv', NEW s \in Streams, NEW from, NEW to,
           Step(s, from, to), UNCHANGED <<factory, readers, flow, sock, flow_of, remote, rtcp>>,
           zrtp'.socket = zrtp.socket,
           from # "none", Plain(to), Shape(s)',
           Installed(s) => Installed(s)',
           from \in Deleting => to \in Deleting,
           to \in Deleting /\ flow_of[s] # 0 =>
               \/ from \in Deleting
               \/ Overlap(Config(s), s, Creating) \subseteq disturbed',
           to \in Creating =>
               from \in Creating \/ Overlap(Config(s), s, Deleting) \subseteq disturbed',
           Undisturbed(RtpPort(s)) =>
               /\ Attached(s)' => Attached(s)
               /\ Installed(s)' => Installed(s)
               /\ to \in WithMedia => from \in WithMedia
               /\ to \in Up => from \in Up
               /\ to = "up" => from = "up",
           Undisturbed(RtcpPort(s)) /\ Own(s) =>
               /\ Reads(s)' => Reads(s)
               /\ to \in Reading => from \in Reading \ {"rtcp_start"}
               /\ to \in {"start"} \cup Up => from \in {"start"} \cup Up \/ readers[rtcp[s].reader].active
    PROVE  SetupInv(b)'
<1>1. /\ TypeInv /\ UNCHANGED <<made, bound, used_ports, used_sockets, reception_flows>>
      /\ ShapeInv /\ Belongs(b)
  BY FactoryParts DEF SetupInv, NegotiationInv
<1>2. FlowsInv'
  BY DEF SetupInv, FlowsInv
<1>3. ShapeInv'
  BY ShapeStep DEF SetupInv
<1>4. Belongs(b)'
  BY <1>1, BelongsStep
<1>5. FreshInv'
  BY <1>1, FreshStep DEF SetupInv
<1>6. RtpInv'
  <2>1. ASSUME to # "none", Undisturbed(RtpPort(s))' PROVE Rtp(s)'
    <3>1. Undisturbed(RtpPort(s)) /\ RtpPort(s)' = RtpPort(s)
      BY <2>1, MorePorts DEF Step, RtpPort
    <3>2. Rtp(s)
      BY <3>1 DEF SetupInv, RtpInv, Step
    <3>3. Needs(s)' \subseteq Needs(s)
      BY <3>1, NeedsStep DEF Step
    <3> QED
      BY <1>1, <3>1, <3>2, <3>3 DEF Rtp, Step, Plain, Lasts
  <2>2. \A t \in Streams \ {s} : RtpFrame(t)
    BY <1>1 DEF RtpFrame
  <2> QED
    BY <2>1, <2>2, RtpStep DEF SetupInv
<1>7. AloneInv'
  BY <1>1, AloneStep DEF SetupInv, Plain, Lasts, Step
<1>8. RemoteInv'
  BY RemoteStep DEF SetupInv
<1>9. OwnerInv'
  BY <1>1, OwnerStep DEF SetupInv
<1>10. OverlapInv'
  BY OverlapStep DEF SetupInv
<1>11. HeldInv'
  <2>1. \A j : Kept(j)' = Kept(j) /\ Holds(s, j)' = Holds(s, j)
    BY <1>1 DEF Kept, Holds
  <2> QED
    BY <1>1, <2>1, HeldStep DEF SetupInv
<1>12. RegInv' /\ RunsInv'
  BY <1>1, RegStep, RunsStep DEF SetupInv, Step
<1>13. RtcpInv'
  <2>1. ASSUME to # "none", Own(s), Undisturbed(RtcpPort(s))' PROVE Rtcp(s)'
    <3>1. Undisturbed(RtcpPort(s)) /\ RtcpPort(s)' = RtcpPort(s)
      BY <2>1, MorePorts DEF Step, RtcpPort
    <3>2. Rtcp(s)
      BY <2>1, <3>1 DEF SetupInv, RtcpInv, Step
    <3>3. to \in {"start"} \cup Up => to \in Reading
      BY DEF Reading
    <3> QED
      BY <1>1, <2>1, <3>1, <3>2, <3>3 DEF Rtcp, Step, Plain
  <2>2. \A t \in Streams \ {s} : RtcpFrame(t)
    BY <1>1 DEF RtcpFrame
  <2> QED
    BY <2>1, <2>2, RtcpStep DEF SetupInv
<1> QED
  BY <1>2, <1>3, <1>4, <1>5, <1>6, <1>7, <1>8, <1>9, <1>10, <1>11, <1>12, <1>13 DEF SetupInv

LEMMA UpStep ==
    ASSUME NEW b, SetupInv(b), NegotiationInv', NEW s \in Streams, NEW from \in Up,
           NEW to \in Up \ {"up"}, Goes(s, from, to),
           UNCHANGED <<life, scenario, stream, factory, readers, flow, crashed, disturbed>>,
           zrtp'.socket = zrtp.socket
    PROVE  SetupInv(b)'
<1>1. /\ from \in Steps \ {"none"} /\ to \in Steps /\ Plain(to) /\ from \notin Deleting
      /\ to \notin Deleting /\ to \notin Creating
  BY DEF Up, Steps, Plain, Creating, Deleting
<1>2. UNCHANGED <<sock, flow_of, remote, rtcp>>
  BY DEF stream
<1>3. Step(s, from, to)
  BY <1>1, <1>2, StepOf DEF SetupInv, NegotiationInv
<1>4. /\ from \in InFlow /\ to \in InFlow /\ from # "install" /\ to # "install"
      /\ from \in WithMedia /\ to \in WithMedia /\ from \in Reading \ {"rtcp_start"}
      /\ to # "crashed"
  BY DEF InFlow, WithMedia, Reading, Up
<1>5. /\ Attached(s) /\ Installed(s) /\ Installed(s)' /\ Reads(s)
  BY <1>3, <1>4 DEF Attached, Installed, Reads, Step
<1>6. Shape(s)'
  <2>1. Shape(s) /\ Own(s)' = Own(s) /\ at'[s] = to /\ at[s] = from
    BY <1>3 DEF SetupInv, ShapeInv, Step, Own
  <2>2. /\ to \notin {"none", "socket", "broken", "connect", "flow", "remove", "reader_check",
                      "clear_rtcp", "stop", "clear", "crashed", "rtcp_socket", "rtcp_reader",
                      "rtcp_start", "reader_start", "reader_launch", "reader_mark"}
        /\ to \notin BeforeRtcp
    BY DEF Up, BeforeRtcp
  <2> QED
    BY <1>2, <1>4, <2>1, <2>2 DEF Shape
<1> QED
  BY <1>1, <1>2, <1>3, <1>4, <1>5, <1>6, MoveStep

LEMMA UpKeeps ==
    ASSUME NEW b, SetupInv(b), NegotiationInv', NEW s \in Streams,
           \/ StartZrtp(s) \/ WaitForDh(s) \/ try_lock_zrtp(s) \/ Negotiated(s)
           \/ TakeKeys(s) \/ UnlockZrtp(s)
    PROVE  SetupInv(b)'
<1>1. PICK from \in Up, to \in Up \ {"up"} : Goes(s, from, to)
  BY DEF StartZrtp, WaitForDh, try_lock_zrtp, Negotiated, TakeKeys, UnlockZrtp, Zrtp, Up
<1>2. UNCHANGED <<life, scenario, stream, factory, readers, flow, crashed, disturbed>>
  BY DEF StartZrtp, WaitForDh, try_lock_zrtp, Negotiated, TakeKeys, UnlockZrtp, ghosts
<1>3. zrtp'.socket = zrtp.socket
  BY DEF StartZrtp, WaitForDh, try_lock_zrtp, Negotiated, TakeKeys, UnlockZrtp, Unlock,
         SetupInv, NegotiationInv, Zrtps
<1> QED
  BY <1>1, <1>2, <1>3, UpStep

LEMMA ReaderStartKeeps ==
    ASSUME NEW b, SetupInv(b), NegotiationInv', NEW s \in Streams, ReaderStart(s)
    PROVE  SetupInv(b)'
<1> DEFINE to == IF readers[rtcp[s].reader].active THEN "start" ELSE "reader_launch"
<1>1. /\ Goes(s, "reader_start", to)
      /\ UNCHANGED <<life, scenario, stream, factory, readers, flow, zrtp, crashed, disturbed>>
      /\ UNCHANGED <<sock, flow_of, remote, rtcp>>
      /\ "reader_start" \in Steps \ {"none"} /\ to \in Steps
  BY DEF ReaderStart, ghosts, stream, Steps, Creating
<1>2. Step(s, "reader_start", to)
  BY <1>1, StepOf DEF SetupInv, NegotiationInv
<1>3. /\ Attached(s) /\ Installed(s) /\ Installed(s)' /\ Reads(s) /\ Plain(to)
      /\ to \notin Deleting /\ to \notin Up /\ to # "up"
  BY <1>2 DEF Attached, Installed, Reads, Step, InFlow, WithMedia, Reading, Plain, Deleting, Up
<1>4. Shape(s)'
  <2>1. Shape(s) /\ Own(s)' = Own(s) /\ at'[s] = to /\ at[s] = "reader_start"
    BY <1>2 DEF SetupInv, ShapeInv, Step, Own
  <2> QED
    BY <1>1, <2>1 DEF Shape, BeforeRtcp, InFlow, WithMedia, Reading
<1> QED
  BY <1>1, <1>2, <1>3, <1>4, MoveStep DEF Creating, Deleting, WithMedia, Reading

LEMMA AddSrtpCtxKeeps ==
    ASSUME NEW b, SetupInv(b), NegotiationInv', NEW s \in Streams, AddSrtpCtx(s)
    PROVE  SetupInv(b)'
<1>1. /\ Goes(s, "user", "media")
      /\ UNCHANGED <<life, scenario, stream, factory, readers, flow, zrtp, crashed>>
      /\ disturbed' = disturbed \cup Overlap(Config(s), s, Deleting)
      /\ UNCHANGED <<sock, flow_of, remote, rtcp>>
      /\ "user" \in Steps \ {"none"} /\ "media" \in Steps
  BY DEF AddSrtpCtx, stream, Steps, Creating
<1>2. Step(s, "user", "media")
  BY <1>1, StepOf DEF SetupInv, NegotiationInv
<1>3. /\ Attached(s) /\ Installed(s) /\ Installed(s)' /\ ~Reads(s)' /\ Plain("media")
  BY <1>2 DEF Attached, Installed, Reads, Step, InFlow, WithMedia, Reading, Up, Plain
<1>4. "media" \notin Deleting \cup WithMedia \cup Up \cup Reading
  BY DEF Deleting, Up, WithMedia, Reading
<1>5. Shape(s)'
  <2>1. Shape(s) /\ Own(s)' = Own(s) /\ at'[s] = "media" /\ at[s] = "user"
    BY <1>2 DEF SetupInv, ShapeInv, Step, Own
  <2> QED
    BY <1>1, <2>1 DEF Shape, BeforeRtcp, InFlow, WithMedia, Reading
<1> QED
  BY <1>1, <1>2, <1>3, <1>4, <1>5, MoveStep DEF Creating, Deleting

LEMMA CrashKeeps ==
    ASSUME NEW b, SetupInv(b), NegotiationInv', NEW s \in Streams, NoReader(s) \/ LaunchTwice(s)
    PROVE  SetupInv(b)'
<1>1. PICK from \in {"rtcp_reader", "rtcp_start", "reader_launch"} : Goes(s, from, "crashed")
  BY DEF NoReader, LaunchTwice
<1>2. /\ UNCHANGED <<life, scenario, stream, factory, readers, flow, zrtp, disturbed>>
      /\ UNCHANGED <<sock, flow_of, remote, rtcp>> /\ crashed'
      /\ from \in Steps \ {"none"} /\ "crashed" \in Steps
  BY DEF NoReader, LaunchTwice, Crash, stream, Steps, Creating
<1>3. Step(s, from, "crashed")
  BY <1>1, <1>2, StepOf DEF SetupInv, NegotiationInv
<1>4. /\ Attached(s) /\ Installed(s) /\ Installed(s)' /\ ~Reads(s)' /\ Plain("crashed")
  BY <1>3 DEF Attached, Installed, Reads, Step, InFlow, WithMedia, Reading, Up, Plain
<1>5. "crashed" \notin Deleting \cup WithMedia \cup Up \cup Reading \cup Creating /\ from \notin Deleting
  BY DEF Deleting, Up, WithMedia, Reading, Creating
<1>6. Shape(s)'
  <2>1. Shape(s) /\ Own(s)' = Own(s) /\ at'[s] = "crashed" /\ at[s] = from
    BY <1>3 DEF SetupInv, ShapeInv, Step, Own
  <2> QED
    BY <1>2, <2>1 DEF Shape, BeforeRtcp, InFlow, WithMedia, Reading
<1> QED
  BY <1>2, <1>3, <1>4, <1>5, <1>6, MoveStep

LEMMA DestroyKeeps ==
    ASSUME NEW b, SetupInv(b), NegotiationInv', NEW s \in Streams, Destroy(s)
    PROVE  SetupInv(b)'
<1>1. PICK from \in {"up", "user", "manual", "broken"} : Goes(s, from, "delete")
  BY DEF Destroy
<1>2. /\ UNCHANGED <<life, scenario, stream, factory, readers, flow, zrtp, crashed>>
      /\ disturbed' = disturbed \cup Overlap(Config(s), s, Creating)
      /\ UNCHANGED <<sock, flow_of, remote, rtcp>>
      /\ from \in Steps \ {"none"} /\ "delete" \in Steps
  BY DEF Destroy, stream, Steps, Creating, Deleting
<1>3. Step(s, from, "delete")
  BY <1>1, <1>2, StepOf DEF SetupInv, NegotiationInv
<1>4. Shape(s) /\ Own(s)' = Own(s) /\ at'[s] = "delete" /\ at[s] = from
  BY <1>3 DEF SetupInv, ShapeInv, Step, Own
<1>5. flow_of[s] # 0 /\ Attached(s)' /\ Installed(s)' /\ Plain("delete")
  BY <1>2, <1>4 DEF Shape, Attached, Installed, InFlow, WithMedia, Reading, Up, Leaving, Plain
<1>6. from # "broken" => Attached(s) /\ Installed(s)
  BY <1>4 DEF Attached, Installed, InFlow, WithMedia, Reading, Up
<1>7. from = "broken" => Disturbed(RtpPort(s)) /\ (Own(s) => Disturbed(RtcpPort(s)))
  BY <1>4 DEF Shape, PortsOf, RtpPort, RtcpPort, Own
<1>8. Own(s) /\ Reads(s)' => Reads(s)
  <2>1. from = "user" /\ Own(s) => rtcp[s].reader = 0
    BY <1>4 DEF Shape, BeforeRtcp
  <2>2. from = "broken" => rtcp[s].reader = 0
    BY <1>4 DEF Shape, NoRtcp
  <2> QED
    BY <1>2, <1>4, <2>1, <2>2 DEF Reads, Reading, Up
<1>9. "delete" \notin WithMedia \cup Up \cup Reading \cup Creating /\ from \notin Deleting
  BY DEF Deleting, Up, WithMedia, Reading, Creating
<1>10. Shape(s)'
  BY <1>2, <1>4, <1>5 DEF Shape, BeforeRtcp, InFlow, WithMedia, Reading, Up
<1> QED
  BY <1>2, <1>3, <1>5, <1>6, <1>7, <1>8, <1>9, <1>10, MoveStep DEF Undisturbed, Deleting

\* A stream is refused that has no flow yet.
LEMMA RefusedKeeps ==
    ASSUME NEW b, SetupInv(b), NegotiationInv', NEW s \in Streams, NoFlow(s), ~Fails(s, "flow")
    PROVE  SetupInv(b)'
<1>1. /\ Goes(s, "flow", "delete")
      /\ UNCHANGED <<life, scenario, stream, factory, readers, flow, zrtp, crashed>>
      /\ disturbed \subseteq disturbed'
      /\ UNCHANGED <<sock, flow_of, remote, rtcp>>
      /\ "flow" \in Steps \ {"none"} /\ "delete" \in Steps
  BY DEF NoFlow, stream, Steps, Creating, Deleting
<1>2. Step(s, "flow", "delete")
  BY <1>1, StepOf DEF SetupInv, NegotiationInv
<1>3. Shape(s) /\ Own(s)' = Own(s) /\ at'[s] = "delete" /\ at[s] = "flow"
  BY <1>2 DEF SetupInv, ShapeInv, Step, Own
<1>4. /\ flow_of[s] = 0 /\ rtcp[s].reader = 0 /\ rtcp[s].sock = 0
      /\ ~Attached(s)' /\ ~Installed(s)' /\ ~Installed(s) /\ ~Reads(s)' /\ Plain("delete")
  BY <1>1, <1>3 DEF Shape, NoRtcp, Attached, Installed, InFlow, WithMedia, Reading, Up, Reads, Plain
<1>5. "delete" \notin WithMedia \cup Up \cup Reading \cup Creating /\ "delete" \in Deleting
  BY DEF Deleting, Up, WithMedia, Reading, Creating
<1>6. Shape(s)'
  BY <1>1, <1>3, <1>4 DEF Shape, BeforeRtcp, InFlow, WithMedia, Reading, Up
<1> QED
  BY <1>1, <1>2, <1>4, <1>5, <1>6, MoveStep

\* A step that gives up what a stream holds, its flow apart.
LEMMA GiveUpStep ==
    ASSUME NEW b, SetupInv(b), NegotiationInv', NEW s \in Streams, NEW from, NEW to,
           Step(s, from, to), UNCHANGED <<factory, readers, flow, flow_of, remote>>,
           zrtp'.socket = zrtp.socket,
           sock' = [sock EXCEPT ![s] = 0], rtcp' = [rtcp EXCEPT ![s] = NoRtcp],
           to \in {"broken", "delete"}, Shape(s)', from \notin Deleting,
           flow_of[s] # 0 => \A p \in PortsOf(Config(s)) : Disturbed(p)'
    PROVE  SetupInv(b)'
<1>1. /\ TypeInv /\ UNCHANGED <<made, bound, used_ports, used_sockets, reception_flows>>
      /\ ShapeInv /\ Belongs(b)
  BY FactoryParts DEF SetupInv, NegotiationInv
<1>2. FlowsInv'
  BY DEF SetupInv, FlowsInv
<1>3. ShapeInv'
  BY ShapeStep DEF SetupInv
<1>4. sock'[s] = 0 /\ rtcp'[s].sock = 0 /\ rtcp'[s].reader = 0
  BY <1>1 DEF TypeInv, StreamInv, NoRtcp
<1>5. Belongs(b)'
  BY <1>1, <1>4, BelongsStep
<1>6. FreshInv'
  BY <1>1, FreshStep DEF SetupInv
<1>7. /\ to \notin Up \cup WithMedia \cup InFlow \cup Creating \cup Reading
      /\ Plain(to)
  BY DEF Up, WithMedia, InFlow, Creating, Reading, Plain
<1>8. RtpPort(s) \in PortsOf(Config(s)) /\ (Own(s) => RtcpPort(s) \in PortsOf(Config(s)))
  BY DEF RtpPort, RtcpPort, Own, PortsOf
<1>9. RtpInv'
  <2>1. ASSUME Undisturbed(RtpPort(s))' PROVE Rtp(s)'
    <3>1. RtpPort(s)' = RtpPort(s)
      BY DEF Step, RtpPort
    <3>2. flow_of[s] = 0
      BY <1>8, <2>1, <3>1 DEF Undisturbed
    <3>3. ~Attached(s)' /\ ~Lasts(s)'
      BY <1>7, <3>2 DEF Attached, Lasts, Step, Plain
    <3>4. Needs(s)' = {}
      <4>1. ~Installed(s)' /\ at'[s] \notin WithMedia /\ at'[s] # "up"
        BY <1>7, <3>3 DEF Installed, Step, Up
      <4> QED BY <4>1 DEF Needs
    <3> QED
      BY <1>7, <3>3, <3>4 DEF Rtp, Step, Plain
  <2>2. \A t \in Streams \ {s} : RtpFrame(t)
    BY <1>1 DEF RtpFrame
  <2> QED
    BY <2>1, <2>2, RtpStep DEF SetupInv
<1>10. AloneInv'
  BY <1>1, <1>7, AloneStep DEF SetupInv, Plain, Lasts, Step
<1>11. RemoteInv'
  BY RemoteStep DEF SetupInv
<1>12. OwnerInv'
  <2>1. ASSUME NEW i \in Ids, bound[i] # 0, flow_of[s] = i PROVE Disturbed(bound[i])'
    <3>1. bound[i] = RtpPort(s) /\ flow_of[s] # 0 /\ bound'[i] = bound[i]
      BY <1>1, <2>1, Holder DEF Belongs, Ids
    <3> QED
      BY <1>8, <3>1
  <2> QED
    BY <1>1, <2>1, OwnerStep DEF SetupInv
<1>13. OverlapInv'
  BY <1>7, OverlapStep DEF SetupInv
<1>14. HeldInv'
  <2>1. \A j \in Ids : Kept(j)' = Kept(j) /\ ~Holds(s, j)'
    BY <1>1, <1>4 DEF Kept, Holds, Ids
  <2> QED
    BY <1>1, <1>7, <2>1, HeldStep DEF SetupInv
<1>15. RegInv' /\ RunsInv'
  BY <1>1, RegStep, RunsStep DEF SetupInv, Step
<1>16. RtcpInv'
  <2>1. ASSUME Own(s), Undisturbed(RtcpPort(s))' PROVE Rtcp(s)'
    BY <1>4, <1>7 DEF Rtcp, Step, Plain, Reads, Reading
  <2>2. \A t \in Streams \ {s} : RtcpFrame(t)
    BY <1>1 DEF RtcpFrame
  <2> QED
    BY <2>1, <2>2, RtcpStep DEF SetupInv
<1> QED
  BY <1>2, <1>3, <1>5, <1>6, <1>9, <1>10, <1>11, <1>12, <1>13, <1>14, <1>15, <1>16 DEF SetupInv

\* The steps that fail.
Failing == {"connect", "flow", "media", "up", "dh_wait", "lock", "negotiate"}

LEMMA FailsBreaks ==
    ASSUME NEW b, SetupInv(b), NegotiationInv', NEW s \in Streams, NEW from \in Failing,
           Fails(s, from)
    PROVE  SetupInv(b)'
<1> DEFINE reason == IF flow_of[s] = 0 THEN "refused" ELSE "failed"
<1>1. PICK to \in {"broken", "delete"} : Goes(s, from, to) /\ (to = "broken" => from \notin {"connect", "flow"})
  BY DEF Fails
<1>2. /\ UNCHANGED <<life, scenario, factory, readers, flow, flow_of, remote, crashed>>
      /\ disturbed' = disturbed \cup {<<p, reason>> : p \in PortsOf(Config(s))}
      /\ rtcp' = [rtcp EXCEPT ![s] = NoRtcp] /\ sock' = [sock EXCEPT ![s] = 0]
      /\ from \in Steps \ {"none"} /\ to \in Steps
  BY DEF Fails, free_resources, Failing, Steps, Creating, Deleting
<1>3. TypeInv
  BY DEF SetupInv, NegotiationInv
<1>4. Step(s, from, to)
  BY <1>1, <1>2, <1>3, StepOf DEF SetupInv, TypeInv, StreamInv
<1>5. zrtp'.socket = zrtp.socket
  BY DEF Fails, free_resources, Unlock, SetupInv, NegotiationInv, Zrtps
<1>6. flow_of[s] # 0 => \A p \in PortsOf(Config(s)) : Disturbed(p)'
  <2>1. ASSUME flow_of[s] # 0, NEW p \in PortsOf(Config(s)) PROVE <<p, "failed">> \in disturbed'
    BY <1>2, <2>1
  <2> QED
    BY <2>1, Marks
<1>7. Shape(s)'
  <2>1. Shape(s) /\ Own(s)' = Own(s) /\ at'[s] = to /\ at[s] = from
    BY <1>4 DEF SetupInv, ShapeInv, Step, Own
  <2>2. rtcp'[s] = NoRtcp /\ sock'[s] = 0 /\ flow_of' = flow_of
    BY <1>2, <1>3 DEF TypeInv, StreamInv
  <2>3. to = "broken" => flow_of[s] # 0
    BY <1>1, <2>1 DEF Shape, Failing, InFlow, WithMedia, Reading, Up
  <2>4. PortsOf(Config(s))' = PortsOf(Config(s))
    BY <1>4 DEF Step, PortsOf
  <2>5. (at[s] = "broken" => \A p \in PortsOf(Config(s)) : Disturbed(p))'
    BY <1>6, <2>1, <2>3, <2>4
  <2> QED
    BY <2>1, <2>2, <2>3, <2>5 DEF Shape, NoRtcp, BeforeRtcp, InFlow, WithMedia, Reading, Up
<1>8. from \notin Deleting
  BY DEF Failing, Deleting
<1> QED
  BY <1>2, <1>4, <1>5, <1>6, <1>7, <1>8, GiveUpStep

LEMMA FailuresKeep ==
    ASSUME NEW b, SetupInv(b), NegotiationInv', NEW s \in Streams,
           \/ ConnectFails(s) \/ WrongCtx(s) \/ UnknownFormat(s) \/ GiveUpOnDh(s)
           \/ GiveUpOnLock(s) \/ ZrtpFails(s) \/ NoFlow(s)
    PROVE  SetupInv(b)'
<1>1. \/ \E from \in Failing : Fails(s, from)
      \/ NoFlow(s) /\ ~Fails(s, "flow")
  BY DEF ConnectFails, WrongCtx, UnknownFormat, GiveUpOnDh, GiveUpOnLock, ZrtpFails, Failing
<1> QED
  BY <1>1, FailsBreaks, RefusedKeeps

\* The flow of a stream is bound to the port of it.
LEMMA FlowIsBound ==
    ASSUME NEW b, SetupInv(b), NEW s \in Streams, Attached(s) \/ Lasts(s), Undisturbed(RtpPort(s))
    PROVE  /\ Rtp(s) /\ flow_of[s] \in Ids /\ sock[s] = flow_of[s]
           /\ flow_of[s] \in reception_flows
           /\ used_ports[RtpPort(s)] = flow_of[s] /\ bound[flow_of[s]] = RtpPort(s)
           /\ at[s] # "none"
<1>1. at[s] # "none"
  BY DEF Attached, Lasts, InFlow, WithMedia, Reading, Up, Leaving
<1>2. Rtp(s) /\ flow_of[s] \in Ids
  BY <1>1, FlowOfLast DEF SetupInv, NegotiationInv, RtpInv
<1>3. RtpPort(s) \in Ports
  BY <1>1, ConfigOf, ConfigsTyped DEF SetupInv, NegotiationInv, TypeInv, RtpPort
<1> QED
  BY <1>1, <1>2, <1>3 DEF Rtp, SetupInv, NegotiationInv, TypeInv, FactoryInv, Ids

\* Nobody stops the flow of a stream that is created, or that has handlers there.
LEMMA NoLast ==
    ASSUME NEW b, SetupInv(b), NEW s \in Streams, NEW t \in Streams, Attached(s),
           at[s] \in Creating \/ Installed(s),
           Undisturbed(RtpPort(s)), Lasts(t)
    PROVE  flow_of[t] # flow_of[s]
<1> SUFFICES ASSUME flow_of[t] = flow_of[s] PROVE FALSE
  OBVIOUS
<1>1. Rtp(s) /\ flow_of[s] \in Ids /\ at[s] # "none"
  BY FlowIsBound
<1>2. RtpPort(t) = RtpPort(s)
  BY <1>1, Holder DEF SetupInv
<1>3. Rtp(t)
  BY <1>2, FlowIsBound
<1>4. CASE at[s] \in Creating
  <2>1. /\ at[t] \in Deleting /\ flow_of[t] # 0
        /\ RtpPort(s) \in PortsOf(Config(s)) \cap PortsOf(Config(t))
    BY <1>1, <1>2 DEF Lasts, Deleting, RtpPort, PortsOf, Ids
  <2> QED
    BY <1>4, <2>1 DEF SetupInv, OverlapInv, Undisturbed
<1>5. CASE Installed(s)
  <2>1. PICK x \in FirstHandlers(Config(s)) : TRUE
    BY DEF FirstHandlers, PacketHandlers
  <2>2. x \in Needs(s)
    BY <1>5 DEF Needs, FirstHandlers, AllHandlers, PacketHandlers
  <2> QED
    BY <1>1, <1>3, <2>2 DEF Rtp
<1> QED
  BY <1>4, <1>5

\* A step that adds handlers to the flow of a stream, or starts it.
Grows(s, runs, types) ==
    LET i == flow_of[s] IN
    /\ flow' = [flow EXCEPT ![i] = flow'[i]] /\ flow'[i] \in FlowRecords
    /\ flow'[i].active = (flow[i].active \/ runs)
    /\ flow'[i].handlers = flow[i].handlers \cup ({remote[s]} \X types)

LEMMA GrowStep ==
    ASSUME NEW b, SetupInv(b), NegotiationInv', NEW s \in Streams, NEW from, NEW to,
           Step(s, from, to), NEW types \in SUBSET HandlerTypes, NEW runs \in BOOLEAN,
           UNCHANGED <<factory, readers, sock, flow_of, remote, zrtp, disturbed>>,
           flow_of[s] \in Ids,
           Grows(s, runs, types),
           rtcp'[s].reader = rtcp[s].reader,
           rtcp'[s].sock = rtcp[s].sock \/ (~Own(s) /\ rtcp'[s].sock = sock[s]),
           Plain(to), Shape(s)', Attached(s), Installed(s)', at[s] \in Creating \/ Installed(s),
           from \notin Deleting, to \notin Deleting, to \in Creating => from \in Creating,
           Needs(s)' \subseteq Needs(s) \cup types, to \in Up => from \in Up \/ runs,
           Own(s) => /\ Reads(s)' => Reads(s)
                     /\ to \in Reading => from \in Reading \ {"rtcp_start"}
                     /\ to \in {"start"} \cup Up => from \in {"start"} \cup Up
    PROVE  SetupInv(b)'
<1> DEFINE i == flow_of[s]
<1>1. /\ TypeInv /\ UNCHANGED <<made, bound, used_ports, used_sockets, reception_flows>>
      /\ ShapeInv /\ Belongs(b) /\ remote[s] \in Nat
  BY FactoryParts DEF SetupInv, NegotiationInv, FlowsInv
<1>2. FlowsInv'
  BY <1>1 DEF SetupInv, FlowsInv, Grows
<1>3. /\ flow'[i].active = (flow[i].active \/ runs)
      /\ flow'[i].handlers = flow[i].handlers \cup ({remote[s]} \X types)
      /\ \A j \in Ids \ {i} : flow'[j] = flow[j]
      /\ \A h \in flow'[i].handlers : h \in flow[i].handlers \/ h[1] = remote[s]
  <2>1. \A h \in {remote[s]} \X types : h[1] = remote[s]
    OBVIOUS
  <2> QED
    BY <2>1 DEF SetupInv, FlowsInv, Grows
<1>4. ShapeInv'
  BY ShapeStep DEF SetupInv
<1>5. Belongs(b)'
  BY <1>1, BelongsStep
<1>6. FreshInv'
  BY <1>1, <1>3, FreshStep DEF SetupInv, TypeInv, StreamInv, FactoryInv, Ids
<1>7. RtpInv'
  <2>1. ASSUME Undisturbed(RtpPort(s))' PROVE Rtp(s)'
    <3>1. Undisturbed(RtpPort(s)) /\ RtpPort(s)' = RtpPort(s)
      BY <2>1, MorePorts DEF Step, RtpPort
    <3>2. Rtp(s) /\ sock[s] = i /\ used_ports[RtpPort(s)] = i /\ i \in reception_flows /\ i # 0
      BY <3>1, FlowIsBound DEF Ids
    <3>3. \A x \in Needs(s)' : <<remote[s], x>> \in flow'[i].handlers
      BY <1>3, <3>2 DEF Rtp
    <3>4. at'[s] \in Up => flow'[i].active
      BY <1>3, <3>2 DEF Rtp, Step
    <3> QED
      BY <1>1, <3>1, <3>2, <3>3, <3>4 DEF Rtp, Step, Plain, Lasts
  <2>2. ASSUME NEW t \in Streams \ {s}, Undisturbed(RtpPort(t)) PROVE RtpFrame(t)
    <3>1. CASE flow_of[t] = i
      <4>1. RtpPort(t) = RtpPort(s)
        BY <1>1, <3>1, Holder
      <4>2. ~Lasts(t)
        BY <2>2, <3>1, <4>1, NoLast
      <4> QED
        BY <1>1, <1>3, <3>1, <4>2 DEF RtpFrame, Lasts
    <3>2. CASE flow_of[t] # i
      <4>1. Attached(t) \/ Lasts(t) => flow_of[t] \in Ids \ {i}
        BY <1>1, <3>2, FlowOfLast
      <4> QED
        BY <1>1, <1>3, <4>1 DEF RtpFrame
    <3> QED BY <3>1, <3>2
  <2> QED
    BY <2>1, <2>2, RtpStep DEF SetupInv
<1>8. AloneInv'
  BY <1>1, AloneStep DEF SetupInv, Plain, Lasts, Step
<1>9. RemoteInv'
  BY RemoteStep DEF SetupInv
<1>10. OwnerInv'
  <2>1. ASSUME NEW j \in Ids, NEW h \in flow'[j].handlers
        PROVE  \/ /\ h \in flow[j].handlers
                  /\ ~(flow_of[s] = j /\ h[1] = remote[s] /\ Installed(s))
               \/ flow_of'[s] = j /\ h[1] = remote'[s] /\ Installed(s)'
    BY <1>3, <2>1
  <2> QED
    BY <1>1, <2>1, OwnerStep DEF SetupInv
<1>11. OverlapInv'
  BY OverlapStep DEF SetupInv
<1>12. HeldInv'
  <2>1. ASSUME NEW j \in Ids, bound[j] # 0, Undisturbed(bound[j])
        PROVE  /\ Kept(j)' => Kept(j) \/ used_ports[bound[j]] = j
               /\ zrtp'.socket = j \/ flow'[j].active =>
                      zrtp.socket = j \/ flow[j].active \/ j \in reception_flows
               /\ Holds(s, j)' => Holds(s, j)
    <3>1. j = i => j \in reception_flows
      <4>1. ASSUME j = i PROVE bound[j] = RtpPort(s)
        BY <1>1, <2>1, <4>1, Holder DEF Belongs
      <4> QED
        BY <2>1, <4>1, FlowIsBound
    <3> QED
      BY <1>1, <1>3, <3>1 DEF Kept, Holds
  <2> QED
    BY <1>1, <2>1, HeldStep DEF SetupInv
<1>13. RegInv' /\ RunsInv'
  BY <1>1, RegStep, RunsStep DEF SetupInv, Step
<1>14. RtcpInv'
  <2>1. ASSUME Own(s), Undisturbed(RtcpPort(s))' PROVE Rtcp(s)'
    <3>1. Undisturbed(RtcpPort(s)) /\ RtcpPort(s)' = RtcpPort(s)
      BY <2>1, MorePorts DEF Step, RtcpPort
    <3>2. Rtcp(s) /\ at[s] # "none"
      BY <2>1, <3>1 DEF SetupInv, RtcpInv, Step, Attached, InFlow, WithMedia, Reading, Up, Leaving
    <3>3. to \in {"start"} \cup Up => to \in Reading
      BY DEF Reading
    <3> QED
      BY <1>1, <2>1, <3>1, <3>2, <3>3 DEF Rtcp, Step, Plain
  <2>2. \A t \in Streams \ {s} : RtcpFrame(t)
    BY <1>1 DEF RtcpFrame
  <2> QED
    BY <2>1, <2>2, RtcpStep DEF SetupInv
<1> QED
  BY <1>2, <1>4, <1>5, <1>6, <1>7, <1>8, <1>9, <1>10, <1>11, <1>12, <1>13, <1>14 DEF SetupInv

LEMMA InstallForm ==
    ASSUME FlowsInv, NEW s \in Streams, NEW types \in SUBSET HandlerTypes, flow_of[s] \in Ids,
           install_handlers(s, types)
    PROVE  Grows(s, FALSE, types)
<1> DEFINE i == flow_of[s]  more == flow[i].handlers \cup ({remote[s]} \X types)
<1>1. flow[i] \in FlowRecords /\ more \in SUBSET (Nat \X HandlerTypes)
  BY DEF FlowsInv, FlowRecords
<1> DEFINE new == [flow[i] EXCEPT !.handlers = more]
<1>2. new \in FlowRecords /\ new.active = flow[i].active /\ new.handlers = more
  BY <1>1 DEF FlowRecords
<1>3. flow' = [flow EXCEPT ![i] = new] /\ flow'[i] = new
  BY DEF install_handlers, FlowsInv
<1>4. (flow[i].active \/ FALSE) = flow[i].active
  BY <1>1 DEF FlowRecords
<1> QED
  BY <1>2, <1>3, <1>4 DEF Grows

\* The flow's own part: reception_flow::start().
LEMMA StartForm ==
    ASSUME FlowsInv, NEW s \in Streams, flow_of[s] \in Ids, StartFlow(s)
    PROVE  Grows(s, TRUE, {})
<1> DEFINE i == flow_of[s]  new == Started(flow[i], s)
<1>1. flow[i] \in FlowRecords /\ Flags(Config(s)) \subseteq {"srtp", "rtcp", "mux"}
  BY DEF FlowsInv, Flags
<1>2. new \in FlowRecords /\ new.active = TRUE /\ new.handlers = flow[i].handlers
  BY <1>1 DEF FlowRecords, Started
<1> HIDE DEF new
<1>3. flow' = [flow EXCEPT ![i] = new] /\ flow'[i] = new
  BY DEF StartFlow, FlowsInv, new
<1>4. (flow[i].active \/ TRUE) = TRUE /\ flow[i].handlers \cup ({remote[s]} \X {}) = flow[i].handlers
  OBVIOUS
<1>5. flow'[i].active = (flow[i].active \/ TRUE)
  BY <1>2, <1>3, <1>4
<1>6. flow'[i].handlers = flow[i].handlers \cup ({remote[s]} \X {})
  BY <1>2, <1>3, <1>4
<1>7. flow' = [flow EXCEPT ![i] = flow'[i]] /\ flow'[i] \in FlowRecords
  BY <1>2, <1>3
<1> QED
  BY <1>5, <1>6, <1>7 DEF Grows

LEMMA HandlersAreStrings ==
    ASSUME NEW c
    PROVE  FirstHandlers(c) \in SUBSET HandlerTypes /\ PacketHandlers(c) \in SUBSET HandlerTypes
BY DEF FirstHandlers, PacketHandlers, HandlerTypes

LEMMA InstallKeeps ==
    ASSUME NEW b, SetupInv(b), NegotiationInv', NEW s \in Streams, Install(s)
    PROVE  SetupInv(b)'
<1> DEFINE to == IF Config(s).kind = "user" THEN "user" ELSE "media"
<1>1. /\ Goes(s, "install", to)
      /\ UNCHANGED <<life, scenario, factory, readers, zrtp, crashed, disturbed>>
      /\ UNCHANGED <<sock, flow_of, remote>>
      /\ rtcp' = [rtcp EXCEPT ![s].state = "made"]
      /\ "install" \in Steps \ {"none"} /\ to \in Steps
  BY DEF Install, ghosts, Steps, Creating
<1>2. TypeInv /\ ShapeInv /\ FlowsInv
  BY DEF SetupInv, NegotiationInv
<1>3. /\ \A t \in Streams \ {s} : rtcp'[t] = rtcp[t]
      /\ rtcp'[s].sock = rtcp[s].sock /\ rtcp'[s].reader = rtcp[s].reader
  BY <1>1, <1>2 DEF TypeInv, StreamInv, Rtcps
<1>4. Step(s, "install", to)
  BY <1>1, <1>2, <1>3, StepOf
<1>5. Shape(s) /\ Own(s)' = Own(s) /\ at'[s] = to /\ at[s] = "install"
  BY <1>2, <1>4 DEF ShapeInv, Step, Own
<1>6. /\ Attached(s) /\ Installed(s)' /\ ~Reads(s)' /\ Plain(to) /\ at[s] \in Creating
      /\ to \notin Deleting \cup WithMedia \cup Up \cup Reading
  BY <1>5 DEF Attached, Installed, Reads, InFlow, WithMedia, Reading, Up, Plain, Deleting, Creating
<1>7. Shape(s)'
  BY <1>1, <1>3, <1>5 DEF Shape, BeforeRtcp, InFlow, WithMedia, Reading, Up
<1>8. flow_of[s] \in Ids
  BY <1>2, <1>6, FlowOfLast
<1>9. Grows(s, FALSE, FirstHandlers(Config(s)))
  BY <1>2, <1>8, HandlersAreStrings, InstallForm DEF Install
<1>10. Needs(s)' \subseteq FirstHandlers(Config(s))
  <2>1. FirstHandlers(Config(s))' = FirstHandlers(Config(s))
    BY <1>4 DEF Step, FirstHandlers, PacketHandlers, ByZrtp
  <2> QED
    BY <1>5, <1>6, <2>1 DEF Needs, Up
<1>11. to \in Creating => "install" \in Creating
  BY DEF Creating
<1>12. "install" \notin Deleting
  BY DEF Deleting
<1> QED
  BY <1>1, <1>3, <1>4, <1>6, <1>7, <1>8, <1>9, <1>10, <1>11, <1>12, HandlersAreStrings, GrowStep
     DEF Reading, Up

LEMMA CreateMediaKeeps ==
    ASSUME NEW b, SetupInv(b), NegotiationInv', NEW s \in Streams, CreateMedia(s)
    PROVE  SetupInv(b)'
<1> DEFINE to == AfterMedia[Config(s).rtcp]
<1>1. TypeInv /\ ShapeInv /\ FlowsInv
  BY DEF SetupInv, NegotiationInv
<1>2. Config(s).rtcp \in {"none", "mux", "own"}
  <2>1. at[s] # "none"
    BY DEF CreateMedia, Goes
  <2> QED
    BY <1>1, <2>1, ConfigOf, ConfigsTyped DEF TypeInv
<1>3. /\ Goes(s, "media", to)
      /\ UNCHANGED <<life, scenario, factory, readers, zrtp, crashed, disturbed>>
      /\ UNCHANGED <<sock, flow_of, remote>>
      /\ rtcp' = IF Config(s).rtcp = "mux" THEN [rtcp EXCEPT ![s].sock = sock[s]] ELSE rtcp
      /\ "media" \in Steps \ {"none"} /\ to \in Steps
      /\ to \in {"start", "rtcp_start", "rtcp_socket"}
      /\ (to = "rtcp_socket" <=> Own(s)) /\ (to = "rtcp_start" <=> Config(s).rtcp = "mux")
  BY <1>2 DEF CreateMedia, ghosts, Steps, Creating, AfterMedia, Own
<1>4. /\ \A t \in Streams \ {s} : rtcp'[t] = rtcp[t]
      /\ rtcp'[s].reader = rtcp[s].reader
      /\ rtcp'[s].sock = rtcp[s].sock \/ (~Own(s) /\ rtcp'[s].sock = sock[s])
  BY <1>1, <1>3 DEF TypeInv, StreamInv, Rtcps, Own
<1>5. Step(s, "media", to)
  BY <1>1, <1>3, <1>4, StepOf
<1>6. Shape(s) /\ Own(s)' = Own(s) /\ at'[s] = to /\ at[s] = "media" /\ Config(s)' = Config(s)
  BY <1>1, <1>5 DEF ShapeInv, Step, Own
<1>7. /\ Attached(s) /\ Installed(s) /\ Installed(s)' /\ Plain(to) /\ at[s] \in Creating
      /\ to \notin Deleting \cup Up /\ (Own(s) => ~Reads(s)' /\ to \notin Reading)
  BY <1>3, <1>6 DEF Attached, Installed, Reads, InFlow, WithMedia, Reading, Up, Plain, Deleting, Creating
<1>8. Shape(s)'
  BY <1>3, <1>4, <1>6 DEF Shape, BeforeRtcp, InFlow, WithMedia, Reading, Up
<1>9. flow_of[s] \in Ids
  BY <1>1, <1>7, FlowOfLast
<1>10. Grows(s, FALSE, {"media"})
  BY <1>1, <1>9, InstallForm DEF CreateMedia, HandlerTypes
<1>11. Needs(s)' \subseteq Needs(s) \cup {"media"}
  <2>1. /\ FirstHandlers(Config(s))' = FirstHandlers(Config(s))
        /\ AllHandlers(Config(s))' = AllHandlers(Config(s))
    BY <1>5 DEF Step, FirstHandlers, AllHandlers, PacketHandlers, ByZrtp
  <2>2. to # "up"
    BY <1>3
  <2> QED
    BY <1>6, <1>7, <2>1, <2>2 DEF Needs
<1>12. "media" \notin Deleting /\ {"media"} \in SUBSET HandlerTypes
  BY DEF Deleting, HandlerTypes
<1> QED
  BY <1>3, <1>4, <1>5, <1>7, <1>8, <1>9, <1>10, <1>11, <1>12, GrowStep DEF Creating, Reading

LEMMA StartFlowKeeps ==
    ASSUME NEW b, SetupInv(b), NegotiationInv', NEW s \in Streams, StartFlow(s)
    PROVE  SetupInv(b)'
<1> DEFINE to == IF Config(s).kind \notin ByZrtp THEN "up" ELSE IF Config(s).auto THEN Zrtp(s) ELSE "manual"
<1>1. TypeInv /\ ShapeInv /\ FlowsInv
  BY DEF SetupInv, NegotiationInv
<1>2. /\ Goes(s, "start", to)
      /\ UNCHANGED <<life, scenario, factory, readers, zrtp, crashed, disturbed>>
      /\ UNCHANGED <<sock, flow_of, remote, rtcp>>
      /\ "start" \in Steps \ {"none"} /\ to \in Steps /\ to \in Up
  BY DEF StartFlow, ghosts, stream, Steps, Creating, Zrtp, Up
<1>3. Step(s, "start", to)
  BY <1>1, <1>2, StepOf
<1>4. Shape(s) /\ Own(s)' = Own(s) /\ at'[s] = to /\ at[s] = "start"
  BY <1>1, <1>3 DEF ShapeInv, Step, Own
<1>5. /\ Attached(s) /\ Installed(s) /\ Installed(s)' /\ Reads(s) /\ Plain(to) /\ at[s] \in Creating
      /\ to \notin Deleting
  BY <1>2, <1>4 DEF Attached, Installed, Reads, InFlow, WithMedia, Reading, Up, Plain, Deleting, Creating
<1>6. Shape(s)'
  <2>1. /\ to \notin {"none", "socket", "broken", "connect", "flow", "remove", "reader_check",
                      "clear_rtcp", "stop", "clear", "crashed", "rtcp_socket", "rtcp_reader",
                      "rtcp_start", "reader_start", "reader_launch", "reader_mark"}
        /\ to \notin BeforeRtcp
    BY <1>2 DEF Up, BeforeRtcp
  <2> QED
    BY <1>2, <1>4, <2>1 DEF Shape, BeforeRtcp, InFlow, WithMedia, Reading
<1>7. flow_of[s] \in Ids
  BY <1>1, <1>5, FlowOfLast
<1>8. Grows(s, TRUE, {})
  BY <1>1, <1>7, StartForm
<1>9. Needs(s)' \subseteq Needs(s)
  <2>1. /\ FirstHandlers(Config(s))' = FirstHandlers(Config(s))
        /\ AllHandlers(Config(s))' = AllHandlers(Config(s))
    BY <1>3 DEF Step, FirstHandlers, AllHandlers, PacketHandlers, ByZrtp
  <2>2. ASSUME to = "up" PROVE AllHandlers(Config(s)) \subseteq FirstHandlers(Config(s)) \cup {"media"}
    <3>1. Config(s).kind \notin ByZrtp
      BY <2>2 DEF Zrtp
    <3> QED
      BY <3>1 DEF AllHandlers, FirstHandlers
  <2>3. at[s] \in WithMedia
    BY <1>4 DEF WithMedia, Reading
  <2> QED
    BY <1>4, <1>5, <2>1, <2>2, <2>3 DEF Needs
<1>10. "start" \notin Deleting /\ {} \in SUBSET HandlerTypes /\ TRUE \in BOOLEAN
  BY DEF Deleting
<1>11. UNCHANGED rtcp
  BY <1>2
<1> QED
  BY <1>2, <1>3, <1>5, <1>6, <1>7, <1>8, <1>9, <1>10, <1>11, GrowStep DEF Reading, Creating

LEMMA InstallAfterZrtpKeeps ==
    ASSUME NEW b, SetupInv(b), NegotiationInv', NEW s \in Streams, InstallAfterZrtp(s)
    PROVE  SetupInv(b)'
<1>1. TypeInv /\ ShapeInv /\ FlowsInv
  BY DEF SetupInv, NegotiationInv
<1>2. /\ Goes(s, "handlers", "up")
      /\ UNCHANGED <<life, scenario, factory, readers, zrtp, crashed, disturbed>>
      /\ UNCHANGED <<sock, flow_of, remote, rtcp>>
      /\ "handlers" \in Steps \ {"none"} /\ "up" \in Steps
  BY DEF InstallAfterZrtp, ghosts, stream, Steps, Creating
<1>3. Step(s, "handlers", "up")
  BY <1>1, <1>2, StepOf
<1>4. Shape(s) /\ Own(s)' = Own(s) /\ at'[s] = "up" /\ at[s] = "handlers"
  BY <1>1, <1>3 DEF ShapeInv, Step, Own
<1>5. /\ Attached(s) /\ Installed(s) /\ Installed(s)' /\ Reads(s) /\ Plain("up")
      /\ "up" \notin Deleting /\ "up" \notin Creating /\ "handlers" \notin Deleting
      /\ "handlers" \in Up
  BY <1>2, <1>4 DEF Attached, Installed, Reads, InFlow, WithMedia, Reading, Up, Plain, Deleting, Creating
<1>6. Shape(s)'
  BY <1>2, <1>4 DEF Shape, BeforeRtcp, InFlow, WithMedia, Reading, Up
<1>7. flow_of[s] \in Ids
  BY <1>1, <1>5, FlowOfLast
<1>8. Grows(s, FALSE, PacketHandlers(Config(s)))
  BY <1>1, <1>7, HandlersAreStrings, InstallForm DEF InstallAfterZrtp
<1>9. Needs(s)' \subseteq Needs(s) \cup PacketHandlers(Config(s))
  <2>1. /\ FirstHandlers(Config(s))' = FirstHandlers(Config(s))
        /\ AllHandlers(Config(s))' = AllHandlers(Config(s))
    BY <1>3 DEF Step, FirstHandlers, AllHandlers, PacketHandlers, ByZrtp
  <2>2. AllHandlers(Config(s)) \subseteq FirstHandlers(Config(s)) \cup PacketHandlers(Config(s)) \cup {"media"}
    BY DEF AllHandlers, FirstHandlers
  <2>3. at[s] \in WithMedia
    BY <1>4 DEF WithMedia, Reading, Up
  <2> QED
    BY <1>4, <1>5, <2>1, <2>2, <2>3 DEF Needs
<1>10. UNCHANGED rtcp /\ FALSE \in BOOLEAN
  BY <1>2
<1> QED
  BY <1>2, <1>3, <1>5, <1>6, <1>7, <1>8, <1>9, <1>10, HandlersAreStrings, GrowStep DEF Reading, Creating

\* A step of RTCP, and of its reader.
LEMMA ReadersStep ==
    ASSUME NEW b, SetupInv(b), NegotiationInv', NEW s \in Streams, NEW from, NEW to,
           Step(s, from, to), UNCHANGED <<factory, flow, sock, flow_of, remote, rtcp, zrtp, disturbed>>,
           \A r \in Ids : readers'[r].port = readers[r].port,
           Belongs(b)', FreshInv', RunsInv',
           \A j \in Ids : bound[j] # 0 /\ Undisturbed(bound[j]) /\ Kept(j)' =>
               Kept(j) \/ used_ports[bound[j]] = j,
           from # "none", to \notin {"none", "connect", "flow", "stop", "clear"}, Shape(s)',
           Installed(s)' = Installed(s), Attached(s)' => Attached(s),
           from \in Deleting <=> to \in Deleting,
           to \in Creating => from \in Creating,
           to \in WithMedia => from \in WithMedia, to \notin Up,
           Own(s) /\ Undisturbed(RtcpPort(s)) /\ Rtcp(s) => Rtcp(s)',
           \A t \in Streams \ {s} :
               at[t] # "none" /\ Own(t) /\ Undisturbed(RtcpPort(t)) /\ Rtcp(t) => RtcpFrame(t)
    PROVE  SetupInv(b)'
<1>1. /\ TypeInv /\ UNCHANGED <<made, bound, used_ports, used_sockets, reception_flows>>
      /\ ShapeInv /\ Belongs(b)
  BY FactoryParts DEF SetupInv, NegotiationInv
<1>2. FlowsInv'
  BY DEF SetupInv, FlowsInv
<1>3. ShapeInv'
  BY ShapeStep DEF SetupInv
<1>4. RtpInv'
  <2>1. ASSUME Undisturbed(RtpPort(s))' PROVE Rtp(s)'
    <3>1. Undisturbed(RtpPort(s)) /\ RtpPort(s)' = RtpPort(s)
      BY <2>1, MorePorts DEF Step, RtpPort
    <3>2. Rtp(s)
      BY <3>1 DEF SetupInv, RtpInv, Step
    <3>3. Needs(s)' \subseteq Needs(s)
      BY <3>1, NeedsStep DEF Step, Up
    <3> QED
      BY <1>1, <3>1, <3>2, <3>3 DEF Rtp, Step, Lasts
  <2>2. \A t \in Streams \ {s} : RtpFrame(t)
    BY <1>1 DEF RtpFrame
  <2> QED
    BY <2>1, <2>2, RtpStep DEF SetupInv
<1>5. AloneInv'
  BY <1>1, AloneStep DEF SetupInv, Lasts, Step
<1>6. RemoteInv'
  BY RemoteStep DEF SetupInv
<1>7. OwnerInv'
  BY <1>1, OwnerStep DEF SetupInv
<1>8. OverlapInv'
  BY OverlapStep DEF SetupInv
<1>9. HeldInv'
  <2>1. \A j : Holds(s, j)' = Holds(s, j)
    BY <1>1 DEF Holds
  <2> QED
    BY <1>1, <2>1, HeldStep DEF SetupInv
<1>10. RegInv'
  BY <1>1, RegStep DEF SetupInv
<1>11. RtcpInv'
  <2>1. ASSUME Own(s), Undisturbed(RtcpPort(s))' PROVE Rtcp(s)'
    <3>1. Undisturbed(RtcpPort(s))
      BY <2>1, MorePorts DEF Step, RtcpPort
    <3>2. Rtcp(s)
      BY <2>1, <3>1 DEF SetupInv, RtcpInv, Step
    <3> QED
      BY <2>1, <3>1, <3>2
  <2> QED
    BY <2>1, RtcpStep DEF SetupInv
<1> QED
  BY <1>2, <1>3, <1>4, <1>5, <1>6, <1>7, <1>8, <1>9, <1>10, <1>11 DEF SetupInv

\* A step that leaves the socket of a reader as it is.
LEMMA SameReaders ==
    ASSUME NEW b, SetupInv(b), NEW s \in Streams, NEW from, NEW to, Step(s, from, to),
           UNCHANGED <<factory, flow, sock, flow_of, rtcp, zrtp>>,
           \A r \in Ids : readers'[r].port = readers[r].port /\ readers'[r].sock = readers[r].sock
    PROVE  Belongs(b)' /\ FreshInv' /\ \A j : Kept(j)' => Kept(j)
<1>1. /\ TypeInv /\ UNCHANGED <<made, bound, used_ports, used_sockets, reception_flows>>
      /\ Belongs(b)
  BY FactoryParts DEF SetupInv, NegotiationInv
<1>2. Belongs(b)'
  BY <1>1, BelongsStep
<1>3. FreshInv'
  BY <1>1, FreshStep DEF SetupInv
<1> QED
  BY <1>1, <1>2, <1>3 DEF Kept

\* The reader of a stream, and its number.
LEMMA ReaderOf ==
    ASSUME TypeInv, ShapeInv, NEW s \in Streams, rtcp[s].reader # 0
    PROVE  rtcp[s].reader \in Ids /\ Own(s) /\ flow_of[s] # 0
<1>1. rtcp[s].reader \in 0 .. made /\ made \in Nat /\ made <= MaxSockets /\ MaxSockets \in Nat
  BY MadeIsNat, MaxIsNat DEF TypeInv, StreamInv, Rtcps
<1> QED
  BY <1>1 DEF ShapeInv, Shape, Ids

LEMMA ReaderIds ==
    ASSUME TypeInv, ShapeInv, NEW s \in Streams, Rtcp(s),
           Reads(s) \/ at[s] \in {"rtcp_reader", "reader_check", "clear_rtcp"}
    PROVE  rtcp[s].sock \in Ids
<1>1. rtcp[s].sock \in 0 .. made /\ made \in Nat /\ made <= MaxSockets /\ MaxSockets \in Nat
  BY MadeIsNat, MaxIsNat DEF TypeInv, StreamInv, Rtcps
<1>2. rtcp[s].sock # 0
  <2>1. CASE Reads(s) \/ at[s] = "rtcp_reader"
    BY <2>1 DEF Rtcp
  <2>2. CASE at[s] \in {"reader_check", "clear_rtcp"}
    BY <2>2 DEF ShapeInv, Shape, Rtcp
  <2> QED BY <2>1, <2>2
<1> QED
  BY <1>1, <1>2 DEF Ids

LEMMA LaunchesKeeps ==
    ASSUME NEW b, SetupInv(b), NegotiationInv', NEW s \in Streams, Launches(s)
    PROVE  SetupInv(b)'
<1> DEFINE r == rtcp[s].reader
<1>1. PICK from \in {"reader_launch", "reader_mark"}, to \in {"reader_mark", "start"} :
          /\ Goes(s, from, to) /\ (to = "start" <=> ReaderMark(s))
          /\ to = "start" => from = "reader_mark"
  <2>1. CASE ReaderMark(s)
    BY <2>1 DEF ReaderMark
  <2>2. CASE ~ReaderMark(s)
    BY <2>2 DEF Launches, ReaderLaunch, ReaderLeaves
  <2> QED BY <2>1, <2>2
<1>2. /\ UNCHANGED <<life, scenario, factory, flow, zrtp, disturbed>>
      /\ UNCHANGED <<sock, flow_of, remote, rtcp>>
      /\ from \in Steps \ {"none"} /\ to \in Steps
  BY DEF Launches, ReaderLaunch, ReaderLeaves, ReaderMark, stream, ghosts, Steps, Creating
<1>3. /\ TypeInv /\ ShapeInv /\ Belongs(b)
      /\ UNCHANGED <<made, bound, used_ports, used_sockets, reception_flows>>
  BY <1>2, FactoryParts DEF SetupInv, NegotiationInv
<1>4. Step(s, from, to)
  BY <1>1, <1>2, <1>3, StepOf DEF SetupInv
<1>5. /\ Shape(s) /\ Own(s)' = Own(s) /\ at'[s] = to /\ at[s] = from /\ Own(s)
      /\ RtcpPort(s)' = RtcpPort(s) /\ Me(s)' = Me(s)
  BY <1>3, <1>4 DEF ShapeInv, Step, Own, Shape, RtcpPort
<1>6. \A i \in Ids : /\ readers'[i].port = readers[i].port /\ readers'[i].sock = readers[i].sock
                     /\ readers'[i].members = readers[i].members
                     /\ readers[i].active => readers'[i].active
                     /\ readers[i].thread => readers'[i].thread
                     /\ i = r => IF to = "start" THEN /\ readers'[i].active
                                                     /\ readers'[i].thread = readers[i].thread
                                ELSE readers'[i].active = readers[i].active /\ readers'[i].thread
                     /\ i # r => readers'[i] = readers[i]
  <2>1. \A i \in Ids : readers[i] \in Readers(made)
    BY <1>3 DEF TypeInv, FactoryInv
  <2>2. DOMAIN readers = Ids
    BY <1>3 DEF TypeInv, FactoryInv
  <2>3. CASE ReaderMark(s)
    BY <1>1, <2>1, <2>2, <2>3 DEF ReaderMark, Readers
  <2>4. CASE ReaderLaunch(s) \/ ReaderLeaves(s)
    <3>1. to = "reader_mark"
      BY <1>4, <2>4 DEF ReaderLaunch, ReaderLeaves, Goes, Step, SetupInv, NegotiationInv, TypeInv, PlaceInv
    <3> QED
      BY <2>1, <2>2, <2>4, <3>1 DEF ReaderLaunch, ReaderLeaves, Readers
  <2> QED BY <2>3, <2>4 DEF Launches
<1>7. Belongs(b)' /\ FreshInv' /\ \A j : Kept(j)' => Kept(j)
  BY <1>2, <1>4, <1>6, SameReaders
<1>8. /\ Attached(s) /\ Attached(s)' /\ Installed(s) /\ Installed(s)' /\ Reads(s)
      /\ Reads(s)' /\ from \in Reading \ {"rtcp_start"}
      /\ to \notin Deleting \cup Up /\ from \notin Deleting
      /\ from \in WithMedia \cap Creating
  BY <1>5 DEF Attached, Installed, Reads, InFlow, WithMedia, Reading, Up, Deleting, Creating
<1>9. ASSUME r \in Ids, to = "start", Undisturbed(RtcpPort(s)) PROVE readers[r].thread
  <2>1. Rtcp(s) /\ from = "reader_mark"
    BY <1>1, <1>5, <1>9 DEF SetupInv, RtcpInv
  <2> QED
    BY <1>5, <1>8, <2>1 DEF Rtcp
<1>10. RunsInv'
  <2>1. CASE to = "reader_mark"
    BY <1>2, <1>3, <1>6, <2>1, RunsStep DEF SetupInv
  <2>2. CASE to = "start"
    <3>1. \A p : Disturbed(p)' <=> Disturbed(p)
      BY <1>2 DEF Disturbed
    <3>2. ASSUME r \in Ids
          PROVE  r <= made /\ (readers'[r].thread \/ readers[r].port = 0 \/ Disturbed(readers[r].port))
      <4>1. r <= made /\ r # 0
        BY <1>3, <3>2, MadeIsNat DEF TypeInv, StreamInv, Rtcps, Ids
      <4>2. readers[r].port \in {0, RtcpPort(s)}
        BY <1>3, <3>2, <4>1 DEF Belongs
      <4> QED
        BY <1>6, <1>9, <2>2, <3>2, <4>1, <4>2 DEF Undisturbed
    <3>3. \A i \in Ids \ {r} : readers'[i] = readers[i]
      BY <1>6
    <3> QED
      BY <1>3, <1>6, <3>1, <3>2, <3>3 DEF SetupInv, RunsInv
  <2> QED BY <2>1, <2>2
<1>11. Shape(s)'
  BY <1>2, <1>5 DEF Shape, BeforeRtcp, InFlow, WithMedia, Reading, Up
<1>12. ASSUME Rtcp(s) PROVE Rtcp(s)'
  <2>1. rtcp[s].reader = rtcp[s].sock
    BY <1>5, <1>8, <1>12 DEF Rtcp
  <2>2. rtcp[s].sock \in Ids
    BY <1>3, <1>8, <1>12, ReaderIds
  <2>3. rtcp' = rtcp /\ used_ports' = used_ports
    BY <1>2, <1>3
  <2>4. /\ readers'[r].port = RtcpPort(s) /\ readers'[r].sock = r /\ Me(s) \in readers'[r].members
        /\ used_ports'[RtcpPort(s)] = r /\ r # 0
    BY <1>6, <1>8, <1>12, <2>1, <2>2, <2>3 DEF Rtcp
  <2>5. /\ to = "start" => readers'[r].active
        /\ to = "reader_mark" => readers'[r].thread
    BY <1>6, <2>1, <2>2
  <2> QED
    BY <1>5, <1>8, <2>1, <2>3, <2>4, <2>5 DEF Rtcp
<1>13. ASSUME NEW t \in Streams \ {s}, Own(t), Rtcp(t) PROVE RtcpFrame(t)
  <2>1. CASE ~(Reads(t) \/ at[t] \in {"reader_check", "clear_rtcp"})
    BY <1>3, <2>1 DEF RtcpFrame
  <2>2. CASE Reads(t) \/ at[t] \in {"reader_check", "clear_rtcp"}
    <3>1. rtcp[t].sock \in Ids
      BY <1>3, <1>13, <2>2, ReaderIds
    <3> QED
      BY <1>3, <1>6, <3>1 DEF RtcpFrame
  <2> QED BY <2>1, <2>2
<1>14. /\ \A i \in Ids : readers'[i].port = readers[i].port
       /\ from # "none" /\ to \notin {"none", "connect", "flow", "stop", "clear"}
       /\ to \notin Up
  BY <1>6, <1>8
<1> QED
  BY <1>2, <1>4, <1>7, <1>8, <1>10, <1>11, <1>12, <1>13, <1>14, ReadersStep

LEMMA RtcpReaderKeeps ==
    ASSUME NEW b, SetupInv(b), NegotiationInv', NEW s \in Streams, RtcpReader(s)
    PROVE  SetupInv(b)'
<1>1. /\ Goes(s, "rtcp_reader", "rtcp_start")
      /\ UNCHANGED <<life, scenario, factory, flow, zrtp, disturbed>>
      /\ UNCHANGED <<sock, flow_of, remote, rtcp>>
      /\ "rtcp_reader" \in Steps \ {"none"} /\ "rtcp_start" \in Steps
  BY DEF RtcpReader, stream, ghosts, Steps, Creating
<1>2. /\ TypeInv /\ ShapeInv /\ Belongs(b)
      /\ UNCHANGED <<made, bound, used_ports, used_sockets, reception_flows>>
  BY <1>1, FactoryParts DEF SetupInv, NegotiationInv
<1>3. Step(s, "rtcp_reader", "rtcp_start")
  BY <1>1, <1>2, StepOf DEF SetupInv
<1>4. /\ Shape(s) /\ Own(s)' = Own(s) /\ at'[s] = "rtcp_start" /\ at[s] = "rtcp_reader" /\ Own(s)
      /\ RtcpPort(s)' = RtcpPort(s) /\ Me(s)' = Me(s) /\ Config(s) \in Configs
  BY <1>2, <1>3 DEF ShapeInv, Step, Own, Shape, RtcpPort
<1> DEFINE k == rtcp[s].sock
<1>5. PICK r \in Ids : /\ readers[r].port = RtcpPort(s)
                       /\ readers' = [readers EXCEPT ![r].members = @ \cup {Me(s)}, ![r].sock = k]
  BY DEF RtcpReader, get_rtcp_reader, RtcpPort
<1>6. \A i \in Ids : /\ readers'[i].port = readers[i].port
                     /\ readers'[i].active = readers[i].active
                     /\ readers'[i].thread = readers[i].thread
                     /\ readers[i].members \subseteq readers'[i].members
                     /\ i = r => Me(s) \in readers'[i].members /\ readers'[i].sock = k
                     /\ i # r => readers'[i] = readers[i]
  BY <1>2, <1>5 DEF TypeInv, FactoryInv, Readers
<1>7. /\ RtcpPort(s) \in Ports /\ RtcpPort(s) # 0 /\ k # 0 /\ b[k] = RtcpPort(s) /\ b[r] = RtcpPort(s)
      /\ k \in Ids /\ r \in Ids
  <2>1. RtcpPort(s) \in Ports /\ RtcpPort(s) # 0
    BY <1>4, ConfigsTyped, SetupAssumption DEF RtcpPort
  <2>2. k \in 0 .. made /\ made \in Nat /\ made <= MaxSockets /\ MaxSockets \in Nat
    BY <1>2, MadeIsNat, MaxIsNat DEF TypeInv, StreamInv, Rtcps
  <2>3. k # 0
    BY <1>2, <1>4 DEF TypeInv, StreamInv
  <2> QED
    BY <1>2, <1>4, <1>5, <2>1, <2>2, <2>3 DEF Belongs, Ids
<1>8. Undisturbed(RtcpPort(s)) => /\ r = k /\ used_ports[RtcpPort(s)] = k /\ bound[k] = RtcpPort(s)
                                  /\ Rtcp(s)
  <2>1. ASSUME Undisturbed(RtcpPort(s)) PROVE used_ports[RtcpPort(s)] = r /\ Rtcp(s)
    BY <1>4, <1>5, <1>7, <2>1 DEF SetupInv, RegInv, RtcpInv
  <2> QED
    BY <1>2, <1>4, <1>7, <2>1 DEF Rtcp, TypeInv, FactoryInv
<1>9. Belongs(b)'
  <2>1. \A i \in Ids : readers'[i].sock = readers[i].sock \/ (readers'[i].port # 0 => b[readers'[i].sock] = readers'[i].port)
    BY <1>2, <1>5, <1>6, <1>7 DEF Belongs
  <2> QED
    BY <1>1, <1>2, <1>3, <1>6, <2>1, BelongsStep
<1>10. FreshInv'
  <2>1. r <= made
    BY <1>2, <1>5, <1>7 DEF TypeInv, FactoryInv
  <2>2. \A i \in Ids : made < i => i # r
    BY <2>1, <1>2, MadeIsNat DEF Ids, TypeInv
  <2> QED
    BY <1>1, <1>2, <1>6, <2>2 DEF SetupInv, FreshInv
<1>11. ASSUME NEW j \in Ids, bound[j] # 0, Undisturbed(bound[j]), Kept(j)'
       PROVE  Kept(j) \/ used_ports[bound[j]] = j
  <2>1. \A i \in Ids : readers'[i].port # 0 /\ readers'[i].sock = j =>
            (readers[i].port # 0 /\ readers[i].sock = j) \/ j = k
    BY <1>6
  <2>2. Kept(j) \/ j = k
    BY <1>1, <1>2, <1>11, <2>1 DEF Kept
  <2>3. j = k => bound[j] = RtcpPort(s)
    BY <1>2, <1>7, <1>11 DEF Belongs
  <2> QED
    BY <1>8, <1>11, <2>2, <2>3
<1>12. RunsInv'
  BY <1>1, <1>2, <1>6, RunsStep DEF SetupInv
<1>13. /\ Attached(s) /\ Attached(s)' /\ Installed(s) /\ Installed(s)' /\ Reads(s)'
       /\ "rtcp_start" \notin Deleting \cup Up /\ "rtcp_reader" \notin Deleting
       /\ "rtcp_reader" \in WithMedia \cap Creating
  BY <1>4 DEF Attached, Installed, Reads, InFlow, WithMedia, Reading, Up, Deleting, Creating
<1>14. Shape(s)'
  BY <1>1, <1>4 DEF Shape, BeforeRtcp, InFlow, WithMedia, Reading, Up
<1>15. ASSUME Undisturbed(RtcpPort(s)), Rtcp(s) PROVE Rtcp(s)'
  <2>1. rtcp' = rtcp /\ used_ports' = used_ports
    BY <1>1, <1>2
  <2>2. /\ readers'[k].port = RtcpPort(s) /\ readers'[k].sock = k /\ Me(s) \in readers'[k].members
        /\ used_ports[RtcpPort(s)] = k /\ k # 0
    BY <1>5, <1>6, <1>7, <1>8, <1>15
  <2>3. rtcp[s].reader # 0 => rtcp[s].reader = k
    BY <1>15 DEF Rtcp
  <2> QED
    BY <1>4, <2>1, <2>2, <2>3 DEF Rtcp, Up
<1>16. ASSUME NEW t \in Streams \ {s}, Own(t), Undisturbed(RtcpPort(t)), Rtcp(t), at[t] # "none"
       PROVE  RtcpFrame(t)
  <2>1. CASE ~(Reads(t) \/ at[t] \in {"reader_check", "clear_rtcp"})
    BY <1>2, <2>1 DEF RtcpFrame
  <2>2. CASE (Reads(t) \/ at[t] \in {"reader_check", "clear_rtcp"})
    <3>1. rtcp[t].sock \in Ids
      BY <1>2, <1>16, <2>2, ReaderIds
    <3>2. CASE rtcp[t].sock # r
      BY <1>2, <1>6, <3>1, <3>2 DEF RtcpFrame
    <3>3. CASE rtcp[t].sock = r
      <4>1. RtcpPort(t) = RtcpPort(s)
        BY <1>2, <1>7, <1>16, <3>1, <3>3 DEF Belongs, Ids
      <4>2. r = k
        BY <1>8, <1>16, <4>1
      <4>3. at[t] # "clear_rtcp"
        <5>1. ASSUME at[t] = "clear_rtcp" PROVE at[t] \in Deleting /\ at[s] \in Creating /\ flow_of[t] # 0
          BY <1>2, <1>13, <1>4, <5>1 DEF ShapeInv, Shape, Deleting
        <5>2. RtcpPort(s) \in PortsOf(Config(s)) \cap PortsOf(Config(t))
          BY <1>4, <1>16, <4>1 DEF Own, RtcpPort, PortsOf
        <5> QED
          BY <1>16, <4>1, <5>1, <5>2 DEF SetupInv, OverlapInv, Undisturbed
      <4>4. Reads(t) => readers[r].sock = r
        BY <1>16, <3>3 DEF Rtcp
      <4> QED
        BY <1>2, <1>6, <3>1, <3>3, <4>2, <4>3, <4>4 DEF RtcpFrame
    <3> QED BY <3>2, <3>3
  <2> QED BY <2>1, <2>2
<1>17. \A i \in Ids : readers'[i].port = readers[i].port
  BY <1>6
<1>18. "rtcp_reader" # "none" /\ "rtcp_start" \notin {"none", "connect", "flow", "stop", "clear"}
  OBVIOUS
<1> QED
  BY <1>1, <1>3, <1>9, <1>10, <1>11, <1>12, <1>13, <1>14, <1>15, <1>16, <1>17, <1>18, ReadersStep

LEMMA StopRtcpKeeps ==
    ASSUME NEW b, SetupInv(b), NegotiationInv', NEW s \in Streams, StopRtcp(s)
    PROVE  SetupInv(b)'
<1> DEFINE r == rtcp[s].reader  to == IF r # 0 THEN "reader_check" ELSE AfterRtcp(s)
<1>1. /\ Goes(s, "delete", to)
      /\ UNCHANGED <<life, scenario, factory, flow, zrtp, disturbed>>
      /\ UNCHANGED <<sock, flow_of, remote, rtcp>>
      /\ readers' = IF r # 0 THEN [readers EXCEPT ![r].members = @ \ {Me(s)}] ELSE readers
      /\ "delete" \in Steps \ {"none"} /\ to \in Steps /\ to \in {"reader_check", "remove", "free"}
  BY DEF StopRtcp, stream, ghosts, Steps, Deleting, AfterRtcp
<1>2. /\ TypeInv /\ ShapeInv
      /\ UNCHANGED <<made, bound, used_ports, used_sockets, reception_flows>>
  BY <1>1, FactoryParts DEF SetupInv, NegotiationInv
<1>3. Step(s, "delete", to)
  BY <1>1, <1>2, StepOf DEF SetupInv
<1>4. /\ Shape(s) /\ Own(s)' = Own(s) /\ at'[s] = to /\ at[s] = "delete"
      /\ RtcpPort(s)' = RtcpPort(s)
  BY <1>2, <1>3 DEF ShapeInv, Step, Own, RtcpPort
<1>5. r # 0 => flow_of[s] # 0 /\ Own(s) /\ r \in Ids
  BY <1>2, ReaderOf
<1>6. /\ to = "reader_check" <=> r # 0
      /\ to = "free" <=> flow_of[s] = 0
  BY <1>5 DEF AfterRtcp
<1>7. \A i \in Ids : /\ readers'[i].port = readers[i].port /\ readers'[i].sock = readers[i].sock
                     /\ readers'[i].active = readers[i].active
                     /\ readers'[i].thread = readers[i].thread
                     /\ readers'[i].members \subseteq readers[i].members
                     /\ \A t \in Streams \ {s} : Me(t) \in readers[i].members => Me(t) \in readers'[i].members
  BY <1>1, <1>2 DEF TypeInv, FactoryInv, Readers, Me
<1>8. Belongs(b)' /\ FreshInv' /\ \A j : Kept(j)' => Kept(j)
  BY <1>1, <1>3, <1>7, SameReaders
<1>9. RunsInv'
  BY <1>1, <1>2, <1>7, RunsStep DEF SetupInv
<1>10. /\ Attached(s)' = Attached(s) /\ Installed(s)' = Installed(s) /\ ~Reads(s)'
       /\ to \notin WithMedia \cup Up \cup Creating /\ to \in Deleting /\ "delete" \in Deleting
  BY <1>1, <1>4, <1>6 DEF Attached, Installed, Reads, InFlow, WithMedia, Reading, Up, Leaving,
     Deleting, Creating
<1>11. Shape(s)'
  BY <1>1, <1>4, <1>5, <1>6 DEF Shape, BeforeRtcp, InFlow, WithMedia, Reading, Up
<1>12. ASSUME Rtcp(s), Own(s) PROVE Rtcp(s)'
  <2>1. /\ rtcp' = rtcp /\ used_ports' = used_ports
        /\ at'[s] \notin {"rtcp_reader", "clear_rtcp", "reader_mark", "start"} \cup Up \cup Reading
    BY <1>1, <1>2, <1>4, <1>10 DEF WithMedia, Creating
  <2>2. ASSUME at'[s] = "reader_check"
        PROVE  used_ports[RtcpPort(s)] = rtcp[s].sock /\ readers'[rtcp[s].sock].port = RtcpPort(s)
    <3>1. Reads(s) /\ rtcp[s].sock \in Ids
      BY <1>2, <1>4, <1>6, <1>12, <2>2, ReaderIds DEF Reads
    <3> QED
      BY <1>7, <1>12, <3>1 DEF Rtcp
  <2>3. rtcp[s].reader # 0 => rtcp[s].reader = rtcp[s].sock
    BY <1>12 DEF Rtcp
  <2> QED
    BY <1>4, <1>10, <2>1, <2>2, <2>3 DEF Rtcp
<1>13. ASSUME NEW t \in Streams \ {s}, Rtcp(t) PROVE RtcpFrame(t)
  <2>1. CASE ~(Reads(t) \/ at[t] \in {"reader_check", "clear_rtcp"})
    BY <1>2, <2>1 DEF RtcpFrame
  <2>2. CASE (Reads(t) \/ at[t] \in {"reader_check", "clear_rtcp"})
    <3>1. rtcp[t].sock \in Ids
      BY <1>2, <1>13, <2>2, ReaderIds
    <3> QED
      BY <1>2, <1>7, <3>1 DEF RtcpFrame
  <2> QED BY <2>1, <2>2
<1>14. \A i \in Ids : readers'[i].port = readers[i].port
  BY <1>7
<1>15. "delete" # "none" /\ to \notin {"none", "connect", "flow", "stop", "clear"}
  BY <1>1
<1> QED
  BY <1>1, <1>3, <1>8, <1>9, <1>10, <1>11, <1>12, <1>13, <1>14, <1>15, ReadersStep

LEMMA ReaderCheckKeeps ==
    ASSUME NEW b, SetupInv(b), NegotiationInv', NEW s \in Streams, ReaderCheck(s)
    PROVE  SetupInv(b)'
<1> DEFINE r == rtcp[s].reader  empty == readers[r].members = {}
           to == IF empty THEN "clear_rtcp" ELSE AfterRtcp(s)
<1>1. /\ Goes(s, "reader_check", to)
      /\ UNCHANGED <<life, scenario, factory, flow, zrtp, disturbed>>
      /\ UNCHANGED <<sock, flow_of, remote, rtcp>>
      /\ readers' = IF empty THEN [readers EXCEPT ![r].active = FALSE, ![r].thread = FALSE]
                    ELSE readers
      /\ "reader_check" \in Steps \ {"none"} /\ to \in Steps /\ to \in {"clear_rtcp", "remove", "free"}
  BY DEF ReaderCheck, stream, ghosts, Steps, Deleting, AfterRtcp
<1>2. /\ TypeInv /\ ShapeInv
      /\ UNCHANGED <<made, bound, used_ports, used_sockets, reception_flows>>
  BY <1>1, FactoryParts DEF SetupInv, NegotiationInv
<1>3. Step(s, "reader_check", to)
  BY <1>1, <1>2, StepOf DEF SetupInv
<1>4. /\ Shape(s) /\ Own(s)' = Own(s) /\ at'[s] = to /\ at[s] = "reader_check"
      /\ RtcpPort(s)' = RtcpPort(s)
  BY <1>2, <1>3 DEF ShapeInv, Step, Own, RtcpPort
<1>5. r # 0 /\ flow_of[s] # 0 /\ Own(s) /\ r \in Ids
  BY <1>2, <1>4, ReaderOf DEF Shape
<1>6. to = (IF empty THEN "clear_rtcp" ELSE "remove")
  BY <1>5 DEF AfterRtcp
<1>7. \A i \in Ids : /\ readers'[i].port = readers[i].port /\ readers'[i].sock = readers[i].sock
                     /\ readers'[i].members = readers[i].members
                     /\ readers'[i] = readers[i] \/ (i = r /\ empty /\ ~readers'[i].active)
  BY <1>1, <1>2 DEF TypeInv, FactoryInv, Readers, Me
<1>8. Belongs(b)' /\ FreshInv' /\ \A j : Kept(j)' => Kept(j)
  BY <1>1, <1>3, <1>7, SameReaders
<1>9. RunsInv'
  BY <1>1, <1>2, <1>7, RunsStep DEF SetupInv
<1>10. /\ Attached(s)' = Attached(s) /\ Installed(s)' = Installed(s) /\ ~Reads(s)'
       /\ to \notin WithMedia \cup Up \cup Creating /\ to \in Deleting /\ "reader_check" \in Deleting
  BY <1>1, <1>4, <1>5, <1>6 DEF Attached, Installed, Reads, InFlow, WithMedia, Reading, Up, Leaving,
     Deleting, Creating
<1>11. Shape(s)'
  BY <1>1, <1>4, <1>5, <1>6 DEF Shape, BeforeRtcp, InFlow, WithMedia, Reading, Up
<1>12. ASSUME Rtcp(s) PROVE Rtcp(s)'
  <2>1. /\ rtcp' = rtcp /\ used_ports' = used_ports
        /\ at'[s] \notin {"rtcp_reader", "reader_check", "reader_mark", "start"} \cup Up \cup Reading
    BY <1>1, <1>2, <1>4, <1>10 DEF WithMedia, Creating
  <2>2. rtcp[s].sock = r /\ r \in Ids
    BY <1>5, <1>12 DEF Rtcp
  <2>3. used_ports[RtcpPort(s)] = 0 \/ (used_ports[RtcpPort(s)] = r /\ readers'[r].port = RtcpPort(s))
    BY <1>4, <1>7, <1>12, <2>2 DEF Rtcp
  <2>4. at'[s] = "clear_rtcp" => readers'[r].members = {}
    BY <1>4, <1>5, <1>6, <1>7
  <2> QED
    BY <1>4, <1>10, <2>1, <2>2, <2>3, <2>4 DEF Rtcp
<1>13. ASSUME NEW t \in Streams \ {s}, Rtcp(t) PROVE RtcpFrame(t)
  <2>1. CASE ~(Reads(t) \/ at[t] \in {"reader_check", "clear_rtcp"})
    BY <1>2, <2>1 DEF RtcpFrame
  <2>2. CASE (Reads(t) \/ at[t] \in {"reader_check", "clear_rtcp"})
    <3>1. rtcp[t].sock \in Ids
      BY <1>2, <1>13, <2>2, ReaderIds
    <3>2. Reads(t) => readers'[rtcp[t].sock] = readers[rtcp[t].sock]
      BY <1>7, <1>13, <3>1 DEF Rtcp
    <3> QED
      BY <1>2, <1>7, <3>1, <3>2 DEF RtcpFrame
  <2> QED BY <2>1, <2>2
<1>14. \A i \in Ids : readers'[i].port = readers[i].port
  BY <1>7
<1>15. "reader_check" # "none" /\ to \notin {"none", "connect", "flow", "stop", "clear"}
  BY <1>1
<1> QED
  BY <1>1, <1>3, <1>8, <1>9, <1>10, <1>11, <1>12, <1>13, <1>14, <1>15, ReadersStep

\* A step that leaves the factory and the readers alone.
LEMMA QuietStep ==
    ASSUME NEW b, SetupInv(b), NegotiationInv', NEW s \in Streams, NEW from, NEW to,
           Step(s, from, to), UNCHANGED <<factory, readers>>,
           rtcp'[s].sock \in {0, rtcp[s].sock}, rtcp'[s].reader \in {0, rtcp[s].reader},
           sock'[s] \in {0, sock[s]}, flow_of'[s] \in {0, flow_of[s], sock[s]},
           zrtp'.socket \in {zrtp.socket, sock[s]},
           from # "none", FlowsInv', Shape(s)', AloneInv', RemoteInv', OwnerInv',
           \A i \in Ids : made < i => flow'[i] = flow[i],
           to # "none" /\ Undisturbed(RtpPort(s))' => Rtp(s)',
           \A t \in Streams \ {s} : at[t] # "none" /\ Undisturbed(RtpPort(t)) /\ Rtp(t) => RtpFrame(t),
           to \in Deleting /\ flow_of'[s] # 0 => from \in Deleting /\ flow_of[s] # 0,
           to \in Creating => from \in Creating,
           \A j \in Ids : bound[j] # 0 /\ Undisturbed(bound[j]) =>
               (zrtp'.socket = j \/ flow'[j].active =>
                    zrtp.socket = j \/ flow[j].active
                    \/ (j \in reception_flows /\ used_ports[bound[j]] = j)),
           from \in Deleting => to \in Deleting \/ (sock'[s] = 0 /\ rtcp'[s].sock = 0),
           to # "none" /\ Own(s) /\ Undisturbed(RtcpPort(s)) /\ Rtcp(s) => Rtcp(s)'
    PROVE  SetupInv(b)'
<1>1. /\ TypeInv /\ UNCHANGED <<made, bound, used_ports, used_sockets, reception_flows>>
      /\ ShapeInv /\ Belongs(b)
  BY FactoryParts DEF SetupInv, NegotiationInv
<1>2. ShapeInv'
  BY ShapeStep DEF SetupInv
<1>3. Belongs(b)'
  BY <1>1, BelongsStep
<1>4. FreshInv'
  BY <1>1, FreshStep DEF SetupInv
<1>5. RtpInv'
  BY RtpStep DEF SetupInv
<1>6. OverlapInv'
  BY OverlapStep DEF SetupInv
<1>7. HeldInv'
  <2>1. \A j \in Ids : Holds(s, j)' => Holds(s, j) /\ (sock'[s] # 0 \/ rtcp'[s].sock # 0)
    BY DEF Holds, Ids
  <2>2. ASSUME NEW j \in Ids, bound[j] # 0, Undisturbed(bound[j])
        PROVE  Kept(j)' => Kept(j) \/ used_ports[bound[j]] = j
    BY <1>1, <2>2 DEF Kept
  <2> QED
    BY <1>1, <2>1, <2>2, HeldStep DEF SetupInv
<1>8. RegInv' /\ RunsInv'
  BY <1>1, RegStep, RunsStep DEF SetupInv, Step
<1>9. RtcpInv'
  <2>1. ASSUME to # "none", Own(s), Undisturbed(RtcpPort(s))' PROVE Rtcp(s)'
    <3>1. Undisturbed(RtcpPort(s))
      BY <2>1, MorePorts DEF Step, RtcpPort
    <3> QED
      BY <2>1, <3>1 DEF SetupInv, RtcpInv, Step
  <2>2. \A t \in Streams \ {s} : RtcpFrame(t)
    BY <1>1 DEF RtcpFrame
  <2> QED
    BY <2>1, <2>2, RtcpStep DEF SetupInv
<1> QED
  BY <1>2, <1>3, <1>4, <1>5, <1>6, <1>7, <1>8, <1>9 DEF SetupInv

LEMMA BeginZrtpKeeps ==
    ASSUME NEW b, SetupInv(b), NegotiationInv', NEW s \in Streams, BeginZrtp(s)
    PROVE  SetupInv(b)'
<1>1. /\ Goes(s, "begin", "negotiate")
      /\ UNCHANGED <<life, scenario, factory, readers, flow, disturbed>>
      /\ UNCHANGED <<sock, flow_of, remote, rtcp>>
      /\ zrtp' = [zrtp EXCEPT !.socket = sock[s]]
      /\ "begin" \in Steps \ {"none"} /\ "negotiate" \in Steps
  BY DEF BeginZrtp, stream, ghosts, Steps
<1>2. /\ TypeInv /\ ShapeInv /\ Belongs(b)
      /\ UNCHANGED <<made, bound, used_ports, used_sockets, reception_flows>>
  BY <1>1, FactoryParts DEF SetupInv, NegotiationInv
<1>3. Step(s, "begin", "negotiate")
  BY <1>1, <1>2, StepOf DEF SetupInv
<1>4. /\ Shape(s) /\ Own(s)' = Own(s) /\ at'[s] = "negotiate" /\ at[s] = "begin"
      /\ RtcpPort(s)' = RtcpPort(s) /\ RtpPort(s)' = RtpPort(s) /\ Me(s)' = Me(s)
  BY <1>2, <1>3 DEF ShapeInv, Step, Own, RtcpPort, RtpPort
<1>5. zrtp'.socket = sock[s]
  BY <1>1 DEF SetupInv, NegotiationInv, Zrtps
<1>6. /\ Attached(s) /\ Attached(s)' /\ Installed(s) /\ Installed(s)' /\ Reads(s) /\ Reads(s)'
      /\ "negotiate" \notin Deleting \cup Creating /\ "begin" \notin Deleting
  BY <1>4 DEF Attached, Installed, Reads, InFlow, WithMedia, Reading, Up, Deleting, Creating
<1>7. Shape(s)'
  BY <1>1, <1>4 DEF Shape, BeforeRtcp, InFlow, WithMedia, Reading, Up
<1>8. FlowsInv'
  BY <1>1 DEF SetupInv, FlowsInv
<1>9. AloneInv'
  BY <1>1, <1>2, <1>3, <1>4, AloneStep DEF SetupInv, Lasts
<1>10. RemoteInv'
  BY <1>1, <1>3, RemoteStep DEF SetupInv
<1>11. OwnerInv'
  BY <1>1, <1>2, <1>3, <1>6, OwnerStep DEF SetupInv
<1>12. ASSUME Undisturbed(RtpPort(s))' PROVE Rtp(s)'
  <2>1. Undisturbed(RtpPort(s))
    BY <1>1, <1>4, <1>12 DEF Undisturbed, Disturbed
  <2>2. Rtp(s)
    BY <1>6, <2>1, FlowIsBound
  <2>3. Needs(s)' \subseteq Needs(s)
    BY <1>3, <1>4, <1>6, NeedsStep DEF Step, WithMedia, Reading, Up
  <2> QED
    BY <1>1, <1>2, <1>4, <1>6, <2>2, <2>3 DEF Rtp, Lasts, Up
<1>13. \A t : RtpFrame(t)
  BY <1>1, <1>2 DEF RtpFrame
<1>14. ASSUME NEW j \in Ids, bound[j] # 0, Undisturbed(bound[j]), zrtp'.socket = j
       PROVE  j \in reception_flows /\ used_ports[bound[j]] = j
  <2>1. j = sock[s] /\ b[j] = RtpPort(s)
    <3>1. j = sock[s]
      BY <1>5, <1>14
    <3>2. \A i \in Ids : i = sock[s] \/ i = flow_of[s] => b[i] = RtpPort(s)
      BY <1>2, Holder
    <3> QED
      BY <3>1, <3>2
  <2>2. bound[j] = b[j]
    BY <1>2, <1>14 DEF Belongs
  <2> QED
    BY <1>6, <1>14, <2>1, <2>2, FlowIsBound
<1>15. Rtcp(s) => Rtcp(s)'
  BY <1>1, <1>2, <1>4, <1>6 DEF Rtcp, Reading, Up
<1> QED
  BY <1>1, <1>3, <1>4, <1>5, <1>6, <1>7, <1>8, <1>9, <1>10, <1>11, <1>12, <1>13, <1>14, <1>15, QuietStep

LEMMA GetFlowKeeps ==
    ASSUME NEW b, SetupInv(b), NegotiationInv', NEW s \in Streams, GetFlow(s)
    PROVE  SetupInv(b)'
<1>1. /\ Goes(s, "flow", "install")
      /\ UNCHANGED <<life, scenario, factory, readers, flow, zrtp>>
      /\ UNCHANGED <<sock, remote, rtcp>>
      /\ flow_of' = [flow_of EXCEPT ![s] = sock[s]] /\ sock[s] \in reception_flows
      /\ disturbed' = disturbed \cup SameSsrc(s, sock[s], remote[s])
      /\ "flow" \in Steps \ {"none"} /\ "install" \in Steps
  BY DEF GetFlow, stream, ghosts, Steps, Creating
<1>2. /\ TypeInv /\ ShapeInv /\ Belongs(b)
      /\ UNCHANGED <<made, bound, used_ports, used_sockets, reception_flows>>
  BY <1>1, FactoryParts DEF SetupInv, NegotiationInv
<1>3. /\ flow_of'[s] = sock[s] /\ \A t \in Streams \ {s} : flow_of'[t] = flow_of[t]
  BY <1>1, <1>2 DEF TypeInv, StreamInv
<1>4. Step(s, "flow", "install")
  BY <1>1, <1>2, <1>3, StepOf DEF SetupInv
<1>5. /\ Shape(s) /\ Own(s)' = Own(s) /\ at'[s] = "install" /\ at[s] = "flow"
      /\ RtcpPort(s)' = RtcpPort(s) /\ RtpPort(s)' = RtpPort(s)
  BY <1>2, <1>4 DEF ShapeInv, Step, Own, RtcpPort, RtpPort
<1>6. sock[s] \in Ids /\ sock[s] # 0 /\ flow_of[s] = 0
  <2>1. sock[s] \in 1 .. made /\ made \in Nat /\ made <= MaxSockets /\ MaxSockets \in Nat
    BY <1>1, <1>2, MadeIsNat, MaxIsNat DEF TypeInv, FactoryInv
  <2> QED
    BY <1>5, <2>1 DEF Ids, Shape
<1>7. /\ ~Installed(s) /\ ~Installed(s)' /\ ~Reads(s)' /\ ~Lasts(s)'
      /\ "install" \notin Deleting \cup WithMedia \cup Up \cup Reading /\ "flow" \notin Deleting
      /\ "flow" \in Creating
  BY <1>5 DEF Attached, Installed, Reads, InFlow, WithMedia, Reading, Up, Deleting, Creating, Lasts,
     Leaving
<1>8. Shape(s)'
  BY <1>1, <1>3, <1>5, <1>6 DEF Shape, BeforeRtcp, InFlow, WithMedia, Reading, Up, NoRtcp
<1>9. FlowsInv'
  BY <1>1 DEF SetupInv, FlowsInv
<1>10. AloneInv'
  BY <1>2, <1>4, <1>7, AloneStep DEF SetupInv
<1>11. ASSUME NEW t \in Streams \ {s}, flow_of[t] = flow_of'[s], remote[t] = remote'[s]
       PROVE  Disturbed(RtpPort(s))' /\ Disturbed(RtpPort(t))'
  <2>1. <<RtpPort(s), "same_SSRC">> \in disturbed'
    BY <1>1, <1>3, <1>11 DEF SameSsrc, RtpPort
  <2>2. RtpPort(t) = RtpPort(s)
    BY <1>2, <1>3, <1>6, <1>11, Holder
  <2>3. /\ Disturbed(RtpPort(s))' <=> \E d \in disturbed' : d[1] = RtpPort(s)' /\ d[2] # "refused"
        /\ Disturbed(RtpPort(t))' <=> \E d \in disturbed' : d[1] = RtpPort(t)' /\ d[2] # "refused"
    BY DEF Disturbed
  <2>4. RtpPort(t)' = RtpPort(t)
    BY <1>4 DEF Step, Same, RtpPort
  <2> QED
    BY <1>5, <2>1, <2>2, <2>3, <2>4
<1>12. RemoteInv'
  BY <1>4, <1>11, RemoteStep DEF SetupInv
<1>13. OwnerInv'
  BY <1>1, <1>2, <1>4, <1>6, OwnerStep DEF SetupInv, Ids
<1>14. ASSUME Undisturbed(RtpPort(s))' PROVE Rtp(s)'
  <2>1. Undisturbed(RtpPort(s))
    BY <1>4, <1>5, <1>14, MorePorts DEF Step
  <2>2. used_ports[RtpPort(s)] = sock[s]
    BY <1>5, <2>1 DEF SetupInv, RtpInv, Rtp
  <2>3. Needs(s)' = {}
    BY <1>5, <1>7 DEF Needs
  <2> QED
    BY <1>1, <1>2, <1>3, <1>5, <1>6, <1>7, <2>2, <2>3 DEF Rtp
<1>15. \A t \in Streams : RtpFrame(t)
  BY <1>1, <1>2 DEF RtpFrame
<1>16. Rtcp(s) => Rtcp(s)'
  BY <1>1, <1>2, <1>5, <1>7 DEF Rtcp
<1> QED
  BY <1>1, <1>3, <1>4, <1>7, <1>8, <1>9, <1>10, <1>12, <1>13, <1>14, <1>15, <1>16, QuietStep

LEMMA FreeKeeps ==
    ASSUME NEW b, SetupInv(b), NegotiationInv', NEW s \in Streams, Free(s)
    PROVE  SetupInv(b)'
<1>1. /\ Goes(s, "free", "none")
      /\ UNCHANGED <<life, scenario, factory, readers, flow, remote, disturbed>>
      /\ flow_of' = [flow_of EXCEPT ![s] = 0] /\ rtcp' = [rtcp EXCEPT ![s] = NoRtcp]
      /\ sock' = [sock EXCEPT ![s] = 0]
      /\ "free" \in Steps \ {"none"} /\ "none" \in Steps
  BY DEF Free, free_resources, Steps, Deleting
<1>2. /\ TypeInv /\ ShapeInv /\ Belongs(b)
      /\ UNCHANGED <<made, bound, used_ports, used_sockets, reception_flows>>
  BY <1>1, FactoryParts DEF SetupInv, NegotiationInv
<1>3. /\ flow_of'[s] = 0 /\ sock'[s] = 0 /\ rtcp'[s] = NoRtcp
      /\ \A t \in Streams \ {s} : flow_of'[t] = flow_of[t] /\ sock'[t] = sock[t] /\ rtcp'[t] = rtcp[t]
  BY <1>1, <1>2 DEF TypeInv, StreamInv
<1>4. Step(s, "free", "none")
  BY <1>1, <1>2, <1>3, StepOf DEF SetupInv
<1>5. /\ Shape(s) /\ at'[s] = "none" /\ at[s] = "free"
  BY <1>2, <1>4 DEF ShapeInv, Step
<1>6. /\ ~Installed(s) /\ ~Lasts(s)' /\ "none" \notin Deleting \cup Creating
  BY <1>5 DEF Attached, Installed, InFlow, WithMedia, Reading, Up, Deleting, Creating, Lasts, Leaving
<1>7. Shape(s)'
  BY <1>3, <1>5 DEF Shape, BeforeRtcp, InFlow, WithMedia, Reading, Up, NoRtcp
<1>8. FlowsInv'
  BY <1>1 DEF SetupInv, FlowsInv
<1>9. AloneInv'
  BY <1>2, <1>4, <1>6, AloneStep DEF SetupInv
<1>10. RemoteInv'
  BY <1>3, <1>4, RemoteStep DEF SetupInv
<1>11. OwnerInv'
  BY <1>1, <1>2, <1>4, <1>6, OwnerStep DEF SetupInv
<1>12. \A t \in Streams : RtpFrame(t)
  BY <1>1, <1>2 DEF RtpFrame
<1>13. zrtp'.socket = zrtp.socket
  BY DEF Free, free_resources, Unlock, SetupInv, NegotiationInv, Zrtps
<1>14. rtcp'[s].sock = 0 /\ rtcp'[s].reader = 0
  BY <1>3 DEF NoRtcp
<1> QED
  BY <1>1, <1>3, <1>4, <1>6, <1>7, <1>8, <1>9, <1>10, <1>11, <1>12, <1>13, <1>14, QuietStep

LEMMA RemoveHandlersKeeps ==
    ASSUME NEW b, SetupInv(b), NegotiationInv', NEW s \in Streams, RemoveHandlers(s)
    PROVE  SetupInv(b)'
<1> DEFINE i == flow_of[s]  left == flow[i].handlers \ Under(remote[s], flow[i].handlers)
           to == IF left = {} THEN "stop" ELSE "free"
<1>1. /\ Goes(s, "remove", to)
      /\ UNCHANGED <<life, scenario, factory, readers, zrtp, disturbed>>
      /\ UNCHANGED <<sock, flow_of, remote, rtcp>>
      /\ flow' = [flow EXCEPT ![i].handlers = left]
      /\ "remove" \in Steps \ {"none"} /\ to \in Steps
  BY DEF RemoveHandlers, stream, ghosts, Steps, Deleting
<1>2. /\ TypeInv /\ ShapeInv /\ Belongs(b) /\ FlowsInv
      /\ UNCHANGED <<made, bound, used_ports, used_sockets, reception_flows>>
  BY <1>1, FactoryParts DEF SetupInv, NegotiationInv
<1>3. Step(s, "remove", to)
  BY <1>1, <1>2, StepOf
<1>4. /\ Shape(s) /\ Own(s)' = Own(s) /\ at'[s] = to /\ at[s] = "remove"
      /\ RtcpPort(s)' = RtcpPort(s) /\ RtpPort(s)' = RtpPort(s)
  BY <1>2, <1>3 DEF ShapeInv, Step, Own, RtcpPort, RtpPort
<1>5. /\ Attached(s) /\ Installed(s) /\ ~Attached(s)' /\ ~Installed(s)' /\ ~Reads(s)'
      /\ to \in Deleting /\ to \notin Creating \cup WithMedia \cup Up \cup Reading
      /\ "remove" \in Deleting /\ flow_of[s] # 0 /\ (Lasts(s)' => to = "stop")
  BY <1>4 DEF Attached, Installed, Reads, InFlow, WithMedia, Reading, Up, Deleting, Creating, Lasts,
     Leaving, Shape
<1>6. i \in Ids
  BY <1>2, <1>5, FlowOfLast
<1>7. /\ flow'[i].handlers = left /\ flow'[i].active = flow[i].active
      /\ \A j \in Ids \ {i} : flow'[j] = flow[j]
      /\ flow' \in [Ids -> FlowRecords]
  <2>1. flow[i] \in FlowRecords
    BY <1>2, <1>6 DEF FlowsInv
  <2>2. left \in SUBSET (Nat \X HandlerTypes)
    BY <2>1 DEF FlowRecords
  <2> HIDE DEF left
  <2>3. [flow[i] EXCEPT !.handlers = left] \in FlowRecords
    BY <2>1, <2>2 DEF FlowRecords
  <2> QED
    BY <1>1, <1>2, <1>6, <2>3 DEF FlowsInv, FlowRecords
<1>8. left \subseteq flow[i].handlers /\ \A h \in left : h[1] # remote[s]
  BY DEF Under
<1>9. \A h \in flow[i].handlers : h[1] # remote[s] => h \in left
  BY DEF Under
<1>10. Shape(s)'
  BY <1>1, <1>4, <1>5 DEF Shape, BeforeRtcp, InFlow, WithMedia, Reading, Up
<1>11. FlowsInv'
  BY <1>1, <1>2, <1>7 DEF FlowsInv
<1>12. AloneInv'
  <2>1. ASSUME Undisturbed(RtpPort(s))', NEW t \in Streams, Lasts(t) PROVE flow_of[t] # flow_of[s]
    <3>1. Undisturbed(RtpPort(s))
      BY <1>3, <1>4, <2>1, MorePorts DEF Step
    <3> QED
      BY <1>5, <2>1, <3>1, NoLast
  <2> QED
    BY <1>1, <1>2, <1>3, <1>5, <2>1, AloneStep DEF SetupInv
<1>13. RemoteInv'
  BY <1>1, <1>3, RemoteStep DEF SetupInv
<1>14. OwnerInv'
  <2>1. ASSUME NEW j \in Ids, NEW h \in flow'[j].handlers
        PROVE  h \in flow[j].handlers /\ ~(flow_of[s] = j /\ h[1] = remote[s] /\ Installed(s))
    BY <1>7, <1>8, <2>1
  <2> QED
    BY <1>1, <1>2, <1>3, <2>1, OwnerStep DEF SetupInv
<1>15. ASSUME Undisturbed(RtpPort(s))' PROVE Rtp(s)'
  <2>1. Undisturbed(RtpPort(s))
    BY <1>3, <1>4, <1>15, MorePorts DEF Step
  <2>2. Rtp(s) /\ flow_of[s] # 0 /\ sock[s] = flow_of[s] /\ used_ports[RtpPort(s)] = flow_of[s]
        /\ flow_of[s] \in reception_flows
    BY <1>5, <2>1, FlowIsBound
  <2>3. Needs(s)' = {}
    BY <1>4, <1>5 DEF Needs, Up
  <2>4. to = "stop" => left = {}
    OBVIOUS
  <2> HIDE DEF left
  <2> QED
    BY <1>1, <1>2, <1>4, <1>5, <1>7, <2>2, <2>3, <2>4 DEF Rtp
<1>16. ASSUME NEW t \in Streams \ {s}, Undisturbed(RtpPort(t)) PROVE RtpFrame(t)
  <2>1. CASE flow_of[t] = i
    <3>1. remote[t] # remote[s]
      BY <1>5, <1>16, <2>1 DEF SetupInv, RemoteInv
    <3>2. \A x : <<remote[t], x>> \in flow[i].handlers => <<remote[t], x>> \in left
      BY <1>9, <3>1
    <3> HIDE DEF left
    <3> QED
      BY <1>2, <1>7, <1>8, <2>1, <3>2 DEF RtpFrame
  <2>2. CASE flow_of[t] # i
    <3>1. Attached(t) \/ Lasts(t) => flow_of[t] \in Ids \ {i}
      BY <1>2, <2>2, FlowOfLast
    <3> QED
      BY <1>2, <1>7, <3>1 DEF RtpFrame
  <2> QED BY <2>1, <2>2
<1>17. Rtcp(s) => Rtcp(s)'
  BY <1>1, <1>2, <1>4, <1>5 DEF Rtcp
<1>18. \A j \in Ids : flow'[j].active = flow[j].active /\ (made < j => flow'[j] = flow[j])
  <2>1. i <= made
    BY <1>2, MadeIsNat DEF TypeInv, StreamInv
  <2> QED
    BY <1>2, <1>6, <1>7, <2>1, MadeIsNat DEF TypeInv, Ids
<1> QED
  BY <1>1, <1>3, <1>5, <1>10, <1>11, <1>12, <1>13, <1>14, <1>15, <1>16, <1>17, <1>18, QuietStep

LEMMA StopFlowKeeps ==
    ASSUME NEW b, SetupInv(b), NegotiationInv', NEW s \in Streams, StopFlow(s)
    PROVE  SetupInv(b)'
<1> DEFINE i == flow_of[s]
<1>1. /\ Goes(s, "stop", "clear")
      /\ UNCHANGED <<life, scenario, factory, readers, zrtp, disturbed>>
      /\ UNCHANGED <<sock, flow_of, remote, rtcp>>
      /\ flow' = [flow EXCEPT ![i].active = FALSE]
      /\ "stop" \in Steps \ {"none"} /\ "clear" \in Steps
  BY DEF StopFlow, stream, ghosts, Steps, Deleting
<1>2. /\ TypeInv /\ ShapeInv /\ Belongs(b) /\ FlowsInv
      /\ UNCHANGED <<made, bound, used_ports, used_sockets, reception_flows>>
  BY <1>1, FactoryParts DEF SetupInv, NegotiationInv
<1>3. Step(s, "stop", "clear")
  BY <1>1, <1>2, StepOf
<1>4. /\ Shape(s) /\ Own(s)' = Own(s) /\ at'[s] = "clear" /\ at[s] = "stop"
      /\ RtcpPort(s)' = RtcpPort(s) /\ RtpPort(s)' = RtpPort(s)
  BY <1>2, <1>3 DEF ShapeInv, Step, Own, RtcpPort, RtpPort
<1>5. /\ Lasts(s) /\ Lasts(s)' /\ ~Attached(s)' /\ ~Installed(s) /\ ~Installed(s)' /\ ~Reads(s)'
      /\ "clear" \in Deleting /\ "clear" \notin Creating \cup WithMedia \cup Up \cup Reading
      /\ "stop" \in Deleting
  BY <1>4 DEF Attached, Installed, Reads, InFlow, WithMedia, Reading, Up, Deleting, Creating, Lasts,
     Leaving
<1>6. i \in Ids /\ flow_of[s] # 0
  BY <1>2, <1>5, FlowOfLast DEF Ids
<1>7. /\ flow'[i].handlers = flow[i].handlers /\ flow'[i].active = FALSE
      /\ \A j \in Ids \ {i} : flow'[j] = flow[j]
      /\ flow' \in [Ids -> FlowRecords]
  <2>1. [flow[i] EXCEPT !.active = FALSE] \in FlowRecords
    BY <1>2, <1>6 DEF FlowsInv, FlowRecords
  <2> QED
    BY <1>1, <1>2, <1>6, <2>1 DEF FlowsInv, FlowRecords
<1>8. Shape(s)'
  BY <1>1, <1>4, <1>6 DEF Shape, BeforeRtcp, InFlow, WithMedia, Reading, Up
<1>9. FlowsInv'
  BY <1>1, <1>2, <1>7 DEF FlowsInv
<1>10. AloneInv'
  BY <1>1, <1>2, <1>3, <1>5, AloneStep DEF SetupInv
<1>11. RemoteInv'
  BY <1>1, <1>3, RemoteStep DEF SetupInv
<1>12. OwnerInv'
  BY <1>1, <1>2, <1>3, <1>5, <1>7, OwnerStep DEF SetupInv
<1>13. ASSUME Undisturbed(RtpPort(s))' PROVE Rtp(s)'
  <2>1. Undisturbed(RtpPort(s))
    BY <1>3, <1>4, <1>13, MorePorts DEF Step
  <2>2. Rtp(s) /\ sock[s] = flow_of[s] /\ used_ports[RtpPort(s)] = flow_of[s]
        /\ flow_of[s] \in reception_flows
    BY <1>5, <2>1, FlowIsBound
  <2>3. Needs(s)' = {}
    BY <1>4, <1>5 DEF Needs
  <2>4. flow[i].handlers = {}
    BY <1>5, <2>2 DEF Rtp
  <2> QED
    BY <1>1, <1>2, <1>4, <1>5, <1>6, <1>7, <2>2, <2>3, <2>4 DEF Rtp
<1>14. ASSUME NEW t \in Streams \ {s}, Undisturbed(RtpPort(t)) PROVE RtpFrame(t)
  <2>1. CASE flow_of[t] = i
    <3>1. at[t] \notin Up
      <4>1. at[t] \in Up => Attached(t) /\ Installed(t)
        BY DEF Up, Attached, Installed, InFlow, WithMedia, Reading
      <4> QED
        BY <1>5, <1>14, <2>1, <4>1, NoLast
    <3> QED
      BY <1>2, <1>7, <2>1, <3>1 DEF RtpFrame
  <2>2. CASE flow_of[t] # i
    <3>1. Attached(t) \/ Lasts(t) => flow_of[t] \in Ids \ {i}
      BY <1>2, <2>2, FlowOfLast
    <3> QED
      BY <1>2, <1>7, <3>1 DEF RtpFrame
  <2> QED BY <2>1, <2>2
<1>15. Rtcp(s) => Rtcp(s)'
  BY <1>1, <1>2, <1>4, <1>5 DEF Rtcp
<1>16. \A j \in Ids : (flow'[j].active => flow[j].active) /\ (made < j => flow'[j] = flow[j])
  <2>1. i <= made
    BY <1>2, MadeIsNat DEF TypeInv, StreamInv
  <2> QED
    BY <1>2, <1>6, <1>7, <2>1, MadeIsNat DEF TypeInv, Ids
<1> QED
  BY <1>1, <1>3, <1>5, <1>6, <1>8, <1>9, <1>10, <1>11, <1>12, <1>13, <1>14, <1>15, <1>16, QuietStep

\* The handlers of one SSRC move to another one that has none.
LEMMA MovedHandlers ==
    ASSUME NEW handlers, handlers \subseteq Nat \X HandlerTypes, NEW old, NEW new \in Nat, new # old
    PROVE  /\ Moved(handlers, old, new) \subseteq Nat \X HandlerTypes
           /\ \A h \in handlers : h[1] # old => h \in Moved(handlers, old, new)
           /\ \A h \in Moved(handlers, old, new) : h[1] = new \/ (h \in handlers /\ h[1] # old)
           /\ (\A h \in handlers : h[1] # new) =>
                  \A x : <<old, x>> \in handlers => <<new, x>> \in Moved(handlers, old, new)
<1> DEFINE mine == Under(old, handlers)  rest == handlers \ mine
           moves == {<<new, h[2]>> : h \in mine}
<1>1. Moved(handlers, old, new) = IF Under(new, rest) # {} THEN rest ELSE rest \cup moves
  BY DEF Moved
<1>2. rest \subseteq handlers /\ \A h \in rest : h[1] # old
  BY DEF Under
<1>3. \A h \in handlers : h[1] # old => h \in rest
  BY DEF Under
<1>4. \A h \in moves : h[1] = new /\ h \in Nat \X HandlerTypes
  <2>1. ASSUME NEW h \in mine PROVE <<new, h[2]>> \in Nat \X HandlerTypes /\ <<new, h[2]>>[1] = new
    <3>1. h \in Nat \X HandlerTypes
      BY DEF Under
    <3> QED BY <3>1
  <2> QED BY <2>1
<1>5. ASSUME \A h \in handlers : h[1] # new PROVE Under(new, rest) = {}
  BY <1>5 DEF Under
<1>6. ASSUME NEW x, <<old, x>> \in handlers PROVE <<new, x>> \in moves
  <2>1. <<old, x>> \in mine
    BY <1>6 DEF Under
  <2>2. <<old, x>>[2] = x
    OBVIOUS
  <2> QED BY <2>1, <2>2
<1> HIDE DEF mine, rest, moves
<1>7. Moved(handlers, old, new) \subseteq rest \cup moves
  BY <1>1
<1>8. Moved(handlers, old, new) \subseteq Nat \X HandlerTypes
  BY <1>2, <1>4, <1>7
<1>9. rest \subseteq Moved(handlers, old, new)
  BY <1>1
<1> QED
  BY <1>1, <1>2, <1>3, <1>4, <1>5, <1>6, <1>7, <1>8, <1>9

LEMMA SetRemoteSsrcKeeps ==
    ASSUME NEW b, SetupInv(b), NegotiationInv', NEW s \in Streams, SetRemoteSsrc(s)
    PROVE  SetupInv(b)'
<1> DEFINE i == flow_of[s]  had == flow[i].handlers
<1>1. PICK new \in Config(s).remotes :
          /\ new # remote[s] /\ remote' = [remote EXCEPT ![s] = new]
          /\ flow' = [flow EXCEPT ![i].handlers = Moved(@, remote[s], new)]
          /\ disturbed' = disturbed \cup SameSsrc(s, i, new)
  BY DEF SetRemoteSsrc
<1> DEFINE has == Moved(had, remote[s], new)
<1>2. /\ Goes(s, "up", "up")
      /\ UNCHANGED <<life, scenario, factory, readers, zrtp>>
      /\ UNCHANGED <<sock, flow_of, rtcp>>
      /\ "up" \in Steps \ {"none"}
  BY DEF SetRemoteSsrc, Steps
<1>3. /\ TypeInv /\ ShapeInv /\ Belongs(b) /\ FlowsInv
      /\ UNCHANGED <<made, bound, used_ports, used_sockets, reception_flows>>
  BY <1>2, FactoryParts DEF SetupInv, NegotiationInv
<1>4. remote'[s] = new /\ \A t \in Streams \ {s} : remote'[t] = remote[t]
  BY <1>1, <1>3 DEF FlowsInv
<1>5. Step(s, "up", "up")
  BY <1>1, <1>2, <1>3, <1>4, StepOf
<1>6. /\ Shape(s) /\ Own(s)' = Own(s) /\ at'[s] = "up" /\ at[s] = "up"
      /\ RtcpPort(s)' = RtcpPort(s) /\ RtpPort(s)' = RtpPort(s) /\ Me(s)' = Me(s)
      /\ Config(s) \in Configs
  BY <1>3, <1>5 DEF ShapeInv, Step, Own, RtcpPort, RtpPort
<1>7. /\ Attached(s) /\ Attached(s)' /\ Installed(s) /\ Installed(s)' /\ Reads(s) /\ Reads(s)'
      /\ "up" \notin Deleting \cup Creating /\ ~Lasts(s)'
  BY <1>6 DEF Attached, Installed, Reads, InFlow, WithMedia, Reading, Up, Deleting, Creating, Lasts
<1>8. i \in Ids /\ flow_of[s] # 0 /\ new \in Nat
  BY <1>3, <1>6, <1>7, FlowOfLast DEF Ids, Configs
<1>9. /\ had \subseteq Nat \X HandlerTypes
      /\ flow[i] \in FlowRecords
  BY <1>3, <1>8 DEF FlowsInv, FlowRecords
<1>10. /\ has \subseteq Nat \X HandlerTypes
       /\ \A h \in had : h[1] # remote[s] => h \in has
       /\ \A h \in has : h[1] = new \/ (h \in had /\ h[1] # remote[s])
       /\ (\A h \in had : h[1] # new) => \A x : <<remote[s], x>> \in had => <<new, x>> \in has
  BY <1>1, <1>8, <1>9, MovedHandlers
<1>11. flow' = [flow EXCEPT ![i] = [flow[i] EXCEPT !.handlers = has]]
  BY <1>1
<1> HIDE DEF has
<1>12. /\ flow'[i].handlers = has /\ flow'[i].active = flow[i].active
       /\ \A j \in Ids \ {i} : flow'[j] = flow[j]
       /\ flow' \in [Ids -> FlowRecords]
  <2>1. [flow[i] EXCEPT !.handlers = has] \in FlowRecords
    BY <1>9, <1>10 DEF FlowRecords
  <2> QED
    BY <1>3, <1>8, <1>9, <1>11, <2>1 DEF FlowsInv
<1>13. Shape(s)'
  BY <1>2, <1>6 DEF Shape, BeforeRtcp, InFlow, WithMedia, Reading, Up
<1>14. FlowsInv'
  BY <1>1, <1>3, <1>8, <1>12 DEF FlowsInv
<1>15. AloneInv'
  BY <1>2, <1>3, <1>5, <1>7, AloneStep DEF SetupInv
<1>16. ASSUME NEW t \in Streams, flow_of[t] = i, remote[t] = new
       PROVE  Disturbed(RtpPort(s))' /\ Disturbed(RtpPort(t))'
  <2>1. <<RtpPort(s), "same_SSRC">> \in disturbed'
    BY <1>1, <1>16 DEF SameSsrc, RtpPort
  <2>2. RtpPort(t) = RtpPort(s)
    BY <1>3, <1>8, <1>16, Holder
  <2>3. /\ Disturbed(RtpPort(s))' <=> \E d \in disturbed' : d[1] = RtpPort(s)' /\ d[2] # "refused"
        /\ Disturbed(RtpPort(t))' <=> \E d \in disturbed' : d[1] = RtpPort(t)' /\ d[2] # "refused"
    BY DEF Disturbed
  <2>4. RtpPort(t)' = RtpPort(t)
    BY <1>5, <1>6 DEF Step, Same, RtpPort
  <2> QED
    BY <1>6, <2>1, <2>2, <2>3, <2>4
<1>17. RemoteInv'
  BY <1>2, <1>4, <1>5, <1>16, RemoteStep DEF SetupInv
<1>18. OwnerInv'
  <2>1. ASSUME NEW j \in Ids, NEW h \in flow'[j].handlers
        PROVE  \/ h \in flow[j].handlers /\ ~(flow_of[s] = j /\ h[1] = remote[s] /\ Installed(s))
               \/ flow_of'[s] = j /\ h[1] = remote'[s] /\ Installed(s)'
    BY <1>2, <1>4, <1>7, <1>10, <1>12, <2>1
  <2> QED
    BY <1>2, <1>3, <1>5, <2>1, OwnerStep DEF SetupInv
<1>19. ASSUME Undisturbed(RtpPort(s))' PROVE Rtp(s)'
  <2>1. Undisturbed(RtpPort(s))
    BY <1>5, <1>6, <1>19, MorePorts DEF Step
  <2>2. Rtp(s) /\ flow_of[s] # 0 /\ sock[s] = flow_of[s] /\ used_ports[RtpPort(s)] = flow_of[s]
        /\ flow_of[s] \in reception_flows /\ bound[i] = RtpPort(s)
    BY <1>7, <1>8, <2>1, FlowIsBound
  <2>3. Needs(s)' \subseteq Needs(s)
    BY <1>5, <1>6, <1>7, NeedsStep DEF Step
  <2>4. ASSUME NEW h \in had PROVE h[1] # new
    <3>1. bound[i] # 0
      BY <1>6, <2>2, ConfigsTyped, SetupAssumption DEF RtpPort
    <3>2. PICK t \in Streams : flow_of[t] = i /\ h[1] = remote[t]
      BY <1>8, <2>1, <2>2, <3>1 DEF SetupInv, OwnerInv
    <3>3. Disturbed(RtpPort(s))' \/ remote[t] # new
      BY <1>16, <3>2
    <3> QED
      BY <1>6, <1>19, <3>2, <3>3 DEF Undisturbed
  <2>5. \A x \in Needs(s) : <<new, x>> \in has
    BY <1>10, <2>2, <2>4 DEF Rtp
  <2>6. flow[i].active
    BY <1>6, <2>2 DEF Rtp, Up
  <2> QED
    BY <1>2, <1>3, <1>4, <1>6, <1>7, <1>12, <2>2, <2>3, <2>5, <2>6 DEF Rtp
<1>20. ASSUME NEW t \in Streams \ {s}, Undisturbed(RtpPort(t)) PROVE RtpFrame(t)
  <2>1. CASE flow_of[t] = i
    <3>1. remote[t] # remote[s]
      BY <1>8, <1>20, <2>1 DEF SetupInv, RemoteInv
    <3>2. \A x : <<remote[t], x>> \in had => <<remote[t], x>> \in has
      BY <1>10, <3>1
    <3>3. ~Lasts(t)
      <4>1. RtpPort(t) = RtpPort(s)
        BY <1>3, <1>8, <2>1, Holder
      <4> QED
        BY <1>7, <1>20, <2>1, <4>1, NoLast
    <3> QED
      BY <1>3, <1>12, <2>1, <3>2, <3>3 DEF RtpFrame, Lasts
  <2>2. CASE flow_of[t] # i
    <3>1. Attached(t) \/ Lasts(t) => flow_of[t] \in Ids \ {i}
      BY <1>3, <2>2, FlowOfLast
    <3> QED
      BY <1>3, <1>12, <3>1 DEF RtpFrame
  <2> QED BY <2>1, <2>2
<1>21. Rtcp(s) => Rtcp(s)'
  BY <1>2, <1>3, <1>6, <1>7 DEF Rtcp
<1>22. \A j \in Ids : flow'[j].active = flow[j].active /\ (made < j => flow'[j] = flow[j])
  <2>1. i <= made
    BY <1>3, MadeIsNat DEF TypeInv, StreamInv
  <2> QED
    BY <1>3, <1>8, <1>12, <2>1, MadeIsNat DEF TypeInv, Ids
<1>23. UNCHANGED <<factory, readers, zrtp>>
  BY <1>2
<1> QED
  BY <1>2, <1>5, <1>7, <1>13, <1>14, <1>15, <1>17, <1>18, <1>19, <1>20, <1>21, <1>22, <1>23, QuietStep

LEMMA Unregisters ==
    ASSUME TypeInv, NEW p \in Ports, Unregister(p)
    PROVE  /\ \A r \in Ids :
                  /\ readers'[r].sock = readers[r].sock /\ readers'[r].members = readers[r].members
                  /\ readers'[r].active = readers[r].active /\ readers'[r].thread = readers[r].thread
                  /\ \/ readers'[r].port = readers[r].port
                     \/ readers[r].port = p /\ readers'[r].port = 0
           /\ \A k : (\A r \in Ids : readers[r].port = p => r = k)
                         => \A r \in Ids : readers'[r].port # p
<1>1. p # 0
  BY SetupAssumption
<1>2. CASE get_rtcp_reader(p) = {} /\ UNCHANGED readers
  BY <1>2 DEF get_rtcp_reader
<1>3. ASSUME NEW r \in get_rtcp_reader(p), readers' = [readers EXCEPT ![r].port = 0]
      PROVE  /\ \A x \in Ids \ {r} : readers'[x] = readers[x]
             /\ readers[r].port = p /\ readers'[r].port = 0 /\ r \in Ids
             /\ readers'[r].sock = readers[r].sock /\ readers'[r].members = readers[r].members
             /\ readers'[r].active = readers[r].active /\ readers'[r].thread = readers[r].thread
  <2>1. r \in Ids /\ readers[r].port = p
    BY DEF get_rtcp_reader
  <2> QED
    BY <1>3, <2>1 DEF TypeInv, FactoryInv, Readers
<1> QED
  BY <1>1, <1>2, <1>3 DEF Unregister

\* Who holds a socket that is used no more is about to go.
LEMMA HoldersLeave ==
    ASSUME NEW b, SetupInv(b), ~crashed, NEW x \in Streams, NEW j \in Ids, Holds(x, j),
           at[x] \notin Creating,
           RtpPort(x) = b[j] => ~Attached(x) /\ ~Lasts(x),
           Own(x) /\ RtcpPort(x) = b[j] => ~Reads(x)
    PROVE  at[x] \in Deleting
<1>1. Shape(x) /\ at[x] # "none" /\ at[x] \in Steps /\ j # 0
  BY Holder DEF SetupInv, ShapeInv, NegotiationInv, TypeInv, PlaceInv, Ids
<1>2. at[x] \notin {"broken", "crashed"}
  BY <1>1 DEF Shape, Holds, NoRtcp
<1>3. ASSUME at[x] \in {"user"} \cup Up PROVE FALSE
  <2>1. Attached(x)
    BY <1>3 DEF Attached, InFlow, WithMedia, Reading
  <2>2. CASE sock[x] = j
    BY <2>1, <2>2, Holder DEF SetupInv
  <2>3. CASE rtcp[x].sock = j /\ ~Own(x)
    BY <1>1, <2>2, <2>3 DEF Shape
  <2>4. CASE rtcp[x].sock = j /\ Own(x)
    <3>1. RtcpPort(x) = b[j]
      BY <2>4, Holder DEF SetupInv
    <3>2. at[x] # "user"
      BY <1>1, <2>4 DEF Shape, BeforeRtcp
    <3> QED
      BY <1>3, <2>4, <3>1, <3>2 DEF Reads, Reading
  <2> QED BY <2>2, <2>3, <2>4 DEF Holds
<1> QED
  BY <1>1, <1>2, <1>3 DEF Steps, Up

\* A stream that goes gives up a port of it.
LEMMA ClearStep ==
    ASSUME NEW b, SetupInv(b), NegotiationInv', NEW s \in Streams, NEW from, NEW to,
           Step(s, from, to), NEW p \in Ports, NEW k, clear_port(p, k),
           UNCHANGED <<flow, sock, flow_of, remote, rtcp>>, zrtp'.socket = zrtp.socket,
           p \in PortsOf(Config(s)), k \in Ids => b[k] = p,
           from \in Deleting, to \in Deleting, to \notin {"stop", "clear"}, flow_of[s] # 0,
           Shape(s)', Installed(s)' = Installed(s),
           Undisturbed(p) =>
               /\ used_ports[p] \in {0, k}
               /\ \A t \in Streams \ {s} : RtpPort(t) = p => ~Attached(t) /\ ~Lasts(t)
               /\ \A t \in Streams \ {s} : Own(t) /\ RtcpPort(t) = p => ~Reads(t)
               /\ \A r \in Ids : readers[r].port = p => r = k,
           Undisturbed(p)' /\ used_ports[p] = k /\ k \in Ids => zrtp.socket # k /\ ~flow[k].active,
           Undisturbed(RtpPort(s))' => Rtp(s)',
           Own(s) /\ Undisturbed(RtcpPort(s))' => Rtcp(s)'
    PROVE  SetupInv(b)'
<1>1. /\ UNCHANGED <<made, bound>>
      /\ used_ports' = [used_ports EXCEPT ![p] = 0] /\ Unregister(p)
      /\ used_sockets' = used_sockets \ {k} /\ reception_flows' = reception_flows \ {k}
  BY DEF clear_port
<1>2. /\ TypeInv /\ ShapeInv /\ Belongs(b)
  BY DEF SetupInv, NegotiationInv
<1>3. /\ \A r \in Ids :
             /\ readers'[r].sock = readers[r].sock /\ readers'[r].members = readers[r].members
             /\ readers'[r].active = readers[r].active /\ readers'[r].thread = readers[r].thread
             /\ \/ readers'[r].port = readers[r].port
                \/ readers[r].port = p /\ readers'[r].port = 0
      /\ (\A r \in Ids : readers[r].port = p => r = k) => \A r \in Ids : readers'[r].port # p
  <2>1. TypeInv /\ Unregister(p) /\ p \in Ports
    BY <1>1, <1>2
  <2> QED
    BY <2>1, Unregisters
<1>4. used_ports'[p] = 0 /\ \A q \in Ports \ {p} : used_ports'[q] = used_ports[q]
  BY <1>1, <1>2 DEF TypeInv, FactoryInv
<1>5. p # 0
  BY SetupAssumption
<1>6. ASSUME Undisturbed(p), NEW t \in Streams, at[t] \in Creating
      PROVE  p \notin PortsOf(Config(t))
  BY <1>6 DEF SetupInv, OverlapInv, Undisturbed, Step
<1>7. FlowsInv' /\ RunsInv'
  BY <1>1, <1>3, RunsStep DEF SetupInv, FlowsInv, Step
<1>8. ShapeInv'
  BY <1>2, ShapeStep
<1>9. Belongs(b)'
  <2>1. \A i \in Ids : bound'[i] \in {0, b[i]}
    BY <1>1, <1>2 DEF Belongs
  <2>2. \A q \in Ports : used_ports'[q] # 0 => b[used_ports'[q]] = q
    BY <1>2, <1>4 DEF Belongs
  <2>3. /\ sock'[s] # 0 => b[sock'[s]] = RtpPort(s)
        /\ rtcp'[s].reader # 0 => b[rtcp'[s].reader] = RtcpPort(s)
    BY <1>2 DEF Belongs
  <2> QED
    BY <1>2, <1>3, <2>1, <2>2, <2>3, BelongsAny
<1>10. FreshInv'
  BY <1>1, <1>2, <1>3, FreshStep DEF SetupInv
<1>11. ASSUME NEW t \in Streams, at[t] # "none" PROVE RtpPort(t) \in Ports /\ RtcpPort(t) \in Ports
  BY <1>2, <1>11, ConfigOf, ConfigsTyped DEF TypeInv, RtpPort, RtcpPort
<1>12. \A t \in Streams : RtpPort(t) \in PortsOf(Config(t)) /\ (Own(t) => RtcpPort(t) \in PortsOf(Config(t)))
  BY DEF RtpPort, RtcpPort, Own, PortsOf
<1>13. RtpInv'
  <2>1. ASSUME NEW t \in Streams \ {s}, at[t] # "none", Undisturbed(RtpPort(t)) PROVE RtpFrame(t)
    <3>1. CASE RtpPort(t) = p
      <4>1. ~Attached(t) /\ ~Lasts(t) /\ at[t] \notin Creating
        BY <1>6, <1>12, <2>1, <3>1
      <4> QED
        BY <4>1 DEF RtpFrame, Creating
    <3>2. CASE RtpPort(t) # p
      <4>1. used_ports'[RtpPort(t)] = used_ports[RtpPort(t)]
        BY <1>4, <1>11, <2>1, <3>2
      <4>2. Attached(t) \/ Lasts(t) => flow_of[t] \in Ids /\ b[flow_of[t]] = RtpPort(t)
        BY <1>2, FlowOfLast, Holder
      <4>3. Attached(t) \/ Lasts(t) => flow_of[t] # k
        BY <3>2, <4>2
      <4> QED
        BY <1>1, <4>1, <4>3 DEF RtpFrame
    <3> QED BY <3>1, <3>2
  <2> QED
    BY <2>1, RtpStep DEF SetupInv
<1>14. AloneInv'
  BY <1>2, AloneStep DEF SetupInv, Lasts, Step
<1>15. RemoteInv'
  BY RemoteStep DEF SetupInv
<1>16. OwnerInv'
  BY <1>1, <1>2, OwnerStep DEF SetupInv
<1>17. OverlapInv'
  <2>1. to \notin Creating
    BY DEF Creating, Deleting
  <2> QED
    BY <2>1, OverlapStep DEF SetupInv
<1>18. HeldInv'
  <2> SUFFICES ASSUME NEW j \in Ids, bound'[j] # 0, ~Disturbed(bound[j])' PROVE Held(j)'
    BY DEF HeldInv, Undisturbed
  <2>1. bound'[j] = bound[j] /\ Undisturbed(bound[j]) /\ Held(j) /\ bound[j] = b[j]
    BY <1>1, <1>2, MorePorts DEF SetupInv, HeldInv, Undisturbed, Belongs, Step
  <2>2. \A t \in Streams : /\ at'[t] \in Creating <=> at[t] \in Creating
                           /\ at'[t] \in Deleting <=> at[t] \in Deleting
                           /\ PortsOf(Config(t))' = PortsOf(Config(t))
                           /\ Holds(t, j)' = Holds(t, j)
    BY DEF Step, Same, PortsOf, Holds, Creating, Deleting
  <2>3. Kept(j)' => Kept(j)
    BY <1>1, <1>3 DEF Kept
  <2>4. bound[j] \in Ports
    BY <1>2, <2>1 DEF TypeInv, FactoryInv
  <2>5. CASE bound[j] # p
    <3>1. used_ports'[bound[j]] = used_ports[bound[j]]
      BY <1>4, <2>4, <2>5
    <3>2. j # k
      BY <2>1, <2>5
    <3> QED
      BY <1>1, <2>1, <2>2, <2>3, <3>1, <3>2 DEF Held
  <2>6. CASE bound[j] = p
    <3>1. ~Kept(j)' /\ zrtp.socket # j /\ ~flow[j].active
      <4>1. CASE used_ports[p] # j
        BY <2>1, <2>3, <2>6, <4>1 DEF Held, Kept
      <4>2. CASE used_ports[p] = j
        <5>1. j = k /\ Undisturbed(p)' /\ Undisturbed(p)
          BY <2>1, <2>6, <4>2 DEF Undisturbed, Ids
        <5>2. zrtp.socket # j /\ ~flow[j].active
          BY <4>2, <5>1
        <5>3. \A r \in Ids : readers'[r].port # 0 => readers'[r].sock # j
          <6>1. \A r \in Ids : readers'[r].port # p
            BY <1>3, <5>1
          <6>2. \A r \in Ids : readers'[r].port # 0 /\ readers'[r].sock = j => readers'[r].port = p
            BY <1>9, <2>1, <2>6 DEF Belongs, Ids
          <6> QED BY <6>1, <6>2
        <5> QED
          BY <1>1, <5>1, <5>2, <5>3 DEF Kept
      <4> QED BY <4>1, <4>2
    <3>2. ASSUME NEW x \in Streams, Holds(x, j) PROVE at[x] \in Deleting
      <4>1. CASE x = s
        BY <4>1 DEF Step
      <4>2. CASE x # s
        <5>1. at[x] # "none" /\ p \in PortsOf(Config(x))
          BY <1>2, <2>1, <2>6, <3>2, Holder
        <5>2. at[x] \notin Creating
          BY <1>6, <2>1, <2>6, <5>1
        <5> QED
          BY <2>1, <2>6, <3>2, <4>2, <5>2, HoldersLeave DEF Step
      <4> QED BY <4>1, <4>2
    <3>3. \A t \in Streams : at[t] \in Creating => p \notin PortsOf(Config(t))
      BY <1>6, <2>1, <2>6
    <3> QED
      BY <1>1, <2>1, <2>2, <2>6, <3>1, <3>2, <3>3 DEF Held
  <2> QED BY <2>5, <2>6
<1>19. RegInv'
  <2> SUFFICES ASSUME NEW r \in Ids, readers'[r].port # 0
               PROVE  /\ r \notin reception_flows'
                      /\ Undisturbed(readers[r].port)' => used_ports'[readers'[r].port] = r
    BY DEF RegInv
  <2>1. readers'[r].port = readers[r].port
    BY <1>3
  <2>2. readers[r].port \in Ports
    BY <1>2, <2>1 DEF TypeInv, FactoryInv, Readers
  <2>3. ASSUME Undisturbed(readers[r].port)' PROVE used_ports'[readers'[r].port] = r
    <3>1. Undisturbed(readers[r].port)
      BY <2>1, <2>3, MorePorts DEF Step
    <3>2. readers[r].port # p
      BY <1>3, <2>1, <3>1
    <3> QED
      BY <1>4, <2>1, <2>2, <3>1, <3>2 DEF SetupInv, RegInv
  <2> QED
    BY <1>1, <2>1, <2>3 DEF SetupInv, RegInv
<1>20. RtcpInv'
  <2>1. ASSUME NEW t \in Streams \ {s}, at[t] # "none", Own(t), Undisturbed(RtcpPort(t)), Rtcp(t)
        PROVE  RtcpFrame(t)
    <3>1. Reads(t) \/ at[t] \in {"reader_check", "clear_rtcp"} => rtcp[t].sock \in Ids
      BY <1>2, <2>1, ReaderIds
    <3>2. CASE RtcpPort(t) = p
      <4>1. at[t] # "rtcp_reader" /\ ~Reads(t)
        BY <1>6, <1>12, <2>1, <3>2 DEF Creating
      <4> QED
        BY <1>3, <1>4, <3>1, <3>2, <4>1 DEF RtcpFrame
    <3>3. CASE RtcpPort(t) # p
      <4>1. used_ports'[RtcpPort(t)] = used_ports[RtcpPort(t)]
        BY <1>4, <1>11, <2>1, <3>3
      <4>2. Reads(t) => readers[rtcp[t].sock].port = RtcpPort(t)
        BY <2>1 DEF Rtcp
      <4>3. at[t] \in {"reader_check", "clear_rtcp"} =>
                readers[rtcp[t].sock].port = RtcpPort(t) \/ used_ports[RtcpPort(t)] = 0
        BY <2>1 DEF Rtcp
      <4> QED
        BY <1>3, <3>1, <3>3, <4>1, <4>2, <4>3 DEF RtcpFrame
    <3> QED BY <3>2, <3>3
  <2> QED
    BY <2>1, RtcpStep DEF SetupInv
<1> QED
  BY <1>7, <1>8, <1>9, <1>10, <1>13, <1>14, <1>15, <1>16, <1>17, <1>18, <1>19, <1>20 DEF SetupInv

LEMMA ClearRtcpKeeps ==
    ASSUME NEW b, SetupInv(b), NegotiationInv', NEW s \in Streams, ClearRtcp(s)
    PROVE  SetupInv(b)'
<1> SUFFICES ASSUME NEW p, p = RtcpPort(s), NEW k, k = rtcp[s].sock
             PROVE  SetupInv(b)'
  OBVIOUS
<1>1. /\ Goes(s, "clear_rtcp", AfterRtcp(s))
      /\ UNCHANGED <<life, scenario, flow, zrtp, disturbed>>
      /\ UNCHANGED <<sock, flow_of, remote, rtcp>>
      /\ clear_port(p, k)
      /\ "clear_rtcp" \in Steps \ {"none"} /\ "remove" \in Steps
  BY DEF ClearRtcp, stream, ghosts, Steps, Deleting, RtcpPort
<1>2. TypeInv /\ ShapeInv /\ Belongs(b)
  BY DEF SetupInv, NegotiationInv
<1>3. rtcp[s].reader # 0 /\ flow_of[s] # 0 /\ Own(s) /\ at[s] = "clear_rtcp"
  BY <1>1, <1>2 DEF ShapeInv, Shape, Goes
<1>4. Goes(s, "clear_rtcp", "remove")
  BY <1>1, <1>3 DEF AfterRtcp
<1>5. Step(s, "clear_rtcp", "remove")
  BY <1>1, <1>2, <1>4, StepOf DEF SetupInv
<1>6. /\ Shape(s) /\ Own(s)' = Own(s) /\ at'[s] = "remove" /\ Config(s) \in Configs
      /\ RtcpPort(s)' = p /\ RtpPort(s)' = RtpPort(s)
  BY <1>2, <1>5 DEF ShapeInv, Step, Own, RtcpPort, RtpPort
<1>7. /\ Attached(s) /\ Attached(s)' /\ Installed(s) /\ Installed(s)' /\ ~Reads(s)'
      /\ "remove" \notin Creating \cup WithMedia \cup Up \cup Reading
      /\ {"clear_rtcp", "remove"} \subseteq Deleting
  BY <1>1, <1>3, <1>6 DEF Attached, Installed, Reads, InFlow, WithMedia, Reading, Up, Leaving, Creating, Deleting
<1>8. Shape(s)'
  BY <1>1, <1>3, <1>6 DEF Shape, BeforeRtcp, InFlow, WithMedia, Reading, Up
<1>9. p \in Ports /\ p \in PortsOf(Config(s)) /\ p # RtpPort(s) /\ RtpPort(s) \in Ports
  <2>1. Config(s).port \in Ports /\ Config(s).port + 1 \in Ports /\ Config(s).port \in Nat
    BY <1>6, ConfigsTyped, SetupAssumption
  <2> QED
    BY <1>3, <2>1 DEF RtcpPort, RtpPort, Own, PortsOf
<1>10. k \in Ids => b[k] = p
  BY <1>2, <1>3, Holder
<1>11. ASSUME Undisturbed(p)
       PROVE  /\ Rtcp(s) /\ k \in Ids /\ used_ports[p] \in {0, k}
              /\ used_ports[p] = k => readers[k].port = p /\ k \notin reception_flows
              /\ readers[k].members = {}
              /\ \A r \in Ids : readers[r].port = p => r = k
  <2>1. Rtcp(s)
    BY <1>3, <1>11 DEF SetupInv, RtcpInv
  <2>2. k \in Ids
    BY <1>2, <1>3, <2>1, ReaderIds
  <2>3. p # 0 /\ k # 0
    BY <1>9, <2>2, SetupAssumption DEF Ids
  <2>4. \A r \in Ids : readers[r].port = p => r \notin reception_flows /\ used_ports[p] = r /\ r # 0
    BY <1>11, <2>3 DEF SetupInv, RegInv, Ids
  <2> QED
    BY <1>3, <2>1, <2>2, <2>3, <2>4 DEF Rtcp
<1>12. ASSUME Undisturbed(p), NEW t \in Streams \ {s}, RtpPort(t) = p PROVE ~Attached(t) /\ ~Lasts(t)
  <2> SUFFICES ASSUME Attached(t) \/ Lasts(t) PROVE FALSE
    OBVIOUS
  <2>1. flow_of[t] \in Ids /\ flow_of[t] \in reception_flows /\ used_ports[p] = flow_of[t]
    BY <1>12, FlowIsBound
  <2> QED
    BY <1>11, <1>12, <2>1 DEF Ids
<1>13. ASSUME Undisturbed(p), NEW t \in Streams \ {s}, Own(t), RtcpPort(t) = p PROVE ~Reads(t)
  <2> SUFFICES ASSUME Reads(t) PROVE FALSE
    OBVIOUS
  <2>1. at[t] # "none"
    BY DEF Reads, Reading, Up
  <2>2. rtcp[t].sock # 0 /\ used_ports[p] = rtcp[t].sock /\ Me(t) \in readers[rtcp[t].sock].members
    BY <1>13, <2>1 DEF SetupInv, RtcpInv, Rtcp
  <2> QED
    BY <1>11, <1>13, <2>2
<1>14. ASSUME Undisturbed(p)', used_ports[p] = k, k \in Ids PROVE zrtp.socket # k /\ ~flow[k].active
  <2>1. Undisturbed(p) /\ k \notin reception_flows
    BY <1>1, <1>11, <1>14 DEF Undisturbed, Disturbed
  <2>2. bound[k] = p /\ bound[k] # 0
    BY <1>2, <1>9, <1>14, SetupAssumption DEF TypeInv, FactoryInv, Ids
  <2>3. Held(k)
    BY <1>14, <2>1, <2>2 DEF SetupInv, HeldInv
  <2> QED
    BY <2>1, <2>3 DEF Held
<1>15. used_ports' = [used_ports EXCEPT ![p] = 0] /\ reception_flows' = reception_flows \ {k}
  BY <1>1 DEF clear_port
<1>16. ASSUME Undisturbed(RtpPort(s))' PROVE Rtp(s)'
  <2>1. Undisturbed(RtpPort(s))
    BY <1>5, <1>6, <1>16, MorePorts DEF Step
  <2>2. /\ Rtp(s) /\ flow_of[s] \in Ids /\ sock[s] = flow_of[s] /\ used_ports[RtpPort(s)] = flow_of[s]
        /\ flow_of[s] \in reception_flows
    BY <1>7, <2>1, FlowIsBound
  <2>3. flow_of[s] # k
    <3>1. b[flow_of[s]] = RtpPort(s)
      BY <1>2, <2>2, Holder
    <3> QED
      BY <1>9, <1>10, <2>2, <3>1
  <2>4. used_ports'[RtpPort(s)] = used_ports[RtpPort(s)]
    BY <1>2, <1>9, <1>15 DEF TypeInv, FactoryInv
  <2>5. Needs(s)' \subseteq Needs(s)
    BY <1>5, <1>6, <1>7, NeedsStep DEF Step, Up
  <2> QED
    BY <1>1, <1>3, <1>6, <1>7, <1>15, <2>2, <2>3, <2>4, <2>5 DEF Rtp, Lasts
<1>17. ASSUME Undisturbed(RtcpPort(s))' PROVE Rtcp(s)'
  <2>1. Undisturbed(p)
    BY <1>5, <1>6, <1>17, MorePorts DEF Step
  <2>2. rtcp[s].reader = k
    BY <1>3, <1>11, <2>1 DEF Rtcp
  <2> QED
    BY <1>1, <1>6, <1>7, <2>2 DEF Rtcp
<1>18. Undisturbed(p) =>
           /\ used_ports[p] \in {0, k}
           /\ \A t \in Streams \ {s} : RtpPort(t) = p => ~Attached(t) /\ ~Lasts(t)
           /\ \A t \in Streams \ {s} : Own(t) /\ RtcpPort(t) = p => ~Reads(t)
           /\ \A r \in Ids : readers[r].port = p => r = k
  BY <1>11, <1>12, <1>13
<1>19. /\ UNCHANGED <<flow, sock, flow_of, remote, rtcp>> /\ zrtp'.socket = zrtp.socket /\ clear_port(p, k)
       /\ "remove" \notin {"stop", "clear"} /\ "clear_rtcp" \in Deleting /\ "remove" \in Deleting
  BY <1>1, <1>7
<1> QED
  BY <1>3, <1>5, <1>7, <1>8, <1>9, <1>10, <1>14, <1>16, <1>17, <1>18, <1>19, ClearStep

LEMMA ClearPortKeeps ==
    ASSUME NEW b, SetupInv(b), NegotiationInv', NEW s \in Streams, ClearPort(s)
    PROVE  SetupInv(b)'
<1> SUFFICES ASSUME NEW p, p = RtpPort(s), NEW k, k = sock[s]
             PROVE  SetupInv(b)'
  OBVIOUS
<1>1. /\ Goes(s, "clear", "free")
      /\ UNCHANGED <<life, scenario, flow, zrtp>>
      /\ UNCHANGED <<sock, flow_of, remote, rtcp>>
      /\ clear_port(p, k)
      /\ disturbed' = IF k # 0 /\ zrtp.socket = k THEN disturbed \cup {<<p, "held_by_ZRTP">>} ELSE disturbed
      /\ disturbed \subseteq disturbed'
      /\ "clear" \in Steps \ {"none"} /\ "free" \in Steps
  BY DEF ClearPort, stream, ghosts, Steps, Deleting, RtpPort
<1>2. TypeInv /\ ShapeInv /\ Belongs(b)
  BY DEF SetupInv, NegotiationInv
<1>3. Step(s, "clear", "free")
  BY <1>1, <1>2, StepOf DEF SetupInv
<1>4. /\ Shape(s) /\ Own(s)' = Own(s) /\ at[s] = "clear" /\ at'[s] = "free" /\ Config(s) \in Configs
      /\ RtcpPort(s)' = RtcpPort(s) /\ RtpPort(s)' = p
  BY <1>2, <1>3 DEF ShapeInv, Step, Own, RtcpPort, RtpPort
<1>5. /\ Lasts(s) /\ ~Attached(s)' /\ ~Installed(s) /\ ~Installed(s)' /\ ~Reads(s)' /\ ~Lasts(s)'
      /\ "free" \notin Creating \cup WithMedia \cup Up \cup Reading
      /\ {"clear", "free"} \subseteq Deleting /\ flow_of[s] # 0
  BY <1>4 DEF Attached, Installed, Reads, InFlow, WithMedia, Reading, Up, Leaving, Creating, Deleting,
     Lasts, Shape
<1>6. Shape(s)'
  BY <1>1, <1>4, <1>5 DEF Shape, BeforeRtcp, InFlow, WithMedia, Reading, Up
<1>7. p \in Ports /\ p \in PortsOf(Config(s)) /\ p # 0
  BY <1>4, ConfigsTyped, SetupAssumption DEF RtpPort, PortsOf
<1>8. k \in Ids => b[k] = p
  BY <1>2, Holder
<1>9. ASSUME Undisturbed(p)
      PROVE  /\ Rtp(s) /\ k \in Ids /\ used_ports[p] = k /\ k = flow_of[s] /\ k \in reception_flows
             /\ \A r \in Ids : readers[r].port # p
             /\ \A t \in Streams : at[t] \in Creating => p \notin PortsOf(Config(t))
  <2>1. Rtp(s) /\ k \in Ids /\ used_ports[p] = k /\ k = flow_of[s] /\ k \in reception_flows
    BY <1>5, <1>9, FlowIsBound
  <2>2. \A r \in Ids : readers[r].port # p
    BY <1>7, <1>9, <2>1 DEF SetupInv, RegInv
  <2>3. \A t \in Streams : at[t] \in Creating => p \notin PortsOf(Config(t))
    BY <1>4, <1>5, <1>7, <1>9 DEF SetupInv, OverlapInv, Undisturbed
  <2> QED BY <2>1, <2>2, <2>3
<1>10. ASSUME Undisturbed(p), NEW t \in Streams \ {s}, RtpPort(t) = p PROVE ~Attached(t) /\ ~Lasts(t)
  <2> SUFFICES ASSUME Attached(t) \/ Lasts(t) PROVE FALSE
    OBVIOUS
  <2>1. flow_of[t] = flow_of[s]
    BY <1>9, <1>10, FlowIsBound
  <2>2. CASE Lasts(t)
    BY <1>5, <1>10, <2>1, <2>2 DEF SetupInv, AloneInv
  <2>3. CASE Attached(t)
    <3>1. Installed(t) \/ at[t] \in Creating
      BY <2>3 DEF Installed, Creating
    <3> QED
      BY <1>5, <1>10, <2>1, <2>3, <3>1, NoLast
  <2> QED BY <2>2, <2>3
<1>11. ASSUME Undisturbed(p), NEW t \in Streams \ {s}, Own(t), RtcpPort(t) = p PROVE ~Reads(t)
  <2> SUFFICES ASSUME Reads(t) PROVE FALSE
    OBVIOUS
  <2>1. at[t] # "none"
    BY DEF Reads, Reading, Up
  <2>2. Rtcp(t)
    BY <1>11, <2>1 DEF SetupInv, RtcpInv
  <2>3. rtcp[t].sock \in Ids /\ readers[rtcp[t].sock].port = p
    BY <1>2, <1>11, <2>2, ReaderIds DEF Rtcp
  <2> QED
    BY <1>9, <1>11, <2>3
<1>12. ASSUME Undisturbed(p)', k \in Ids PROVE zrtp.socket # k /\ ~flow[k].active
  <2>1. Undisturbed(p)
    BY <1>3, <1>4, <1>12, MorePorts DEF Step
  <2>2. ~flow[k].active
    BY <1>4, <1>9, <2>1 DEF Rtp
  <2>3. zrtp.socket # k
    <3>1. ASSUME zrtp.socket = k PROVE FALSE
      <4>1. <<p, "held_by_ZRTP">> \in disturbed'
        BY <1>1, <1>12, <3>1 DEF Ids
      <4>2. Undisturbed(p)' <=> ~\E d \in disturbed' : d[1] = p' /\ d[2] # "refused"
        BY DEF Undisturbed, Disturbed
      <4> QED
        BY <1>4, <1>12, <4>1, <4>2
    <3> QED BY <3>1
  <2> QED BY <2>2, <2>3
<1>13. Rtp(s)'
  <2>1. Needs(s)' = {}
    BY <1>4, <1>5 DEF Needs, Up
  <2> QED
    BY <1>4, <1>5, <2>1 DEF Rtp, Lasts
<1>14. ASSUME Own(s), Undisturbed(RtcpPort(s))' PROVE Rtcp(s)'
  <2>1. Undisturbed(RtcpPort(s))
    BY <1>3, <1>4, <1>14, MorePorts DEF Step
  <2>2. Rtcp(s)
    BY <1>4, <1>14, <2>1 DEF SetupInv, RtcpInv
  <2> QED
    BY <1>1, <1>4, <1>5, <2>2 DEF Rtcp
<1>15. Undisturbed(p) =>
           /\ used_ports[p] \in {0, k}
           /\ \A t \in Streams \ {s} : RtpPort(t) = p => ~Attached(t) /\ ~Lasts(t)
           /\ \A t \in Streams \ {s} : Own(t) /\ RtcpPort(t) = p => ~Reads(t)
           /\ \A r \in Ids : readers[r].port = p => r = k
  BY <1>9, <1>10, <1>11
<1>16. /\ UNCHANGED <<flow, sock, flow_of, remote, rtcp>> /\ zrtp'.socket = zrtp.socket /\ clear_port(p, k)
       /\ "free" \notin {"stop", "clear"} /\ "clear" \in Deleting /\ "free" \in Deleting
  BY <1>1, <1>5
<1>17. /\ "clear" \in Deleting /\ "free" \in Deleting /\ "free" \notin {"stop", "clear"}
       /\ flow_of[s] # 0 /\ p \in Ports /\ p \in PortsOf(Config(s)) /\ NegotiationInv'
       /\ (k \in Ids => b[k] = p) /\ Shape(s)'
  BY <1>5, <1>6, <1>7, <1>8
<1>18. Installed(s)' = Installed(s)
  BY <1>5 DEF Installed
<1>19. Undisturbed(p)' /\ used_ports[p] = k /\ k \in Ids => zrtp.socket # k /\ ~flow[k].active
  BY <1>12
<1>20. /\ Undisturbed(RtpPort(s))' => Rtp(s)'
       /\ Own(s) /\ Undisturbed(RtcpPort(s))' => Rtcp(s)'
  BY <1>13, <1>14
<1> QED
  BY <1>3, <1>15, <1>16, <1>17, <1>18, <1>19, <1>20, ClearStep

\* A step of a stream that is created, which may get the socket of its port, and bind it
\* where no socket is entered for the port.
LEMMA FindStep ==
    ASSUME NEW b, SetupInv(b), NegotiationInv', NEW s \in Streams, NEW from \in Creating,
           NEW to \in Creating, Step(s, from, to), NEW p, NEW k,
           \/ UNCHANGED <<bound, used_ports>>
           \/ /\ p \in Ports /\ Disturbed(p) /\ k \in Ids /\ k <= made /\ b[k] = p
              /\ used_ports[p] = 0
              /\ bound' = [bound EXCEPT ![k] = p] /\ used_ports' = [used_ports EXCEPT ![p] = k],
           UNCHANGED <<made, used_sockets, reception_flows>>,
           UNCHANGED <<readers, flow, flow_of, remote, disturbed>>, zrtp' = zrtp,
           Shape(s)', sock'[s] # 0 => b[sock'[s]] = RtpPort(s),
           \/ rtcp'[s].sock = rtcp[s].sock
           \/ Own(s) /\ b[rtcp'[s].sock] = RtcpPort(s),
           \A x \in Ids : Holds(s, x)' => Holds(s, x) \/ used_ports[b[x]] = x,
           rtcp'[s].reader # 0 => b[rtcp'[s].reader] = RtcpPort(s),
           Installed(s) => Installed(s)',
           Undisturbed(RtpPort(s))' => Rtp(s)',
           Own(s) /\ Undisturbed(RtcpPort(s))' => Rtcp(s)'
    PROVE  SetupInv(b)'
<1>1. /\ TypeInv /\ ShapeInv /\ Belongs(b)
  BY DEF SetupInv, NegotiationInv
<1>2. /\ \A q \in Ports : \/ used_ports'[q] = used_ports[q]
                          \/ Disturbed(q) /\ used_ports[q] = 0 /\ b[used_ports'[q]] = q
      /\ \A j \in Ids : \/ bound'[j] = bound[j]
                        \/ Disturbed(bound'[j]) /\ bound'[j] = b[j] /\ j <= made
  BY <1>1 DEF TypeInv, FactoryInv
<1>3. \A q : Disturbed(q)' <=> Disturbed(q)
  BY DEF Disturbed
<1>4. FlowsInv' /\ RunsInv'
  BY RunsStep DEF SetupInv, FlowsInv
<1>5. ShapeInv'
  BY <1>1, ShapeStep
<1>6. Belongs(b)'
  <2>1. \A i \in Ids : bound'[i] \in {0, b[i]}
    BY <1>1, <1>2 DEF Belongs
  <2>2. \A q \in Ports : used_ports'[q] # 0 => b[used_ports'[q]] = q
    BY <1>1, <1>2 DEF Belongs
  <2> QED
    BY <1>1, <2>1, <2>2, BelongsAny
<1>7. FreshInv'
  <2>1. made \in Nat /\ \A i \in Ids : i \in Nat
    BY <1>1, MadeIsNat DEF TypeInv, Ids
  <2>2. \A i \in Ids : made < i => bound'[i] = bound[i]
    BY <1>2, <2>1
  <2> QED
    BY <2>2 DEF SetupInv, FreshInv
<1>8. ASSUME NEW t \in Streams, at[t] # "none" PROVE RtpPort(t) \in Ports /\ RtcpPort(t) \in Ports
  BY <1>1, <1>8, ConfigOf, ConfigsTyped DEF TypeInv, RtpPort, RtcpPort
<1>9. RtpInv'
  <2>1. ASSUME NEW t \in Streams \ {s}, at[t] # "none", Undisturbed(RtpPort(t)) PROVE RtpFrame(t)
    BY <1>2, <1>8, <2>1 DEF RtpFrame, Undisturbed
  <2> QED
    BY <2>1, RtpStep DEF SetupInv
<1>10. AloneInv'
  BY <1>1, AloneStep DEF SetupInv, Lasts, Step, Creating
<1>11. RemoteInv'
  BY RemoteStep DEF SetupInv
<1>12. OwnerInv'
  <2>1. \A i \in Ids : bound'[i] # 0 /\ ~Disturbed(bound[i])' => bound'[i] = bound[i]
    <3>1. \A i \in Ids : Disturbed(bound[i])' <=> \E d \in disturbed' : d[1] = bound'[i] /\ d[2] # "refused"
      BY DEF Disturbed
    <3>2. \A i \in Ids : Disturbed(bound'[i]) <=> \E d \in disturbed : d[1] = bound'[i] /\ d[2] # "refused"
      BY DEF Disturbed
    <3> QED
      BY <1>2, <3>1, <3>2
  <2> QED
    BY <1>1, <2>1, OwnerStep DEF SetupInv
<1>13. OverlapInv'
  <2>1. to \notin Deleting
    BY DEF Creating, Deleting
  <2> QED
    BY <2>1, OverlapStep DEF SetupInv
<1>14. HeldInv'
  <2> SUFFICES ASSUME NEW j \in Ids, bound'[j] # 0, ~Disturbed(bound[j])' PROVE Held(j)'
    BY DEF HeldInv, Undisturbed
  <2>1. bound'[j] = bound[j] /\ Undisturbed(bound[j]) /\ Held(j)
    <3>1. ~Disturbed(bound'[j])
      BY DEF Disturbed
    <3> QED
      BY <1>2, <3>1 DEF SetupInv, HeldInv, Undisturbed
  <2>2. \A t \in Streams : /\ at'[t] \in Creating <=> at[t] \in Creating
                           /\ at'[t] \in Deleting <=> at[t] \in Deleting
                           /\ PortsOf(Config(t))' = PortsOf(Config(t))
    <3>1. \A t \in Streams \ {s} : at'[t] = at[t] /\ Config(t)' = Config(t)
      BY DEF Step, Same
    <3>2. at[s] = from /\ at'[s] = to /\ Config(s)' = Config(s)
      BY DEF Step
    <3>3. from \notin Deleting /\ to \notin Deleting
      BY DEF Creating, Deleting
    <3>4. \A t \in Streams : PortsOf(Config(t))' = PortsOf(Config(t))
      BY <3>1, <3>2 DEF PortsOf
    <3>5. \A t \in Streams : /\ at'[t] \in Creating <=> at[t] \in Creating
                             /\ at'[t] \in Deleting <=> at[t] \in Deleting
      BY <3>1, <3>2, <3>3
    <3> QED
      BY <3>4, <3>5
  <2>3. Kept(j)' = Kept(j)
    BY DEF Kept
  <2>4. used_ports'[bound[j]] = used_ports[bound[j]]
    BY <1>1, <1>2, <2>1 DEF TypeInv, FactoryInv, Undisturbed
  <2>5. \A t \in Streams : Holds(t, j)' => Holds(t, j) \/ used_ports[bound[j]] = j
    <3>1. bound[j] = b[j]
      BY <1>1, <2>1 DEF Belongs
    <3> QED
      BY <3>1 DEF Step, Same, Holds
  <2> QED
    BY <2>1, <2>2, <2>3, <2>4, <2>5 DEF Held
<1>15. RegInv'
  <2> SUFFICES ASSUME NEW r \in Ids, readers[r].port # 0, ~Disturbed(readers[r].port)
               PROVE  used_ports'[readers[r].port] = r
    BY <1>3 DEF SetupInv, RegInv, Undisturbed
  <2>1. readers[r].port \in Ports
    BY <1>1 DEF TypeInv, FactoryInv, Readers
  <2> QED
    BY <1>2, <2>1 DEF SetupInv, RegInv, Undisturbed
<1>16. RtcpInv'
  <2>1. ASSUME NEW t \in Streams \ {s}, at[t] # "none", Own(t), Undisturbed(RtcpPort(t)), Rtcp(t)
        PROVE  RtcpFrame(t)
    BY <1>2, <1>8, <2>1 DEF RtcpFrame, Undisturbed
  <2> QED
    BY <2>1, RtcpStep DEF SetupInv
<1> QED
  BY <1>4, <1>5, <1>6, <1>7, <1>9, <1>10, <1>11, <1>12, <1>13, <1>14, <1>15, <1>16 DEF SetupInv

LEMMA BindStep ==
    ASSUME NEW b, SetupInv(b), NegotiationInv', NEW s \in Streams, NEW from \in Creating,
           NEW to \in Creating, Step(s, from, to), NEW p, NEW k,
           \/ UNCHANGED <<bound, used_ports>>
           \/ /\ p \in Ports /\ Disturbed(p) /\ k \in Ids /\ k <= made /\ b[k] = p
              /\ used_ports[p] = 0
              /\ bound' = [bound EXCEPT ![k] = p] /\ used_ports' = [used_ports EXCEPT ![p] = k],
           UNCHANGED <<made, used_sockets, reception_flows>>,
           UNCHANGED <<readers, flow, sock, flow_of, remote, disturbed>>, zrtp' = zrtp,
           Shape(s)', rtcp'[s].sock = rtcp[s].sock,
           rtcp'[s].reader # 0 => b[rtcp'[s].reader] = RtcpPort(s),
           Installed(s) => Installed(s)',
           Undisturbed(RtpPort(s))' => Rtp(s)',
           Own(s) /\ Undisturbed(RtcpPort(s))' => Rtcp(s)'
    PROVE  SetupInv(b)'
<1>1. \A x \in Ids : Holds(s, x)' => Holds(s, x) \/ used_ports[b[x]] = x
  BY DEF Holds
<1>2. sock'[s] # 0 => b[sock'[s]] = RtpPort(s)
  BY DEF SetupInv, Belongs
<1>3. UNCHANGED <<readers, flow, flow_of, remote, disturbed>>
  OBVIOUS
<1> QED
  BY <1>1, <1>2, <1>3, FindStep

LEMMA ConnectKeeps ==
    ASSUME NEW b, SetupInv(b), NegotiationInv', NEW s \in Streams, Connect(s)
    PROVE  SetupInv(b)'
<1> SUFFICES ASSUME NEW p, p = RtpPort(s), NEW k, k = sock[s]
             PROVE  SetupInv(b)'
  OBVIOUS
<1>1. /\ Goes(s, "connect", "flow")
      /\ UNCHANGED <<life, scenario, made, used_sockets, reception_flows, readers, flow, disturbed>>
      /\ UNCHANGED <<sock, flow_of, remote, rtcp>> /\ zrtp' = zrtp
      /\ Bind(k, p) \/ UNCHANGED <<bound, used_ports>>
      /\ "connect" \in Steps \ {"none"} /\ "flow" \in Steps
      /\ "connect" \in Creating /\ "flow" \in Creating
  BY DEF Connect, stream, ghosts, Steps, Creating, RtpPort
<1>2. TypeInv /\ ShapeInv /\ Belongs(b)
  BY DEF SetupInv, NegotiationInv
<1>3. Step(s, "connect", "flow")
  BY <1>1, <1>2, StepOf DEF SetupInv
<1>4. /\ Shape(s) /\ Own(s)' = Own(s) /\ at[s] = "connect" /\ at'[s] = "flow" /\ Config(s) \in Configs
      /\ RtcpPort(s)' = RtcpPort(s) /\ RtpPort(s)' = p
  BY <1>2, <1>3 DEF ShapeInv, Step, Own, RtcpPort, RtpPort
<1>5. /\ ~Attached(s)' /\ ~Installed(s) /\ ~Installed(s)' /\ ~Reads(s)' /\ ~Lasts(s)'
      /\ "flow" \notin WithMedia \cup Up \cup Reading
  BY <1>4 DEF Attached, Installed, Reads, InFlow, WithMedia, Reading, Up, Leaving, Lasts
<1>6. Shape(s)'
  BY <1>1, <1>4, <1>5 DEF Shape, BeforeRtcp, InFlow, WithMedia, Reading, Up
<1>7. p \in Ports /\ k \in Ids /\ k <= made /\ k # 0 /\ b[k] = p
  <2>1. k \in 0 .. made /\ k # 0 /\ made \in Nat /\ made <= MaxSockets /\ MaxSockets \in Nat
    BY <1>2, <1>4, MadeIsNat, MaxIsNat DEF TypeInv, StreamInv
  <2>2. p \in Ports
    BY <1>4, ConfigsTyped DEF RtpPort
  <2>3. k \in Ids
    BY <2>1 DEF Ids
  <2> QED
    BY <1>2, <2>1, <2>2, <2>3, Holder
<1>8. Undisturbed(p) => used_ports[p] = k /\ Rtp(s)
  BY <1>4 DEF SetupInv, RtpInv, Rtp
<1>9. \/ UNCHANGED <<bound, used_ports>>
      \/ /\ p \in Ports /\ Disturbed(p) /\ k \in Ids /\ k <= made /\ b[k] = p
         /\ used_ports[p] = 0
         /\ bound' = [bound EXCEPT ![k] = p] /\ used_ports' = [used_ports EXCEPT ![p] = k]
  BY <1>1, <1>7, <1>8 DEF Bind, Undisturbed
<1>10. ASSUME Undisturbed(RtpPort(s))' PROVE Rtp(s)'
  <2>1. Undisturbed(p)
    BY <1>1, <1>4, <1>10 DEF Undisturbed, Disturbed
  <2>2. used_ports' = used_ports /\ Needs(s)' = {}
    BY <1>4, <1>5, <1>9, <2>1 DEF Undisturbed, Needs, Up
  <2> QED
    BY <1>1, <1>4, <1>5, <1>7, <1>8, <2>1, <2>2 DEF Rtp, Lasts
<1>11. Own(s) /\ Undisturbed(RtcpPort(s))' => Rtcp(s)'
  BY <1>1, <1>4, <1>5 DEF Rtcp, Shape, NoRtcp
<1>12. rtcp'[s].sock = rtcp[s].sock /\ (rtcp'[s].reader # 0 => b[rtcp'[s].reader] = RtcpPort(s))
  BY <1>1, <1>2 DEF Belongs
<1> QED
  BY <1>1, <1>3, <1>5, <1>6, <1>9, <1>10, <1>11, <1>12, BindStep

LEMMA RtcpStartKeeps ==
    ASSUME NEW b, SetupInv(b), NegotiationInv', NEW s \in Streams, RtcpStart(s)
    PROVE  SetupInv(b)'
<1> SUFFICES ASSUME NEW p, p = RtcpPort(s), NEW k, k = rtcp[s].sock,
                    NEW mux, mux = (Config(s).rtcp = "mux"),
                    NEW fails, fails = (~mux /\ BindFails(k, p)),
                    NEW to, to = IF mux \/ fails THEN "start" ELSE "reader_start"
             PROVE  SetupInv(b)'
  OBVIOUS
<1>1. /\ Goes(s, "rtcp_start", to)
      /\ UNCHANGED <<life, scenario, made, used_sockets, reception_flows, readers, flow, disturbed>>
      /\ UNCHANGED <<sock, flow_of, remote>> /\ zrtp' = zrtp
      /\ "rtcp_start" \in Steps \ {"none"} /\ to \in Steps
      /\ "rtcp_start" \in Creating /\ to \in Creating /\ to \in {"start", "reader_start"}
  BY DEF RtcpStart, ghosts, Steps, Creating, RtcpPort
<1>2. /\ mux => rtcp' = [rtcp EXCEPT ![s].state = "active"] /\ UNCHANGED <<bound, used_ports>>
      /\ ~mux => /\ \E r \in get_rtcp_reader(p) \cup {0} :
                        /\ r = 0 => fails /\ get_rtcp_reader(p) = {}
                        /\ rtcp' = [rtcp EXCEPT ![s].state = "active", ![s].reader = r]
                 /\ Bind(k, p)
  BY DEF RtcpStart, RtcpPort
<1>3. TypeInv /\ ShapeInv /\ Belongs(b)
  BY DEF SetupInv, NegotiationInv
<1>4. /\ rtcp'[s].sock = k /\ \A t \in Streams \ {s} : rtcp'[t] = rtcp[t]
      /\ mux => rtcp'[s].reader = rtcp[s].reader
      /\ ~mux => \/ fails /\ rtcp'[s].reader = 0
                 \/ rtcp'[s].reader \in get_rtcp_reader(p)
  BY <1>2, <1>3 DEF TypeInv, StreamInv, Rtcps
<1>5. Step(s, "rtcp_start", to)
  BY <1>1, <1>3, <1>4, StepOf DEF SetupInv
<1>6. /\ Shape(s) /\ Own(s)' = Own(s) /\ at[s] = "rtcp_start" /\ at'[s] = to /\ Config(s) \in Configs
      /\ RtcpPort(s)' = p /\ RtpPort(s)' = RtpPort(s)
  BY <1>3, <1>5 DEF ShapeInv, Step, Own, RtcpPort, RtpPort
<1>7. /\ Attached(s) /\ Attached(s)' /\ Installed(s) /\ Installed(s)' /\ Reads(s) /\ Reads(s)'
      /\ ~Lasts(s)' /\ to \notin Up /\ flow_of[s] # 0
      /\ (Own(s) \/ mux) /\ (mux => ~Own(s))
  BY <1>1, <1>6 DEF Attached, Installed, Reads, InFlow, WithMedia, Reading, Up, Lasts, Own, Shape
<1>8. p \in Ports /\ RtpPort(s) \in Ports /\ p # RtpPort(s) /\ p # 0
  <2>1. Config(s).port \in Ports /\ Config(s).port + 1 \in Ports /\ Config(s).port \in Nat
    BY <1>6, ConfigsTyped, SetupAssumption
  <2> QED
    BY <2>1, SetupAssumption DEF RtcpPort, RtpPort
<1>9. Own(s) = ~mux
  BY <1>6, <1>7 DEF Own
<1>10. ~mux => k \in Ids /\ k <= made /\ k # 0 /\ b[k] = p
  <2>1. k \in 0 .. made /\ (~mux => k # 0) /\ made \in Nat /\ made <= MaxSockets /\ MaxSockets \in Nat
    BY <1>3, <1>6, MadeIsNat, MaxIsNat DEF TypeInv, StreamInv, Rtcps
  <2>2. ~mux => k \in Ids
    BY <2>1 DEF Ids
  <2>3. k \in Ids /\ Own(s) => b[k] = p
    BY <1>3, Holder
  <2>4. k <= made
    BY <2>1
  <2> QED
    BY <1>9, <2>1, <2>2, <2>3, <2>4
<1>11. ASSUME ~mux, Undisturbed(p)
       PROVE  Rtcp(s) /\ used_ports[p] = k /\ ~fails /\ rtcp'[s].reader = k
  <2>1. Rtcp(s) /\ used_ports[p] = k
    BY <1>6, <1>7, <1>9, <1>11 DEF SetupInv, RtcpInv, Rtcp
  <2>2. ~fails
    BY <1>10, <1>11, <2>1 DEF BindFails
  <2>3. rtcp'[s].reader \in Ids /\ readers[rtcp'[s].reader].port = p
    BY <1>4, <1>11, <2>2 DEF get_rtcp_reader
  <2> QED
    BY <1>8, <1>11, <2>1, <2>2, <2>3 DEF SetupInv, RegInv
<1>12. \/ UNCHANGED <<bound, used_ports>>
       \/ /\ p \in Ports /\ Disturbed(p) /\ k \in Ids /\ k <= made /\ b[k] = p
          /\ used_ports[p] = 0
          /\ bound' = [bound EXCEPT ![k] = p] /\ used_ports' = [used_ports EXCEPT ![p] = k]
  BY <1>2, <1>8, <1>10, <1>11 DEF Bind, Undisturbed
<1>13. rtcp'[s].reader # 0 => b[rtcp'[s].reader] = RtcpPort(s) /\ Own(s)
  <2>1. CASE mux
    BY <1>3, <1>4, <1>6, <2>1 DEF Belongs, Shape
  <2>2. CASE ~mux
    BY <1>3, <1>4, <1>8, <1>9, <2>2 DEF Belongs, get_rtcp_reader
  <2> QED BY <2>1, <2>2
<1>14. Shape(s)'
  <2>1. to = "reader_start" => Own(s)
    BY <1>9
  <2> QED
    BY <1>1, <1>4, <1>6, <1>7, <1>13, <2>1 DEF Shape, BeforeRtcp, InFlow, WithMedia, Reading, Up
<1>15. used_ports'[RtpPort(s)] = used_ports[RtpPort(s)]
  BY <1>3, <1>8, <1>12 DEF TypeInv, FactoryInv
<1>16. ASSUME Undisturbed(RtpPort(s))' PROVE Rtp(s)'
  <2>1. Undisturbed(RtpPort(s))
    BY <1>1, <1>6, <1>16 DEF Undisturbed, Disturbed
  <2>2. Rtp(s)
    BY <1>7, <2>1, FlowIsBound
  <2>3. Needs(s)' \subseteq Needs(s)
    <3>1. to # "up" /\ "rtcp_start" \in WithMedia
      BY <1>1 DEF WithMedia, Reading
    <3> QED
      BY <1>5, <1>6, <1>7, <3>1, NeedsStep DEF Step
  <2> QED
    BY <1>1, <1>6, <1>7, <1>15, <2>2, <2>3 DEF Rtp, Lasts
<1>17. ASSUME Own(s), Undisturbed(RtcpPort(s))' PROVE Rtcp(s)'
  <2>1. Undisturbed(p) /\ ~mux
    BY <1>1, <1>6, <1>9, <1>17 DEF Undisturbed, Disturbed
  <2>2. Rtcp(s) /\ used_ports[p] = k /\ rtcp'[s].reader = k /\ to = "reader_start" /\ Me(s)' = Me(s)
    BY <1>5, <1>11, <2>1 DEF Step
  <2>3. used_ports' = used_ports
    BY <1>12, <2>1 DEF Undisturbed
  <2> QED
    BY <1>1, <1>4, <1>6, <1>7, <1>10, <2>1, <2>2, <2>3 DEF Rtcp
<1>18. /\ NegotiationInv' /\ (Installed(s) => Installed(s)') /\ rtcp'[s].sock = rtcp[s].sock
       /\ (rtcp'[s].reader # 0 => b[rtcp'[s].reader] = RtcpPort(s))
  BY <1>4, <1>7, <1>13
<1> QED
  BY <1>1, <1>5, <1>12, <1>14, <1>16, <1>17, <1>18, BindStep

\* The next socket may come to belong to any port.
LEMMA NextSocket ==
    ASSUME NEW b, SetupInv(b), made < MaxSockets, NEW p \in Ports,
           NEW n, n = made + 1, NEW c, c = [b EXCEPT ![n] = p]
    PROVE  SetupInv(c) /\ n \in Ids /\ c[n] = p
<1>1. /\ TypeInv /\ FreshInv /\ Belongs(b) /\ made \in Nat /\ b \in [Ids -> Nat] /\ MaxSockets \in Nat
  BY MadeIsNat, MaxIsNat DEF SetupInv, NegotiationInv, TypeInv
<1>2. n \in Ids /\ n \notin 0 .. made /\ n # 0
  BY <1>1 DEF Ids
<1>3. c[n] = p /\ \A i \in Ids : i # n => c[i] = b[i]
  BY <1>1, <1>2
<1>4. c \in [Ids -> Nat]
  BY <1>1, <1>2, SetupAssumption
<1>5. \A i : i \in 0 .. made /\ i # 0 => i \in Ids /\ c[i] = b[i]
  BY <1>1, <1>2, <1>3 DEF Ids
<1>6. Belongs(c)
  <2>1. \A i \in Ids : bound[i] \in {0, c[i]} /\ readers[i].port \in {0, c[i]}
    <3>1. bound[n] = 0 /\ readers[n].port = 0
      <4>1. ~(n <= made) /\ made < n
        BY <1>1
      <4> QED
        BY <1>1, <1>2, <4>1 DEF FreshInv, TypeInv, FactoryInv
    <3> QED
      BY <1>1, <1>3, <3>1 DEF Belongs
  <2>2. \A q \in Ports : used_ports[q] # 0 => c[used_ports[q]] = q
    BY <1>1, <1>5 DEF Belongs, TypeInv, FactoryInv
  <2>3. \A r \in Ids : readers[r].port # 0 /\ readers[r].sock # 0 => c[readers[r].sock] = readers[r].port
    <3>1. \A r \in Ids : readers[r].sock \in 0 .. made
      BY <1>1 DEF TypeInv, FactoryInv, Readers
    <3> QED
      BY <1>1, <1>5, <3>1 DEF Belongs
  <2>4. \A s \in Streams : /\ sock[s] \in 0 .. made /\ flow_of[s] \in 0 .. made
                           /\ rtcp[s].sock \in 0 .. made /\ rtcp[s].reader \in 0 .. made
    BY <1>1 DEF TypeInv, StreamInv, Rtcps
  <2>5. \A s \in Streams : /\ sock[s] # 0 => c[sock[s]] = RtpPort(s)
                           /\ flow_of[s] # 0 => c[flow_of[s]] = RtpPort(s)
                           /\ rtcp[s].reader # 0 => c[rtcp[s].reader] = RtcpPort(s)
    BY <1>1, <1>5, <2>4 DEF Belongs
  <2>6. \A s \in Streams : rtcp[s].sock # 0 => c[rtcp[s].sock] = IF Own(s) THEN RtcpPort(s) ELSE RtpPort(s)
    BY <1>1, <1>5, <2>4 DEF Belongs
  <2> QED
    BY <2>1, <2>2, <2>3, <2>5, <2>6 DEF Belongs
<1> QED
  BY <1>2, <1>3, <1>4, <1>6 DEF SetupInv

\* A socket of a port that is not disturbed is let go where none is entered for the port.
LEMMA NobodyHolds ==
    ASSUME NEW b, SetupInv(b), NEW s \in Streams, at[s] \in Creating,
           NEW p \in PortsOf(Config(s)), used_ports[p] = 0, Undisturbed(p),
           NEW j \in Ids, bound[j] = p
    PROVE  ~Kept(j) /\ ~Open(j) /\ zrtp.socket # j /\ ~flow[j].active
           /\ \A x \in Streams : ~Holds(x, j)
<1>1. TypeInv /\ at[s] # "none" /\ j # 0
  BY DEF SetupInv, NegotiationInv, Creating, Ids
<1>2. p \in Ports /\ p # 0
  BY <1>1, ConfigOf, ConfigsTyped, SetupAssumption DEF TypeInv
<1>3. Held(j)
  BY <1>2 DEF SetupInv, HeldInv
<1>4. ~Kept(j) /\ \A x \in Streams : ~Holds(x, j)
  BY <1>1, <1>3 DEF Held
<1>5. \A q \in Ports : used_ports[q] # j
  <2>1. \A q \in Ports : used_ports[q] = j => bound[j] = q
    BY <1>1 DEF TypeInv, FactoryInv
  <2> QED
    BY <1>1, <2>1
<1>6. ~Open(j)
  BY <1>4, <1>5 DEF Open, Kept, Holds
<1> QED
  BY <1>4, <1>6 DEF Kept

\* What the factory does for a new socket; where nothing is disturbed it is bound.
LEMMA NewSocket ==
    ASSUME NEW b, SetupInv(b), NEW s \in Streams, at[s] \in Creating,
           NEW p \in PortsOf(Config(s)), used_ports[p] = 0, NEW type \in {1, 2},
           create_new_socket(type, p), NEW n, n = made + 1
    PROVE  /\ n \in Ids /\ made' = n /\ n \notin 0 .. made /\ n # 0 /\ p \in Ports /\ p # 0
           /\ \A i \in Ids : n < i => made < i
           /\ used_sockets' = used_sockets \cup {n}
           /\ reception_flows' = IF type = 2 THEN reception_flows \cup {n} ELSE reception_flows
           /\ \A q \in Ports \ {p} : used_ports'[q] = used_ports[q]
           /\ \A j \in Ids \ {n} : bound'[j] = bound[j] /\ readers'[j] = readers[j]
           /\ bound[n] = 0 /\ bound'[n] \in {0, p} /\ used_ports'[p] \in {0, n}
           /\ bound'[n] # 0 => used_ports'[p] = n
           /\ Undisturbed(p) => used_ports'[p] = n
           /\ readers'[n].port = (IF type = 1 THEN p ELSE 0) /\ readers'[n].sock = 0
           /\ readers'[n].members = readers[n].members
           /\ readers'[n].active = readers[n].active /\ readers'[n].thread = readers[n].thread
           /\ flow[n].handlers = {} /\ ~flow[n].active /\ zrtp.socket # n
           /\ n \notin reception_flows
<1>1. /\ made < MaxSockets /\ made' = made + 1
      /\ used_sockets' = used_sockets \cup {n}
      /\ Bind(n, p)
      /\ reception_flows' = IF type = 2 THEN reception_flows \cup {n} ELSE reception_flows
      /\ readers' = IF type = 1 THEN [readers EXCEPT ![n].port = p] ELSE readers
  BY DEF create_new_socket
<1>2. TypeInv /\ FreshInv /\ made \in Nat /\ MaxSockets \in Nat /\ at[s] # "none"
  BY MadeIsNat, MaxIsNat DEF SetupInv, NegotiationInv, TypeInv, Creating
<1>3. /\ n \in Ids /\ made' = n /\ n \notin 0 .. made /\ n # 0 /\ made < n /\ ~(n <= made)
      /\ \A i \in Ids : n < i => made < i
  BY <1>1, <1>2 DEF Ids
<1>4. p \in Ports /\ p # 0
  BY <1>2, ConfigOf, ConfigsTyped, SetupAssumption DEF TypeInv
<1>5. /\ bound[n] = 0 /\ flow[n].handlers = {} /\ ~flow[n].active /\ readers[n].sock = 0
      /\ readers[n].port = 0 /\ zrtp.socket # n /\ n \notin reception_flows
  BY <1>2, <1>3 DEF FreshInv, TypeInv, FactoryInv
<1>6. /\ \A j \in Ids \ {n} : readers'[j] = readers[j]
      /\ readers'[n].port = (IF type = 1 THEN p ELSE 0) /\ readers'[n].sock = 0
      /\ readers'[n].members = readers[n].members
      /\ readers'[n].active = readers[n].active /\ readers'[n].thread = readers[n].thread
  BY <1>1, <1>2, <1>3, <1>5 DEF TypeInv, FactoryInv, Readers
<1>7. Undisturbed(p) => Binds(n, p)
  BY <1>5, NobodyHolds DEF Binds
<1>8. CASE Binds(n, p)
  <2>1. bound' = [bound EXCEPT ![n] = p] /\ used_ports' = [used_ports EXCEPT ![p] = n]
    BY <1>1, <1>8 DEF Bind
  <2>2. bound'[n] = p /\ used_ports'[p] = n
    BY <1>2, <1>3, <1>4, <2>1 DEF TypeInv, FactoryInv
  <2>3. /\ \A q \in Ports \ {p} : used_ports'[q] = used_ports[q]
        /\ \A j \in Ids \ {n} : bound'[j] = bound[j]
    BY <1>2, <2>1 DEF TypeInv, FactoryInv
  <2> QED
    BY <1>1, <1>3, <1>4, <1>5, <1>6, <2>2, <2>3
<1>9. CASE ~Binds(n, p)
  <2>1. bound' = bound /\ used_ports' = used_ports
    BY <1>1, <1>9 DEF Bind
  <2> QED
    BY <1>1, <1>3, <1>4, <1>5, <1>6, <1>7, <1>9, <2>1
<1> QED
  BY <1>8, <1>9

LEMMA CreateStep ==
    ASSUME NEW b, SetupInv(b), NegotiationInv', NEW s \in Streams, NEW from \in Creating,
           NEW to \in Creating, Step(s, from, to), NEW p \in PortsOf(Config(s)),
           used_ports[p] = 0, NEW type \in {1, 2}, create_new_socket(type, p),
           NEW n, n = made + 1, b[n] = p,
           UNCHANGED <<flow, flow_of, remote, disturbed>>, zrtp' = zrtp, Shape(s)',
           sock'[s] = sock[s] \/ (sock'[s] = n /\ p = RtpPort(s)),
           rtcp'[s].sock = rtcp[s].sock \/ (rtcp'[s].sock = n /\ Own(s) /\ p = RtcpPort(s)),
           rtcp'[s].reader = rtcp[s].reader,
           Installed(s) => Installed(s)',
           Undisturbed(RtpPort(s))' => Rtp(s)',
           Own(s) /\ Undisturbed(RtcpPort(s))' => Rtcp(s)'
    PROVE  SetupInv(b)'
<1>1. /\ TypeInv /\ ShapeInv /\ Belongs(b) /\ FreshInv /\ at[s] \in Creating
  BY DEF SetupInv, NegotiationInv, Step
<1>2. /\ n \in Ids /\ made' = n /\ n \notin 0 .. made /\ n # 0 /\ p \in Ports /\ p # 0
      /\ \A i \in Ids : n < i => made < i
      /\ used_sockets' = used_sockets \cup {n}
      /\ reception_flows' = IF type = 2 THEN reception_flows \cup {n} ELSE reception_flows
  BY <1>1, NewSocket
<1>3. /\ \A q \in Ports \ {p} : used_ports'[q] = used_ports[q]
      /\ \A j \in Ids \ {n} : bound'[j] = bound[j] /\ readers'[j] = readers[j]
      /\ bound[n] = 0 /\ bound'[n] \in {0, p} /\ used_ports'[p] \in {0, n}
      /\ bound'[n] # 0 => used_ports'[p] = n
      /\ Undisturbed(p) => used_ports'[p] = n
  BY <1>1, NewSocket
<1>4. /\ readers'[n].port = (IF type = 1 THEN p ELSE 0) /\ readers'[n].sock = 0
      /\ readers'[n].members = readers[n].members
      /\ readers'[n].active = readers[n].active /\ readers'[n].thread = readers[n].thread
      /\ flow[n].handlers = {} /\ ~flow[n].active /\ zrtp.socket # n /\ n \notin reception_flows
  BY <1>1, NewSocket
<1>5. readers[n].sock = 0 /\ readers[n].port = 0
  BY <1>1, <1>2 DEF FreshInv, TypeInv, FactoryInv, Ids
<1>6. \A q : Disturbed(q)' <=> Disturbed(q)
  BY DEF Disturbed
<1>7. FlowsInv'
  BY DEF SetupInv, FlowsInv
<1>8. RunsInv'
  <2>1. made \in Nat /\ n = made + 1 /\ ~readers[n].active
    BY <1>1, <1>2, MadeIsNat DEF TypeInv, SetupInv, RunsInv
  <2>2. ASSUME NEW r \in Ids, readers'[r].active
        PROVE  /\ r <= made /\ readers'[r] = readers[r]
               /\ readers[r].thread \/ readers[r].port = 0 \/ Disturbed(readers[r].port)
    BY <1>3, <1>4, <2>1, <2>2 DEF SetupInv, RunsInv
  <2>3. \A r \in Ids : r <= made => r <= made'
    BY <1>2, <2>1 DEF Ids
  <2> QED
    BY <2>2, <2>3 DEF RunsInv, Disturbed
<1>9. ShapeInv'
  BY <1>1, ShapeStep
<1>10. Belongs(b)'
  <2>1. \A i \in Ids : bound'[i] \in {0, b[i]}
    BY <1>1, <1>3 DEF Belongs
  <2>2. \A q \in Ports : used_ports'[q] # 0 => b[used_ports'[q]] = q
    BY <1>1, <1>3 DEF Belongs
  <2>3. sock'[s] # 0 => b[sock'[s]] = RtpPort(s)
    BY <1>1 DEF Belongs
  <2>4. \A r \in Ids : /\ \/ readers'[r].port \in {0, readers[r].port}
                          \/ readers'[r].port = b[r] /\ readers'[r].sock = 0
                       /\ readers'[r].sock = readers[r].sock
    BY <1>3, <1>4, <1>5
  <2>5. rtcp'[s].reader # 0 => b[rtcp'[s].reader] = RtcpPort(s)
    BY <1>1 DEF Belongs
  <2>6. rtcp'[s].sock = rtcp[s].sock \/ (Own(s) /\ b[rtcp'[s].sock] = RtcpPort(s))
    OBVIOUS
  <2> QED
    BY <1>1, <2>1, <2>2, <2>3, <2>4, <2>5, <2>6, BelongsAny
<1>11. FreshInv'
  <2>1. zrtp.socket \in 0 .. made'
    BY <1>1, <1>2, MadeIsNat DEF FreshInv, TypeInv
  <2>2. \A i \in Ids : made' < i => i # n /\ made < i
    BY <1>1, <1>2, MadeIsNat DEF TypeInv, Ids
  <2> QED
    BY <1>1, <1>3, <2>1, <2>2 DEF FreshInv
<1>12. ASSUME NEW t \in Streams, at[t] # "none" PROVE RtpPort(t) \in Ports /\ RtcpPort(t) \in Ports
  BY <1>1, <1>12, ConfigOf, ConfigsTyped DEF TypeInv, RtpPort, RtcpPort
<1>13. RtpInv'
  <2>1. ASSUME NEW t \in Streams \ {s}, at[t] # "none" PROVE RtpFrame(t)
    BY <1>2, <1>3, <1>12, <2>1 DEF RtpFrame
  <2> QED
    BY <2>1, RtpStep DEF SetupInv
<1>14. AloneInv'
  BY <1>1, AloneStep DEF SetupInv, Lasts, Step, Creating
<1>15. RemoteInv'
  BY RemoteStep DEF SetupInv
<1>16. OwnerInv'
  <2>1. \A i \in Ids : bound'[i] = bound[i] \/ flow'[i].handlers = {}
    BY <1>3, <1>4
  <2> QED
    BY <1>1, <2>1, OwnerStep DEF SetupInv
<1>17. OverlapInv'
  <2>1. to \notin Deleting
    BY DEF Creating, Deleting
  <2> QED
    BY <2>1, OverlapStep DEF SetupInv
<1>18. HeldInv'
  <2> SUFFICES ASSUME NEW j \in Ids, bound'[j] # 0, ~Disturbed(bound[j])' PROVE Held(j)'
    BY DEF HeldInv, Undisturbed
  <2>1. ~Disturbed(bound'[j])
    BY DEF Disturbed
  <2>2. CASE j = n
    <3>1. used_ports'[bound'[j]] = j
      BY <1>3, <2>2
    <3> QED
      BY <1>4, <2>2, <3>1 DEF Held
  <2>3. CASE j # n
    <3>1. /\ bound'[j] = bound[j] /\ Undisturbed(bound[j]) /\ Held(j) /\ bound[j] \in Ports
      BY <1>1, <1>3, <2>1, <2>3 DEF SetupInv, HeldInv, Undisturbed, TypeInv, FactoryInv
    <3>2. Kept(j)' => Kept(j)
      BY <1>2, <1>3, <1>4, <2>3 DEF Kept, Ids
    <3>3. \A t \in Streams : Holds(t, j)' => Holds(t, j)
      BY <2>3 DEF Step, Same, Holds
    <3>4. \A t \in Streams : /\ at'[t] \in Creating <=> at[t] \in Creating
                             /\ at'[t] \in Deleting <=> at[t] \in Deleting
                             /\ PortsOf(Config(t))' = PortsOf(Config(t))
      BY DEF Step, Same, PortsOf, Creating, Deleting
    <3>5. CASE bound[j] # p
      <4>1. used_ports'[bound[j]] = used_ports[bound[j]]
        BY <1>3, <3>1, <3>5
      <4> QED
        BY <1>2, <3>1, <3>2, <3>3, <3>4, <4>1 DEF Held
    <3>6. CASE bound[j] = p
      <4>1. /\ ~Kept(j) /\ zrtp.socket # j /\ ~flow[j].active /\ \A x \in Streams : ~Holds(x, j)
        BY <1>1, <3>1, <3>6, NobodyHolds
      <4> QED
        BY <3>2, <3>3, <4>1 DEF Held
    <3> QED BY <3>5, <3>6
  <2> QED BY <2>2, <2>3
<1>19. RegInv'
  <2> SUFFICES ASSUME NEW r \in Ids, readers'[r].port # 0
               PROVE  /\ r \notin reception_flows'
                      /\ ~Disturbed(readers'[r].port) => used_ports'[readers'[r].port] = r
    BY <1>6 DEF RegInv, Undisturbed, Disturbed
  <2>1. CASE r = n
    BY <1>2, <1>3, <1>4, <2>1 DEF Undisturbed
  <2>2. CASE r # n
    <3>1. readers'[r].port = readers[r].port /\ readers[r].port \in Ports /\ r # 0
      BY <1>1, <1>3, <2>2 DEF TypeInv, FactoryInv, Readers, Ids
    <3>2. r \notin reception_flows /\ (~Disturbed(readers[r].port) => used_ports[readers[r].port] = r)
      BY <3>1 DEF SetupInv, RegInv, Undisturbed
    <3>3. ~Disturbed(readers[r].port) => readers[r].port # p
      BY <3>1, <3>2
    <3> QED
      BY <1>2, <1>3, <2>2, <3>1, <3>2, <3>3
  <2> QED BY <2>1, <2>2
<1>20. RtcpInv'
  <2>1. ASSUME NEW t \in Streams \ {s}, at[t] # "none", Own(t), Undisturbed(RtcpPort(t)), Rtcp(t)
        PROVE  RtcpFrame(t)
    <3>1. Reads(t) \/ at[t] \in {"reader_check", "clear_rtcp"} => rtcp[t].sock \in Ids \ {n}
      <4>1. rtcp[t].sock \in 0 .. made
        BY <1>1 DEF TypeInv, StreamInv, Rtcps
      <4> QED
        BY <1>1, <1>2, <2>1, <4>1, ReaderIds
    <3>2. used_ports'[RtcpPort(t)] = used_ports[RtcpPort(t)] \/ RtcpPort(t) = p
      BY <1>3, <1>12, <2>1
    <3>3. ASSUME RtcpPort(t) = p PROVE at[t] \notin {"reader_check", "clear_rtcp"}
      <4> SUFFICES ASSUME at[t] \in {"reader_check", "clear_rtcp"} PROVE FALSE
        OBVIOUS
      <4>1. flow_of[t] # 0 /\ at[t] \in Deleting /\ p \in PortsOf(Config(t))
        BY <1>1, <2>1, <3>3 DEF ShapeInv, Shape, Deleting, PortsOf, Own, RtcpPort
      <4> QED
        BY <1>1, <2>1, <3>3, <4>1 DEF SetupInv, OverlapInv, Undisturbed
    <3> QED
      BY <1>3, <3>1, <3>2, <3>3 DEF RtcpFrame, Reads, Reading, Up
  <2> QED
    BY <2>1, RtcpStep DEF SetupInv
<1> QED
  BY <1>7, <1>8, <1>9, <1>10, <1>11, <1>13, <1>14, <1>15, <1>16, <1>17, <1>18, <1>19, <1>20 DEF SetupInv

LEMMA GetSocketKeeps ==
    ASSUME NEW b, SetupInv(b), NegotiationInv', NEW s \in Streams, GetSocket(s)
    PROVE  \E c : SetupInv(c)'
<1> SUFFICES ASSUME NEW p, p = RtpPort(s), NEW n, n = made + 1
             PROVE  \E c : SetupInv(c)'
  OBVIOUS
<1>1. /\ Goes(s, "socket", "connect")
      /\ UNCHANGED <<life, scenario, disturbed>>
      /\ UNCHANGED <<flow, flow_of, remote, rtcp, disturbed>> /\ zrtp' = zrtp
      /\ get_socket_ptr(2, p) /\ sock' = [sock EXCEPT ![s] = SocketOf(p)]
      /\ "socket" \in Steps \ {"none"} /\ "connect" \in Steps
      /\ "socket" \in Creating /\ "connect" \in Creating
  BY DEF GetSocket, ghosts, Steps, Creating, RtpPort
<1>2. TypeInv /\ ShapeInv /\ Belongs(b)
  BY DEF SetupInv, NegotiationInv
<1>3. sock'[s] = SocketOf(p) /\ \A t \in Streams \ {s} : sock'[t] = sock[t]
  BY <1>1, <1>2 DEF TypeInv, StreamInv
<1>4. Step(s, "socket", "connect")
  BY <1>1, <1>2, <1>3, StepOf DEF SetupInv
<1>5. /\ Shape(s) /\ Own(s)' = Own(s) /\ at[s] = "socket" /\ at'[s] = "connect" /\ Config(s) \in Configs
      /\ RtcpPort(s)' = RtcpPort(s) /\ RtpPort(s)' = p
  BY <1>2, <1>4 DEF ShapeInv, Step, Own, RtcpPort, RtpPort
<1>6. /\ ~Attached(s)' /\ ~Installed(s) /\ ~Installed(s)' /\ ~Reads(s)' /\ ~Lasts(s)'
      /\ "connect" \notin WithMedia \cup Up \cup Reading
  BY <1>5 DEF Attached, Installed, Reads, InFlow, WithMedia, Reading, Up, Leaving, Lasts
<1>7. Shape(s)'
  BY <1>1, <1>5, <1>6 DEF Shape, BeforeRtcp, InFlow, WithMedia, Reading, Up, NoRtcp
<1>8. p \in Ports /\ p \in PortsOf(Config(s)) /\ rtcp[s].reader = 0
  BY <1>5, ConfigsTyped DEF RtpPort, PortsOf, Shape, NoRtcp
<1>9. Own(s) /\ Undisturbed(RtcpPort(s))' => Rtcp(s)'
  BY <1>1, <1>5, <1>6 DEF Rtcp, Shape, NoRtcp
<1>10. ASSUME Undisturbed(p) => used_ports'[p] = SocketOf(p), SocketOf(p) # 0,
              Undisturbed(RtpPort(s))'
       PROVE  Rtp(s)'
  <2>1. Undisturbed(p)
    BY <1>1, <1>5, <1>10 DEF Undisturbed, Disturbed
  <2>2. Needs(s)' = {}
    BY <1>5, <1>6 DEF Needs, Up
  <2> QED
    BY <1>3, <1>5, <1>6, <1>10, <2>1, <2>2 DEF Rtp, Lasts
<1>11. CASE used_ports[p] # 0
  <2>1. SocketOf(p) = used_ports[p] /\ UNCHANGED factory /\ UNCHANGED readers
    BY <1>1, <1>11 DEF SocketOf, get_socket_ptr
  <2>2. /\ UNCHANGED <<bound, used_ports>> /\ UNCHANGED <<made, used_sockets, reception_flows>>
        /\ UNCHANGED <<readers, flow, flow_of, remote, disturbed>>
    BY <1>1, <2>1 DEF factory
  <2>3. b[used_ports[p]] = p
    BY <1>2, <1>8, <1>11 DEF Belongs
  <2>4. \A x \in Ids : Holds(s, x)' => Holds(s, x) \/ used_ports[b[x]] = x
    BY <1>1, <1>3, <2>1, <2>3 DEF Holds
  <2>5. Undisturbed(RtpPort(s))' => Rtp(s)'
    BY <1>10, <1>11, <2>1, <2>2
  <2>6. /\ sock'[s] # 0 => b[sock'[s]] = RtpPort(s)
        /\ rtcp'[s].sock = rtcp[s].sock
        /\ rtcp'[s].reader # 0 => b[rtcp'[s].reader] = RtcpPort(s)
    BY <1>1, <1>3, <1>8, <2>1, <2>3
  <2>7. SetupInv(b)'
    BY <1>1, <1>4, <1>6, <1>7, <1>9, <2>2, <2>4, <2>5, <2>6, FindStep
  <2> QED BY <2>7
<1>12. CASE used_ports[p] = 0
  <2>1. create_new_socket(2, p) /\ SocketOf(p) = n /\ made < MaxSockets
    BY <1>1, <1>12 DEF SocketOf, get_socket_ptr, create_new_socket
  <2>2. PICK c : SetupInv(c) /\ c[n] = p
    BY <1>8, <2>1, NextSocket
  <2>3. n # 0 /\ (Undisturbed(p) => used_ports'[p] = n)
    BY <1>1, <1>5, <1>8, <1>12, <2>1, NewSocket
  <2>4. Undisturbed(RtpPort(s))' => Rtp(s)'
    BY <1>10, <2>1, <2>3
  <2>5. /\ sock'[s] = n /\ p = RtpPort(s) /\ rtcp'[s].sock = rtcp[s].sock
        /\ rtcp'[s].reader = rtcp[s].reader
        /\ UNCHANGED <<flow, flow_of, remote, disturbed>> /\ 2 \in {1, 2}
    BY <1>1, <1>3, <2>1
  <2>6. SetupInv(c)'
    BY <1>1, <1>4, <1>6, <1>7, <1>8, <1>9, <1>12, <2>1, <2>2, <2>4, <2>5, CreateStep
  <2> QED BY <2>6
<1> QED
  BY <1>11, <1>12

LEMMA RtcpSocketKeeps ==
    ASSUME NEW b, SetupInv(b), NegotiationInv', NEW s \in Streams, RtcpSocket(s)
    PROVE  \E c : SetupInv(c)'
<1> SUFFICES ASSUME NEW p, p = RtcpPort(s), NEW n, n = made + 1
             PROVE  \E c : SetupInv(c)'
  OBVIOUS
<1>1. /\ Goes(s, "rtcp_socket", "rtcp_reader")
      /\ UNCHANGED <<life, scenario, disturbed>>
      /\ UNCHANGED <<flow, flow_of, remote, sock>> /\ zrtp' = zrtp
      /\ get_socket_ptr(1, p) /\ rtcp' = [rtcp EXCEPT ![s].sock = SocketOf(p)]
      /\ "rtcp_socket" \in Steps \ {"none"} /\ "rtcp_reader" \in Steps
      /\ "rtcp_socket" \in Creating /\ "rtcp_reader" \in Creating
  BY DEF RtcpSocket, ghosts, Steps, Creating, RtcpPort
<1>2. TypeInv /\ ShapeInv /\ Belongs(b)
  BY DEF SetupInv, NegotiationInv
<1>3. /\ rtcp'[s].sock = SocketOf(p) /\ rtcp'[s].reader = rtcp[s].reader
      /\ \A t \in Streams \ {s} : rtcp'[t] = rtcp[t]
  BY <1>1, <1>2 DEF TypeInv, StreamInv, Rtcps
<1>4. Step(s, "rtcp_socket", "rtcp_reader")
  BY <1>1, <1>2, <1>3, StepOf DEF SetupInv
<1>5. /\ Shape(s) /\ Own(s)' = Own(s) /\ at[s] = "rtcp_socket" /\ at'[s] = "rtcp_reader"
      /\ Config(s) \in Configs /\ RtcpPort(s)' = p /\ RtpPort(s)' = RtpPort(s)
  BY <1>2, <1>4 DEF ShapeInv, Step, Own, RtcpPort, RtpPort
<1>6. /\ Attached(s) /\ Attached(s)' /\ Installed(s) /\ Installed(s)' /\ ~Reads(s)' /\ ~Lasts(s)'
      /\ "rtcp_reader" \notin Up \cup Reading /\ "rtcp_socket" \in WithMedia
  BY <1>5 DEF Attached, Installed, Reads, InFlow, WithMedia, Reading, Up, Leaving, Lasts
<1>7. Own(s) /\ rtcp[s].reader = 0 /\ rtcp[s].sock = 0
  BY <1>5 DEF Shape, BeforeRtcp
<1>8. Shape(s)'
  BY <1>1, <1>3, <1>5, <1>6, <1>7 DEF Shape, BeforeRtcp, InFlow, WithMedia, Reading, Up
<1>9. p \in Ports /\ p \in PortsOf(Config(s)) /\ p # RtpPort(s) /\ RtpPort(s) \in Ports
  <2>1. Config(s).port \in Ports /\ Config(s).port + 1 \in Ports /\ Config(s).port \in Nat
    BY <1>5, ConfigsTyped, SetupAssumption
  <2> QED
    BY <1>7, <2>1 DEF RtcpPort, RtpPort, Own, PortsOf
<1>10. ASSUME used_ports'[RtpPort(s)] = used_ports[RtpPort(s)],
              reception_flows \subseteq reception_flows',
              Undisturbed(RtpPort(s))'
       PROVE  Rtp(s)'
  <2>1. Undisturbed(RtpPort(s))
    BY <1>1, <1>5, <1>10 DEF Undisturbed, Disturbed
  <2>2. Rtp(s)
    BY <1>6, <2>1, FlowIsBound
  <2>3. Needs(s)' \subseteq Needs(s)
    BY <1>4, <1>5, <1>6, NeedsStep DEF Step
  <2> QED
    BY <1>1, <1>5, <1>6, <1>10, <2>2, <2>3 DEF Rtp, Lasts
<1>11. ASSUME Undisturbed(p) => used_ports'[p] = SocketOf(p), SocketOf(p) # 0,
              Undisturbed(RtcpPort(s))'
       PROVE  Rtcp(s)'
  <2>1. Undisturbed(p)
    BY <1>1, <1>5, <1>11 DEF Undisturbed, Disturbed
  <2> QED
    BY <1>3, <1>5, <1>6, <1>7, <1>11, <2>1 DEF Rtcp
<1>12. CASE used_ports[p] # 0
  <2>1. SocketOf(p) = used_ports[p] /\ UNCHANGED factory /\ UNCHANGED readers
    BY <1>1, <1>12 DEF SocketOf, get_socket_ptr
  <2>2. /\ UNCHANGED <<bound, used_ports>> /\ UNCHANGED <<made, used_sockets, reception_flows>>
        /\ UNCHANGED <<readers, flow, flow_of, remote, disturbed>>
    BY <1>1, <2>1 DEF factory
  <2>3. b[used_ports[p]] = p
    BY <1>2, <1>9, <1>12 DEF Belongs
  <2>4. \A x \in Ids : Holds(s, x)' => Holds(s, x) \/ used_ports[b[x]] = x
    BY <1>1, <1>3, <2>1, <2>3 DEF Holds
  <2>5. /\ Undisturbed(RtpPort(s))' => Rtp(s)'
        /\ Own(s) /\ Undisturbed(RtcpPort(s))' => Rtcp(s)'
    BY <1>10, <1>11, <1>12, <2>1, <2>2
  <2>6. /\ sock'[s] # 0 => b[sock'[s]] = RtpPort(s)
        /\ Own(s) /\ b[rtcp'[s].sock] = RtcpPort(s)
        /\ rtcp'[s].reader # 0 => b[rtcp'[s].reader] = RtcpPort(s)
    BY <1>1, <1>2, <1>3, <1>7, <2>1, <2>3 DEF Belongs
  <2>7. SetupInv(b)'
    BY <1>1, <1>4, <1>6, <1>8, <2>2, <2>4, <2>5, <2>6, FindStep
  <2> QED BY <2>7
<1>13. CASE used_ports[p] = 0
  <2>1. create_new_socket(1, p) /\ SocketOf(p) = n /\ made < MaxSockets
    BY <1>1, <1>13 DEF SocketOf, get_socket_ptr, create_new_socket
  <2>2. PICK c : SetupInv(c) /\ c[n] = p
    BY <1>9, <2>1, NextSocket
  <2>3. /\ n # 0 /\ (Undisturbed(p) => used_ports'[p] = n)
        /\ used_ports'[RtpPort(s)] = used_ports[RtpPort(s)]
        /\ reception_flows \subseteq reception_flows'
    BY <1>1, <1>5, <1>9, <1>13, <2>1, NewSocket
  <2>4. /\ Undisturbed(RtpPort(s))' => Rtp(s)'
        /\ Own(s) /\ Undisturbed(RtcpPort(s))' => Rtcp(s)'
    BY <1>10, <1>11, <2>1, <2>3
  <2>5. /\ sock'[s] = sock[s]
        /\ rtcp'[s].sock = n /\ Own(s) /\ p = RtcpPort(s)
        /\ rtcp'[s].reader = rtcp[s].reader
        /\ UNCHANGED <<flow, flow_of, remote, disturbed>> /\ 1 \in {1, 2}
    BY <1>1, <1>3, <1>7, <2>1
  <2>6. SetupInv(c)'
    BY <1>1, <1>4, <1>6, <1>8, <1>9, <1>13, <2>1, <2>2, <2>4, <2>5, CreateStep
  <2> QED BY <2>6
<1> QED
  BY <1>12, <1>13

LEMMA CreateKeeps ==
    ASSUME NEW b, SetupInv(b), NegotiationInv', NEW s \in Streams, Create(s)
    PROVE  SetupInv(b)'
<1> SUFFICES ASSUME NEW c, c = Config(s)' PROVE SetupInv(b)'
  OBVIOUS
<1>1. /\ TypeInv /\ ShapeInv /\ Belongs(b) /\ FlowsInv
  BY DEF SetupInv, NegotiationInv
<1>2. /\ UNCHANGED <<sock, flow_of, rtcp, readers, flow, scenario>>
      /\ UNCHANGED <<made, bound, used_ports, used_sockets, reception_flows>>
      /\ at[s] = "none" /\ at' = [at EXCEPT ![s] = "socket"] /\ remote' = [remote EXCEPT ![s] = s]
      /\ ~crashed /\ life' = [life EXCEPT ![s] = @ + 1]
      /\ disturbed' = disturbed \cup Overlap(c, s, Deleting)
  BY DEF Create, factory, Config
<1>3. zrtp'.socket = zrtp.socket
  BY <1>1 DEF Create, SetupInv, NegotiationInv, Zrtps
<1>4. /\ at'[s] = "socket" /\ remote'[s] = s /\ s \in Nat
      /\ \A t \in Streams \ {s} : Same(t)
  BY <1>1, <1>2, SetupAssumption DEF TypeInv, PlaceInv, FlowsInv, Same, Config, Me
<1>5. sock[s] = 0 /\ rtcp[s] = NoRtcp /\ flow_of[s] = 0
  BY <1>1, <1>2 DEF ShapeInv, Shape
<1>6. /\ \A p : Undisturbed(p)' => Undisturbed(p)
      /\ \A p : Disturbed(p) => Disturbed(p)'
  BY <1>2, MorePorts
<1>7. FlowsInv'
  BY <1>1, <1>2, SetupAssumption DEF FlowsInv
<1>8. ~Attached(s)' /\ ~Installed(s)' /\ ~Lasts(s)' /\ ~Reads(s)' /\ "socket" \notin WithMedia \cup Up \cup Reading
  BY <1>4 DEF Attached, Installed, Lasts, Reads, InFlow, WithMedia, Reading, Up, Leaving
<1>9. ShapeInv'
  <2>1. Shape(s)'
    BY <1>2, <1>4, <1>5 DEF Shape, NoRtcp, BeforeRtcp, InFlow, WithMedia, Reading, Up
  <2>2. ASSUME NEW t \in Streams \ {s} PROVE Shape(t)'
    <3>1. Same(t) /\ Own(t)' = Own(t) /\ PortsOf(Config(t))' = PortsOf(Config(t))
      BY <1>4 DEF Same, Own, PortsOf
    <3>2. Shape(t)
      BY <1>1 DEF ShapeInv
    <3>3. (at[t] = "broken" => \A p \in PortsOf(Config(t)) : Disturbed(p))'
      BY <1>6, <3>1, <3>2 DEF Shape, Same
    <3> QED
      BY <1>2, <3>1, <3>2, <3>3 DEF Shape, Same
  <2> QED BY <2>1, <2>2 DEF ShapeInv
<1>10. Belongs(b)'
  <2>1. \A t \in Streams \ {s} : RtpPort(t)' = RtpPort(t) /\ RtcpPort(t)' = RtcpPort(t) /\ Own(t)' = Own(t)
    BY <1>4, SameUses
  <2>2. /\ \A t \in Streams : sock'[t] # 0 => b[sock'[t]] = RtpPort(t)'
        /\ \A t \in Streams : flow_of'[t] # 0 => b[flow_of'[t]] = RtpPort(t)'
        /\ \A t \in Streams : rtcp'[t].reader # 0 => b[rtcp'[t].reader] = RtcpPort(t)'
    BY <1>1, <1>2, <1>5, <2>1 DEF Belongs, NoRtcp
  <2>3. \A t \in Streams : rtcp'[t].sock # 0 => b[rtcp'[t].sock] = IF Own(t)' THEN RtcpPort(t)' ELSE RtpPort(t)'
    BY <1>1, <1>2, <1>5, <2>1 DEF Belongs, NoRtcp
  <2> QED
    BY <1>1, <1>2, <2>2, <2>3 DEF Belongs
<1>11. FreshInv'
  BY <1>2, <1>3 DEF SetupInv, FreshInv
<1>12. ASSUME NEW t \in Streams \ {s}
       PROVE  /\ Same(t) /\ Attached(t)' = Attached(t) /\ Installed(t)' = Installed(t)
              /\ Lasts(t)' = Lasts(t) /\ Reads(t)' = Reads(t) /\ Own(t)' = Own(t)
              /\ RtpPort(t)' = RtpPort(t) /\ RtcpPort(t)' = RtcpPort(t)
              /\ Needs(t)' = Needs(t)
  BY <1>4, SameUses
<1>13. RtpInv'
  <2>1. Rtp(s)'
    <3>1. Needs(s)' = {}
      BY <1>4, <1>8 DEF Needs, Up
    <3> QED
      BY <1>4, <1>8, <3>1 DEF Rtp, Lasts, Up
  <2>2. ASSUME NEW t \in Streams \ {s}, at'[t] # "none", Undisturbed(RtpPort(t))' PROVE Rtp(t)'
    <3>1. Rtp(t)
      BY <1>6, <1>12, <2>2 DEF SetupInv, RtpInv, Same
    <3> QED
      BY <1>2, <1>12, <3>1 DEF Rtp, Same
  <2> QED BY <2>1, <2>2 DEF RtpInv
<1>14. AloneInv'
  <2> SUFFICES ASSUME NEW x \in Streams, NEW t \in Streams, x # t, Lasts(x)', Lasts(t)',
                      Undisturbed(RtpPort(x))', flow_of'[x] = flow_of'[t]
               PROVE  FALSE
    BY DEF AloneInv
  <2>1. x # s /\ t # s
    BY <1>8
  <2> QED
    BY <1>2, <1>6, <1>12, <2>1 DEF SetupInv, AloneInv
<1>15. RemoteInv'
  <2> SUFFICES ASSUME NEW x \in Streams, NEW t \in Streams, x # t, flow_of'[x] # 0,
                      flow_of'[x] = flow_of'[t], Undisturbed(RtpPort(x))',
                      remote'[x] = remote'[t]
               PROVE  FALSE
    BY DEF RemoteInv
  <2>1. x # s /\ t # s
    BY <1>2, <1>5
  <2> QED
    BY <1>2, <1>6, <1>12, <2>1 DEF SetupInv, RemoteInv, Same
<1>16. OwnerInv'
  <2> SUFFICES ASSUME NEW i \in Ids, bound[i] # 0, Undisturbed(bound[i]), NEW h \in flow[i].handlers
               PROVE  \E t \in Streams : flow_of'[t] = i /\ h[1] = remote'[t] /\ Installed(t)'
    BY <1>2, MorePorts DEF OwnerInv
  <2>1. PICK t \in Streams : flow_of[t] = i /\ h[1] = remote[t] /\ Installed(t)
    BY DEF SetupInv, OwnerInv
  <2>2. t # s
    BY <1>5, <2>1 DEF Ids
  <2> QED
    BY <1>12, <2>1, <2>2 DEF Same
<1>17. \A t \in Streams \ {s} : at'[t] = at[t] /\ PortsOf(Config(t))' = PortsOf(Config(t))
  BY <1>4 DEF Same, PortsOf
<1>18. PortsOf(Config(s))' = PortsOf(c) /\ at'[s] \notin Deleting
  BY <1>4 DEF PortsOf, Deleting
<1>19. OverlapInv'
  <2> SUFFICES ASSUME NEW x \in Streams, NEW t \in Streams, at'[x] \in Deleting,
                      at'[t] \in Creating, flow_of'[x] # 0,
                      NEW p, p \in PortsOf(Config(x))', p \in PortsOf(Config(t))'
               PROVE  Disturbed(p)'
    BY DEF OverlapInv
  <2>1. x # s
    BY <1>18
  <2>2. CASE t = s
    BY <1>2, <1>17, <1>18, <2>1, <2>2, OverlapMarks
  <2>3. CASE t # s
    <3>1. Disturbed(p)
      BY <1>2, <1>17, <2>1, <2>3 DEF SetupInv, OverlapInv
    <3> QED BY <3>1, <1>6
  <2> QED BY <2>2, <2>3
<1>20. HeldInv'
  <2> SUFFICES ASSUME NEW j \in Ids, bound'[j] # 0, ~Disturbed(bound[j])' PROVE Held(j)'
    BY DEF HeldInv, Undisturbed
  <2>1. bound'[j] = bound[j] /\ Undisturbed(bound[j]) /\ Held(j) /\ bound[j] = b[j]
    BY <1>1, <1>2, MorePorts DEF SetupInv, HeldInv, Undisturbed, Belongs
  <2>2. Kept(j)' = Kept(j) /\ \A x \in Streams : Holds(x, j)' = Holds(x, j)
    BY <1>2, <1>3 DEF Kept, Holds
  <2>3. ~Holds(s, j)
    BY <1>5 DEF Holds, NoRtcp, Ids
  <2>4. ASSUME used_ports[bound[j]] # j, NEW x \in Streams, Holds(x, j)
        PROVE  at'[x] \in Deleting /\ \A t \in Streams : at'[t] \in Creating => bound[j] \notin PortsOf(Config(t))'
    <3>1. /\ x # s /\ at[x] \in Deleting /\ at'[x] \in Deleting
          /\ \A t \in Streams : at[t] \in Creating => bound[j] \notin PortsOf(Config(t))
      BY <1>17, <2>1, <2>3, <2>4 DEF Held
    <3>2. bound[j] \notin PortsOf(c)
      <4> SUFFICES ASSUME bound[j] \in PortsOf(c) PROVE FALSE
        OBVIOUS
      <4>1. bound[j] \in PortsOf(Config(x))
        BY <1>1, <2>1, <2>4, <3>1, Holder DEF Deleting
      <4>2. <<bound[j], "overlap">> \in disturbed'
        BY <1>2, <3>1, <4>1 DEF Overlap
      <4>3. Disturbed(bound[j])' <=> \E d \in disturbed' : d[1] = bound'[j] /\ d[2] # "refused"
        BY DEF Disturbed
      <4> QED
        BY <2>1, <4>2, <4>3
    <3> QED
      BY <1>17, <1>18, <3>1, <3>2
  <2> QED
    BY <1>2, <1>3, <2>1, <2>2, <2>4 DEF Held
<1>21. RegInv' /\ RunsInv'
  BY <1>2, MorePorts, RunsStep DEF SetupInv, RegInv
<1>22. RtcpInv'
  <2>1. Rtcp(s)'
    BY <1>2, <1>4, <1>5, <1>8 DEF Rtcp, NoRtcp
  <2>2. ASSUME NEW t \in Streams \ {s}, at'[t] # "none", Own(t)', Undisturbed(RtcpPort(t))' PROVE Rtcp(t)'
    <3>1. Rtcp(t)
      BY <1>6, <1>12, <2>2 DEF SetupInv, RtcpInv, Same
    <3> QED
      BY <1>2, <1>12, <3>1 DEF Rtcp, Same
  <2> QED BY <2>1, <2>2 DEF RtcpInv
<1> QED
  BY <1>7, <1>9, <1>10, <1>11, <1>13, <1>14, <1>15, <1>16, <1>19, <1>20, <1>21, <1>22 DEF SetupInv

-----------------------------------------------------------------------------
(* The invariant holds, and implies that streams are heard.                *)

LEMMA InitSetup == Init => SetupInv([i \in Ids |-> 0])
<1> SUFFICES ASSUME Init PROVE SetupInv([i \in Ids |-> 0])
  OBVIOUS
<1> DEFINE b == [i \in Ids |-> 0]
<1>1. NegotiationInv
  BY InitNegotiation
<1>2. /\ \A s \in Streams : /\ at[s] = "none" /\ sock[s] = 0 /\ flow_of[s] = 0
                            /\ rtcp[s] = NoRtcp /\ remote[s] = s
      /\ made = 0 /\ zrtp.socket = 0 /\ disturbed = {}
      /\ \A i \in Ids : /\ bound[i] = 0 /\ readers[i].port = 0 /\ readers[i].sock = 0
                        /\ ~readers[i].active
                        /\ ~flow[i].active /\ flow[i].handlers = {}
      /\ \A p \in Ports : used_ports[p] = 0
  BY DEF Init
<1>3. /\ flow = [i \in Ids |-> [active |-> FALSE, handlers |-> {}, flags |-> {},
                                unserved |-> {}]]
      /\ remote = [s \in Streams |-> s]
  BY DEF Init
<1>4. FlowsInv
  BY <1>3, SetupAssumption DEF FlowsInv, FlowRecords
<1>5. ShapeInv
  BY <1>2 DEF ShapeInv, Shape, NoRtcp, BeforeRtcp, InFlow, WithMedia, Reading, Up
<1>6. b \in [Ids -> Nat] /\ Belongs(b)
  BY <1>2 DEF Belongs, NoRtcp
<1>7. FreshInv
  BY <1>2 DEF FreshInv
<1>8. RtpInv /\ RtcpInv
  BY <1>2 DEF RtpInv, RtcpInv
<1>9. AloneInv /\ RemoteInv /\ OverlapInv
  BY <1>2 DEF AloneInv, RemoteInv, OverlapInv, Lasts, Deleting
<1>10. OwnerInv /\ HeldInv /\ RegInv /\ RunsInv
  BY <1>2 DEF OwnerInv, HeldInv, RegInv, RunsInv
<1> QED
  BY <1>1, <1>4, <1>5, <1>6, <1>7, <1>8, <1>9, <1>10 DEF SetupInv

LEMMA StaySetup ==
    ASSUME NEW b, SetupInv(b), NegotiationInv', UNCHANGED vars
    PROVE  SetupInv(b)'
<1>1. /\ UNCHANGED <<at, life, sock, flow_of, remote, rtcp, made, bound, used_ports, used_sockets>>
      /\ UNCHANGED <<reception_flows, readers, flow, zrtp, crashed, disturbed, scenario>>
  BY DEF vars, stream, factory, ghosts
<1>2. FlowsInv' /\ FreshInv' /\ RunsInv'
  BY <1>1, RunsStep DEF SetupInv, FlowsInv, FreshInv
<1>3. \A s : /\ Config(s)' = Config(s) /\ Own(s)' = Own(s) /\ RtpPort(s)' = RtpPort(s)
             /\ RtcpPort(s)' = RtcpPort(s) /\ Attached(s)' = Attached(s)
             /\ Installed(s)' = Installed(s) /\ Lasts(s)' = Lasts(s) /\ Reads(s)' = Reads(s)
             /\ Me(s)' = Me(s)
  BY <1>1 DEF Config, Own, RtpPort, RtcpPort, Attached, Installed, Lasts, Reads, Me
<1>4. \A s : /\ PortsOf(Config(s))' = PortsOf(Config(s))
             /\ Needs(s)' = Needs(s)
  BY <1>1, <1>3 DEF PortsOf, Needs, AllHandlers, FirstHandlers, PacketHandlers
<1>5. \A p : Undisturbed(p)' = Undisturbed(p) /\ Disturbed(p)' = Disturbed(p)
  BY <1>1 DEF Undisturbed, Disturbed
<1>6. ShapeInv'
  BY <1>1, <1>3, <1>4, <1>5 DEF SetupInv, ShapeInv, Shape
<1>7. Belongs(b)'
  BY <1>1, <1>3 DEF SetupInv, Belongs
<1>8. RtpInv' /\ AloneInv' /\ RemoteInv'
  BY <1>1, <1>3, <1>4, MorePorts DEF SetupInv, RtpInv, Rtp, AloneInv, RemoteInv
<1>9. OwnerInv' /\ OverlapInv' /\ RegInv'
  BY <1>1, <1>3, <1>4, MorePorts DEF SetupInv, OwnerInv, OverlapInv, RegInv
<1>10. HeldInv'
  BY <1>1, <1>4, MorePorts DEF SetupInv, HeldInv, Held, Kept, Holds
<1>11. RtcpInv'
  BY <1>1, <1>3, MorePorts DEF SetupInv, RtcpInv, Rtcp
<1> QED
  BY <1>2, <1>6, <1>7, <1>8, <1>9, <1>10, <1>11 DEF SetupInv

LEMMA NextSetup ==
    ASSUME NEW b, SetupInv(b), [Next]_vars
    PROVE  \E c : SetupInv(c)'
<1>1. NegotiationInv'
  BY NextNegotiation DEF SetupInv
<1>2. CASE UNCHANGED vars
  BY <1>1, <1>2, StaySetup
<1>3. ASSUME NEW s \in Streams, GetSocket(s) \/ RtcpSocket(s)
      PROVE  \E c : SetupInv(c)'
  BY <1>1, <1>3, GetSocketKeeps, RtcpSocketKeeps
<1>4. ASSUME NEW s \in Streams,
             \/ Create(s) \/ Connect(s) \/ GetFlow(s) \/ Install(s) \/ AddSrtpCtx(s)
             \/ CreateMedia(s) \/ RtcpReader(s) \/ RtcpStart(s) \/ ReaderStart(s)
             \/ Launches(s) \/ StartFlow(s)
      PROVE  SetupInv(b)'
  BY <1>1, <1>4, CreateKeeps, ConnectKeeps, GetFlowKeeps, InstallKeeps, AddSrtpCtxKeeps,
     CreateMediaKeeps, RtcpReaderKeeps, RtcpStartKeeps, ReaderStartKeeps, LaunchesKeeps,
     StartFlowKeeps
<1>5. ASSUME NEW s \in Streams,
             \/ ConnectFails(s) \/ NoFlow(s) \/ WrongCtx(s) \/ UnknownFormat(s) \/ NoReader(s)
             \/ LaunchTwice(s) \/ GiveUpOnDh(s) \/ GiveUpOnLock(s) \/ ZrtpFails(s)
      PROVE  SetupInv(b)'
  BY <1>1, <1>5, FailuresKeep, CrashKeeps
<1>6. ASSUME NEW s \in Streams,
             \/ StartZrtp(s) \/ WaitForDh(s) \/ try_lock_zrtp(s) \/ BeginZrtp(s)
             \/ Negotiated(s) \/ TakeKeys(s) \/ UnlockZrtp(s) \/ InstallAfterZrtp(s)
             \/ SetRemoteSsrc(s)
      PROVE  SetupInv(b)'
  BY <1>1, <1>6, UpKeeps, BeginZrtpKeeps, InstallAfterZrtpKeeps, SetRemoteSsrcKeeps
<1>7. ASSUME NEW s \in Streams,
             \/ Destroy(s) \/ StopRtcp(s) \/ ReaderCheck(s) \/ ClearRtcp(s)
             \/ RemoveHandlers(s) \/ StopFlow(s) \/ ClearPort(s) \/ Free(s)
      PROVE  SetupInv(b)'
  BY <1>1, <1>7, DestroyKeeps, StopRtcpKeeps, ReaderCheckKeeps, ClearRtcpKeeps,
     RemoveHandlersKeeps, StopFlowKeeps, ClearPortKeeps, FreeKeeps
<1>8. CASE Next
  <2>1. PICK s \in Streams : \/ GetSocket(s) \/ RtcpSocket(s)
        \/ Create(s) \/ Connect(s) \/ GetFlow(s) \/ Install(s) \/ AddSrtpCtx(s)
        \/ CreateMedia(s) \/ RtcpReader(s) \/ RtcpStart(s) \/ ReaderStart(s)
        \/ Launches(s) \/ StartFlow(s)
        \/ ConnectFails(s) \/ NoFlow(s) \/ WrongCtx(s) \/ UnknownFormat(s) \/ NoReader(s)
        \/ LaunchTwice(s) \/ GiveUpOnDh(s) \/ GiveUpOnLock(s) \/ ZrtpFails(s)
        \/ StartZrtp(s) \/ WaitForDh(s) \/ try_lock_zrtp(s) \/ BeginZrtp(s)
        \/ Negotiated(s) \/ TakeKeys(s) \/ UnlockZrtp(s) \/ InstallAfterZrtp(s)
        \/ SetRemoteSsrc(s)
        \/ Destroy(s) \/ StopRtcp(s) \/ ReaderCheck(s) \/ ClearRtcp(s)
        \/ RemoveHandlers(s) \/ StopFlow(s) \/ ClearPort(s) \/ Free(s)
    BY <1>8, Zenon DEF Next, Launches
  <2> QED
    BY <2>1, <1>3, <1>4, <1>5, <1>6, <1>7, Zenon
<1> QED
  BY <1>2, <1>8

\* The flags of a flow are those of the stream that started it, and as long as it runs they
\* stay: a stream has its own among them, or is one of those that found it running without.
Served(s) == LET f == flow[flow_of[s]] IN s \in f.unserved \/ Flags(Config(s)) \subseteq f.flags
FlagsInv == \A s \in Streams : at[s] \in Up /\ Undisturbed(RtpPort(s)) => Served(s)

\* A step that starts no flow leaves the flags and who is served.
LEMMA FlagsStay ==
    ASSUME NEW b, SetupInv(b), [Next]_vars, \A s \in Streams : ~StartFlow(s)
    PROVE  \A i \in Ids : flow'[i].flags = flow[i].flags /\ flow'[i].unserved = flow[i].unserved
<1>1. flow \in [Ids -> FlowRecords]
  BY DEF SetupInv, FlowsInv
<1>2. \/ flow' = flow
      \/ \E i, more : flow' = [flow EXCEPT ![i].handlers = more]
      \/ \E i : flow' = [flow EXCEPT ![i].active = FALSE]
  <2>1. CASE UNCHANGED vars
    BY <2>1 DEF vars
  <2>2. ASSUME NEW s \in Streams,
               \/ Install(s) \/ CreateMedia(s) \/ InstallAfterZrtp(s) \/ SetRemoteSsrc(s)
               \/ RemoveHandlers(s) \/ StopFlow(s)
        PROVE  \/ \E i, more : flow' = [flow EXCEPT ![i].handlers = more]
               \/ \E i : flow' = [flow EXCEPT ![i].active = FALSE]
    BY <2>2 DEF Install, CreateMedia, InstallAfterZrtp, SetRemoteSsrc, RemoveHandlers, StopFlow,
                install_handlers
  <2>3. ASSUME NEW s \in Streams,
               \/ Create(s) \/ GetSocket(s) \/ Connect(s) \/ ConnectFails(s) \/ NoFlow(s)
               \/ GetFlow(s) \/ AddSrtpCtx(s) \/ WrongCtx(s) \/ UnknownFormat(s)
               \/ RtcpSocket(s) \/ RtcpReader(s) \/ NoReader(s) \/ RtcpStart(s)
               \/ ReaderStart(s) \/ Launches(s) \/ LaunchTwice(s)
        PROVE  flow' = flow
    BY <2>3 DEF Create, GetSocket, Connect, ConnectFails, NoFlow, GetFlow, AddSrtpCtx, WrongCtx,
                UnknownFormat, RtcpSocket, RtcpReader, NoReader, RtcpStart, ReaderStart, Launches,
                ReaderLaunch, ReaderLeaves, ReaderMark, LaunchTwice, Crash, Fails
  <2>4. ASSUME NEW s \in Streams,
               \/ StartZrtp(s) \/ WaitForDh(s) \/ GiveUpOnDh(s) \/ try_lock_zrtp(s)
               \/ GiveUpOnLock(s) \/ BeginZrtp(s) \/ Negotiated(s) \/ ZrtpFails(s)
               \/ TakeKeys(s) \/ UnlockZrtp(s)
               \/ Destroy(s) \/ StopRtcp(s) \/ ReaderCheck(s) \/ ClearRtcp(s) \/ ClearPort(s)
               \/ Free(s)
        PROVE  flow' = flow
    BY <2>4 DEF StartZrtp, WaitForDh, GiveUpOnDh, try_lock_zrtp, GiveUpOnLock, BeginZrtp,
                Negotiated, ZrtpFails, TakeKeys, UnlockZrtp, Destroy, StopRtcp, ReaderCheck,
                ClearRtcp, ClearPort, Free, Fails
  <2>5. CASE Next
    BY <2>2, <2>3, <2>4, <2>5, Zenon DEF Next, Launches
  <2> QED BY <2>1, <2>5
<1> QED
  BY <1>1, <1>2 DEF FlowRecords

\* What a step of stream t leaves to the others, and to itself if its flow runs after it.
Leaves(t) ==
    /\ \A u \in Streams \ {t} :
           at'[u] = at[u] /\ flow_of'[u] = flow_of[u] /\ life'[u] = life[u]
    /\ at'[t] \in Up => at[t] \in Up /\ flow_of'[t] = flow_of[t] /\ life'[t] = life[t]
    /\ scenario' = scenario /\ disturbed \subseteq disturbed'

LEMMA NextLeaves ==
    ASSUME NEW b, SetupInv(b), Next
    PROVE  \E t \in Streams : Leaves(t) \/ StartFlow(t)
<1>1. /\ at \in [Streams -> Steps] /\ life \in [Streams -> Nat]
      /\ flow_of \in [Streams -> 0 .. made]
  BY DEF SetupInv, NegotiationInv, TypeInv, PlaceInv, StreamInv
<1>2. ASSUME NEW t \in Streams, NEW from, Fails(t, from) PROVE Leaves(t)
  BY <1>1, <1>2 DEF Fails, Goes, Leaves, Up
<1>3. ASSUME NEW t \in Streams,
             \/ ConnectFails(t) \/ WrongCtx(t) \/ UnknownFormat(t) \/ GiveUpOnDh(t)
             \/ GiveUpOnLock(t) \/ ZrtpFails(t)
      PROVE  Leaves(t)
  BY <1>2, <1>3 DEF ConnectFails, WrongCtx, UnknownFormat, GiveUpOnDh, GiveUpOnLock, ZrtpFails
<1>4. ASSUME NEW t \in Streams, NoFlow(t) PROVE Leaves(t)
  <2>1. CASE Fails(t, "flow")
    BY <1>2, <2>1
  <2>2. CASE ~Fails(t, "flow")
    BY <1>1, <1>4, <2>2 DEF NoFlow, Goes, Leaves, Up, stream
  <2> QED BY <2>1, <2>2
<1>5. ASSUME NEW t \in Streams,
             Create(t) \/ GetFlow(t) \/ Free(t)
      PROVE  Leaves(t)
  BY <1>1, <1>5 DEF Create, GetFlow, Free, Goes, Leaves, Up
<1>6. ASSUME NEW t \in Streams, NEW from, NEW to, Goes(t, from, to), to \in Up => from \in Up,
             UNCHANGED <<life, flow_of, scenario>>, disturbed \subseteq disturbed'
      PROVE  Leaves(t)
  BY <1>1, <1>6 DEF Goes, Leaves
<1>7. ASSUME NEW t \in Streams,
             \/ GetSocket(t) \/ Connect(t) \/ Install(t) \/ AddSrtpCtx(t) \/ CreateMedia(t)
             \/ RtcpSocket(t) \/ RtcpReader(t) \/ NoReader(t) \/ RtcpStart(t)
      PROVE  Leaves(t)
  <2>1. PICK from, to : Goes(t, from, to) /\ to \notin Up
    <3>1. CASE CreateMedia(t)
      <4>1. Goes(t, "media", AfterMedia[Config(t).rtcp]) /\ at[t] # "none"
        BY <3>1 DEF CreateMedia, Goes
      <4>2. Config(t) \in Configs
        BY <4>1, ConfigOf DEF SetupInv, NegotiationInv, TypeInv
      <4>3. AfterMedia[Config(t).rtcp] \in {"start", "rtcp_start", "rtcp_socket"}
        BY <4>2, ConfigsTyped DEF AfterMedia
      <4>4. AfterMedia[Config(t).rtcp] \notin Up
        BY <4>3 DEF Up
      <4> QED
        BY <4>1, <4>4
    <3>2. CASE GetSocket(t) \/ Connect(t) \/ Install(t) \/ AddSrtpCtx(t) \/ RtcpSocket(t)
      BY <3>2 DEF GetSocket, Connect, Install, AddSrtpCtx, RtcpSocket, Up
    <3>3. CASE RtcpReader(t) \/ NoReader(t) \/ RtcpStart(t)
      BY <3>3 DEF RtcpReader, NoReader, RtcpStart, Up
    <3> QED
      BY <1>7, <3>1, <3>2, <3>3
  <2>2. UNCHANGED <<life, flow_of, scenario>> /\ disturbed \subseteq disturbed'
    BY <1>7 DEF GetSocket, Connect, Install, AddSrtpCtx, CreateMedia, RtcpSocket, RtcpReader,
                NoReader, Crash, RtcpStart, stream, ghosts
  <2> QED
    BY <1>6, <2>1, <2>2
<1>8. ASSUME NEW t \in Streams, ReaderStart(t) \/ Launches(t) \/ LaunchTwice(t)
      PROVE  Leaves(t)
  <2>1. PICK from, to : Goes(t, from, to) /\ to \notin Up
    BY <1>8 DEF ReaderStart, Launches, ReaderLaunch, ReaderLeaves, ReaderMark, LaunchTwice, Up
  <2>2. UNCHANGED <<life, flow_of, scenario>> /\ disturbed \subseteq disturbed'
    BY <1>8 DEF ReaderStart, Launches, ReaderLaunch, ReaderLeaves, ReaderMark, LaunchTwice,
                Crash, stream, ghosts
  <2> QED
    BY <1>6, <2>1, <2>2
<1>9. ASSUME NEW t \in Streams,
             \/ StartZrtp(t) \/ WaitForDh(t) \/ try_lock_zrtp(t) \/ BeginZrtp(t)
             \/ Negotiated(t) \/ TakeKeys(t) \/ UnlockZrtp(t) \/ InstallAfterZrtp(t)
             \/ SetRemoteSsrc(t)
      PROVE  Leaves(t)
  <2>1. PICK from, to : Goes(t, from, to) /\ from \in Up
    BY <1>9 DEF StartZrtp, WaitForDh, try_lock_zrtp, BeginZrtp, Negotiated, TakeKeys,
                UnlockZrtp, InstallAfterZrtp, SetRemoteSsrc, Up
  <2>2. UNCHANGED <<life, flow_of, scenario>> /\ disturbed \subseteq disturbed'
    BY <1>9 DEF StartZrtp, WaitForDh, try_lock_zrtp, BeginZrtp, Negotiated, TakeKeys,
                UnlockZrtp, InstallAfterZrtp, SetRemoteSsrc, stream, ghosts
  <2> QED
    BY <1>6, <2>1, <2>2
<1>10. ASSUME NEW t \in Streams,
              \/ Destroy(t) \/ StopRtcp(t) \/ ReaderCheck(t) \/ ClearRtcp(t)
              \/ RemoveHandlers(t) \/ StopFlow(t) \/ ClearPort(t)
       PROVE  Leaves(t)
  <2>1. PICK from, to : Goes(t, from, to) /\ to \notin Up
    BY <1>10 DEF Destroy, StopRtcp, ReaderCheck, ClearRtcp, RemoveHandlers, StopFlow, ClearPort,
                 AfterRtcp, Up
  <2>2. UNCHANGED <<life, flow_of, scenario>> /\ disturbed \subseteq disturbed'
    BY <1>10 DEF Destroy, StopRtcp, ReaderCheck, ClearRtcp, RemoveHandlers, StopFlow, ClearPort,
                 stream, ghosts
  <2> QED
    BY <1>6, <2>1, <2>2
<1> QED
  BY <1>3, <1>4, <1>5, <1>7, <1>8, <1>9, <1>10, Zenon DEF Next, Launches

\* A stream with its flow running had it before a step that starts no flow.
LEMMA UpBefore ==
    ASSUME NEW b, SetupInv(b), [Next]_vars, \A t \in Streams : ~StartFlow(t),
           NEW s \in Streams, at'[s] \in Up
    PROVE  /\ at[s] \in Up /\ flow_of'[s] = flow_of[s] /\ Config(s)' = Config(s)
           /\ disturbed \subseteq disturbed'
<1>1. CASE UNCHANGED vars
  BY <1>1 DEF vars, stream, ghosts, Config
<1>2. CASE Next
  <2>1. PICK t \in Streams : Leaves(t)
    BY <1>2, NextLeaves
  <2>2. at[s] \in Up /\ flow_of'[s] = flow_of[s] /\ life'[s] = life[s]
    BY <2>1 DEF Leaves
  <2> QED
    BY <2>1, <2>2 DEF Leaves, Config
<1> QED BY <1>1, <1>2

\* A stream that starts its flow has its flags there, or is entered as one without; the
\* streams that the flow serves keep theirs, as it runs for them.
LEMMA StartFlags ==
    ASSUME NEW b, SetupInv(b), FlagsInv, NEW t \in Streams, StartFlow(t)
    PROVE  FlagsInv'
<1> DEFINE i == flow_of[t]
<1>1. /\ at[t] = "start" /\ \A u \in Streams \ {t} : at'[u] = at[u]
      /\ UNCHANGED <<life, flow_of, disturbed, scenario>>
      /\ flow' = [flow EXCEPT ![i] = Started(flow[i], t)]
  BY DEF StartFlow, Goes, stream, ghosts, SetupInv, NegotiationInv, TypeInv, PlaceInv
<1>2. /\ TypeInv /\ ShapeInv /\ flow \in [Ids -> FlowRecords]
  BY DEF SetupInv, NegotiationInv, FlowsInv
<1>3. i \in Ids /\ flow[i] \in FlowRecords
  <2>1. Attached(t)
    BY <1>1 DEF Attached, InFlow, WithMedia, Reading
  <2> QED
    BY <1>2, <2>1, FlowOfLast
<1>4. /\ flow'[i] = Started(flow[i], t)
      /\ \A j \in Ids \ {i} : flow'[j] = flow[j]
  BY <1>1, <1>2, <1>3
<1>5. /\ \A u \in Streams : Config(u)' = Config(u) /\ RtpPort(u)' = RtpPort(u)
      /\ \A p : Undisturbed(p)' => Undisturbed(p)
  BY <1>1 DEF Config, RtpPort, Undisturbed, Disturbed
<1>6. \A c : Flags(c)' = Flags(c)
  BY DEF Flags
<1> SUFFICES ASSUME NEW s \in Streams, at'[s] \in Up, Undisturbed(RtpPort(s))'
             PROVE  Served(s)'
  BY DEF FlagsInv
<1>7. CASE s = t
  <2>1. t \in flow'[i].unserved \/ Flags(Config(t)) \subseteq flow'[i].flags
    BY <1>3, <1>4 DEF Started, FlowRecords
  <2> QED
    BY <1>1, <1>5, <1>7, <2>1 DEF Served, Flags
<1>8. CASE s # t
  <2>1. /\ at[s] \in Up /\ Undisturbed(RtpPort(s)) /\ flow_of'[s] = flow_of[s]
        /\ Config(s)' = Config(s)
    BY <1>1, <1>5, <1>8
  <2>2. Served(s) /\ Rtp(s) /\ flow_of[s] \in Ids
    <3>1. at[s] # "none" /\ Attached(s)
      BY <2>1 DEF Up, Attached, InFlow, WithMedia, Reading
    <3> QED
      BY <1>2, <2>1, <3>1, FlowOfLast DEF FlagsInv, SetupInv, RtpInv
  <2>3. flow[flow_of[s]].active
    BY <2>1, <2>2 DEF Rtp
  <2>4. /\ flow'[flow_of[s]].flags = flow[flow_of[s]].flags
        /\ s \in flow[flow_of[s]].unserved => s \in flow'[flow_of[s]].unserved
    <3>1. CASE flow_of[s] = i
      BY <1>3, <1>4, <1>8, <2>3, <3>1 DEF Started, FlowRecords
    <3>2. CASE flow_of[s] # i
      BY <1>4, <2>2, <3>2
    <3> QED BY <3>1, <3>2
  <2> QED
    BY <2>1, <2>2, <2>4 DEF Served, Flags
<1> QED BY <1>7, <1>8

LEMMA NextFlags ==
    ASSUME NEW b, SetupInv(b), FlagsInv, [Next]_vars
    PROVE  FlagsInv'
<1>1. CASE \E t \in Streams : StartFlow(t)
  BY <1>1, StartFlags
<1>2. CASE \A t \in Streams : ~StartFlow(t)
  <2> SUFFICES ASSUME NEW s \in Streams, at'[s] \in Up, Undisturbed(RtpPort(s))'
               PROVE  Served(s)'
    BY DEF FlagsInv
  <2>1. /\ at[s] \in Up /\ flow_of'[s] = flow_of[s] /\ Config(s)' = Config(s)
        /\ disturbed \subseteq disturbed'
    BY <1>2, UpBefore
  <2>2. RtpPort(s)' = RtpPort(s)
    BY <2>1 DEF RtpPort
  <2>3. Undisturbed(RtpPort(s))
    BY <2>1, <2>2, MorePorts
  <2>4. Served(s)
    BY <2>1, <2>3 DEF FlagsInv
  <2>5. flow_of[s] \in Ids
    <3>1. Attached(s) /\ TypeInv /\ ShapeInv
      BY <2>1 DEF Attached, InFlow, WithMedia, Reading, SetupInv, NegotiationInv
    <3> QED
      BY <3>1, FlowOfLast
  <2>6. /\ flow'[flow_of[s]].flags = flow[flow_of[s]].flags
        /\ flow'[flow_of[s]].unserved = flow[flow_of[s]].unserved
    BY <1>2, <2>5, FlagsStay
  <2> QED
    BY <2>1, <2>4, <2>6 DEF Served, Flags
<1> QED BY <1>1, <1>2

LEMMA HeardOf ==
    ASSUME NEW b, SetupInv(b), FlagsInv
    PROVE  Heard
<1> SUFFICES ASSUME NEW s \in Streams, at[s] = "up"
             PROVE  /\ Disturbed(RtpPort(s)) \/ HeardOnRtp(s)
                    /\ Own(s) => Disturbed(RtpPort(s)) \/ Disturbed(RtcpPort(s)) \/ HeardOnRtcp(s)
  BY DEF Heard, RtpPort, RtcpPort, Own
<1>1. at[s] \in Up /\ Attached(s) /\ Reads(s) /\ at[s] \in Reading \ {"rtcp_start"}
  BY DEF Up, Attached, Reads, Reading, WithMedia, InFlow
<1>2. ASSUME Undisturbed(RtpPort(s)) PROVE HeardOnRtp(s)
  <2>1. /\ Rtp(s) /\ sock[s] = flow_of[s] /\ flow_of[s] \in reception_flows
        /\ used_ports[RtpPort(s)] = flow_of[s] /\ bound[flow_of[s]] = RtpPort(s)
    BY <1>1, <1>2, FlowIsBound
  <2>2. AllHandlers(Config(s)) = Needs(s)
    BY DEF Needs
  <2>3. flow[flow_of[s]].active /\ {remote[s]} \X AllHandlers(Config(s)) \subseteq flow[flow_of[s]].handlers
    BY <1>1, <2>1, <2>2 DEF Rtp
  <2>4. Served(s)
    BY <1>1, <1>2 DEF FlagsInv
  <2> QED
    BY <2>1, <2>3, <2>4 DEF HeardOnRtp, RtpPort, Served
<1>3. ASSUME Own(s), Undisturbed(RtcpPort(s)) PROVE HeardOnRtcp(s)
  <2>1. Rtcp(s)
    BY <1>3 DEF SetupInv, RtcpInv
  <2>2. /\ rtcp[s].sock # 0 /\ used_ports[RtcpPort(s)] = rtcp[s].sock /\ rtcp[s].reader = rtcp[s].sock
        /\ readers[rtcp[s].sock].port = RtcpPort(s) /\ readers[rtcp[s].sock].sock = rtcp[s].sock
        /\ Me(s) \in readers[rtcp[s].sock].members /\ readers[rtcp[s].reader].active
    BY <1>1, <2>1 DEF Rtcp
  <2>3. RtcpPort(s) \in Ports /\ rtcp[s].reader \in Ids
    <3>1. TypeInv /\ ShapeInv /\ at[s] # "none"
      BY DEF SetupInv, NegotiationInv
    <3>2. RtcpPort(s) \in Ports
      BY <3>1, ConfigOf, ConfigsTyped DEF TypeInv, RtcpPort
    <3>3. rtcp[s].sock \in Ids
      BY <1>1, <2>1, <3>1, ReaderIds
    <3> QED
      BY <2>2, <3>2, <3>3
  <2>4. bound[rtcp[s].sock] = RtcpPort(s)
    BY <2>2, <2>3 DEF SetupInv, NegotiationInv, TypeInv, FactoryInv
  <2>5. readers[rtcp[s].reader].thread
    <3>1. RtcpPort(s) # 0
      BY <2>3, SetupAssumption
    <3> QED
      BY <1>3, <2>2, <2>3, <3>1 DEF SetupInv, RunsInv, Undisturbed
  <2> QED
    BY <2>2, <2>4, <2>5 DEF HeardOnRtcp, RtcpPort
<1> QED
  BY <1>2, <1>3 DEF Undisturbed

\* A stream that is up keeps its socket, its port, its running flow with all of its handlers
\* and, if it started the flow or found its own flags there, with its flags, and its reader,
\* which runs unless its thread left before it was marked as active: however many other
\* streams are created and destroyed at the same ports by other threads, as long as no call
\* at a port of it overlapped with another one, failed half way, or left the socket to ZRTP.
\* For any number of streams, ports and lives.
THEOREM UpIsHeard == Spec => []Heard
<1> DEFINE I == (\E b : SetupInv(b)) /\ FlagsInv
<1>1. Init => I
  BY InitSetup DEF Init, FlagsInv, Up
<1>2. I /\ [Next]_vars => I'
  BY NextSetup, NextFlags
<1>3. I => Heard
  BY HeardOf
<1> QED
  BY <1>1, <1>2, <1>3, PTL DEF Spec

-----------------------------------------------------------------------------
(* When all streams are gone nothing is left: who uses what.               *)

\* A stream for which a port is in use for RTP, or for RTCP; for which a flow runs; that a
\* reader has as a member; for which a reader has its thread.
RtpUser(s, p) ==
    at[s] # "none" /\ RtpPort(s) = p /\ (at[s] \in {"connect", "flow"} \/ Attached(s) \/ Lasts(s))
RtcpUser(s, p) ==
    /\ at[s] # "none" /\ Own(s) /\ RtcpPort(s) = p
    /\ at[s] \in {"rtcp_reader", "reader_check", "clear_rtcp"} \/ Reads(s)
RunsFor(s, i) == flow_of[s] = i /\ (Attached(s) \/ at[s] = "stop")
MemberAs(s, r, m) == at[s] # "none" /\ Own(s) /\ m = Me(s) /\ Reads(s) /\ rtcp[s].sock = r
ReadsFor(s, r) ==
    at[s] # "none" /\ Own(s) /\ rtcp[s].sock = r /\ (Reads(s) \/ at[s] = "reader_check")

\* A port in use, a running flow, a member and a running thread each have a stream that
\* needs them, and that will give them up.
UsedInv ==
    \A p \in Ports : used_ports[p] # 0 =>
        \/ used_ports[p] \in reception_flows /\ \E s \in Streams : RtpUser(s, p)
        \/ readers[used_ports[p]].port = p /\ \E s \in Streams : RtcpUser(s, p)
RunningInv == \A i \in Ids : flow[i].active => \E s \in Streams : RunsFor(s, i)
MembersInv ==
    \A r \in Ids : \A m \in readers[r].members : \E s \in Streams : MemberAs(s, r, m)
ThreadInv == \A r \in Ids : readers[r].thread => \E s \in Streams : ReadsFor(s, r)
BoundInv == \A i \in Ids : i <= made => bound[i] # 0
UseInv == BoundInv /\ UsedInv /\ RunningInv /\ MembersInv /\ ThreadInv

\* As long as nothing is disturbed, what is in use is in use for a stream.
CrashInv == crashed => \E s \in Streams : at[s] = "crashed"
LeftInv == CrashInv /\ (disturbed = {} /\ ~crashed => UseInv)

\* Another stream uses what it has used.
LEMMA SameUsers ==
    ASSUME NEW t, Same(t)
    PROVE  /\ \A p : RtpUser(t, p)' <=> RtpUser(t, p)
           /\ \A p : RtcpUser(t, p)' <=> RtcpUser(t, p)
           /\ \A i : RunsFor(t, i)' <=> RunsFor(t, i)
           /\ \A r, m : MemberAs(t, r, m)' <=> MemberAs(t, r, m)
           /\ \A r : ReadsFor(t, r)' <=> ReadsFor(t, r)
<1>1. /\ Attached(t)' = Attached(t) /\ Lasts(t)' = Lasts(t) /\ Reads(t)' = Reads(t)
      /\ Own(t)' = Own(t) /\ RtpPort(t)' = RtpPort(t) /\ RtcpPort(t)' = RtcpPort(t)
      /\ at'[t] = at[t] /\ Me(t)' = Me(t) /\ flow_of'[t] = flow_of[t] /\ rtcp'[t] = rtcp[t]
  BY SameUses DEF Same
<1> QED
  BY <1>1 DEF RtpUser, RtcpUser, RunsFor, MemberAs, ReadsFor

\* A step of one stream, part by part.
LEMMA UseStep ==
    ASSUME UseInv, NEW s \in Streams, \A t \in Streams \ {s} : Same(t),
           BoundInv',
           \A p \in Ports : used_ports'[p] # 0 =>
               \/ /\ used_ports'[p] = used_ports[p]
                  /\ used_ports[p] \in reception_flows => used_ports[p] \in reception_flows'
                  /\ readers[used_ports[p]].port = p => readers'[used_ports[p]].port = p
                  /\ RtpUser(s, p) => \E t \in Streams : RtpUser(t, p)'
                  /\ RtcpUser(s, p) => \E t \in Streams : RtcpUser(t, p)'
               \/ used_ports'[p] \in reception_flows' /\ RtpUser(s, p)'
               \/ readers'[used_ports'[p]].port = p /\ RtcpUser(s, p)',
           \A i \in Ids : flow'[i].active =>
               \/ RunsFor(s, i)'
               \/ flow[i].active /\ (RunsFor(s, i) => \E t \in Streams : RunsFor(t, i)'),
           \A r \in Ids : \A m \in readers'[r].members :
               MemberAs(s, r, m)' \/ (m \in readers[r].members /\ ~MemberAs(s, r, m)),
           \A r \in Ids : readers'[r].thread =>
               \/ ReadsFor(s, r)'
               \/ readers[r].thread /\ (ReadsFor(s, r) => \E t \in Streams : ReadsFor(t, r)')
    PROVE  UseInv'
<1>1. UsedInv'
  <2> SUFFICES ASSUME NEW p \in Ports, used_ports'[p] # 0
               PROVE  \/ used_ports'[p] \in reception_flows' /\ \E t \in Streams : RtpUser(t, p)'
                      \/ readers'[used_ports'[p]].port = p /\ \E t \in Streams : RtcpUser(t, p)'
    BY DEF UsedInv
  <2>1. CASE used_ports'[p] \in reception_flows' /\ RtpUser(s, p)'
    BY <2>1
  <2>2. CASE readers'[used_ports'[p]].port = p /\ RtcpUser(s, p)'
    BY <2>2
  <2>3. CASE /\ used_ports'[p] = used_ports[p]
             /\ used_ports[p] \in reception_flows => used_ports[p] \in reception_flows'
             /\ readers[used_ports[p]].port = p => readers'[used_ports[p]].port = p
             /\ RtpUser(s, p) => \E t \in Streams : RtpUser(t, p)'
             /\ RtcpUser(s, p) => \E t \in Streams : RtcpUser(t, p)'
    <3>1. (\E t \in Streams : RtpUser(t, p)) => \E t \in Streams : RtpUser(t, p)'
      BY <2>3, SameUsers
    <3>2. (\E t \in Streams : RtcpUser(t, p)) => \E t \in Streams : RtcpUser(t, p)'
      BY <2>3, SameUsers
    <3> QED
      BY <2>3, <3>1, <3>2 DEF UseInv, UsedInv
  <2> QED BY <2>1, <2>2, <2>3
<1>2. RunningInv'
  <2> SUFFICES ASSUME NEW i \in Ids, flow'[i].active PROVE \E t \in Streams : RunsFor(t, i)'
    BY DEF RunningInv
  <2>1. CASE RunsFor(s, i)'
    BY <2>1
  <2>2. CASE flow[i].active /\ (RunsFor(s, i) => \E t \in Streams : RunsFor(t, i)')
    <3>1. PICK t \in Streams : RunsFor(t, i)
      BY <2>2 DEF UseInv, RunningInv
    <3> QED
      BY <2>2, <3>1, SameUsers
  <2> QED BY <2>1, <2>2
<1>3. MembersInv'
  <2> SUFFICES ASSUME NEW r \in Ids, NEW m \in readers'[r].members
               PROVE  \E t \in Streams : MemberAs(t, r, m)'
    BY DEF MembersInv
  <2>1. CASE MemberAs(s, r, m)'
    BY <2>1
  <2>2. CASE m \in readers[r].members /\ ~MemberAs(s, r, m)
    <3>1. PICK t \in Streams : MemberAs(t, r, m)
      BY <2>2 DEF UseInv, MembersInv
    <3> QED
      BY <2>2, <3>1, SameUsers
  <2> QED BY <2>1, <2>2
<1>4. ThreadInv'
  <2> SUFFICES ASSUME NEW r \in Ids, readers'[r].thread PROVE \E t \in Streams : ReadsFor(t, r)'
    BY DEF ThreadInv
  <2>1. CASE ReadsFor(s, r)'
    BY <2>1
  <2>2. CASE readers[r].thread /\ (ReadsFor(s, r) => \E t \in Streams : ReadsFor(t, r)')
    <3>1. PICK t \in Streams : ReadsFor(t, r)
      BY <2>2 DEF UseInv, ThreadInv
    <3> QED
      BY <2>2, <3>1, SameUsers
  <2> QED BY <2>1, <2>2
<1> QED
  BY <1>1, <1>2, <1>3, <1>4 DEF UseInv

\* A step that leaves the factory and the readers alone, and what a stream uses.
LEMMA QuietUse ==
    ASSUME UseInv, NEW s \in Streams, NEW from, NEW to, Step(s, from, to), to # "none",
           UNCHANGED <<made, bound, used_ports, reception_flows, readers>>,
           \A i \in Ids : flow'[i].active => flow[i].active \/ RunsFor(s, i)',
           Attached(s) \/ Lasts(s) \/ at[s] \in {"connect", "flow"} =>
               Attached(s)' \/ Lasts(s)' \/ to \in {"connect", "flow"},
           Attached(s) \/ from = "stop" => (Attached(s)' \/ to = "stop") /\ flow_of'[s] = flow_of[s],
           from \notin {"rtcp_reader", "reader_check", "clear_rtcp"},
           Own(s) /\ Reads(s) => Reads(s)' /\ rtcp'[s].sock = rtcp[s].sock
    PROVE  UseInv'
<1>1. /\ Own(s)' = Own(s) /\ RtpPort(s)' = RtpPort(s) /\ RtcpPort(s)' = RtcpPort(s)
      /\ Me(s)' = Me(s) /\ at'[s] = to /\ at[s] = from
      /\ \A t \in Streams \ {s} : Same(t)
  BY DEF Step, Own, RtpPort, RtcpPort
<1>2. \A p : RtpUser(s, p) => RtpUser(s, p)'
  BY <1>1 DEF RtpUser
<1>3. \A p : RtcpUser(s, p) => RtcpUser(s, p)'
  BY <1>1 DEF RtcpUser
<1>4. \A i : RunsFor(s, i) => RunsFor(s, i)'
  BY <1>1 DEF RunsFor
<1>5. \A r, m : MemberAs(s, r, m) => MemberAs(s, r, m)'
  BY <1>1 DEF MemberAs
<1>6. \A r : ReadsFor(s, r) => ReadsFor(s, r)'
  BY <1>1 DEF ReadsFor
<1>7. BoundInv'
  BY DEF UseInv, BoundInv
<1>8. \A p \in Ports : used_ports'[p] # 0 =>
               /\ used_ports'[p] = used_ports[p]
               /\ used_ports[p] \in reception_flows => used_ports[p] \in reception_flows'
               /\ readers[used_ports[p]].port = p => readers'[used_ports[p]].port = p
               /\ RtpUser(s, p) => \E t \in Streams : RtpUser(t, p)'
               /\ RtcpUser(s, p) => \E t \in Streams : RtcpUser(t, p)'
  BY <1>2, <1>3
<1>9. \A i \in Ids : flow'[i].active =>
               \/ RunsFor(s, i)'
               \/ flow[i].active /\ (RunsFor(s, i) => \E t \in Streams : RunsFor(t, i)')
  BY <1>4
<1>10. \A r \in Ids : \A m \in readers'[r].members :
               MemberAs(s, r, m)' \/ (m \in readers[r].members /\ ~MemberAs(s, r, m))
  BY <1>5
<1>11. \A r \in Ids : readers'[r].thread =>
               \/ ReadsFor(s, r)'
               \/ readers[r].thread /\ (ReadsFor(s, r) => \E t \in Streams : ReadsFor(t, r)')
  BY <1>6
<1> QED
  BY <1>1, <1>7, <1>8, <1>9, <1>10, <1>11, UseStep

\* A step of a stream that has its flow, and keeps it.
LEMMA InFlowUse ==
    ASSUME NEW b, SetupInv(b), UseInv, NEW s \in Streams,
           NEW from \in InFlow \ {"rtcp_reader", "crashed"}, NEW to \in InFlow \ {"crashed"},
           Goes(s, from, to), from \in Reading => to \in Reading /\ rtcp'[s].sock = rtcp[s].sock,
           UNCHANGED <<life, scenario>>, disturbed \subseteq disturbed',
           UNCHANGED <<made, bound, used_ports, reception_flows, readers>>,
           flow_of' = flow_of,
           \A i \in Ids : flow'[i].active => flow[i].active \/ i = flow_of[s],
           \A t \in Streams \ {s} : sock'[t] = sock[t] /\ rtcp'[t] = rtcp[t] /\ remote'[t] = remote[t]
    PROVE  UseInv'
<1>1. from \in Steps \ {"none"} /\ to \in Steps /\ to # "none"
  BY DEF InFlow, WithMedia, Reading, Up, Steps, Creating
<1>2. Step(s, from, to)
  BY <1>1, StepOf DEF SetupInv, NegotiationInv
<1>3. Attached(s) /\ Attached(s)' /\ at'[s] = to /\ at[s] = from
  BY <1>2 DEF Attached, Step
<1>4. from # "delete" /\ (Reads(s) => Reads(s)' /\ rtcp'[s].sock = rtcp[s].sock)
  BY <1>3 DEF Reads, InFlow, WithMedia, Reading, Up
<1>5. from \notin {"rtcp_reader", "reader_check", "clear_rtcp"}
  BY DEF InFlow, WithMedia, Reading, Up
<1>6. \A i \in Ids : flow'[i].active => flow[i].active \/ RunsFor(s, i)'
  BY <1>3 DEF RunsFor
<1> QED
  BY <1>1, <1>2, <1>3, <1>4, <1>5, <1>6, QuietUse

\* What leaves the factory alone, in its parts.
LEMMA InstallUses ==
    ASSUME NEW b, SetupInv(b), NEW s \in Streams, NEW types, install_handlers(s, types)
    PROVE  \A i \in Ids : flow'[i].active = flow[i].active
BY DEF SetupInv, FlowsInv, install_handlers

LEMMA UpUses ==
    ASSUME NEW b, SetupInv(b), UseInv, NEW s \in Streams,
           \/ StartZrtp(s) \/ WaitForDh(s) \/ try_lock_zrtp(s) \/ BeginZrtp(s) \/ Negotiated(s)
           \/ TakeKeys(s) \/ UnlockZrtp(s) \/ InstallAfterZrtp(s) \/ SetRemoteSsrc(s)
    PROVE  UseInv'
<1>1. PICK from \in Up, to \in Up : Goes(s, from, to)
  BY DEF StartZrtp, WaitForDh, try_lock_zrtp, BeginZrtp, Negotiated, TakeKeys, UnlockZrtp,
         InstallAfterZrtp, SetRemoteSsrc, Zrtp, Up
<1>2. /\ from \in InFlow \ {"rtcp_reader", "crashed"} /\ to \in InFlow \ {"crashed"}
      /\ from \in Reading /\ to \in Reading
  BY DEF InFlow, WithMedia, Reading, Up
<1>3. /\ UNCHANGED <<life, scenario>> /\ UNCHANGED <<sock, flow_of, rtcp>> /\ disturbed \subseteq disturbed'
      /\ UNCHANGED <<made, bound, used_ports, reception_flows, readers>>
  BY DEF StartZrtp, WaitForDh, try_lock_zrtp, BeginZrtp, Negotiated, TakeKeys, UnlockZrtp,
         InstallAfterZrtp, SetRemoteSsrc, stream, factory, ghosts
<1>4. \A t \in Streams \ {s} : remote'[t] = remote[t]
  BY DEF StartZrtp, WaitForDh, try_lock_zrtp, BeginZrtp, Negotiated, TakeKeys, UnlockZrtp,
         InstallAfterZrtp, SetRemoteSsrc, stream, SetupInv, FlowsInv
<1>5. \A i \in Ids : flow'[i].active = flow[i].active
  <2>1. CASE InstallAfterZrtp(s)
    BY <2>1, InstallUses DEF InstallAfterZrtp
  <2>2. CASE SetRemoteSsrc(s)
    BY <2>2 DEF SetRemoteSsrc, SetupInv, FlowsInv
  <2>3. CASE ~InstallAfterZrtp(s) /\ ~SetRemoteSsrc(s)
    <3>1. flow' = flow
      BY <2>3 DEF StartZrtp, WaitForDh, try_lock_zrtp, BeginZrtp, Negotiated, TakeKeys, UnlockZrtp
    <3> QED
      BY <3>1
  <2> QED BY <2>1, <2>2, <2>3
<1> QED
  BY <1>1, <1>2, <1>3, <1>4, <1>5, InFlowUse

LEMMA SetupUses ==
    ASSUME NEW b, SetupInv(b), UseInv, NEW s \in Streams,
           Install(s) \/ AddSrtpCtx(s) \/ CreateMedia(s) \/ ReaderStart(s) \/ StartFlow(s)
    PROVE  UseInv'
<1>1. PICK from \in {"install", "user", "media", "reader_start", "start"},
           to \in {"user", "media", "start", "rtcp_start", "rtcp_socket", "reader_launch"} \cup Up :
           /\ Goes(s, from, to) /\ (from \in Reading => to \in Reading /\ rtcp' = rtcp)
  <2>1. CASE StartFlow(s)
    BY <2>1 DEF StartFlow, Zrtp, stream, Reading, Up
  <2>2. CASE CreateMedia(s)
    <3>1. Config(s).rtcp \in {"none", "mux", "own"}
      BY <2>2, ConfigOf, ConfigsTyped DEF CreateMedia, Goes, SetupInv, NegotiationInv, TypeInv
    <3> QED
      BY <2>2, <3>1 DEF CreateMedia, AfterMedia, Reading, Up
  <2>3. CASE Install(s) \/ AddSrtpCtx(s) \/ ReaderStart(s)
    BY <2>3 DEF Install, AddSrtpCtx, ReaderStart, stream, Reading, Up
  <2> QED BY <2>1, <2>2, <2>3
<1>2. from \in InFlow \ {"rtcp_reader", "crashed"} /\ to \in InFlow \ {"crashed"}
  BY DEF InFlow, WithMedia, Reading, Up
<1>3. /\ UNCHANGED <<life, scenario>> /\ UNCHANGED <<sock, flow_of, remote>> /\ disturbed \subseteq disturbed'
      /\ UNCHANGED <<made, bound, used_ports, reception_flows, readers>>
  BY DEF Install, AddSrtpCtx, CreateMedia, ReaderStart, StartFlow, stream, factory, ghosts
<1>4. \A t \in Streams \ {s} : rtcp'[t] = rtcp[t]
  BY DEF Install, AddSrtpCtx, CreateMedia, ReaderStart, StartFlow, stream, SetupInv,
         NegotiationInv, TypeInv, StreamInv
<1>5. \A i \in Ids : flow'[i].active => flow[i].active \/ i = flow_of[s]
  <2>1. CASE Install(s) \/ CreateMedia(s)
    BY <2>1, InstallUses DEF Install, CreateMedia
  <2>2. CASE StartFlow(s)
    BY <2>2 DEF StartFlow, SetupInv, FlowsInv
  <2>3. CASE AddSrtpCtx(s) \/ ReaderStart(s)
    BY <2>3 DEF AddSrtpCtx, ReaderStart
  <2> QED BY <2>1, <2>2, <2>3
<1>6. /\ from \in Reading => to \in Reading /\ rtcp'[s].sock = rtcp[s].sock
      /\ \A t \in Streams \ {s} : sock'[t] = sock[t] /\ rtcp'[t] = rtcp[t] /\ remote'[t] = remote[t]
      /\ UNCHANGED <<life, scenario>> /\ flow_of' = flow_of /\ disturbed \subseteq disturbed'
  BY <1>1, <1>3, <1>4
<1>7. UNCHANGED <<made, bound, used_ports, reception_flows, readers>> /\ Goes(s, from, to)
  BY <1>1, <1>3
<1> QED
  BY <1>2, <1>5, <1>6, <1>7, InFlowUse

LEMMA NothingDisturbed ==
    ASSUME disturbed = {}
    PROVE  \A p : Undisturbed(p)
BY DEF Undisturbed, Disturbed

LEMMA FindUses ==
    ASSUME NEW b, SetupInv(b), UseInv, disturbed = {}, NEW s \in Streams, GetFlow(s) \/ Connect(s)
    PROVE  UseInv'
<1>1. PICK from \in {"connect", "flow"}, to \in {"flow", "install"} : Goes(s, from, to)
  BY DEF GetFlow, Connect
<1>2. /\ UNCHANGED <<life, scenario>> /\ UNCHANGED <<sock, remote, rtcp>> /\ disturbed \subseteq disturbed'
      /\ UNCHANGED <<made, reception_flows, readers, flow>>
      /\ from \in Steps \ {"none"} /\ to \in Steps /\ to # "none"
  BY DEF GetFlow, Connect, stream, factory, ghosts, Steps, Creating
<1>3. TypeInv
  BY DEF SetupInv, NegotiationInv
<1>4. \A t \in Streams \ {s} : flow_of'[t] = flow_of[t]
  BY <1>3 DEF GetFlow, Connect, stream, TypeInv, StreamInv
<1>5. UNCHANGED <<bound, used_ports>>
  <2>1. CASE GetFlow(s)
    BY <2>1 DEF GetFlow, factory
  <2>2. CASE Connect(s)
    <3>1. Rtp(s)
      BY <2>2, NothingDisturbed DEF SetupInv, RtpInv, Connect, Goes
    <3>2. used_ports[Config(s).port] # 0
      BY <2>2, <3>1 DEF Connect, Goes, Rtp, RtpPort
    <3> QED
      BY <2>2, <3>2 DEF Connect, Bind
  <2> QED BY <2>1, <2>2
<1>6. Step(s, from, to)
  BY <1>1, <1>2, <1>3, <1>4, StepOf DEF SetupInv
<1>7. at[s] = from /\ at'[s] = to
  BY <1>6 DEF Step
<1>8. /\ ~Attached(s) /\ ~Reads(s) /\ from \notin {"stop", "rtcp_reader", "reader_check", "clear_rtcp"}
      /\ Attached(s)' \/ to \in {"connect", "flow"}
  BY <1>7 DEF Attached, Reads, InFlow, WithMedia, Reading, Up, Leaving
<1>9. /\ UNCHANGED <<made, bound, used_ports, reception_flows, readers>>
      /\ \A i \in Ids : flow'[i].active => flow[i].active
  BY <1>2, <1>5
<1> QED
  BY <1>2, <1>6, <1>8, <1>9, QuietUse

LEMMA RtcpStartUses ==
    ASSUME NEW b, SetupInv(b), UseInv, disturbed = {}, NEW s \in Streams, RtcpStart(s)
    PROVE  UseInv'
<1>1. PICK to \in {"start", "reader_start"} : Goes(s, "rtcp_start", to)
  BY DEF RtcpStart
<1>2. /\ UNCHANGED <<life, scenario>> /\ UNCHANGED <<sock, remote, flow_of>> /\ disturbed \subseteq disturbed'
      /\ UNCHANGED <<made, reception_flows, readers, flow>>
  BY DEF RtcpStart, ghosts
<1>3. TypeInv /\ at[s] = "rtcp_start"
  BY <1>1 DEF SetupInv, NegotiationInv, Goes
<1>4. UNCHANGED <<bound, used_ports>>
  <2>1. CASE Config(s).rtcp = "mux"
    BY <2>1 DEF RtcpStart
  <2>2. CASE Config(s).rtcp # "mux"
    <3>1. Own(s)
      BY <1>3, <2>2 DEF SetupInv, ShapeInv, Shape
    <3>2. Rtcp(s) /\ Reads(s)
      BY <1>3, <3>1, NothingDisturbed DEF SetupInv, RtcpInv, Reads, Reading
    <3>3. used_ports[Config(s).port + 1] # 0
      BY <3>2 DEF Rtcp, RtcpPort
    <3> QED
      BY <2>2, <3>3 DEF RtcpStart, Bind
  <2> QED BY <2>1, <2>2
<1>5. \A t \in Streams : rtcp'[t].sock = rtcp[t].sock
  BY <1>3 DEF RtcpStart, TypeInv, StreamInv, Rtcps
<1>6. \A t \in Streams \ {s} : rtcp'[t] = rtcp[t]
  BY <1>3 DEF RtcpStart, TypeInv, StreamInv
<1>7. /\ "rtcp_start" \in InFlow \ {"rtcp_reader", "crashed"} /\ to \in InFlow \ {"crashed"}
      /\ to \in Reading
  BY DEF InFlow, WithMedia, Reading
<1>8. /\ UNCHANGED <<made, bound, used_ports, reception_flows, readers>>
      /\ \A i \in Ids : flow'[i].active => flow[i].active
      /\ \A t \in Streams \ {s} : sock'[t] = sock[t] /\ rtcp'[t] = rtcp[t] /\ remote'[t] = remote[t]
  BY <1>2, <1>4, <1>6
<1> QED
  BY <1>1, <1>2, <1>5, <1>7, <1>8, InFlowUse

LEMMA DestroyUses ==
    ASSUME NEW b, SetupInv(b), UseInv, disturbed = {}, NEW s \in Streams, Destroy(s)
    PROVE  UseInv'
<1>1. PICK from \in {"up", "user", "manual", "broken"} : Goes(s, from, "delete")
  BY DEF Destroy
<1>2. /\ UNCHANGED <<life, scenario>> /\ UNCHANGED <<sock, flow_of, remote, rtcp>> /\ disturbed \subseteq disturbed'
      /\ UNCHANGED <<made, bound, used_ports, reception_flows, readers>> /\ flow' = flow
      /\ from \in Steps \ {"none"} /\ "delete" \in Steps
  BY DEF Destroy, stream, factory, Steps, Creating, Deleting
<1>3. Step(s, from, "delete")
  BY <1>1, <1>2, StepOf DEF SetupInv, NegotiationInv
<1>4. Shape(s) /\ at'[s] = "delete" /\ at[s] = from /\ ~Disturbed(RtpPort(s))
  BY <1>3, NothingDisturbed DEF SetupInv, ShapeInv, Step, Undisturbed
<1>5. from # "broken"
  BY <1>4 DEF Shape, PortsOf, RtpPort
<1>6. flow_of[s] # 0 /\ Attached(s)'
  BY <1>2, <1>4 DEF Shape, Attached, InFlow, WithMedia, Reading, Up, Leaving
<1>7. ASSUME Own(s), Reads(s) PROVE Reads(s)'
  <2>1. from \in Reading \ {"rtcp_start"} /\ from # "none"
    BY <1>4, <1>5, <1>7 DEF Reads, Reading, Up
  <2>2. Rtcp(s)
    BY <1>4, <1>7, <2>1, NothingDisturbed DEF SetupInv, RtcpInv
  <2>3. rtcp[s].reader # 0
    BY <1>4, <1>7, <2>1, <2>2 DEF Rtcp
  <2> QED
    BY <1>2, <1>4, <2>3 DEF Reads
<1>8. /\ from \notin {"stop", "rtcp_reader", "reader_check", "clear_rtcp"}
      /\ \A i \in Ids : flow'[i].active => flow[i].active
      /\ flow_of'[s] = flow_of[s] /\ rtcp'[s].sock = rtcp[s].sock
  BY <1>2
<1> QED
  BY <1>2, <1>3, <1>6, <1>7, <1>8, QuietUse

\* A stream that comes or has gone uses nothing.
LEMMA NoUser ==
    ASSUME NEW s, at[s] \in {"none", "socket", "free"}
    PROVE  /\ \A p : ~RtpUser(s, p) /\ ~RtcpUser(s, p)
           /\ \A i : ~RunsFor(s, i)
           /\ \A r, m : ~MemberAs(s, r, m)
           /\ \A r : ~ReadsFor(s, r)
<1>1. ~Attached(s) /\ ~Lasts(s) /\ ~Reads(s)
  BY DEF Attached, Lasts, Reads, InFlow, WithMedia, Reading, Up, Leaving
<1> QED
  BY <1>1 DEF RtpUser, RtcpUser, RunsFor, MemberAs, ReadsFor

LEMMA ComeAndGo ==
    ASSUME NEW b, SetupInv(b), UseInv, disturbed = {}, NEW s \in Streams, Create(s) \/ Free(s)
    PROVE  UseInv'
<1>1. at[s] \in {"none", "free"}
  BY DEF Create, Free, Goes
<1>2. TypeInv /\ FlowsInv
  BY DEF SetupInv, NegotiationInv
<1>3. UNCHANGED <<made, bound, used_ports, reception_flows, readers, flow, scenario>>
  BY DEF Create, Free, factory
<1>4. \A t \in Streams \ {s} :
          /\ at'[t] = at[t] /\ life'[t] = life[t] /\ sock'[t] = sock[t] /\ flow_of'[t] = flow_of[t]
          /\ rtcp'[t] = rtcp[t] /\ remote'[t] = remote[t]
  BY <1>2 DEF Create, Free, Goes, free_resources, TypeInv, StreamInv, PlaceInv, FlowsInv
<1>5. \A t \in Streams \ {s} : Same(t)
  BY <1>3, <1>4 DEF Same, Config, Me
<1>6. /\ \A p : ~RtpUser(s, p) /\ ~RtcpUser(s, p)
      /\ \A i : ~RunsFor(s, i)
      /\ \A r, m : ~MemberAs(s, r, m)
      /\ \A r : ~ReadsFor(s, r)
  BY <1>1, NoUser
<1>7. BoundInv'
  BY <1>3 DEF UseInv, BoundInv
<1>8. /\ used_ports' = used_ports /\ reception_flows' = reception_flows /\ readers' = readers /\ flow' = flow
  BY <1>3
<1> QED
  BY <1>5, <1>6, <1>7, <1>8, UseStep

LEMMA UsedIds ==
    ASSUME TypeInv, NEW p \in Ports, used_ports[p] # 0
    PROVE  used_ports[p] \in Ids /\ bound[used_ports[p]] = p
<1>1. used_ports[p] \in 0 .. made /\ made \in Nat /\ made <= MaxSockets /\ MaxSockets \in Nat
  BY MadeIsNat, MaxIsNat DEF TypeInv, FactoryInv
<1> QED
  BY <1>1 DEF TypeInv, FactoryInv, Ids

\* A step that leaves the factory alone.
LEMMA ReadersUse ==
    ASSUME TypeInv, UseInv, NEW s \in Streams, \A t \in Streams \ {s} : Same(t),
           UNCHANGED <<made, bound, used_ports, reception_flows>>,
           \A r \in Ids : readers'[r].port = readers[r].port,
           \A p : RtpUser(s, p) => \E t \in Streams : RtpUser(t, p)',
           \A p : RtcpUser(s, p) => \E t \in Streams : RtcpUser(t, p)',
           \A i \in Ids : flow'[i].active =>
               flow[i].active /\ (RunsFor(s, i) => \E t \in Streams : RunsFor(t, i)'),
           \A r \in Ids : \A m \in readers'[r].members :
               MemberAs(s, r, m)' \/ (m \in readers[r].members /\ ~MemberAs(s, r, m)),
           \A r \in Ids : readers'[r].thread =>
               \/ ReadsFor(s, r)'
               \/ readers[r].thread /\ (ReadsFor(s, r) => \E t \in Streams : ReadsFor(t, r)')
    PROVE  UseInv'
<1>1. BoundInv'
  BY DEF UseInv, BoundInv
<1>2. \A p \in Ports : used_ports'[p] # 0 =>
               /\ used_ports'[p] = used_ports[p]
               /\ used_ports[p] \in reception_flows => used_ports[p] \in reception_flows'
               /\ readers[used_ports[p]].port = p => readers'[used_ports[p]].port = p
               /\ RtpUser(s, p) => \E t \in Streams : RtpUser(t, p)'
               /\ RtcpUser(s, p) => \E t \in Streams : RtcpUser(t, p)'
  BY UsedIds
<1> QED
  BY <1>1, <1>2, UseStep

LEMMA LaunchesUses ==
    ASSUME NEW b, SetupInv(b), UseInv, disturbed = {}, NEW s \in Streams, Launches(s)
    PROVE  UseInv'
<1> SUFFICES ASSUME NEW r, r = rtcp[s].reader PROVE UseInv'
  OBVIOUS
<1>1. PICK from \in {"reader_launch", "reader_mark"}, to \in {"reader_mark", "start"} :
          Goes(s, from, to)
  BY DEF Launches, ReaderLaunch, ReaderLeaves, ReaderMark
<1>2. /\ UNCHANGED <<life, scenario, factory, flow, disturbed>>
      /\ UNCHANGED <<sock, flow_of, remote, rtcp>>
      /\ from \in Steps \ {"none"} /\ to \in Steps
  BY DEF Launches, ReaderLaunch, ReaderLeaves, ReaderMark, stream, ghosts, Steps, Creating
<1>3. TypeInv /\ ShapeInv /\ UNCHANGED <<made, bound, used_ports, reception_flows>>
  BY <1>2, FactoryParts DEF SetupInv, NegotiationInv
<1>4. Step(s, from, to)
  BY <1>1, <1>2, <1>3, StepOf DEF SetupInv
<1>5. /\ Own(s)' = Own(s) /\ at'[s] = to /\ at[s] = from /\ Own(s)
      /\ RtcpPort(s)' = RtcpPort(s) /\ RtpPort(s)' = RtpPort(s) /\ Me(s)' = Me(s)
      /\ \A t \in Streams \ {s} : Same(t)
  BY <1>3, <1>4 DEF ShapeInv, Step, Own, Shape, RtcpPort, RtpPort
<1>6. \A i \in Ids : /\ readers'[i].port = readers[i].port
                     /\ readers'[i].members = readers[i].members
                     /\ i # r => readers'[i] = readers[i]
  BY <1>3 DEF Launches, ReaderLaunch, ReaderLeaves, ReaderMark, TypeInv, FactoryInv, Readers
<1>7. Attached(s) /\ Attached(s)' /\ Reads(s) /\ Reads(s)'
  BY <1>5 DEF Attached, Reads, InFlow, WithMedia, Reading, Up
<1>8. rtcp[s].sock = r
  <2>1. Rtcp(s) /\ at[s] \in Reading \ {"rtcp_start"}
    BY <1>5, NothingDisturbed DEF SetupInv, RtcpInv, Reading
  <2> QED
    BY <2>1 DEF Rtcp
<1>9. /\ \A p : RtpUser(s, p) => RtpUser(s, p)'
      /\ \A p : RtcpUser(s, p) => RtcpUser(s, p)'
      /\ \A i : RunsFor(s, i) => RunsFor(s, i)'
      /\ \A i, m : MemberAs(s, i, m) => MemberAs(s, i, m)'
      /\ \A i : ReadsFor(s, i) => ReadsFor(s, i)'
  BY <1>2, <1>5, <1>7 DEF RtpUser, RtcpUser, RunsFor, MemberAs, ReadsFor
<1>10. ReadsFor(s, r)'
  BY <1>2, <1>5, <1>7, <1>8 DEF ReadsFor
<1>11. \A i \in Ids : readers'[i].thread =>
               \/ ReadsFor(s, i)'
               \/ readers[i].thread /\ (ReadsFor(s, i) => \E t \in Streams : ReadsFor(t, i)')
  BY <1>6, <1>9, <1>10
<1>12. \A i \in Ids : \A m \in readers'[i].members :
               MemberAs(s, i, m)' \/ (m \in readers[i].members /\ ~MemberAs(s, i, m))
  BY <1>6, <1>9
<1>13. flow' = flow
  BY <1>2
<1> QED
  BY <1>3, <1>5, <1>6, <1>9, <1>11, <1>12, <1>13, ReadersUse

LEMMA RtcpReaderUses ==
    ASSUME NEW b, SetupInv(b), UseInv, disturbed = {}, NEW s \in Streams, RtcpReader(s)
    PROVE  UseInv'
<1> SUFFICES ASSUME NEW k, k = rtcp[s].sock PROVE UseInv'
  OBVIOUS
<1>1. /\ Goes(s, "rtcp_reader", "rtcp_start")
      /\ UNCHANGED <<life, scenario, factory, flow, disturbed>>
      /\ UNCHANGED <<sock, flow_of, remote, rtcp>>
      /\ "rtcp_reader" \in Steps \ {"none"} /\ "rtcp_start" \in Steps
  BY DEF RtcpReader, stream, ghosts, Steps, Creating
<1>2. TypeInv /\ ShapeInv /\ UNCHANGED <<made, bound, used_ports, reception_flows>>
  BY <1>1, FactoryParts DEF SetupInv, NegotiationInv
<1>3. Step(s, "rtcp_reader", "rtcp_start")
  BY <1>1, <1>2, StepOf DEF SetupInv
<1>4. /\ Own(s)' = Own(s) /\ at'[s] = "rtcp_start" /\ at[s] = "rtcp_reader" /\ Own(s)
      /\ RtcpPort(s)' = RtcpPort(s) /\ RtpPort(s)' = RtpPort(s) /\ Me(s)' = Me(s)
      /\ \A t \in Streams \ {s} : Same(t)
  BY <1>2, <1>3 DEF ShapeInv, Step, Own, Shape, RtcpPort, RtpPort
<1>5. PICK r \in Ids : /\ readers[r].port = RtcpPort(s)
                       /\ readers' = [readers EXCEPT ![r].members = @ \cup {Me(s)}, ![r].sock = k]
  BY DEF RtcpReader, get_rtcp_reader, RtcpPort
<1>6. \A i \in Ids : /\ readers'[i].port = readers[i].port
                     /\ readers'[i].thread = readers[i].thread
                     /\ i = r => readers'[i].members = readers[i].members \cup {Me(s)}
                     /\ i # r => readers'[i] = readers[i]
  BY <1>2, <1>5 DEF TypeInv, FactoryInv, Readers
<1>7. /\ Attached(s) /\ Attached(s)' /\ ~Reads(s) /\ Reads(s)'
  BY <1>4 DEF Attached, Reads, InFlow, WithMedia, Reading, Up
<1>8. k = r
  <2>1. Rtcp(s)
    BY <1>4, NothingDisturbed DEF SetupInv, RtcpInv
  <2>2. RtcpPort(s) # 0
    BY <1>2, <1>4, ConfigOf, ConfigsTyped, SetupAssumption DEF TypeInv, RtcpPort
  <2> QED
    BY <1>4, <1>5, <2>1, <2>2, NothingDisturbed DEF Rtcp, SetupInv, RegInv
<1>9. /\ \A p : RtpUser(s, p) => RtpUser(s, p)'
      /\ \A p : RtcpUser(s, p) => RtcpUser(s, p)'
      /\ \A i : RunsFor(s, i) => RunsFor(s, i)'
      /\ \A i, m : ~MemberAs(s, i, m)
      /\ \A i : ReadsFor(s, i) => ReadsFor(s, i)'
      /\ MemberAs(s, r, Me(s))'
  BY <1>1, <1>4, <1>7, <1>8 DEF RtpUser, RtcpUser, RunsFor, MemberAs, ReadsFor
<1>10. \A i \in Ids : readers'[i].thread =>
               readers[i].thread /\ (ReadsFor(s, i) => \E t \in Streams : ReadsFor(t, i)')
  BY <1>6, <1>9
<1>11. \A i \in Ids : \A m \in readers'[i].members :
               MemberAs(s, i, m)' \/ (m \in readers[i].members /\ ~MemberAs(s, i, m))
  <2> SUFFICES ASSUME NEW i \in Ids, NEW m \in readers'[i].members
               PROVE  MemberAs(s, i, m)' \/ m \in readers[i].members
    BY <1>9
  <2>1. CASE i = r /\ m = Me(s)
    BY <1>4, <1>9, <2>1
  <2>2. CASE ~(i = r /\ m = Me(s))
    BY <1>6, <2>2
  <2> QED BY <2>1, <2>2
<1>12. flow' = flow
  BY <1>1
<1> QED
  BY <1>2, <1>4, <1>6, <1>9, <1>10, <1>11, <1>12, ReadersUse

LEMMA StopRtcpUses ==
    ASSUME NEW b, SetupInv(b), UseInv, disturbed = {}, NEW s \in Streams, StopRtcp(s)
    PROVE  UseInv'
<1> SUFFICES ASSUME NEW r, r = rtcp[s].reader,
                    NEW to, to = IF r # 0 THEN "reader_check" ELSE AfterRtcp(s)
             PROVE UseInv'
  OBVIOUS
<1>1. /\ Goes(s, "delete", to)
      /\ UNCHANGED <<life, scenario, factory, flow, disturbed>>
      /\ UNCHANGED <<sock, flow_of, remote, rtcp>>
      /\ readers' = IF r # 0 THEN [readers EXCEPT ![r].members = @ \ {Me(s)}] ELSE readers
      /\ "delete" \in Steps \ {"none"} /\ to \in Steps
      /\ to = IF r # 0 THEN "reader_check" ELSE IF flow_of[s] # 0 THEN "remove" ELSE "free"
  BY DEF StopRtcp, stream, ghosts, Steps, Deleting, AfterRtcp
<1>2. TypeInv /\ ShapeInv /\ UNCHANGED <<made, bound, used_ports, reception_flows>>
  BY <1>1, FactoryParts DEF SetupInv, NegotiationInv
<1>3. Step(s, "delete", to)
  BY <1>1, <1>2, StepOf DEF SetupInv
<1>4. /\ Own(s)' = Own(s) /\ at'[s] = to /\ at[s] = "delete"
      /\ RtcpPort(s)' = RtcpPort(s) /\ RtpPort(s)' = RtpPort(s) /\ Me(s)' = Me(s)
      /\ \A t \in Streams \ {s} : Same(t)
      /\ r # 0 => flow_of[s] # 0 /\ Own(s)
  BY <1>2, <1>3 DEF ShapeInv, Shape, Step, Own, RtcpPort, RtpPort
<1>5. \A i \in Ids : /\ readers'[i].port = readers[i].port
                     /\ readers'[i].thread = readers[i].thread
                     /\ i = r => readers'[i].members = readers[i].members \ {Me(s)}
                     /\ i # r => readers'[i] = readers[i]
  BY <1>1, <1>2 DEF TypeInv, FactoryInv, Readers, Ids
<1>6. /\ Attached(s) => Attached(s)'
      /\ Reads(s) => r # 0 /\ ~Lasts(s)
  BY <1>1, <1>4 DEF Attached, Reads, InFlow, WithMedia, Reading, Up, Leaving, Lasts
<1>7. r # 0 => rtcp[s].sock = r
  <2>1. Own(s) => Rtcp(s)
    BY <1>4, NothingDisturbed DEF SetupInv, RtcpInv
  <2> QED
    BY <1>4, <2>1 DEF Rtcp
<1>8. /\ \A p : RtpUser(s, p) => RtpUser(s, p)'
      /\ \A p : RtcpUser(s, p) => RtcpUser(s, p)'
      /\ \A i : RunsFor(s, i) => RunsFor(s, i)'
      /\ \A i, m : MemberAs(s, i, m) => i = r /\ m = Me(s)
      /\ \A i : ReadsFor(s, i) => ReadsFor(s, i)'
  BY <1>1, <1>4, <1>6, <1>7 DEF RtpUser, RtcpUser, RunsFor, MemberAs, ReadsFor, Lasts
<1>9. \A i \in Ids : readers'[i].thread =>
               readers[i].thread /\ (ReadsFor(s, i) => \E t \in Streams : ReadsFor(t, i)')
  BY <1>5, <1>8
<1>10. \A i \in Ids : \A m \in readers'[i].members :
               m \in readers[i].members /\ ~MemberAs(s, i, m)
  BY <1>5, <1>8
<1>11. flow' = flow
  BY <1>1
<1> QED
  BY <1>2, <1>4, <1>5, <1>8, <1>9, <1>10, <1>11, ReadersUse

LEMMA ReaderCheckUses ==
    ASSUME NEW b, SetupInv(b), UseInv, disturbed = {}, NEW s \in Streams, ReaderCheck(s)
    PROVE  UseInv'
<1> SUFFICES ASSUME NEW q, q = RtcpPort(s), NEW r, r = rtcp[s].reader, NEW empty, empty = (readers[r].members = {}),
                    NEW to, to = IF empty THEN "clear_rtcp" ELSE AfterRtcp(s)
             PROVE UseInv'
  OBVIOUS
<1>1. /\ Goes(s, "reader_check", to)
      /\ UNCHANGED <<life, scenario, factory, flow, disturbed>>
      /\ UNCHANGED <<sock, flow_of, remote, rtcp>>
      /\ readers' = IF empty THEN [readers EXCEPT ![r].active = FALSE, ![r].thread = FALSE]
                    ELSE readers
      /\ "reader_check" \in Steps \ {"none"} /\ to \in Steps /\ to \in {"clear_rtcp", "remove", "free"}
  BY DEF ReaderCheck, stream, ghosts, Steps, Deleting, AfterRtcp
<1>2. /\ TypeInv /\ ShapeInv /\ Belongs(b) /\ UNCHANGED <<made, bound, used_ports, reception_flows>>
  BY <1>1, FactoryParts DEF SetupInv, NegotiationInv
<1>3. Step(s, "reader_check", to)
  BY <1>1, <1>2, StepOf DEF SetupInv
<1>4. /\ Shape(s) /\ Own(s)' = Own(s) /\ at'[s] = to /\ at[s] = "reader_check"
      /\ RtcpPort(s)' = RtcpPort(s) /\ RtpPort(s)' = RtpPort(s)
      /\ \A t \in Streams \ {s} : Same(t)
  BY <1>2, <1>3 DEF ShapeInv, Step, Own, RtcpPort, RtpPort
<1>5. r # 0 /\ flow_of[s] # 0 /\ Own(s) /\ r \in Ids
  BY <1>2, <1>4, ReaderOf DEF Shape
<1>6. to = (IF empty THEN "clear_rtcp" ELSE "remove")
  BY <1>5 DEF AfterRtcp
<1>7. \A i \in Ids : /\ readers'[i].port = readers[i].port
                     /\ readers'[i].members = readers[i].members
                     /\ readers'[i].thread => readers[i].thread
                     /\ empty /\ i = r => ~readers'[i].thread
  <2>1. readers \in [Ids -> Readers(made)]
    <3>1. FactoryInv
      BY <1>2 DEF TypeInv
    <3> QED
      BY <3>1 DEF FactoryInv
  <2>2. CASE empty
    <3>1. readers' = [readers EXCEPT ![r].active = FALSE, ![r].thread = FALSE]
      BY <1>1, <2>2
    <3>2. /\ \A i \in Ids \ {r} : readers'[i] = readers[i]
          /\ readers'[r] = [readers[r] EXCEPT !.active = FALSE, !.thread = FALSE]
      BY <1>5, <2>1, <3>1
    <3>3. readers[r] \in Readers(made)
      BY <1>5, <2>1
    <3>4. /\ readers'[r].port = readers[r].port /\ readers'[r].members = readers[r].members
          /\ ~readers'[r].thread
      BY <3>2, <3>3 DEF Readers
    <3> QED
      BY <2>2, <3>2, <3>4
  <2>3. CASE ~empty
    BY <1>1, <2>3
  <2> QED
    BY <2>2, <2>3
<1>8. rtcp[s].sock = r
  <2>1. Rtcp(s)
    BY <1>4, <1>5, NothingDisturbed DEF SetupInv, RtcpInv
  <2> QED
    BY <1>5, <2>1 DEF Rtcp
<1>9. Attached(s) /\ Attached(s)' /\ ~Reads(s)
  BY <1>1, <1>4, <1>5, <1>6 DEF Attached, Reads, InFlow, WithMedia, Reading, Up, Leaving
<1>10. ASSUME ~empty
       PROVE  \E t \in Streams : RtcpUser(t, q)' /\ ReadsFor(t, r)'
  <2>1. PICK m \in readers[r].members : TRUE
    BY <1>10
  <2>2. PICK t \in Streams : MemberAs(t, r, m)
    BY <1>5, <2>1 DEF UseInv, MembersInv
  <2>3. at[t] # "none" /\ Own(t) /\ Reads(t) /\ rtcp[t].sock = r /\ Same(t)
    BY <1>4, <1>9, <2>2 DEF MemberAs
  <2>4. RtcpPort(t) = RtcpPort(s)
    BY <1>2, <1>5, <1>8, <2>3, Holder
  <2>5. RtcpUser(t, q) /\ ReadsFor(t, r)
    BY <2>3, <2>4 DEF RtcpUser, ReadsFor
  <2> QED
    BY <2>3, <2>5, SameUsers
<1>11. \A p : RtpUser(s, p) => \E t \in Streams : RtpUser(t, p)'
  BY <1>1, <1>4, <1>9 DEF RtpUser
<1>12. \A p : RtcpUser(s, p) => \E t \in Streams : RtcpUser(t, p)'
  <2>1. CASE empty
    BY <1>4, <1>6, <2>1 DEF RtcpUser
  <2>2. CASE ~empty
    <3>1. \A p : RtcpUser(s, p) => p = q
      BY DEF RtcpUser
    <3> QED
      BY <1>10, <2>2, <3>1
  <2> QED BY <2>1, <2>2
<1>13. \A i \in Ids : readers'[i].thread =>
               readers[i].thread /\ (ReadsFor(s, i) => \E t \in Streams : ReadsFor(t, i)')
  BY <1>7, <1>8, <1>10 DEF ReadsFor
<1>14. \A i \in Ids : flow'[i].active =>
               flow[i].active /\ (RunsFor(s, i) => \E t \in Streams : RunsFor(t, i)')
  BY <1>1, <1>9 DEF RunsFor
<1>15. \A i \in Ids : \A m \in readers'[i].members :
               m \in readers[i].members /\ ~MemberAs(s, i, m)
  BY <1>7, <1>9 DEF MemberAs
<1> QED
  BY <1>2, <1>4, <1>7, <1>11, <1>12, <1>13, <1>14, <1>15, ReadersUse

LEMMA RemoveHandlersUses ==
    ASSUME NEW b, SetupInv(b), UseInv, disturbed = {}, NEW s \in Streams, RemoveHandlers(s)
    PROVE  UseInv'
<1> SUFFICES ASSUME NEW q, q = RtpPort(s), NEW i, i = flow_of[s],
                    NEW left, left = flow[i].handlers \ Under(remote[s], flow[i].handlers),
                    NEW to, to = IF left = {} THEN "stop" ELSE "free"
             PROVE UseInv'
  OBVIOUS
<1>1. /\ Goes(s, "remove", to)
      /\ UNCHANGED <<life, scenario, factory, readers, disturbed>>
      /\ UNCHANGED <<sock, flow_of, remote, rtcp>>
      /\ flow' = [flow EXCEPT ![i].handlers = left]
      /\ "remove" \in Steps \ {"none"} /\ to \in Steps
  BY DEF RemoveHandlers, stream, ghosts, Steps, Deleting
<1>2. /\ TypeInv /\ ShapeInv /\ Belongs(b) /\ FlowsInv
      /\ UNCHANGED <<made, bound, used_ports, reception_flows>>
  BY <1>1, FactoryParts DEF SetupInv, NegotiationInv
<1>3. Step(s, "remove", to)
  BY <1>1, <1>2, StepOf
<1>4. /\ Shape(s) /\ Own(s)' = Own(s) /\ at'[s] = to /\ at[s] = "remove"
      /\ RtcpPort(s)' = RtcpPort(s) /\ RtpPort(s)' = RtpPort(s)
      /\ \A t \in Streams \ {s} : Same(t)
  BY <1>2, <1>3 DEF ShapeInv, Step, Own, RtcpPort, RtpPort
<1>5. Attached(s) /\ ~Reads(s) /\ (to = "stop" => Lasts(s)')
  BY <1>4 DEF Attached, Reads, Lasts, Leaving, Shape, Reading, Up
<1>6. i \in Ids /\ i # 0
  BY <1>2, <1>5, FlowOfLast DEF Ids
<1>7. \A j \in Ids : flow'[j].active = flow[j].active
  BY <1>1, <1>2, <1>6 DEF FlowsInv
<1>8. ASSUME left # {}
      PROVE  \E t \in Streams : RtpUser(t, q)' /\ RunsFor(t, i)'
  <2>1. PICK h \in left : TRUE
    BY <1>8
  <2>2. h \in flow[i].handlers /\ h[1] # remote[s]
    BY <2>1 DEF Under
  <2>3. bound[i] # 0
    <3>1. i <= made
      BY <1>2, <1>6 DEF TypeInv, StreamInv
    <3> QED
      BY <1>6, <3>1 DEF UseInv, BoundInv
  <2>4. PICK t \in Streams : flow_of[t] = i /\ h[1] = remote[t] /\ Installed(t)
    BY <1>6, <2>2, <2>3, NothingDisturbed DEF SetupInv, OwnerInv
  <2>5. t # s /\ Attached(t) /\ at[t] # "none" /\ Same(t)
    BY <1>4, <2>2, <2>4 DEF Installed, Attached, InFlow, WithMedia, Reading, Up, Leaving
  <2>6. RtpPort(t) = RtpPort(s)
    BY <1>2, <1>6, <2>4, Holder
  <2>7. RtpUser(t, q) /\ RunsFor(t, i)
    BY <2>4, <2>5, <2>6 DEF RtpUser, RunsFor
  <2> QED
    BY <2>5, <2>7, SameUsers
<1>9. \A p : RtpUser(s, p) => \E t \in Streams : RtpUser(t, p)'
  <2>1. CASE left = {}
    BY <1>1, <1>4, <1>5, <2>1 DEF RtpUser
  <2>2. CASE left # {}
    <3>1. \A p : RtpUser(s, p) => p = q
      BY DEF RtpUser
    <3> QED
      BY <1>8, <2>2, <3>1
  <2> QED BY <2>1, <2>2
<1>10. \A j \in Ids : flow'[j].active =>
               flow[j].active /\ (RunsFor(s, j) => \E t \in Streams : RunsFor(t, j)')
  <2>1. CASE left = {}
    BY <1>1, <1>4, <1>7, <2>1 DEF RunsFor
  <2>2. CASE left # {}
    BY <1>7, <1>8, <2>2 DEF RunsFor
  <2> QED BY <2>1, <2>2
<1>11. /\ \A p : ~RtcpUser(s, p)
       /\ \A j, m : ~MemberAs(s, j, m)
       /\ \A j : ~ReadsFor(s, j)
  BY <1>4, <1>5 DEF RtcpUser, MemberAs, ReadsFor
<1>12. readers' = readers
  BY <1>1
<1> QED
  BY <1>2, <1>4, <1>9, <1>10, <1>11, <1>12, ReadersUse

LEMMA StopFlowUses ==
    ASSUME NEW b, SetupInv(b), UseInv, disturbed = {}, NEW s \in Streams, StopFlow(s)
    PROVE  UseInv'
<1> SUFFICES ASSUME NEW i, i = flow_of[s] PROVE UseInv'
  OBVIOUS
<1>1. /\ Goes(s, "stop", "clear")
      /\ UNCHANGED <<life, scenario, factory, readers, disturbed>>
      /\ UNCHANGED <<sock, flow_of, remote, rtcp>>
      /\ flow' = [flow EXCEPT ![i].active = FALSE]
      /\ "stop" \in Steps \ {"none"} /\ "clear" \in Steps
  BY DEF StopFlow, stream, ghosts, Steps, Deleting
<1>2. /\ TypeInv /\ ShapeInv /\ FlowsInv
      /\ UNCHANGED <<made, bound, used_ports, reception_flows>>
  BY <1>1, FactoryParts DEF SetupInv, NegotiationInv
<1>3. Step(s, "stop", "clear")
  BY <1>1, <1>2, StepOf
<1>4. /\ Own(s)' = Own(s) /\ at'[s] = "clear" /\ at[s] = "stop"
      /\ RtcpPort(s)' = RtcpPort(s) /\ RtpPort(s)' = RtpPort(s)
      /\ \A t \in Streams \ {s} : Same(t)
  BY <1>3 DEF Step, Own, RtcpPort, RtpPort
<1>5. Lasts(s) /\ Lasts(s)' /\ ~Reads(s)
  BY <1>4 DEF Reads, Lasts, Reading, Up
<1>6. \A j \in Ids : flow'[j].active => flow[j].active /\ j # i
  BY <1>1, <1>2 DEF FlowsInv
<1>7. \A p : RtpUser(s, p) => RtpUser(s, p)'
  BY <1>4, <1>5 DEF RtpUser
<1>8. /\ \A p : ~RtcpUser(s, p)
      /\ \A j, m : ~MemberAs(s, j, m)
      /\ \A j : ~ReadsFor(s, j)
  BY <1>4, <1>5 DEF RtcpUser, MemberAs, ReadsFor
<1>9. \A j \in Ids : flow'[j].active =>
               flow[j].active /\ (RunsFor(s, j) => \E t \in Streams : RunsFor(t, j)')
  BY <1>6 DEF RunsFor
<1>10. readers' = readers
  BY <1>1
<1> QED
  BY <1>2, <1>4, <1>7, <1>8, <1>9, <1>10, ReadersUse

\* A stream gives up a port: what is entered for the other ports is kept.
LEMMA ClearUses ==
    ASSUME NEW b, SetupInv(b), UseInv, NEW s \in Streams, \A t \in Streams \ {s} : Same(t),
           NEW p \in Ports, NEW k, clear_port(p, k), k \in Ids => b[k] = p, flow' = flow,
           \A q : q # p /\ RtpUser(s, q) => RtpUser(s, q)',
           \A q : q # p /\ RtcpUser(s, q) => RtcpUser(s, q)',
           \A i : RunsFor(s, i) => RunsFor(s, i)',
           \A i, m : ~MemberAs(s, i, m), \A i : ~ReadsFor(s, i)
    PROVE  UseInv'
<1>1. TypeInv /\ Belongs(b) /\ p # 0
  BY SetupAssumption DEF SetupInv, NegotiationInv
<1>2. /\ used_ports' = [used_ports EXCEPT ![p] = 0] /\ reception_flows' = reception_flows \ {k}
      /\ UNCHANGED <<made, bound>> /\ Unregister(p)
  BY DEF clear_port
<1>3. \A r \in Ids :
          /\ readers'[r].members = readers[r].members /\ readers'[r].thread = readers[r].thread
          /\ readers'[r].port = readers[r].port \/ readers[r].port = p
  BY <1>1, <1>2, Unregisters
<1>4. \A q \in Ports : used_ports'[q] # 0 => q # p /\ used_ports'[q] = used_ports[q]
  BY <1>1, <1>2 DEF TypeInv, FactoryInv
<1>5. ASSUME NEW q \in Ports, used_ports'[q] # 0
      PROVE  /\ used_ports'[q] = used_ports[q]
             /\ used_ports[q] \in reception_flows => used_ports[q] \in reception_flows'
             /\ readers[used_ports[q]].port = q => readers'[used_ports[q]].port = q
             /\ RtpUser(s, q) => \E t \in Streams : RtpUser(t, q)'
             /\ RtcpUser(s, q) => \E t \in Streams : RtcpUser(t, q)'
  <2>1. q # p /\ used_ports'[q] = used_ports[q] /\ used_ports[q] # 0
    BY <1>4, <1>5
  <2>2. used_ports[q] \in Ids /\ b[used_ports[q]] = q
    BY <1>1, <1>5, <2>1, UsedIds DEF Belongs
  <2>3. used_ports[q] # k
    BY <2>1, <2>2
  <2> QED
    BY <1>2, <1>3, <2>1, <2>2, <2>3
<1>6. BoundInv'
  BY <1>2 DEF UseInv, BoundInv
<1>7. /\ \A i \in Ids : flow'[i].active => flow[i].active /\ (RunsFor(s, i) => RunsFor(s, i)')
      /\ \A r \in Ids : \A m \in readers'[r].members : m \in readers[r].members /\ ~MemberAs(s, r, m)
      /\ \A r \in Ids : readers'[r].thread => readers[r].thread /\ ~ReadsFor(s, r)
  BY <1>3
<1> QED
  BY <1>5, <1>6, <1>7, UseStep

LEMMA ClearRtcpUses ==
    ASSUME NEW b, SetupInv(b), UseInv, disturbed = {}, NEW s \in Streams, ClearRtcp(s)
    PROVE  UseInv'
<1> SUFFICES ASSUME NEW p, p = RtcpPort(s), NEW k, k = rtcp[s].sock
             PROVE  UseInv'
  OBVIOUS
<1>1. /\ Goes(s, "clear_rtcp", AfterRtcp(s))
      /\ UNCHANGED <<life, scenario, flow, zrtp, disturbed>>
      /\ UNCHANGED <<sock, flow_of, remote, rtcp>>
      /\ clear_port(p, k)
      /\ "clear_rtcp" \in Steps \ {"none"} /\ "remove" \in Steps
  BY DEF ClearRtcp, stream, ghosts, Steps, Deleting, RtcpPort
<1>2. TypeInv /\ ShapeInv /\ Belongs(b)
  BY DEF SetupInv, NegotiationInv
<1>3. rtcp[s].reader # 0 /\ flow_of[s] # 0 /\ Own(s) /\ at[s] = "clear_rtcp"
  BY <1>1, <1>2 DEF ShapeInv, Shape, Goes
<1>4. Goes(s, "clear_rtcp", "remove")
  BY <1>1, <1>3 DEF AfterRtcp
<1>5. Step(s, "clear_rtcp", "remove")
  BY <1>1, <1>2, <1>4, StepOf DEF SetupInv
<1>6. /\ Own(s)' = Own(s) /\ at'[s] = "remove" /\ Config(s) \in Configs
      /\ RtpPort(s)' = RtpPort(s) /\ \A t \in Streams \ {s} : Same(t)
  BY <1>5 DEF Step, Own, RtpPort
<1>7. Attached(s) /\ Attached(s)' /\ ~Reads(s)
  BY <1>1, <1>3, <1>6 DEF Attached, Reads, InFlow, WithMedia, Reading, Up, Leaving
<1>8. p \in Ports
  BY <1>3, <1>6, ConfigsTyped DEF RtcpPort, Own
<1>9. k \in Ids => b[k] = p
  BY <1>2, <1>3, Holder
<1>10. \A q : RtpUser(s, q) => RtpUser(s, q)'
  BY <1>6, <1>7 DEF RtpUser
<1>11. \A q : RtcpUser(s, q) => q = p
  BY DEF RtcpUser
<1>12. \A i : RunsFor(s, i) => RunsFor(s, i)'
  BY <1>1, <1>7 DEF RunsFor
<1>13. /\ \A j, m : ~MemberAs(s, j, m)
       /\ \A j : ~ReadsFor(s, j)
  BY <1>3, <1>7 DEF MemberAs, ReadsFor
<1>14. clear_port(p, k) /\ flow' = flow
  BY <1>1
<1> QED
  BY <1>6, <1>8, <1>9, <1>10, <1>11, <1>12, <1>13, <1>14, ClearUses

LEMMA ClearPortUses ==
    ASSUME NEW b, SetupInv(b), UseInv, disturbed = {}, NEW s \in Streams, ClearPort(s)
    PROVE  UseInv'
<1> SUFFICES ASSUME NEW p, p = RtpPort(s), NEW k, k = sock[s]
             PROVE  UseInv'
  OBVIOUS
<1>1. /\ Goes(s, "clear", "free")
      /\ UNCHANGED <<life, scenario, flow, zrtp>>
      /\ UNCHANGED <<sock, flow_of, remote, rtcp>>
      /\ clear_port(p, k)
      /\ disturbed \subseteq disturbed'
      /\ "clear" \in Steps \ {"none"} /\ "free" \in Steps
  BY DEF ClearPort, stream, ghosts, Steps, Deleting, RtpPort
<1>2. TypeInv /\ ShapeInv /\ Belongs(b)
  BY DEF SetupInv, NegotiationInv
<1>3. Step(s, "clear", "free")
  BY <1>1, <1>2, StepOf DEF SetupInv
<1>4. /\ at[s] = "clear" /\ at'[s] = "free" /\ Config(s) \in Configs
      /\ \A t \in Streams \ {s} : Same(t)
  BY <1>3 DEF Step
<1>5. ~Attached(s) /\ ~Reads(s)
  BY <1>4 DEF Attached, Reads, InFlow, WithMedia, Reading, Up, Leaving
<1>6. p \in Ports
  BY <1>4, ConfigsTyped DEF RtpPort
<1>7. k \in Ids => b[k] = p
  BY <1>2, Holder
<1>8. \A q : RtpUser(s, q) => q = p
  BY DEF RtpUser
<1>9. \A q : ~RtcpUser(s, q)
  BY <1>4, <1>5 DEF RtcpUser
<1>10. \A i : ~RunsFor(s, i)
  BY <1>4, <1>5 DEF RunsFor
<1>11. /\ \A j, m : ~MemberAs(s, j, m)
       /\ \A j : ~ReadsFor(s, j)
  BY <1>4, <1>5 DEF MemberAs, ReadsFor
<1>12. clear_port(p, k) /\ flow' = flow
  BY <1>1
<1> QED
  BY <1>4, <1>6, <1>7, <1>8, <1>9, <1>10, <1>11, <1>12, ClearUses

\* A stream is given a new socket.
LEMMA NewUses ==
    ASSUME NEW b, SetupInv(b), NegotiationInv', UseInv, disturbed = {},
           NEW s \in Streams, \A t \in Streams \ {s} : Same(t), at[s] \in Creating,
           NEW p \in PortsOf(Config(s)), used_ports[p] = 0, NEW type \in {1, 2},
           create_new_socket(type, p), flow' = flow,
           type = 2 => RtpUser(s, p)', type = 1 => RtcpUser(s, p)',
           \A q : RtpUser(s, q) => RtpUser(s, q)',
           \A q : RtcpUser(s, q) => RtcpUser(s, q)',
           \A i : RunsFor(s, i) => RunsFor(s, i)',
           \A i, m : ~MemberAs(s, i, m), \A i : ~ReadsFor(s, i)
    PROVE  UseInv'
<1> SUFFICES ASSUME NEW n, n = made + 1 PROVE UseInv'
  OBVIOUS
<1>1. /\ n \in Ids /\ made' = n /\ n \notin 0 .. made /\ n # 0 /\ p \in Ports /\ p # 0
      /\ reception_flows' = IF type = 2 THEN reception_flows \cup {n} ELSE reception_flows
      /\ \A q \in Ports \ {p} : used_ports'[q] = used_ports[q]
      /\ \A j \in Ids \ {n} : bound'[j] = bound[j] /\ readers'[j] = readers[j]
      /\ used_ports'[p] = n
      /\ readers'[n].port = (IF type = 1 THEN p ELSE 0)
      /\ readers'[n].members = readers[n].members /\ readers'[n].thread = readers[n].thread
  BY NewSocket, NothingDisturbed
<1>2. TypeInv /\ made \in Nat
  BY MadeIsNat DEF SetupInv, NegotiationInv, TypeInv
<1>3. bound'[n] = p
  BY <1>1 DEF NegotiationInv, TypeInv, FactoryInv
<1>4. BoundInv'
  <2> SUFFICES ASSUME NEW i \in Ids, i <= n PROVE bound'[i] # 0
    BY <1>1 DEF BoundInv
  <2>1. CASE i = n
    BY <1>1, <1>3, <2>1
  <2>2. CASE i # n
    <3>1. i <= made
      BY <1>2, <2>2 DEF Ids
    <3> QED
      BY <1>1, <2>2, <3>1 DEF UseInv, BoundInv
  <2> QED BY <2>1, <2>2
<1>5. \A i \in Ids : /\ readers'[i].members = readers[i].members
                     /\ readers'[i].thread = readers[i].thread
                     /\ i # n => readers'[i].port = readers[i].port
  BY <1>1
<1>6. ASSUME NEW q \in Ports, used_ports'[q] # 0
      PROVE  \/ /\ used_ports'[q] = used_ports[q]
                /\ used_ports[q] \in reception_flows => used_ports[q] \in reception_flows'
                /\ readers[used_ports[q]].port = q => readers'[used_ports[q]].port = q
                /\ RtpUser(s, q) => \E t \in Streams : RtpUser(t, q)'
                /\ RtcpUser(s, q) => \E t \in Streams : RtcpUser(t, q)'
             \/ used_ports'[q] \in reception_flows' /\ RtpUser(s, q)'
             \/ readers'[used_ports'[q]].port = q /\ RtcpUser(s, q)'
  <2>1. CASE q = p
    BY <1>1, <2>1
  <2>2. CASE q # p
    <3>1. used_ports'[q] = used_ports[q] /\ used_ports[q] # 0
      BY <1>1, <1>6, <2>2
    <3>2. used_ports[q] \in Ids /\ used_ports[q] \in 0 .. made
      BY <1>2, <3>1, UsedIds DEF TypeInv, FactoryInv
    <3>3. used_ports[q] # n
      BY <1>1, <3>2
    <3> QED
      BY <1>1, <1>5, <3>1, <3>2, <3>3
  <2> QED BY <2>1, <2>2
<1>7. /\ \A i \in Ids : flow'[i].active => flow[i].active /\ (RunsFor(s, i) => RunsFor(s, i)')
      /\ \A r \in Ids : \A m \in readers'[r].members : m \in readers[r].members /\ ~MemberAs(s, r, m)
      /\ \A r \in Ids : readers'[r].thread => readers[r].thread /\ ~ReadsFor(s, r)
  BY <1>5
<1> QED
  BY <1>4, <1>6, <1>7, UseStep

LEMMA GetSocketUses ==
    ASSUME NEW b, SetupInv(b), NegotiationInv', UseInv, disturbed = {}, NEW s \in Streams, GetSocket(s)
    PROVE  UseInv'
<1> SUFFICES ASSUME NEW p, p = RtpPort(s) PROVE UseInv'
  OBVIOUS
<1>1. /\ Goes(s, "socket", "connect")
      /\ UNCHANGED <<life, scenario, disturbed>>
      /\ UNCHANGED <<flow, flow_of, remote, rtcp>>
      /\ get_socket_ptr(2, p) /\ sock' = [sock EXCEPT ![s] = SocketOf(p)]
      /\ "socket" \in Steps \ {"none"} /\ "connect" \in Steps /\ "socket" \in Creating
  BY DEF GetSocket, ghosts, Steps, Creating, RtpPort
<1>2. TypeInv
  BY DEF SetupInv, NegotiationInv
<1>3. \A t \in Streams \ {s} : sock'[t] = sock[t]
  BY <1>1, <1>2 DEF TypeInv, StreamInv
<1>4. Step(s, "socket", "connect")
  BY <1>1, <1>2, <1>3, StepOf DEF SetupInv
<1>5. /\ at[s] = "socket" /\ at'[s] = "connect" /\ Config(s) \in Configs /\ RtpPort(s)' = p
      /\ \A t \in Streams \ {s} : Same(t)
  BY <1>4 DEF Step, RtpPort
<1>6. p \in PortsOf(Config(s)) /\ RtpUser(s, p)'
  BY <1>5 DEF RtpPort, PortsOf, RtpUser
<1>7. /\ \A q : ~RtpUser(s, q) /\ ~RtcpUser(s, q)
      /\ \A i : ~RunsFor(s, i)
      /\ \A r, m : ~MemberAs(s, r, m)
      /\ \A r : ~ReadsFor(s, r)
  BY <1>5, NoUser
<1>8. CASE used_ports[p] # 0
  <2>1. UNCHANGED <<made, bound, used_ports, reception_flows>> /\ readers' = readers
    BY <1>1, <1>8 DEF get_socket_ptr, factory
  <2> QED
    BY <1>1, <1>2, <1>5, <1>7, <2>1, ReadersUse
<1>9. CASE used_ports[p] = 0
  <2>1. create_new_socket(2, p) /\ flow' = flow /\ 2 \in {1, 2} /\ at[s] \in Creating
    BY <1>1, <1>5, <1>9 DEF get_socket_ptr
  <2> QED
    BY <1>5, <1>6, <1>7, <1>9, <2>1, NewUses
<1> QED BY <1>8, <1>9

LEMMA RtcpSocketUses ==
    ASSUME NEW b, SetupInv(b), NegotiationInv', UseInv, disturbed = {}, NEW s \in Streams, RtcpSocket(s)
    PROVE  UseInv'
<1> SUFFICES ASSUME NEW p, p = RtcpPort(s) PROVE UseInv'
  OBVIOUS
<1>1. /\ Goes(s, "rtcp_socket", "rtcp_reader")
      /\ UNCHANGED <<life, scenario, disturbed>>
      /\ UNCHANGED <<flow, flow_of, remote, sock>>
      /\ get_socket_ptr(1, p) /\ rtcp' = [rtcp EXCEPT ![s].sock = SocketOf(p)]
      /\ "rtcp_socket" \in Steps \ {"none"} /\ "rtcp_reader" \in Steps /\ "rtcp_socket" \in Creating
  BY DEF RtcpSocket, ghosts, Steps, Creating, RtcpPort
<1>2. TypeInv /\ ShapeInv
  BY DEF SetupInv, NegotiationInv
<1>3. \A t \in Streams \ {s} : rtcp'[t] = rtcp[t]
  BY <1>1, <1>2 DEF TypeInv, StreamInv
<1>4. Step(s, "rtcp_socket", "rtcp_reader")
  BY <1>1, <1>2, <1>3, StepOf DEF SetupInv
<1>5. /\ at[s] = "rtcp_socket" /\ at'[s] = "rtcp_reader" /\ Config(s) \in Configs /\ RtcpPort(s)' = p
      /\ RtpPort(s)' = RtpPort(s) /\ Own(s)' = Own(s) /\ Own(s)
      /\ \A t \in Streams \ {s} : Same(t)
  BY <1>2, <1>4 DEF Step, RtpPort, RtcpPort, Own, ShapeInv, Shape
<1>6. p \in PortsOf(Config(s)) /\ RtcpUser(s, p)'
  BY <1>5 DEF RtcpPort, PortsOf, RtcpUser, Own
<1>7. Attached(s) /\ Attached(s)' /\ ~Reads(s)
  BY <1>5 DEF Attached, Reads, InFlow, WithMedia, Reading, Up
<1>8. /\ \A q : RtpUser(s, q) => RtpUser(s, q)'
      /\ \A q : ~RtcpUser(s, q)
      /\ \A i : RunsFor(s, i) => RunsFor(s, i)'
      /\ \A r, m : ~MemberAs(s, r, m)
      /\ \A r : ~ReadsFor(s, r)
  BY <1>1, <1>5, <1>7 DEF RtpUser, RtcpUser, RunsFor, MemberAs, ReadsFor
<1>9. CASE used_ports[p] # 0
  <2>1. UNCHANGED <<made, bound, used_ports, reception_flows>> /\ readers' = readers /\ flow' = flow
    BY <1>1, <1>9 DEF get_socket_ptr, factory
  <2> QED
    BY <1>2, <1>5, <1>8, <2>1, ReadersUse
<1>10. CASE used_ports[p] = 0
  <2>1. create_new_socket(1, p) /\ flow' = flow /\ 1 \in {1, 2} /\ at[s] \in Creating
    BY <1>1, <1>5, <1>10 DEF get_socket_ptr
  <2> QED
    BY <1>5, <1>6, <1>8, <1>10, <2>1, NewUses
<1> QED BY <1>9, <1>10

\* A step that fails, or crashes, says so.
LEMMA FailuresTold ==
    ASSUME NEW b, SetupInv(b), NEW s \in Streams,
           \/ ConnectFails(s) \/ WrongCtx(s) \/ UnknownFormat(s) \/ GiveUpOnDh(s)
           \/ GiveUpOnLock(s) \/ ZrtpFails(s) \/ NoFlow(s)
    PROVE  disturbed' # {} /\ crashed' = crashed
<1>1. Config(s).port \in PortsOf(Config(s))
  BY DEF PortsOf
<1>2. CASE \E from \in Failing : Fails(s, from)
  BY <1>1, <1>2 DEF Fails
<1>3. CASE NoFlow(s)
  BY <1>1, <1>3 DEF NoFlow, Fails
<1> QED
  BY <1>2, <1>3 DEF ConnectFails, WrongCtx, UnknownFormat, GiveUpOnDh, GiveUpOnLock, ZrtpFails, Failing

LEMMA CrashTold ==
    ASSUME NEW b, SetupInv(b), NEW s \in Streams, NoReader(s) \/ LaunchTwice(s)
    PROVE  crashed' /\ at'[s] = "crashed"
BY DEF NoReader, LaunchTwice, Crash, Goes, SetupInv, NegotiationInv, TypeInv, PlaceInv

LEMMA InitLeft == Init => LeftInv
<1> SUFFICES ASSUME Init PROVE LeftInv
  OBVIOUS
<1>1. made = 0 /\ ~crashed
  BY DEF Init
<1>2. BoundInv
  BY <1>1 DEF BoundInv, Ids
<1>3. UsedInv /\ RunningInv /\ MembersInv /\ ThreadInv
  BY DEF Init, UsedInv, RunningInv, MembersInv, ThreadInv
<1> QED
  BY <1>1, <1>2, <1>3 DEF LeftInv, CrashInv, UseInv

LEMMA StayLeft ==
    ASSUME LeftInv, UNCHANGED vars
    PROVE  LeftInv'
<1>1. /\ UNCHANGED <<at, life, sock, flow_of, remote, rtcp, made, bound, used_ports>>
      /\ UNCHANGED <<reception_flows, readers, flow, crashed, disturbed, scenario>>
  BY DEF vars, stream, factory, ghosts
<1>2. \A s : Same(s)
  BY <1>1 DEF Same, Config, Me
<1>3. CrashInv'
  BY <1>1 DEF LeftInv, CrashInv
<1>4. ASSUME UseInv PROVE UseInv'
  <2>1. BoundInv' /\ UsedInv'
    BY <1>1, <1>2, <1>4, SameUsers DEF UseInv, BoundInv, UsedInv
  <2>2. RunningInv' /\ MembersInv' /\ ThreadInv'
    BY <1>1, <1>2, <1>4, SameUsers DEF UseInv, RunningInv, MembersInv, ThreadInv
  <2> QED
    BY <2>1, <2>2 DEF UseInv
<1> QED
  BY <1>1, <1>3, <1>4 DEF LeftInv

LEMMA NextLeft ==
    ASSUME NEW b, SetupInv(b), LeftInv, [Next]_vars
    PROVE  LeftInv'
<1>1. NegotiationInv'
  BY NextNegotiation DEF SetupInv
<1>2. CASE UNCHANGED vars
  BY <1>2, StayLeft
<1>3. ASSUME NEW s \in Streams,
             \/ ConnectFails(s) \/ NoFlow(s) \/ WrongCtx(s) \/ UnknownFormat(s)
             \/ GiveUpOnDh(s) \/ GiveUpOnLock(s) \/ ZrtpFails(s)
      PROVE  LeftInv'
  <2>1. disturbed' # {} /\ crashed' = crashed
    BY <1>3, FailuresTold
  <2>2. ~crashed
    BY <1>3 DEF ConnectFails, NoFlow, WrongCtx, UnknownFormat, GiveUpOnDh, GiveUpOnLock, ZrtpFails,
                Fails, Goes
  <2> QED
    BY <2>1, <2>2 DEF LeftInv, CrashInv
<1>4. ASSUME NEW s \in Streams, NoReader(s) \/ LaunchTwice(s)
      PROVE  LeftInv'
  BY <1>4, CrashTold DEF LeftInv, CrashInv
<1>5. ASSUME ~crashed, crashed' = crashed, disturbed \subseteq disturbed',
             disturbed = {} /\ UseInv => UseInv'
      PROVE  LeftInv'
  BY <1>5 DEF LeftInv, CrashInv
<1>6. ASSUME NEW s \in Streams,
             \/ GetSocket(s) \/ RtcpSocket(s) \/ Create(s) \/ Connect(s) \/ GetFlow(s)
             \/ Install(s) \/ AddSrtpCtx(s) \/ CreateMedia(s) \/ RtcpReader(s) \/ RtcpStart(s)
             \/ ReaderStart(s) \/ Launches(s) \/ StartFlow(s)
      PROVE  LeftInv'
  <2>1. ~crashed /\ crashed' = crashed /\ disturbed \subseteq disturbed'
    BY <1>6 DEF GetSocket, RtcpSocket, Create, Connect, GetFlow, Install, AddSrtpCtx, CreateMedia,
                RtcpReader, RtcpStart, ReaderStart, Launches, ReaderLaunch, ReaderLeaves,
                ReaderMark, StartFlow, Goes, ghosts
  <2>2. disturbed = {} /\ UseInv => UseInv'
    BY <1>1, <1>6, GetSocketUses, RtcpSocketUses, ComeAndGo, FindUses, SetupUses, RtcpReaderUses,
       RtcpStartUses, LaunchesUses
  <2> QED
    BY <1>5, <2>1, <2>2
<1>7. ASSUME NEW s \in Streams,
             \/ StartZrtp(s) \/ WaitForDh(s) \/ try_lock_zrtp(s) \/ BeginZrtp(s)
             \/ Negotiated(s) \/ TakeKeys(s) \/ UnlockZrtp(s) \/ InstallAfterZrtp(s)
             \/ SetRemoteSsrc(s)
      PROVE  LeftInv'
  <2>1. ~crashed /\ crashed' = crashed /\ disturbed \subseteq disturbed'
    BY <1>7 DEF StartZrtp, WaitForDh, try_lock_zrtp, BeginZrtp, Negotiated, TakeKeys, UnlockZrtp,
                InstallAfterZrtp, SetRemoteSsrc, Goes, ghosts
  <2>2. disturbed = {} /\ UseInv => UseInv'
    BY <1>7, UpUses
  <2> QED
    BY <1>5, <2>1, <2>2
<1>8. ASSUME NEW s \in Streams,
             \/ Destroy(s) \/ StopRtcp(s) \/ ReaderCheck(s) \/ ClearRtcp(s)
             \/ RemoveHandlers(s) \/ StopFlow(s) \/ ClearPort(s) \/ Free(s)
      PROVE  LeftInv'
  <2>1. ~crashed /\ crashed' = crashed /\ disturbed \subseteq disturbed'
    BY <1>8 DEF Destroy, StopRtcp, ReaderCheck, ClearRtcp, RemoveHandlers, StopFlow, ClearPort, Free,
                Goes, ghosts
  <2>2. disturbed = {} /\ UseInv => UseInv'
    BY <1>8, DestroyUses, StopRtcpUses, ReaderCheckUses, ClearRtcpUses, RemoveHandlersUses,
       StopFlowUses, ClearPortUses, ComeAndGo
  <2> QED
    BY <1>5, <2>1, <2>2
<1>9. CASE Next
  <2>1. PICK s \in Streams :
        \/ ConnectFails(s) \/ NoFlow(s) \/ WrongCtx(s) \/ UnknownFormat(s)
        \/ GiveUpOnDh(s) \/ GiveUpOnLock(s) \/ ZrtpFails(s)
        \/ NoReader(s) \/ LaunchTwice(s)
        \/ GetSocket(s) \/ RtcpSocket(s) \/ Create(s) \/ Connect(s) \/ GetFlow(s)
        \/ Install(s) \/ AddSrtpCtx(s) \/ CreateMedia(s) \/ RtcpReader(s) \/ RtcpStart(s)
        \/ ReaderStart(s) \/ Launches(s) \/ StartFlow(s)
        \/ StartZrtp(s) \/ WaitForDh(s) \/ try_lock_zrtp(s) \/ BeginZrtp(s)
        \/ Negotiated(s) \/ TakeKeys(s) \/ UnlockZrtp(s) \/ InstallAfterZrtp(s)
        \/ SetRemoteSsrc(s)
        \/ Destroy(s) \/ StopRtcp(s) \/ ReaderCheck(s) \/ ClearRtcp(s)
        \/ RemoveHandlers(s) \/ StopFlow(s) \/ ClearPort(s) \/ Free(s)
    BY <1>9, Zenon DEF Next, Launches
  <2> QED
    BY <2>1, <1>3, <1>4, <1>6, <1>7, <1>8, Zenon
<1> QED
  BY <1>2, <1>9

\* With no stream left there is no user, so nothing is in use.
LEMMA LeftOf ==
    ASSUME NEW b, SetupInv(b), LeftInv
    PROVE  NothingLeft
<1> SUFFICES ASSUME \A s \in Streams : at[s] = "none", disturbed = {}
             PROVE  /\ used_sockets = {} /\ reception_flows = {}
                    /\ \A p \in Ports : used_ports[p] = 0
                    /\ \A i \in Ids : /\ ~flow[i].active /\ flow[i].handlers = {}
                                      /\ ~readers[i].thread /\ readers[i].port = 0 /\ ~Open(i)
  BY DEF NothingLeft
<1>1. UseInv
  BY DEF LeftInv, CrashInv
<1>2. /\ TypeInv /\ FreshInv /\ made \in Nat /\ made <= MaxSockets /\ MaxSockets \in Nat
      /\ \A i \in Ids : i # 0 /\ i \in Nat
  BY MadeIsNat, MaxIsNat DEF SetupInv, NegotiationInv, TypeInv, Ids
<1>3. \A s \in Streams : ~Attached(s) /\ at[s] = "none" /\ sock[s] = 0 /\ rtcp[s] = NoRtcp
  BY DEF SetupInv, ShapeInv, Shape, Attached, InFlow, WithMedia, Reading, Up, Leaving
<1>4. \A p \in Ports : used_ports[p] = 0
  BY <1>1 DEF UseInv, UsedInv, RtpUser, RtcpUser
<1>5. \A r \in Ids : readers[r].port = 0 /\ ~readers[r].thread
  <2>1. \A r \in Ids : readers[r].port \in Ports \cup {0}
    BY <1>2 DEF TypeInv, FactoryInv, Readers
  <2> QED
    BY <1>1, <1>2, <1>4, <2>1, NothingDisturbed DEF SetupInv, RegInv, UseInv, ThreadInv, ReadsFor
<1>6. ASSUME NEW i \in Ids PROVE ~Kept(i) /\ flow[i].handlers = {}
  <2>1. CASE bound[i] # 0
    <3>1. Held(i) /\ bound[i] \in Ports
      BY <1>2, <2>1, NothingDisturbed DEF SetupInv, HeldInv, TypeInv, FactoryInv
    <3>2. flow[i].handlers = {}
      BY <1>3, <2>1, NothingDisturbed DEF SetupInv, OwnerInv, Installed
    <3> QED
      BY <1>2, <1>4, <3>1, <3>2 DEF Held
  <2>2. CASE bound[i] = 0
    <3>1. ~(i <= made) /\ made < i /\ i \notin 0 .. made
      BY <1>1, <1>2, <2>2 DEF UseInv, BoundInv
    <3>2. i \notin used_sockets \cup reception_flows
      BY <1>2, <3>1 DEF TypeInv, FactoryInv
    <3> QED
      BY <1>2, <1>5, <3>1, <3>2 DEF FreshInv, Kept
  <2> QED BY <2>1, <2>2
<1>7. used_sockets = {} /\ reception_flows = {}
  <2>1. used_sockets \subseteq Ids /\ reception_flows \subseteq Ids
    BY <1>2 DEF TypeInv, FactoryInv, Ids
  <2> QED
    BY <1>6, <2>1 DEF Kept
<1>8. \A i \in Ids : ~Open(i) /\ ~flow[i].active
  BY <1>2, <1>3, <1>4, <1>6 DEF Open, Kept, NoRtcp
<1> QED
  BY <1>4, <1>5, <1>6, <1>7, <1>8

\* When every stream has gone, and no call at any port overlapped, failed or left a socket to
\* ZRTP, no socket is open or entered for a port, no flow runs or has a handler, and no RTCP
\* reader is registered or has a thread: whatever the order in which streams that shared
\* them came and went, exactly the last one of them gave each of them up.
THEOREM NothingStays == Spec => []NothingLeft
<1> DEFINE I == (\E b : SetupInv(b)) /\ LeftInv
<1>1. Init => I
  BY InitSetup, InitLeft
<1>2. I /\ [Next]_vars => I'
  BY NextSetup, NextLeft
<1>3. I => NothingLeft
  BY LeftOf
<1> QED
  BY <1>1, <1>2, <1>3, PTL DEF Spec
=============================================================================
