----------------------------- MODULE StreamSetup -----------------------------
(***************************************************************************)
(* The media streams of a session, from create_stream() to                 *)
(* destroy_stream(), each in an application thread of its own: the socket  *)
(* factory hands out sockets, reception flows and RTCP readers, which      *)
(* streams share by port, and a ZRTP object, which all streams share.  A   *)
(* flow and a reader have the number of the socket they were created with. *)
(***************************************************************************)
EXTENDS Naturals, Sequences, FiniteSets

CONSTANTS Streams,          \* numbers from 1
          Ports,            \* RTP ports, and the port after each for its RTCP
          MaxSockets,       \* bound: sockets that are ever created
          Scenarios         \* for each stream, its lives one after the other

\* What a stream is created with: how it gets its keys ("dh" and "msm" by ZRTP, in
\* Diffie-Hellman or multistream mode, by itself if auto), its RTCP (on a port of its own,
\* or on that of RTP), the remote SSRCs it sets, and what goes wrong with it.
Configs ==
    {c \in [port : Ports, kind : {"plain", "user", "dh", "msm"}, auto : BOOLEAN,
            rtcp : {"none", "mux", "own"}, anyip : BOOLEAN,
            fault : {"none", "connect", "format", "wrong_context", "zrtp"},
            remotes : SUBSET Nat] : c.port + 1 \in Ports}

ASSUME SetupAssumption ==
    /\ Streams \subseteq Nat \ {0} /\ IsFiniteSet(Streams)
    /\ Ports \subseteq Nat \ {0} /\ MaxSockets \in Nat
    /\ Scenarios \subseteq [Streams -> Seq(Configs)]

\* "Currently, ZRTP only works reliably with one stream performing DH" (docs/README.md).
ASSUME OneDhAssumption ==
    \A lives \in Scenarios : \A s, t \in Streams :
        \A i \in DOMAIN lives[s], j \in DOMAIN lives[t] :
            lives[s][i].kind = "dh" /\ lives[t][j].kind = "dh" => s = t /\ i = j

VARIABLES
    at,             \* the next step of the thread of a stream
    life,           \* how often a stream was created
    sock,           \* socket_, 0 for nullptr
    flow_of,        \* reception_flow_
    remote,         \* remote_ssrc_
    media,          \* media_ exists
    rtcp,           \* rtcp_: its state, socket, and reader
    has_zrtp,       \* the streams that hold the session's ZRTP object
    made,           \* sockets created so far
    bound,          \* the port a socket is bound to, 0 for none
    used_ports, used_sockets, reception_flows,      \* of the socket factory
    readers,        \* RTCP readers; the port each is registered with, or 0; the thread,
                    \* and whether it has left its loop before active_ was set
    flow,           \* reception flows: threads, handlers, the rce_flags that the thread
                    \* goes by, and the streams with flags that are not among these
    zrtp,           \* the ZRTP object, shared by all streams
    crashed,
    disturbed,      \* ports where calls overlapped, failed or held on to a socket, and why
    intruded,       \* a stream has unlocked ZRTP for another one
    scenario

stream  == <<sock, flow_of, remote, media, rtcp, has_zrtp>>
factory == <<made, bound, used_ports, used_sockets, reception_flows>>
ghosts  == <<crashed, disturbed, intruded>>
vars    == <<at, life, stream, factory, readers, flow, zrtp, ghosts, scenario>>

Ids == 1 .. MaxSockets
NoRtcp == [state |-> "none", sock |-> 0, reader |-> 0]

Config(s) == scenario[s][life[s]]
Me(s) == <<s, life[s]>>
PortsOf(c) == IF c.rtcp = "own" THEN {c.port, c.port + 1} ELSE {c.port}

Creating == {"socket", "connect", "flow", "install", "media", "rtcp_socket", "rtcp_reader",
             "rtcp_start", "reader_start", "reader_launch", "reader_mark", "start"}
Deleting == {"delete", "reader_check", "clear_rtcp", "remove", "stop", "clear", "free"}
ByZrtp == {"dh", "msm"}

\* The ports of a stream with this configuration that another stream creates or gives up.
Overlap(c, s, phase) ==
    {<<p, "overlap">> : p \in {q \in PortsOf(c) : \E t \in Streams \ {s} :
                                   at[t] \in phase /\ q \in PortsOf(Config(t))}}
Disturbed(port) == \E d \in disturbed : d[1] = port /\ d[2] # "refused"

\* The port, if another stream that the flow has receives from the same SSRC.
SameSsrc(s, i, ssrc) ==
    IF \E t \in Streams : flow_of[t] = i /\ remote[t] = ssrc
    THEN {<<Config(s).port, "same_SSRC">>} ELSE {}

Goes(s, from, to) == ~crashed /\ at[s] = from /\ at' = [at EXCEPT ![s] = to]

Init ==
    /\ scenario \in Scenarios
    /\ at = [s \in Streams |-> "none"] /\ life = [s \in Streams |-> 0]
    /\ sock = [s \in Streams |-> 0] /\ flow_of = [s \in Streams |-> 0]
    /\ remote = [s \in Streams |-> s] /\ media = [s \in Streams |-> FALSE]
    /\ rtcp = [s \in Streams |-> NoRtcp] /\ has_zrtp = {}
    /\ made = 0 /\ bound = [i \in Ids |-> 0] /\ used_ports = [p \in Ports |-> 0]
    /\ used_sockets = {} /\ reception_flows = {}
    /\ readers = [i \in Ids |-> [port |-> 0, active |-> FALSE, thread |-> FALSE,
                                 left |-> FALSE, members |-> {}, sock |-> 0]]
    /\ flow = [i \in Ids |-> [active |-> FALSE, handlers |-> {}, flags |-> {},
                              unserved |-> {}]]
    /\ zrtp = [made |-> FALSE, dh |-> FALSE, busy |-> 0, socket |-> 0]
    /\ crashed = FALSE /\ disturbed = {} /\ intruded = FALSE

-----------------------------------------------------------------------------
(* The socket factory.                                                     *)

\* A socket is open while somebody points to it.
Open(i) ==
    \/ i \in used_sockets \cup reception_flows \cup {zrtp.socket}
    \/ \E p \in Ports : used_ports[p] = i
    \/ \E s \in Streams : sock[s] = i \/ (rtcp[s].state # "none" /\ rtcp[s].sock = i)
    \/ \E r \in Ids : readers[r].sock = i /\ readers[r].port # 0
    \/ flow[i].active

\* bind() of the operating system: one open socket for each port, one port for each socket.
Binds(i, port) == bound[i] = 0 /\ \A j \in Ids : Open(j) => bound[j] # port

\* bind_socket() and bind_socket_anyip(): a port that is in use is left as it is.
BindFails(i, port) == used_ports[port] = 0 /\ ~Binds(i, port)

\* Mutant: the socket is entered for the port, bound or not.
Enter(i, port) ==
    IF used_ports[port] = 0
    THEN /\ bound' = IF Binds(i, port) THEN [bound EXCEPT ![i] = port] ELSE bound
         /\ used_ports' = [used_ports EXCEPT ![port] = i]
    ELSE UNCHANGED <<bound, used_ports>>

Bind(i, port) ==
    IF used_ports[port] = 0 /\ Binds(i, port)
    THEN bound' = [bound EXCEPT ![i] = port] /\ used_ports' = [used_ports EXCEPT ![port] = i]
    ELSE UNCHANGED <<bound, used_ports>>

\* create_new_socket(): whether the socket could be bound is not looked at.
create_new_socket(type, port) ==
    /\ made < MaxSockets
    /\ made' = made + 1
    /\ used_sockets' = used_sockets \cup {made'}
    /\ Bind(made', port)
    /\ reception_flows' = IF type = 2 THEN reception_flows \cup {made'} ELSE reception_flows
    /\ readers' = IF type = 1 THEN [readers EXCEPT ![made'].port = port] ELSE readers

\* get_socket_ptr(): the socket of the port, or a new one.
get_socket_ptr(type, port) ==
    IF used_ports[port] # 0 THEN UNCHANGED <<factory, readers>> ELSE create_new_socket(type, port)
SocketOf(port) == IF used_ports[port] # 0 THEN used_ports[port] ELSE made + 1

get_rtcp_reader(port) == {r \in Ids : readers[r].port = port}

\* The first reader found of the port, if there is one, is no longer registered.
Unregister(port) ==
    \/ get_rtcp_reader(port) = {} /\ UNCHANGED readers
    \/ \E r \in get_rtcp_reader(port) : readers' = [readers EXCEPT ![r].port = 0]

\* Mutant: the socket stays with the factory.
KeepSocket(port, i) ==
    /\ used_ports' = [used_ports EXCEPT ![port] = 0]
    /\ Unregister(port)
    /\ reception_flows' = reception_flows \ {i}
    /\ UNCHANGED <<made, bound, used_sockets>>

\* clear_port(): the port, a reader of it, and what belongs to the socket.
clear_port(port, i) ==
    /\ used_ports' = [used_ports EXCEPT ![port] = 0]
    /\ Unregister(port)
    /\ used_sockets' = used_sockets \ {i}
    /\ reception_flows' = reception_flows \ {i}
    /\ UNCHANGED <<made, bound>>

-----------------------------------------------------------------------------
(* Handlers, and what a failure takes down.                                *)

\* install_packet_handlers(), after ZRTP if that gives the keys.
PacketHandlers(c) ==
    {"rtp"} \cup (IF c.rtcp # "none" THEN {"rtcp_common"} ELSE {})
            \cup (IF c.rtcp = "mux" THEN {"rtcp"} ELSE {})
            \cup (IF c.kind # "plain" THEN {"srtp"} ELSE {})
FirstHandlers(c) == IF c.kind \in ByZrtp THEN {"zrtp"} ELSE PacketHandlers(c)
AllHandlers(c) ==
    PacketHandlers(c) \cup {"media"} \cup (IF c.kind \in ByZrtp THEN {"zrtp"} ELSE {})

install_handlers(s, types) ==
    flow' = [flow EXCEPT ![flow_of[s]].handlers = @ \cup ({remote[s]} \X types)]

Under(ssrc, handlers) == {h \in handlers : h[1] = ssrc}

\* unlock_zrtp(): whoever has locked it.
Unlock(s) ==
    /\ zrtp' = [zrtp EXCEPT !.busy = 0]
    /\ intruded' = (intruded \/ zrtp.busy \notin {0, s})

\* free_resources(): RTCP is released and not stopped, the flow and its handlers are kept,
\* and ZRTP is unlocked.
free_resources(s) ==
    /\ rtcp' = [rtcp EXCEPT ![s] = NoRtcp]
    /\ media' = [media EXCEPT ![s] = FALSE]
    /\ sock' = [sock EXCEPT ![s] = 0]
    /\ IF s \in has_zrtp THEN Unlock(s) ELSE UNCHANGED <<zrtp, intruded>>

\* A step of create_stream() fails, which deletes the stream, or of a later call, which
\* leaves it to the application.
Fails(s, from) ==
    LET called == \/ from = "up"
                  \/ from = "media" /\ Config(s).kind = "user"
                  \/ from \in {"dh_wait", "lock", "negotiate"} /\ ~Config(s).auto
    IN
    /\ Goes(s, from, IF called THEN "broken" ELSE "delete")
    /\ free_resources(s)
    /\ disturbed' = disturbed \cup
           {<<p, IF flow_of[s] = 0 THEN "refused" ELSE "failed">> : p \in PortsOf(Config(s))}
    /\ UNCHANGED <<life, flow_of, remote, has_zrtp, factory, readers, flow, crashed, scenario>>

-----------------------------------------------------------------------------
(* create_stream() and init().                                             *)

\* The session makes its ZRTP object for its first stream with SRTP.
Create(s) ==
    /\ at[s] = "none" /\ life[s] < Len(scenario[s])
    /\ life' = [life EXCEPT ![s] = @ + 1]
    /\ ~crashed /\ at' = [at EXCEPT ![s] = "socket"]
    /\ remote' = [remote EXCEPT ![s] = s]
    /\ LET c == scenario[s][life'[s]] IN
       /\ zrtp' = [zrtp EXCEPT !.made = @ \/ c.kind # "plain"]
       /\ disturbed' = disturbed \cup Overlap(c, s, Deleting)
    /\ has_zrtp' = IF zrtp'.made THEN has_zrtp \cup {s} ELSE has_zrtp \ {s}
    /\ UNCHANGED <<sock, flow_of, media, rtcp, factory, readers, flow, crashed, intruded, scenario>>

GetSocket(s) ==
    LET port == Config(s).port IN
    /\ Goes(s, "socket", "connect")
    /\ get_socket_ptr(2, port)
    /\ sock' = [sock EXCEPT ![s] = SocketOf(port)]
    /\ UNCHANGED <<life, flow_of, remote, media, rtcp, has_zrtp, flow, zrtp, ghosts, scenario>>

\* Without a local address the socket is bound to any.
Connect(s) ==
    LET c == Config(s) IN
    /\ Goes(s, "connect", "flow")
    /\ c.fault # "connect" /\ ~(c.anyip /\ BindFails(sock[s], c.port))
    /\ IF c.anyip THEN Bind(sock[s], c.port) ELSE UNCHANGED <<bound, used_ports>>
    /\ UNCHANGED <<life, stream, made, used_sockets, reception_flows, readers, flow, zrtp,
                   ghosts, scenario>>

ConnectFails(s) ==
    /\ Fails(s, "connect")
    /\ Config(s).fault # "connect" => Config(s).anyip /\ BindFails(sock[s], Config(s).port)

\* The socket of another stream's RTCP has no flow; init() frees nothing then, but
\* init_auto_zrtp() does.
NoFlow(s) ==
    /\ at[s] = "flow" /\ sock[s] \notin reception_flows
    /\ IF Config(s).kind \in ByZrtp /\ Config(s).auto THEN Fails(s, "flow")
       ELSE /\ Goes(s, "flow", "delete")
            /\ disturbed' = disturbed \cup {<<p, "refused">> : p \in PortsOf(Config(s))}
            /\ UNCHANGED <<life, stream, factory, readers, flow, zrtp, crashed, intruded,
                           scenario>>

GetFlow(s) ==
    /\ Goes(s, "flow", "install")
    /\ sock[s] \in reception_flows
    /\ flow_of' = [flow_of EXCEPT ![s] = sock[s]]
    /\ disturbed' = disturbed \cup SameSsrc(s, sock[s], remote[s])
    /\ UNCHANGED <<life, sock, remote, media, rtcp, has_zrtp, factory, readers, flow, zrtp,
                   crashed, intruded, scenario>>

\* With keys from the user, init() ends here.
Install(s) ==
    /\ Goes(s, "install", IF Config(s).kind = "user" THEN "user" ELSE "media")
    /\ rtcp' = [rtcp EXCEPT ![s].state = "made"]
    /\ install_handlers(s, FirstHandlers(Config(s)))
    /\ UNCHANGED <<life, sock, flow_of, remote, media, has_zrtp, factory, readers, zrtp, ghosts,
                   scenario>>

\* add_srtp_ctx(): a stream without the flags for it is taken down.
AddSrtpCtx(s) ==
    /\ Goes(s, "user", "media")
    /\ disturbed' = disturbed \cup Overlap(Config(s), s, Deleting)
    /\ UNCHANGED <<life, stream, factory, readers, flow, zrtp, crashed, intruded, scenario>>
WrongCtx(s) ==
    /\ Fails(s, "up")
    /\ Config(s).fault = "wrong_context" /\ Config(s).kind = "plain"

-----------------------------------------------------------------------------
(* start_components().                                                     *)

AfterMedia == [none |-> "start", mux |-> "rtcp_start", own |-> "rtcp_socket"]

CreateMedia(s) ==
    /\ Goes(s, "media", AfterMedia[Config(s).rtcp])
    /\ Config(s).fault # "format"
    /\ media' = [media EXCEPT ![s] = TRUE]
    /\ install_handlers(s, {"media"})
    /\ rtcp' = IF Config(s).rtcp = "mux" THEN [rtcp EXCEPT ![s].sock = sock[s]] ELSE rtcp
    /\ UNCHANGED <<life, sock, flow_of, remote, has_zrtp, factory, readers, zrtp, ghosts, scenario>>

UnknownFormat(s) ==
    /\ Fails(s, "media")
    /\ Config(s).fault = "format"

RtcpSocket(s) ==
    LET port == Config(s).port + 1 IN
    /\ Goes(s, "rtcp_socket", "rtcp_reader")
    /\ get_socket_ptr(1, port)
    /\ rtcp' = [rtcp EXCEPT ![s].sock = SocketOf(port)]
    /\ UNCHANGED <<life, sock, flow_of, remote, media, has_zrtp, flow, zrtp, ghosts, scenario>>

\* map_ssrc_to_rtcp() and set_socket() of the reader, which is taken to be there.
RtcpReader(s) ==
    /\ Goes(s, "rtcp_reader", "rtcp_start")
    /\ \E r \in get_rtcp_reader(Config(s).port + 1) :
           readers' = [readers EXCEPT ![r].members = @ \cup {Me(s)}, ![r].sock = rtcp[s].sock]
    /\ UNCHANGED <<life, stream, factory, flow, zrtp, ghosts, scenario>>

Crash(s) == crashed' = TRUE /\ UNCHANGED <<life, stream, factory, readers, flow, zrtp,
                                           disturbed, intruded, scenario>>
NoReader(s) ==
    LET port == Config(s).port + 1 IN
    /\ \E from \in {"rtcp_reader", "rtcp_start"} : Goes(s, from, "crashed")
    /\ Config(s).rtcp = "own" /\ get_rtcp_reader(port) = {}
    /\ at[s] = "rtcp_start" => ~BindFails(rtcp[s].sock, port)
    /\ Crash(s)

\* rtcp::start(): when its socket cannot be bound RTCP stays half started, and the stream
\* goes on.
RtcpStart(s) ==
    LET port  == Config(s).port + 1
        mux   == Config(s).rtcp = "mux"
        fails == ~mux /\ BindFails(rtcp[s].sock, port)
    IN
    /\ Goes(s, "rtcp_start", IF mux \/ fails THEN "start" ELSE "reader_start")
    /\ IF mux THEN rtcp' = [rtcp EXCEPT ![s].state = "active"] /\ UNCHANGED <<bound, used_ports>>
       ELSE /\ \E r \in get_rtcp_reader(port) \cup {0} :
                   /\ r = 0 => fails /\ get_rtcp_reader(port) = {}
                   /\ rtcp' = [rtcp EXCEPT ![s].state = "active", ![s].reader = r]
            /\ Bind(rtcp[s].sock, port)
    /\ UNCHANGED <<life, sock, flow_of, remote, media, has_zrtp, made, used_sockets,
                   reception_flows, readers, flow, zrtp, ghosts, scenario>>

\* rtcp_reader::start(): active_ is read, and set after the thread was made, which leaves
\* its loop when it finds active_ not set; a thread that was not joined may not be replaced.
ReaderStart(s) ==
    /\ Goes(s, "reader_start", IF readers[rtcp[s].reader].active THEN "start" ELSE "reader_launch")
    /\ UNCHANGED <<life, stream, factory, readers, flow, zrtp, ghosts, scenario>>
ReaderLaunch(s) ==
    LET r == rtcp[s].reader IN
    /\ Goes(s, "reader_launch", "reader_mark")
    /\ ~readers[r].thread
    /\ readers' = [readers EXCEPT ![r].thread = TRUE, ![r].left = FALSE]
    /\ UNCHANGED <<life, stream, factory, flow, zrtp, ghosts, scenario>>
ReaderLeaves(s) ==
    LET r == rtcp[s].reader IN
    /\ Goes(s, "reader_mark", "reader_mark")
    /\ readers[r].thread /\ ~readers[r].active /\ ~readers[r].left
    /\ readers' = [readers EXCEPT ![r].left = TRUE]
    /\ UNCHANGED <<life, stream, factory, flow, zrtp, ghosts, scenario>>
ReaderMark(s) ==
    /\ Goes(s, "reader_mark", "start")
    /\ readers' = [readers EXCEPT ![rtcp[s].reader].active = TRUE]
    /\ UNCHANGED <<life, stream, factory, flow, zrtp, ghosts, scenario>>
LaunchTwice(s) ==
    /\ Goes(s, "reader_launch", "crashed")
    /\ readers[rtcp[s].reader].thread
    /\ Crash(s)

Zrtp(s) == IF Config(s).kind = "msm" THEN "dh_wait" ELSE "begin"

\* What process_packet() asks of its rce_flags.
Flags(c) ==
    (IF c.kind # "plain" THEN {"srtp"} ELSE {})
        \cup (IF c.rtcp # "none" THEN {"rtcp"} ELSE {})
        \cup (IF c.rtcp = "mux" THEN {"mux"} ELSE {})

\* reception_flow::start(): the threads of the first stream stay, with its flags.
Started(f, s) ==
    IF f.active
    THEN [f EXCEPT !.unserved = IF Flags(Config(s)) \subseteq f.flags THEN @ \ {s}
                                ELSE @ \cup {s}]
    ELSE [f EXCEPT !.active = TRUE, !.flags = Flags(Config(s)), !.unserved = {}]

StartFlow(s) ==
    /\ Goes(s, "start", IF Config(s).kind \notin ByZrtp THEN "up"
                        ELSE IF Config(s).auto THEN Zrtp(s) ELSE "manual")
    /\ flow' = [flow EXCEPT ![flow_of[s]] = Started(@, s)]
    /\ UNCHANGED <<life, stream, factory, readers, zrtp, ghosts, scenario>>

-----------------------------------------------------------------------------
(* start_zrtp().                                                           *)

StartZrtp(s) ==
    /\ Goes(s, "manual", Zrtp(s))
    /\ UNCHANGED <<life, stream, factory, readers, flow, zrtp, ghosts, scenario>>

\* A stream in multistream mode waits for a stream with Diffie-Hellman, and for its turn.
WaitForDh(s) ==
    /\ zrtp.dh /\ Goes(s, "dh_wait", "lock")
    /\ UNCHANGED <<life, stream, factory, readers, flow, zrtp, ghosts, scenario>>
GiveUpOnDh(s) == ~zrtp.dh /\ Fails(s, "dh_wait")

\* Mutant: the flag is set, whoever has set it before.
LockTaken(s) ==
    /\ Goes(s, "lock", "begin")
    /\ zrtp' = [zrtp EXCEPT !.busy = s]
    /\ UNCHANGED <<life, stream, factory, readers, flow, ghosts, scenario>>

try_lock_zrtp(s) ==
    /\ zrtp.busy = 0
    /\ Goes(s, "lock", "begin")
    /\ zrtp' = [zrtp EXCEPT !.busy = s]
    /\ UNCHANGED <<life, stream, factory, readers, flow, ghosts, scenario>>
GiveUpOnLock(s) == zrtp.busy # 0 /\ Fails(s, "lock")

\* zrtp::init(): Diffie-Hellman under zrtp_mtx_; the object keeps the socket.
BeginZrtp(s) ==
    /\ Goes(s, "begin", "negotiate")
    /\ Config(s).kind = "dh" =>
           \A t \in Streams : at[t] = "negotiate" => Config(t).kind # "dh"
    /\ zrtp' = [zrtp EXCEPT !.socket = sock[s]]
    /\ UNCHANGED <<life, stream, factory, readers, flow, ghosts, scenario>>
Negotiated(s) ==
    /\ Goes(s, "negotiate", "keys")
    /\ UNCHANGED <<life, stream, factory, readers, flow, zrtp, ghosts, scenario>>
ZrtpFails(s) == Fails(s, "negotiate") /\ Config(s).fault = "zrtp"

\* init_srtp_with_zrtp() reads the keys of both contexts from the ZRTP object, and the
\* streams in multistream mode may go on before it is unlocked.
TakeKeys(s) ==
    /\ Goes(s, "keys", "unlock")
    /\ zrtp' = [zrtp EXCEPT !.dh = @ \/ Config(s).kind = "dh"]
    /\ UNCHANGED <<life, stream, factory, readers, flow, ghosts, scenario>>
UnlockZrtp(s) ==
    /\ Goes(s, "unlock", "handlers")
    /\ Unlock(s)
    /\ UNCHANGED <<life, stream, factory, readers, flow, crashed, disturbed, scenario>>
InstallAfterZrtp(s) ==
    /\ Goes(s, "handlers", "up")
    /\ install_handlers(s, PacketHandlers(Config(s)))
    /\ UNCHANGED <<life, stream, factory, readers, zrtp, ghosts, scenario>>

-----------------------------------------------------------------------------
(* configure_ctx(RCC_REMOTE_SSRC): the handlers move, unless the new SSRC  *)
(* has its own.                                                            *)

Moved(handlers, old, new) ==
    LET rest == handlers \ Under(old, handlers) IN
    IF Under(new, rest) # {} THEN rest
    ELSE rest \cup {<<new, h[2]>> : h \in Under(old, handlers)}

SetRemoteSsrc(s) ==
    /\ Goes(s, "up", "up")
    /\ \E new \in Config(s).remotes :
       /\ new # remote[s]
       /\ remote' = [remote EXCEPT ![s] = new]
       /\ flow' = [flow EXCEPT ![flow_of[s]].handlers = Moved(@, remote[s], new)]
       /\ disturbed' = disturbed \cup SameSsrc(s, flow_of[s], new)
    /\ UNCHANGED <<life, sock, flow_of, media, rtcp, has_zrtp, factory, readers, zrtp, crashed,
                   intruded, scenario>>

-----------------------------------------------------------------------------
(* ~media_stream(): called by destroy_stream(), or by create_stream() when *)
(* it fails.                                                               *)

Destroy(s) ==
    /\ \E from \in {"up", "user", "manual", "broken"} : Goes(s, from, "delete")
    /\ disturbed' = disturbed \cup Overlap(Config(s), s, Creating)
    /\ UNCHANGED <<life, stream, factory, readers, flow, zrtp, crashed, intruded, scenario>>

AfterRtcp(s) == IF flow_of[s] # 0 THEN "remove" ELSE "free"

\* rtcp::stop(): RTCP that was not started is in no reader.
StopRtcp(s) ==
    LET r == rtcp[s].reader IN
    /\ Goes(s, "delete", IF r # 0 THEN "reader_check" ELSE AfterRtcp(s))
    /\ readers' = IF r # 0 THEN [readers EXCEPT ![r].members = @ \ {Me(s)}] ELSE readers
    /\ UNCHANGED <<life, stream, factory, flow, zrtp, ghosts, scenario>>

\* clear_rtcp_from_reader(): without the lock, the last one stops the reader.
ReaderCheck(s) ==
    LET r == rtcp[s].reader  empty == readers[r].members = {} IN
    /\ Goes(s, "reader_check", IF empty THEN "clear_rtcp" ELSE AfterRtcp(s))
    /\ readers' = IF empty THEN [readers EXCEPT ![r].active = FALSE, ![r].thread = FALSE]
                  ELSE readers
    /\ UNCHANGED <<life, stream, factory, flow, zrtp, ghosts, scenario>>
ClearRtcp(s) ==
    /\ Goes(s, "clear_rtcp", AfterRtcp(s))
    /\ clear_port(Config(s).port + 1, rtcp[s].sock)
    /\ UNCHANGED <<life, stream, flow, zrtp, ghosts, scenario>>

\* Mutant: the flow is stopped whoever still has handlers there.
StopAnyway(s) ==
    /\ Goes(s, "remove", "stop")
    /\ flow' = [flow EXCEPT ![flow_of[s]].handlers = @ \ Under(remote[s], @)]
    /\ UNCHANGED <<life, stream, factory, readers, zrtp, ghosts, scenario>>

\* remove_handlers() and clear_stream_from_flow(): the last one stops the flow.
RemoveHandlers(s) ==
    LET left == flow[flow_of[s]].handlers \ Under(remote[s], flow[flow_of[s]].handlers) IN
    /\ Goes(s, "remove", IF left = {} THEN "stop" ELSE "free")
    /\ flow' = [flow EXCEPT ![flow_of[s]].handlers = left]
    /\ UNCHANGED <<life, stream, factory, readers, zrtp, ghosts, scenario>>

StopFlow(s) ==
    /\ Goes(s, "stop", "clear")
    /\ flow' = [flow EXCEPT ![flow_of[s]].active = FALSE]
    /\ UNCHANGED <<life, stream, factory, readers, zrtp, ghosts, scenario>>

\* The ZRTP object may still hold the socket, which then stays open.
ClearPort(s) ==
    LET port == Config(s).port IN
    /\ Goes(s, "clear", "free")
    /\ clear_port(port, sock[s])
    /\ disturbed' = IF sock[s] # 0 /\ zrtp.socket = sock[s]
                    THEN disturbed \cup {<<port, "held_by_ZRTP">>} ELSE disturbed
    /\ UNCHANGED <<life, stream, flow, zrtp, crashed, intruded, scenario>>

Free(s) ==
    /\ Goes(s, "free", "none")
    /\ free_resources(s)
    /\ flow_of' = [flow_of EXCEPT ![s] = 0]
    /\ UNCHANGED <<life, remote, has_zrtp, factory, readers, flow, crashed, disturbed, scenario>>

-----------------------------------------------------------------------------
Next == \E s \in Streams :
    \/ Create(s) \/ GetSocket(s) \/ Connect(s) \/ ConnectFails(s) \/ NoFlow(s) \/ GetFlow(s)
    \/ Install(s) \/ AddSrtpCtx(s) \/ WrongCtx(s) \/ CreateMedia(s) \/ UnknownFormat(s)
    \/ RtcpSocket(s) \/ RtcpReader(s) \/ NoReader(s) \/ RtcpStart(s) \/ ReaderStart(s)
    \/ ReaderLaunch(s) \/ LaunchTwice(s) \/ ReaderLeaves(s) \/ ReaderMark(s) \/ StartFlow(s)
    \/ StartZrtp(s) \/ WaitForDh(s) \/ GiveUpOnDh(s) \/ try_lock_zrtp(s) \/ GiveUpOnLock(s)
    \/ BeginZrtp(s) \/ Negotiated(s) \/ ZrtpFails(s) \/ TakeKeys(s) \/ UnlockZrtp(s)
    \/ InstallAfterZrtp(s)
    \/ SetRemoteSsrc(s)
    \/ Destroy(s) \/ StopRtcp(s) \/ ReaderCheck(s) \/ ClearRtcp(s) \/ RemoveHandlers(s)
    \/ StopFlow(s) \/ ClearPort(s) \/ Free(s)

Spec == Init /\ [][Next]_vars

-----------------------------------------------------------------------------
(* Properties.                                                             *)

Steps ==
    Creating \cup Deleting \cup
        {"none", "user", "up", "broken", "manual", "dh_wait", "lock", "begin", "negotiate",
         "keys", "unlock", "handlers", "crashed"}

\* The types of the variables; a socket, a flow or a reader that somebody points to was
\* created by the factory.
TypeOK ==
    /\ at \in [Streams -> Steps]
    /\ \A s \in Streams : at[s] # "none" => life[s] \in DOMAIN scenario[s]
    /\ made \in 0 .. MaxSockets /\ used_sockets \subseteq 1 .. made
    /\ reception_flows \subseteq 1 .. made
    /\ \A s \in Streams : {sock[s], flow_of[s], rtcp[s].sock, rtcp[s].reader} \subseteq 0 .. made
    /\ \A p \in Ports : used_ports[p] \in 0 .. made
    /\ \A p \in Ports : used_ports[p] # 0 => bound[used_ports[p]] = p
    /\ disturbed \subseteq
           Ports \X {"overlap", "failed", "refused", "held_by_ZRTP", "same_SSRC"}

\* A stream that is up is heard: its socket is bound to its port and is the one that the
\* next stream of the port gets, its flow is the factory's, runs, and has every handler of
\* the stream under its remote SSRC, and its RTCP is in the reader that runs at the port
\* after.  The flow's thread calls these handlers by the flags of the stream that started
\* it: a stream that found it running without flags it needs ("unserved") is not promised
\* that they are called, any other is, as long as it is up (reception_flow.cc:135-141).  And
\* a reader is not promised to run when its thread has left before start() set active_
\* (rtcp_reader.cc:42-43, :68).  However streams that share a port come and go, one that goes
\* away must leave the others all of this.  Left out are ports where calls overlapped, failed
\* half way, gave two streams the same remote SSRC, or were followed by a ZRTP object that
\* keeps the socket (create_stream(), ~media_stream(), create_new_socket(), clear_port()).
HeardOnRtp(s) ==
    LET c == Config(s)  i == flow_of[s] IN
    /\ sock[s] = i /\ bound[i] = c.port /\ used_ports[c.port] = i
    /\ i \in reception_flows /\ flow[i].active
    /\ {remote[s]} \X AllHandlers(c) \subseteq flow[i].handlers
    /\ s \in flow[i].unserved \/ Flags(c) \subseteq flow[i].flags
HeardOnRtcp(s) ==
    LET port == Config(s).port + 1  r == rtcp[s].reader IN
    /\ bound[rtcp[s].sock] = port /\ used_ports[port] = rtcp[s].sock
    /\ readers[r].port = port /\ readers[r].sock = rtcp[s].sock
    /\ Me(s) \in readers[r].members
    /\ readers[r].left \/ (readers[r].active /\ readers[r].thread)
Heard ==
    \A s \in Streams : at[s] = "up" =>
        /\ Disturbed(Config(s).port) \/ HeardOnRtp(s)
        /\ Config(s).rtcp = "own" =>
               Disturbed(Config(s).port) \/ Disturbed(Config(s).port + 1) \/ HeardOnRtcp(s)

\* When every stream is gone, each without a failure, the factory holds nothing and nothing
\* runs: no socket, flow or reader outlives the last stream that used it, and none is left
\* because two streams that end together each take the other one for the last
\* (clear_stream_from_flow(), clear_rtcp_from_reader(), clear_port()).
NothingLeft ==
    (\A s \in Streams : at[s] = "none") /\ disturbed = {} =>
        /\ used_sockets = {} /\ reception_flows = {}
        /\ \A p \in Ports : used_ports[p] = 0
        /\ \A i \in Ids : /\ ~flow[i].active /\ flow[i].handlers = {}
                          /\ ~readers[i].thread /\ readers[i].port = 0 /\ ~Open(i)

\* Streams negotiate one at a time, as the session of the ZRTP object is shared by all of
\* them, and no stream reads keys that another one is about to replace: with one stream in
\* Diffie-Hellman mode, until some stream unlocks what another one has locked (start_zrtp(),
\* zrtp::init(); the comment at media_stream.cc:420).
NegotiatesAlone ==
    intruded \/ Cardinality({s \in Streams : at[s] \in {"begin", "negotiate", "keys"}}) <= 1
=============================================================================
