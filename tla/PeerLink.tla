------------------------------ MODULE PeerLink ------------------------------
(***************************************************************************)
(* The peer-to-peer transports (td-net) and their use in the node: the     *)
(* peer table and the dialer of send_message, the listener with its accept *)
(* loop and one reading task per connection, the handshakes, and the       *)
(* length-prefixed frames that carry events over TCP, Noise and QUIC.      *)
(*                                                                         *)
(* A connection is seen from the listener's side; dialers are the node's   *)
(* own, and others that use td-net.  A frame is a unit for its length and  *)
(* units for its body.  What is read at once is a piece: a single unit of  *)
(* a byte stream, or the plain text of one Noise message; the last unit of *)
(* a piece is marked on the wire.  A handshake message is the unit Shake.  *)
(***************************************************************************)
EXTENDS Integers, Sequences

CONSTANTS
    Conn,       \* connections, each of a dialer with a certificate of its own
    Event,      \* events
    Size,       \* units of an event's body
    PinLists,   \* pin lists that an operator may give: sets of dialers
    MaxFrame,   \* MAX_FRAME: units of the largest body
    MaxPlain,   \* max_plain: units in one Noise message
    Shake,      \* a handshake message
    Modes,      \* transports of the listener: tcp, noise, quic
    MaxWrites,  \* bound: frames written on a Noise connection
    MaxBreaks   \* bound: errors of accept, and cuts of connections

ASSUME LinkAssumption ==
    /\ Size \in [Event -> Nat \ {0}]
    /\ {MaxFrame, MaxPlain} \subseteq Nat \ {0}
    /\ {MaxWrites, MaxBreaks} \subseteq Nat
    /\ Shake \notin Event \X Nat /\ PinLists \subseteq SUBSET Conn
    /\ Modes \subseteq {"tcp", "noise", "quic"}

VARIABLES
    mode,     \* p2p_noise and p2p_quic
    opts,     \* options of QUIC: pins, mtls, where the identity comes from
    loop,     \* accept loop: open, ended, or the QUIC connection it waits for
    dialer,   \* the dialing side of a connection
    reader,   \* the task of a connection at the listener
    dialect,  \* what the dialer of a connection speaks
    wire,     \* units on their way to the listener
    back,     \* the listener's handshake message is on its way
    buf,      \* read_buf: units of a piece that were not asked for yet
    head,     \* the length that was read
    written,  \* history: events whose frame was written
    handed,   \* history: frames handed to ingest_remote
    lost,     \* history: the connection was cut
    breaks

policyVars == <<mode, opts>>
connVars   == <<dialer, dialect, written, lost>>
readVars   == <<wire, back, buf, head, handed>>
linkVars == <<policyVars, loop, connVars, reader, readVars, breaks>>

\* The identity of QUIC is read from files, written to new files, or kept in
\* memory only.
Options == [pins : PinLists, mtls : {"unset", "on", "off"},
            identity : {"read", "written", "memory"}]

LinkInit ==
    /\ mode \in Modes
    /\ opts \in IF mode = "quic" THEN Options
                ELSE {[pins |-> {}, mtls |-> "unset", identity |-> "read"]}
    /\ loop = "open"
    /\ dialer = [c \in Conn |-> "idle"] /\ reader = [c \in Conn |-> "none"]
    /\ dialect = [c \in Conn |-> "tcp"]
    /\ wire = [c \in Conn |-> <<>>] /\ back = [c \in Conn |-> FALSE]
    /\ buf = [c \in Conn |-> <<>>] /\ head = [c \in Conn |-> Shake]
    /\ written = [c \in Conn |-> <<>>] /\ handed = [c \in Conn |-> <<>>]
    /\ lost = [c \in Conn |-> FALSE] /\ breaks = 0
-----------------------------------------------------------------------------
(***************************************************************************)
(* The dialing side.                                                       *)
(***************************************************************************)
UriScheme == {"td", "td-noise", "td-quic", "bare"}

\* upsert_peer, for an entry given as uri or as p2p: everything that does not
\* begin with td:// gets a prefix, and a second scheme makes a host that does
\* not resolve; as uri it becomes an RPC address.
StoredAs(field, scheme) ==
    CASE scheme = "td" -> "reachable"
      [] field = "p2p" /\ scheme = "bare" -> "reachable"
      [] field = "p2p" /\ scheme \in {"td-noise", "td-quic"} -> "unresolvable"
      [] OTHER -> "none"

\* TCP meets TCP and UDP meets UDP.
Connects(how) == (how = "quic") = (mode = "quic")

\* A handshake message on the wire.
Message == [unit |-> Shake, end |-> TRUE]

\* A dial that connects.  A Noise dialer sends its first message at once.
Dial(c, how) ==
    /\ dialer[c] = "idle" /\ loop # "ended"
    /\ Connects(how)
    /\ dialect' = [dialect EXCEPT ![c] = how]
    /\ dialer' = [dialer EXCEPT ![c] = IF how = "tcp" THEN "ready" ELSE "shaking"]
    /\ wire' = [wire EXCEPT ![c] = IF how = "noise" THEN <<Message>> ELSE <<>>]
    /\ UNCHANGED <<policyVars, loop, written, lost, reader, back, buf,
                   head, handed, breaks>>

\* The task of send_message: whatever the peer's transport is, an entry of the
\* peer table that resolves is dialed over TCP.
NodeDial(c) ==
    /\ \E field \in {"uri", "p2p"}, scheme \in UriScheme :
           StoredAs(field, scheme) = "reachable"
    /\ Dial(c, "tcp")

\* run_xx_handshake of the initiator: it reads the second message and writes
\* the third.
DialerShakes(c) ==
    /\ dialer[c] = "shaking" /\ back[c]
    /\ dialer' = [dialer EXCEPT ![c] = "ready"]
    /\ back' = [back EXCEPT ![c] = FALSE]
    /\ wire' = [wire EXCEPT ![c] = Append(@, Message)]
    /\ UNCHANGED <<policyVars, loop, dialect, written, lost, reader,
                   buf, head, handed, breaks>>

Frame(e) == [i \in 1..(Size[e] + 1) |-> <<e, i - 1>>]

\* A byte stream.
Units(s) == [i \in DOMAIN s |-> [unit |-> s[i], end |-> TRUE]]

\* NoiseTcpStream::write_all: a frame in messages of at most MaxPlain units.
Chunks(s) ==
    [i \in DOMAIN s |-> [unit |-> s[i], end |-> i % MaxPlain = 0 \/ i = Len(s)]]

\* write_event and noise_write_json: only the former refuses a large body.
\* The node's own tasks, TCP and QUIC, write one event and drop the connection.
Write(c, e) ==
    /\ dialer[c] = "ready"
    /\ Len(written[c]) < IF dialect[c] = "noise" THEN MaxWrites ELSE 1
    /\ dialect[c] = "noise" \/ Size[e] <= MaxFrame
    /\ wire' = [wire EXCEPT ![c] =
                    @ \o IF dialect[c] = "noise" THEN Chunks(Frame(e))
                         ELSE Units(Frame(e))]
    /\ written' = [written EXCEPT ![c] = Append(@, e)]
    /\ dialer' = [dialer EXCEPT ![c] = IF dialect[c] = "tcp" THEN "closed" ELSE @]
    /\ UNCHANGED <<policyVars, loop, dialect, lost, reader, back, buf, head, handed,
                   breaks>>

\* Where a wire may break: between two pieces.
Breaks(s) == {n \in 0..Len(s) : n = 0 \/ s[n].end}

\* The dialer drops its stream.  TCP delivers what was written; a QUIC
\* connection is closed at once, and what was not delivered is lost.
Hangup(c) ==
    /\ dialer[c] \in {"shaking", "ready"}
    /\ dialer' = [dialer EXCEPT ![c] = "closed"]
    /\ \/ dialect[c] # "quic" /\ UNCHANGED <<wire, lost>>
       \/ /\ dialect[c] = "quic"
          /\ \E n \in Breaks(wire[c]) :
                 wire' = [wire EXCEPT ![c] = SubSeq(@, 1, n)]
          /\ lost' = [lost EXCEPT ![c] = TRUE]
    /\ UNCHANGED <<policyVars, loop, dialect, written, reader, back,
                   buf, head, handed, breaks>>

\* The connection breaks, in the middle of a frame or a handshake message.
Cut(c) ==
    /\ breaks < MaxBreaks /\ breaks' = breaks + 1
    /\ dialer[c] \in {"shaking", "ready", "closed"} /\ ~lost[c]
    /\ dialer' = [dialer EXCEPT ![c] = "closed"]
    /\ \E n \in Breaks(wire[c]) : wire' = [wire EXCEPT ![c] = SubSeq(@, 1, n)]
    /\ lost' = [lost EXCEPT ![c] = TRUE]
    /\ UNCHANGED <<policyVars, loop, dialect, written, reader, back,
                   buf, head, handed>>
-----------------------------------------------------------------------------
(***************************************************************************)
(* The accept loops of start_p2p_listener.                                 *)
(***************************************************************************)
Waiting(c) == dialer[c] # "idle" /\ reader[c] = "none"

\* Mutation of Accept: the handshake is awaited in the accept loop.
AcceptInline(c) ==
    /\ mode # "quic" /\ loop = "open" /\ Waiting(c)
    /\ \A d \in Conn : reader[d] \notin {"first", "third"}
    /\ reader' = [reader EXCEPT ![c] = IF mode = "noise" THEN "first" ELSE "head"]
    /\ UNCHANGED <<policyVars, loop, connVars, readVars, breaks>>

\* TCP and Noise: every connection gets a task of its own, which does the
\* handshake too.
Accept(c) ==
    /\ mode # "quic" /\ loop = "open" /\ Waiting(c)
    /\ reader' = [reader EXCEPT ![c] = IF mode = "noise" THEN "first" ELSE "head"]
    /\ UNCHANGED <<policyVars, loop, connVars, readVars, breaks>>

\* accept itself fails: the loop ends, and with it the listener.
AcceptFails ==
    /\ breaks < MaxBreaks /\ breaks' = breaks + 1
    /\ loop = "open" /\ loop' = "ended"
    /\ UNCHANGED <<policyVars, connVars, reader, readVars>>

\* quic_accept is awaited in the loop: one connection at a time.
QuicAccept(c) ==
    /\ mode = "quic" /\ loop = "open" /\ Waiting(c)
    /\ loop' = c
    /\ reader' = [reader EXCEPT ![c] = "tls"]
    /\ UNCHANGED <<policyVars, connVars, readVars, breaks>>

\* Mutation of Mtls: a stored identity is used without a look at the pins.
MtlsFromFiles ==
    \/ opts.mtls = "on" /\ (opts.identity # "memory" \/ opts.pins # {})
    \/ opts.mtls = "unset" /\ opts.pins # {} /\ opts.identity \in {"written", "memory"}

\* build_quic_tls_config: client certificates are asked for if set, or by
\* default with pins; an identity in memory only looks at it if there are pins.
Mtls ==
    \/ opts.mtls = "on" /\ (opts.identity # "memory" \/ opts.pins # {})
    \/ opts.mtls = "unset" /\ opts.pins # {}

\* PinClientCertVerifier, in place when client certificates are asked for.
PinAllowed(c) == Mtls /\ opts.pins # {} => c \in opts.pins

\* The TLS handshake ends well for both sides; what the dialer asks of the
\* listener's certificate is its own affair.
QuicShakes(c) ==
    /\ loop = c /\ reader[c] = "tls" /\ dialer[c] = "shaking"
    /\ PinAllowed(c)
    /\ dialer' = [dialer EXCEPT ![c] = "ready"]
    /\ reader' = [reader EXCEPT ![c] = "stream"]
    /\ UNCHANGED <<policyVars, loop, dialect, written, lost, readVars,
                   breaks>>

\* accept_bi returns when the first bytes of a stream arrive.
QuicStream(c) ==
    /\ loop = c /\ reader[c] = "stream" /\ wire[c] # <<>>
    /\ reader' = [reader EXCEPT ![c] = "head"]
    /\ loop' = "open"
    /\ UNCHANGED <<policyVars, connVars, readVars, breaks>>

\* A handshake that either side refuses, or a connection that ends or stays
\* idle before its first stream: the accept loop takes the error as its end.
QuicFails(c) ==
    /\ loop = c /\ reader[c] \in {"tls", "stream"}
    /\ reader[c] = "stream" => wire[c] = <<>>
    /\ loop' = "ended"
    /\ reader' = [reader EXCEPT ![c] = "ended"]
    /\ dialer' = [dialer EXCEPT ![c] = "closed"]
    /\ UNCHANGED <<policyVars, dialect, written, lost, readVars, breaks>>
-----------------------------------------------------------------------------
(***************************************************************************)
(* The task of a connection.                                               *)
(***************************************************************************)
Ends(c) == reader' = [reader EXCEPT ![c] = "ended"]

\* run_xx_handshake of the responder.  The length of a plain frame is not a
\* handshake message: the task ends, and the others go on.
Responds(c) ==
    /\ reader[c] \in {"first", "third"} /\ wire[c] # <<>>
    /\ wire' = [wire EXCEPT ![c] = Tail(@)]
    /\ \/ /\ Head(wire[c]) = Message
          /\ back' = [back EXCEPT ![c] = reader[c] = "first"]
          /\ reader' = [reader EXCEPT ![c] =
                            IF @ = "first" THEN "third" ELSE "head"]
       \/ Head(wire[c]) # Message /\ Ends(c) /\ UNCHANGED back
    /\ UNCHANGED <<policyVars, loop, connVars, buf, head, handed, breaks>>

Text(s) == [i \in DOMAIN s |-> s[i].unit]

\* What read_exact finds: the units left over, then those of further pieces.
Available(c) == buf[c] \o Text(wire[c])

\* The piece with the unit m ends at k.
PieceEnds(s, m, k) == s[k].end /\ \A i \in m..(k - 1) : ~s[i].end

\* Mutation of ReadExact: what is left of a message is dropped.
ReadExactDrops(c, n) ==
    LET m == n - Len(buf[c])
    IN  \/ /\ m <= 0
           /\ buf' = [buf EXCEPT ![c] = SubSeq(@, n + 1, Len(@))]
           /\ UNCHANGED wire
        \/ /\ m > 0
           /\ \E k \in m..Len(wire[c]) :
                  /\ PieceEnds(wire[c], m, k)
                  /\ wire' = [wire EXCEPT ![c] = SubSeq(@, k + 1, Len(@))]
           /\ buf' = [buf EXCEPT ![c] = <<>>]

\* read_exact of n units; units that were not asked for stay in read_buf.
ReadExact(c, n) ==
    LET m == n - Len(buf[c])
    IN  \/ /\ m <= 0
           /\ buf' = [buf EXCEPT ![c] = SubSeq(@, n + 1, Len(@))]
           /\ UNCHANGED wire
        \/ /\ m > 0
           /\ \E k \in m..Len(wire[c]) :
                  /\ PieceEnds(wire[c], m, k)
                  /\ wire' = [wire EXCEPT ![c] = SubSeq(@, k + 1, Len(@))]
                  /\ buf' = [buf EXCEPT ![c] = Text(SubSeq(wire[c], m + 1, k))]

\* The length that a unit says: a handshake message, read as a length, asks
\* for more than will come.
Length(u) == IF u[2] = 0 THEN Size[u[1]] ELSE 1
Foreign(u) == u = Shake

\* read_event and noise_read_json up to the length; a large one ends the task.
ReadHead(c) ==
    LET u == Available(c)[1]
    IN  /\ reader[c] = "head"
        /\ ReadExact(c, 1)
        /\ head' = [head EXCEPT ![c] = u]
        /\ IF Foreign(u) THEN reader' = [reader EXCEPT ![c] = "starved"]
           ELSE IF Length(u) > MaxFrame THEN Ends(c)
           ELSE reader' = [reader EXCEPT ![c] = "body"]
        /\ UNCHANGED <<policyVars, loop, connVars, back, handed, breaks>>

\* ... and its body; the frame is handed on and the next one awaited.
ReadBody(c) ==
    LET n == Length(head[c])
    IN  /\ reader[c] = "body"
        /\ ReadExact(c, n)
        /\ handed' = [handed EXCEPT ![c] =
                          Append(@, <<head[c]>> \o SubSeq(Available(c), 1, n))]
        /\ reader' = [reader EXCEPT ![c] = "head"]
        /\ UNCHANGED <<policyVars, loop, connVars, back, head, breaks>>

\* The stream is at its end before the read is satisfied.
ReadEnds(c) ==
    /\ dialer[c] = "closed"
    /\ \/ reader[c] \in {"first", "third"} /\ wire[c] = <<>>
       \/ reader[c] = "head" /\ Available(c) = <<>>
       \/ reader[c] = "body" /\ Len(Available(c)) < Length(head[c])
       \/ reader[c] = "starved"
    /\ Ends(c)
    /\ UNCHANGED <<policyVars, loop, connVars, readVars, breaks>>
-----------------------------------------------------------------------------
Listens(c) == Accept(c) \/ QuicAccept(c)
Shakes(c)  == QuicShakes(c) \/ QuicStream(c) \/ QuicFails(c)
Reads(c)   == Responds(c) \/ ReadHead(c) \/ ReadBody(c) \/ ReadEnds(c)

LinkNext ==
    \/ AcceptFails
    \/ \E c \in Conn :
        \/ NodeDial(c)
        \/ \E how \in {"noise", "quic"} : Dial(c, how)
        \/ DialerShakes(c)
        \/ \E e \in Event : Write(c, e)
        \/ Hangup(c)
        \/ Cut(c)
        \/ Listens(c)
        \/ Shakes(c)
        \/ Reads(c)

\* The tasks of the listener run whenever they can; dialers owe nothing.
LinkFairness ==
    \A c \in Conn : /\ WF_linkVars(Listens(c)) /\ WF_linkVars(Shakes(c))
                    /\ WF_linkVars(Reads(c))

LinkSpec == LinkInit /\ [][LinkNext]_linkVars /\ LinkFairness
-----------------------------------------------------------------------------
(***************************************************************************)
(* Correctness.                                                            *)
(***************************************************************************)

\* Every variable has the type of the state or locals it stands for.
LinkTypeOK ==
    /\ mode \in Modes /\ opts \in Options \cup {[pins |-> {}, mtls |-> "unset",
                                               identity |-> "read"]}
    /\ loop \in {"open", "ended"} \cup Conn
    /\ dialer \in [Conn -> {"idle", "shaking", "ready", "closed"}]
    /\ reader \in [Conn -> {"none", "first", "third", "tls", "stream", "head", "body",
                            "starved", "ended"}]
    /\ dialect \in [Conn -> {"tcp", "noise", "quic"}]
    /\ {back, lost} \subseteq [Conn -> BOOLEAN]
    /\ written \in [Conn -> Seq(Event)]
    /\ \A c \in Conn : Len(handed[c]) <= Len(written[c])
    /\ breaks \in 0..MaxBreaks

\* read_event, read_exact: what a task hands to ingest_remote is, in order and
\* whole, what the dialer wrote, however frames are cut into messages, two
\* frames follow each other, or the connection breaks inside one.
FramesIntact ==
    \A c \in Conn :
        /\ Len(handed[c]) <= Len(written[c])
        /\ \A i \in DOMAIN handed[c] : handed[c][i] = Frame(written[c][i])

\* build_quic_tls_config, PinClientCertVerifier: with pins, and client
\* certificates not switched off, only pinned dialers are heard.
PinnedPeersOnly ==
    mode = "quic" /\ opts.pins # {} /\ opts.mtls # "off"
        => \A c \in Conn : handed[c] # <<>> => c \in opts.pins

Speaks(c) == dialect[c] = mode /\ ~lost[c]

Owed(c) == Speaks(c) /\ \A i \in DOMAIN written[c] : Size[written[c][i]] <= MaxFrame

\* start_p2p_listener: while the accept loop lives, the handshake of an unbroken
\* connection of the listener's transport is answered and a frame written on
\* it is handed on, whatever the other connections do: stay silent, speak
\* something else, or break.
Served ==
    \A c \in Conn :
        /\ Len(handed[c]) < Len(written[c])
               ~> Len(handed[c]) = Len(written[c]) \/ ~Owed(c) \/ loop = "ended"
        /\ dialer[c] = "shaking"
               ~> back[c] \/ dialer[c] # "shaking" \/ ~Owed(c) \/ loop = "ended"
=============================================================================
