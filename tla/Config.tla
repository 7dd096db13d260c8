------------------------------- MODULE Config -------------------------------
(***************************************************************************)
(* The configuration (config.rs), what set-up makes of it (transport.rs,   *)
(* `handshake` of crypto.rs), and the pair of files --init writes.         *)
(*                                                                         *)
(* A file is a function from the roles it configures to their Side.  Names *)
(* and tokens are their lengths, an address is whether it is given, a path *)
(* says what it is relative to.  A key is the name of its key pair (a      *)
(* private key and its public key have the same name), or does not decode. *)
(* Services that differ in nothing but their names are one group of n.     *)
(***************************************************************************)
EXTENDS Integers, Functions

Roles == {"server", "client"}

Absent == -1      \* an optional number or length that is not given

MaxServices == 256
MaxToken == 512   \* bytes
MaxPermits == 4096
MaxFlows == 65536

Patterns == {"NK", "KK", "XX"}

-----------------------------------------------------------------------------
(* Values with a fallback *)

token(s, service) ==
  IF service.token # Absent THEN service.token
  ELSE IF s.default_token # Absent THEN s.default_token ELSE 0

service_retry(s, service) ==
  IF service.retry_interval # Absent THEN service.retry_interval ELSE s.retry_interval

Count(s) == SumFunction([i \in DOMAIN s.services |-> s.services[i].n])

-----------------------------------------------------------------------------
(* Validation *)

\* present, Base64, 32 bytes
key(k) == k \notin {"none", "malformed"}

\* the static keys a pattern starts from: the server's in NK, both in KK
NeedsLocal(noise, role)  == noise.pattern = "KK" \/ (noise.pattern = "NK" /\ role = "server")
NeedsRemote(noise, role) == noise.pattern = "KK" \/ (noise.pattern = "NK" /\ role = "client")

\* mutant: XX goes without a certificate
Pinned_Never(noise, pinned_tls) == TRUE

Pinned(noise, pinned_tls) == noise.pattern = "XX" => pinned_tls

validate_noise(noise, role, pinned_tls) ==
  /\ noise.pattern \in Patterns
  /\ NeedsLocal(noise, role) => key(noise.local_private_key)
  /\ NeedsRemote(noise, role) => key(noise.remote_public_key)
  /\ Pinned(noise, pinned_tls)

\* the side-level heartbeat fields win over the two QUIC fields
Overridden(s, role) ==
  IF role = "server" THEN [s EXCEPT !.quic.keep_alive_interval = s.heartbeat_interval]
  ELSE [s EXCEPT !.quic.max_idle_timeout = s.heartbeat_timeout]

PermitsOk(q) ==
  /\ q.max_connections \in 1 .. MaxPermits
  /\ q.max_streams \in 1 .. MaxPermits
  /\ q.max_udp_flows \in 1 .. MaxFlows

LimitsOk(q) ==
  /\ q.stream_receive_window \in 65536 .. 268435456
  /\ q.receive_window \in q.stream_receive_window .. 536870912
  /\ q.send_window \in 65536 .. 536870912
  /\ q.socket_buffer \in 65536 .. 16777216
  /\ q.keep_alive_interval <= 86400
  /\ q.max_idle_timeout <= 86400
  /\ q.udp_idle_timeout \in 1 .. 86400

\* mutant: one address too many is not noticed
OnlyAddress_Any(own, other) == own \/ other

OnlyAddress(own, other) == own /\ ~other

validate_service(s, role, g) ==
  /\ g.name \in 1 .. 128
  /\ token(s, g) \in 1 .. MaxToken
  /\ service_retry(s, g) <= 86400
  /\ IF role = "server" THEN OnlyAddress(g.bind_addr, g.local_addr)
     ELSE OnlyAddress(g.local_addr, g.bind_addr)

\* of a side that is Overridden
validate_side(s, role) ==
  /\ s.transport \in {"noise", "quic"}
  /\ ~s.proxy
  /\ LimitsOk(s.quic) /\ PermitsOk(s.quic)
  /\ Count(s) \in 1 .. MaxServices
  /\ IF role = "server"
       THEN /\ OnlyAddress(s.bind_addr, s.remote_addr)
            /\ (s.quic.certificate = "none") <=> (s.quic.private_key = "none")
            /\ validate_noise(s.noise, role, s.quic.certificate # "none")
       ELSE /\ OnlyAddress(s.remote_addr, s.bind_addr)
            /\ validate_noise(s.noise, role, s.quic.trusted_root # "none")
  /\ s.retry_interval <= 86400
  /\ \A g \in Range(s.services) : validate_service(s, role, g)

\* both roles are validated, whichever of them will run
parse(c) ==
  DOMAIN c # {} /\ \A r \in DOMAIN c : validate_side(Overridden(c[r], r), r)

\* a relative path is relative to the directory of the file
Joined(path) == IF path = "relative" THEN "beside" ELSE path

\* what Config::read returns of a file that parses
read(c) ==
  [r \in DOMAIN c |->
     [Overridden(c[r], r) EXCEPT !.quic.certificate = Joined(@), !.quic.private_key = Joined(@),
                                 !.quic.trusted_root = Joined(@)]]

select(c, role) == Restrict(c, {role})

-----------------------------------------------------------------------------
(* The first half of main: read, choose a role, select it, try its files *)

\* the role of the command line, or the only one of the file; "any" is neither
Chosen(c, args) ==
  IF args.role # "any" THEN args.role
  ELSE IF DOMAIN c = Roles THEN "any" ELSE CHOOSE r \in DOMAIN c : TRUE

\* transport::server and transport::client find their files; `places` are the
\* paths at which a good identity file is
Identity(q, role, places) ==
  IF role = "server"
    THEN q.certificate # "none" /\ q.private_key # "none" => {q.certificate, q.private_key} \subseteq places
    ELSE q.trusted_root # "none" => q.trusted_root \in places

\* no step of main fails before --check or launch
Accepts(c, args, places) ==
  /\ parse(c)
  /\ Chosen(c, args) \in DOMAIN c
  /\ LET r == Chosen(c, args) IN Identity(read(c)[r].quic, r, places)

-----------------------------------------------------------------------------
(* What runs on it *)

\* transport::client verifies the server's certificate; otherwise
\* NoiseAuthenticatedOuterTls accepts any
VerifiesChain(q) == q.trusted_root # "none"

\* `handshake` builds its state: every key that is given decodes, XX makes up
\* a local key, and snow has the keys the pattern starts from
Builds(noise, role) ==
  /\ noise.local_private_key # "malformed" /\ noise.remote_public_key # "malformed"
  /\ NeedsLocal(noise, role) => noise.local_private_key # "none"
  /\ NeedsRemote(noise, role) => noise.remote_public_key # "none"

MAX_FRAME == 65535

\* the registration as JSON: each offer is its name, kind and token
Registration(s) ==
  LET Offers(g) == g.n * (g.name + token(s, g) + 36)
  IN  26 + SumFunction([i \in DOMAIN s.services |-> Offers(s.services[i])])

\* sealed: a nonce and a tag are added
RegistrationFrame(s) == Registration(s) + 8 + 16

-----------------------------------------------------------------------------
(* initialize: the two files of --init, one key pair and one certificate *)

DefaultQuic ==
  [certificate |-> "none", private_key |-> "none", trusted_root |-> "none",
   keep_alive_interval |-> 15, max_idle_timeout |-> 60, udp_idle_timeout |-> 60,
   max_connections |-> 128, max_streams |-> 256, max_udp_flows |-> 4096,
   stream_receive_window |-> 16777216, receive_window |-> 33554432,
   send_window |-> 33554432, socket_buffer |-> 4194304]

Generated(role) ==
  LET server == role = "server" IN
  [bind_addr |-> server, remote_addr |-> ~server, default_token |-> 44,
   heartbeat_timeout |-> 40, heartbeat_interval |-> 30, retry_interval |-> 1,
   transport |-> "quic", proxy |-> FALSE,
   noise |-> [pattern |-> "NK",
              local_private_key |-> IF server THEN "k1" ELSE "none",
              remote_public_key |-> IF server THEN "none" ELSE "k1"],
   quic |-> [DefaultQuic EXCEPT !.certificate = IF server THEN "relative" ELSE "none",
                                !.private_key = IF server THEN "relative" ELSE "none",
                                !.trusted_root = IF server THEN "none" ELSE "relative"],
   services |-> <<[n |-> 1, name |-> 4, token |-> Absent, retry_interval |-> Absent,
                   bind_addr |-> server, local_addr |-> ~server],
                  [n |-> 1, name |-> 8, token |-> Absent, retry_interval |-> Absent,
                   bind_addr |-> server, local_addr |-> ~server]>>]
=============================================================================
