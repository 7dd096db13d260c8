---------------------------- MODULE MCHandshake -----------------------------
(* The files of --init with settings changed to another value on either side *)
(* of a limit, or with any two [noise] tables, and two streams.              *)
EXTENDS Handshake

Keys == {"none", "malformed", "k1"}
Paths == {"none", "relative", "absolute"}

GroupVariants(g) ==
  {[g EXCEPT !.n = x] : x \in {0, 1, 255, 256}}
  \cup {[g EXCEPT !.name = x] : x \in {0, 128, 129}}
  \cup {[g EXCEPT !.token = x] : x \in {Absent, 0, 1, 512, 513}}
  \cup {[g EXCEPT !.retry_interval = x] : x \in {Absent, 0, 86401}}
  \cup {[g EXCEPT !.bind_addr = x, !.local_addr = y] : x, y \in BOOLEAN}

Limits == [stream_receive_window |-> {65535, 268435457}, receive_window |-> {16777215},
           send_window |-> {65535}, socket_buffer |-> {65535}, keep_alive_interval |-> {86401},
           max_idle_timeout |-> {86401}, udp_idle_timeout |-> {0}, max_connections |-> {0, 4097},
           max_streams |-> {0, 4097}, max_udp_flows |-> {0, 65537}]

Variants(s) ==
  {[s EXCEPT !.bind_addr = x, !.remote_addr = y] : x, y \in BOOLEAN}
  \cup {[s EXCEPT !.default_token = x] : x \in {Absent, 0, 512, 513}}
  \cup {[s EXCEPT !.heartbeat_timeout = x, !.heartbeat_interval = x] : x \in {0, 86400, 86401}}
  \cup {[s EXCEPT !.retry_interval = x] : x \in {0, 86401}}
  \cup {[s EXCEPT !.transport = x] : x \in {"noise", "tcp"}}
  \cup {[s EXCEPT !.proxy = TRUE]}
  \cup {[s EXCEPT !.noise = [pattern |-> p, local_private_key |-> x, remote_public_key |-> y]] :
          p \in Patterns \cup {"IK"}, x, y \in Keys}
  \cup {[s EXCEPT !.quic.certificate = x, !.quic.private_key = y] : x, y \in Paths}
  \cup {[s EXCEPT !.quic.trusted_root = x] : x \in Paths}
  \cup UNION {{[s EXCEPT !.quic[f] = x] : x \in Limits[f]} : f \in DOMAIN Limits}
  \cup {[s EXCEPT !.services[2] = g] : g \in GroupVariants(s.services[2])}
  \cup {[s EXCEPT !.services = <<>>]}

OneChange(r) == Variants(Generated(r))

\* the settings that are validated together: patterns and keys with identity
\* files, the default token with that of a service
TwoChanges(r) ==
  {[Generated(r) EXCEPT !.noise = [pattern |-> p, local_private_key |-> x, remote_public_key |-> x],
                        !.quic.certificate = c, !.quic.private_key = d, !.quic.trusted_root = t] :
     p \in Patterns, x \in Keys, c, d, t \in Paths}
  \cup {[Generated(r) EXCEPT !.default_token = d, !.services[2].token = t] :
          d, t \in {Absent, 0, 512, 513}}

Alone(r, s) == [x \in {r} |-> s]
Both(r, s)  == [x \in Roles |-> IF x = r THEN s ELSE Generated(x)]

-----------------------------------------------------------------------------

Good == {"beside", "absolute"}

Plain(file) ==
  [file |-> file, args |-> [role |-> "any", check |-> FALSE], places |-> Good, bound |-> 1]

\* r is given g, the other process the file of --init
Against(r, g) == [x \in Roles |-> IF x = r THEN g ELSE Plain(Alone(x, Generated(x)))]

\* two changes: --check
Checked ==
  UNION {{Against(r, [Plain(Alone(r, s)) EXCEPT !.args.check = TRUE]) : s \in TwoChanges(r)} : r \in Roles}

\* one change, alone or beside the other role: launched, with any command line,
\* with and without the identity files
Launched ==
  UNION {{Against(r, [Plain(f) EXCEPT !.args.role = a, !.places = p]) :
            f \in {Alone(r, s) : s \in OneChange(r)} \cup {Both(r, s) : s \in OneChange(r)} \cup {<<>>},
            a \in Roles \cup {"any"}, p \in {{}, Good}} : r \in Roles}

\* a registration that is too long for a frame
Long ==
  {Against("client", Plain(Alone("client",
     [Generated("client") EXCEPT !.default_token = 512, !.services[2].n = 255])))}

\* any two [noise] tables, and two streams
AllNoise == [pattern : Patterns, local_private_key : Keys \cup {"k2"}, remote_public_key : Keys \cup {"k2"}]

With(r, n, b) == [Plain(Alone(r, [Generated(r) EXCEPT !.noise = n])) EXCEPT !.bound = b]

Paired ==
  {[r \in Roles |-> IF r = "server" THEN With(r, n, 1) ELSE With(r, m, b)] :
     n \in {x \in AllNoise : validate_noise(x, "server", TRUE)},
     m \in {x \in AllNoise : validate_noise(x, "client", TRUE)}, b \in {1, 2}}

AllCases == Checked \cup Launched \cup Long \cup Paired
=============================================================================
