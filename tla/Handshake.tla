----------------------------- MODULE Handshake ------------------------------
(***************************************************************************)
(* Two processes, from their configuration files to the request and reply  *)
(* of a stream: the first half of main (main.rs), the Noise handshake on a *)
(* QUIC stream, and what is sent over it (complete_handshake,              *)
(* initiate_stream, initiate_datagram, receive_stream and receive_datagram *)
(* of crypto.rs).  The client initiates.                                   *)
(*                                                                         *)
(* A transcript stands for the handshake hash: pattern, prologue, the keys *)
(* known in advance, and every message so far.  A message is the           *)
(* transcript of its writer; one with an encrypted part can be read only   *)
(* by an end with the same transcript.                                     *)
(***************************************************************************)
EXTENDS Config, Sequences

CONSTANTS
  Cases      \* per process: its file, its command line, the disk, and the
             \* binding of its stream: TLS exporter value and context

\* serde gives a file no other roles, and each role all of its settings
ASSUME CasesAssumption ==
  \A g \in Cases, r \in Roles :
    /\ DOMAIN g[r].file \subseteq Roles
    /\ \A role \in DOMAIN g[r].file : LET s == g[r].file[role] IN
         /\ {"bind_addr", "remote_addr", "default_token", "services", "noise", "quic"} \subseteq DOMAIN s
         /\ {"certificate", "private_key", "trusted_root", "keep_alive_interval", "max_idle_timeout",
             "max_connections", "max_streams", "max_udp_flows"} \subseteq DOMAIN s.quic

VARIABLES
  given,    \* per process: file, args, places and bound
  config,   \* per process: the config it runs, once it has been accepted
  st,       \* per process: "boot", "rejected", "valid", "launched", and then
            \* "start", "handshake", "transport", "reply", "done" or "failed"
  seen,     \* per process: number of handshake messages written or read
  hash,     \* per process: its transcript
  wire,     \* per process: frames it has written that are not read yet, and Fin
  late      \* a timer has fired

vars == <<given, config, st, seen, hash, wire, late>>

Fin == <<"fin">>   \* the end of a stream; no transcript

Other(r) == IF r = "client" THEN "server" ELSE "client"

\* mutant: the prologue is the same on every stream
Prologue_Fixed(r) == "cathole/1"

\* "cathole/1", the exporter value, the context
Prologue(r) == given[r].bound

noise(r) == config[r][r].noise

\* the pattern's pre-messages as r knows them
Known(r) ==
  LET ServerKey == IF r = "server" THEN noise(r).local_private_key ELSE noise(r).remote_public_key
      ClientKey == IF r = "client" THEN noise(r).local_private_key ELSE noise(r).remote_public_key
  IN  CASE noise(r).pattern = "NK" -> <<ServerKey>>
        [] noise(r).pattern = "KK" -> <<ServerKey, ClientKey>>
        [] noise(r).pattern = "XX" -> <<>>

Init ==
  /\ given \in Cases
  /\ config = [r \in Roles |-> <<>>]
  /\ st = [r \in Roles |-> "boot"]
  /\ seen = [r \in Roles |-> 0]
  /\ hash = [r \in Roles |-> <<>>]
  /\ wire = [r \in Roles |-> <<>>]
  /\ late = FALSE

-----------------------------------------------------------------------------
(* main *)

Boot(r) ==
  LET g == given[r] IN
  /\ st[r] = "boot"
  /\ IF Accepts(g.file, g.args, g.places)
       THEN /\ st' = [st EXCEPT ![r] = IF g.args.check THEN "valid" ELSE "launched"]
            /\ config' = [config EXCEPT ![r] = select(read(g.file), Chosen(g.file, g.args))]
       ELSE st' = [st EXCEPT ![r] = "rejected"] /\ UNCHANGED config
  /\ UNCHANGED <<given, seen, hash, wire>>

\* the processes run the two roles, a QUIC connection is up, and a stream open
Connect ==
  /\ \A r \in Roles : st[r] = "launched" /\ DOMAIN config[r] = {r}
  /\ st' = [r \in Roles |-> "start"]
  /\ UNCHANGED <<given, config, seen, hash, wire>>

-----------------------------------------------------------------------------
(* crypto.rs *)

\* an error drops both halves of the stream; the far end reads Fin
Fail(r) ==
  /\ st' = [st EXCEPT ![r] = "failed"]
  /\ wire' = [wire EXCEPT ![r] = Append(@, Fin)]
  /\ UNCHANGED <<given, config, seen, hash>>

Start(r) ==
  /\ st[r] = "start"
  /\ IF Builds(noise(r), r)
       THEN /\ st' = [st EXCEPT ![r] = "handshake"]
            /\ hash' = [hash EXCEPT ![r] = <<noise(r).pattern, Prologue(r), Known(r)>>]
            /\ UNCHANGED <<given, config, seen, wire>>
       ELSE Fail(r)

Messages(pattern) == IF pattern = "XX" THEN 3 ELSE 2

\* our_turn: the initiator writes the first message
OurTurn(r) == (seen[r] % 2 = 0) <=> (r = "client")

\* the first message of XX carries no more than an ephemeral key
Encrypted(r) == ~(noise(r).pattern = "XX" /\ seen[r] = 0)

\* one more message; is_handshake_finished() after the last
Advance(r, message) ==
  /\ seen' = [seen EXCEPT ![r] = @ + 1]
  /\ hash' = [hash EXCEPT ![r] = Append(@, message)]
  /\ st' = [st EXCEPT ![r] = IF seen[r] + 1 = Messages(noise(r).pattern) THEN "transport" ELSE @]
  /\ UNCHANGED <<given, config>>

Write(r) == wire' = [wire EXCEPT ![r] = Append(@, hash[r])]

Incoming(r) == Head(wire[Other(r)])

Take(r) == wire' = [wire EXCEPT ![Other(r)] = Tail(@)]

WriteMessage(r) ==
  st[r] = "handshake" /\ OurTurn(r) /\ Advance(r, hash[r]) /\ Write(r)

Waits(r) ==
  \/ st[r] = "handshake" /\ ~OurTurn(r)
  \/ st[r] = "transport" /\ r = "server"
  \/ st[r] = "reply"

Arrived(r) == Waits(r) /\ wire[Other(r)] # <<>> /\ Incoming(r) # Fin

Opens(r) == Incoming(r) = hash[r]

ReadMessage(r) ==
  /\ Arrived(r) /\ st[r] = "handshake"
  /\ Encrypted(r) => Opens(r)
  /\ Advance(r, Incoming(r)) /\ Take(r)

\* write_frame takes the sealed registration
Fits == RegistrationFrame(config["client"]["client"]) <= MAX_FRAME

\* the initiator's payload: the registration
Request ==
  /\ st["client"] = "transport"
  /\ Fits
  /\ st' = [st EXCEPT !["client"] = "reply"]
  /\ Write("client")
  /\ UNCHANGED <<given, config, seen, hash>>

\* "frame too large"
TooLong == st["client"] = "transport" /\ ~Fits /\ Fail("client")

\* receive_stream or receive_datagram returns the payload; the caller replies "ok"
ReadRequest ==
  /\ Arrived("server") /\ st["server"] = "transport" /\ Opens("server")
  /\ st' = [st EXCEPT !["server"] = "done"]
  /\ wire' = [wire EXCEPT !["client"] = Tail(@), !["server"] = Append(@, hash["server"])]
  /\ UNCHANGED <<given, config, seen, hash>>

ReadReply ==
  /\ Arrived("client") /\ st["client"] = "reply" /\ Opens("client")
  /\ st' = [st EXCEPT !["client"] = "done"]
  /\ Take("client")
  /\ UNCHANGED <<given, config, seen, hash>>

\* read_message fails
Rejects(r) ==
  /\ Arrived(r) /\ ~Opens(r)
  /\ st[r] = "handshake" => Encrypted(r)
  /\ Fail(r)

\* mutant: the end of the stream is taken for a frame still to come
Ended_Never(r) == FALSE

\* read_frame returned None
Ended(r) == wire[Other(r)] # <<>> /\ Incoming(r) = Fin

\* "missing Noise handshake message", request or response
Missing(r) == Waits(r) /\ Ended(r) /\ Fail(r)

\* SETUP elapses
Timeout(r) == st[r] \in {"start", "handshake", "transport", "reply"} /\ late' = TRUE /\ Fail(r)

-----------------------------------------------------------------------------

Step(r) == Boot(r) \/ Start(r) \/ WriteMessage(r) \/ ReadMessage(r) \/ Rejects(r) \/ Missing(r)

Client == Request \/ TooLong \/ ReadReply

Next ==
  \/ (Connect \/ Client \/ ReadRequest \/ \E r \in Roles : Step(r)) /\ UNCHANGED late
  \/ \E r \in Roles : Timeout(r)

\* Both tasks run on, and what was written arrives; no timer has to fire.
Spec ==
  /\ Init /\ [][Next]_vars
  /\ \A r \in Roles : WF_vars(Step(r) /\ UNCHANGED late)
  /\ WF_vars(Client /\ UNCHANGED late)
  /\ WF_vars(ReadRequest /\ UNCHANGED late)

-----------------------------------------------------------------------------
(* Properties *)

Accepted(r) == config[r] # <<>>

\* A configuration that is launched, or reported valid, is the one role the
\* user named or the only one of the file, and has whatever that role unwraps or
\* divides its resources by while it runs: its address, an address per service,
\* at least one permit of each kind, a token that is not empty, and service
\* numbers that the registration admits.
AcceptedRuns ==
  \A r \in Roles : Accepted(r) =>
    \E role \in Roles : LET s == config[r][role] IN
      /\ DOMAIN config[r] = {role}
      /\ given[r].args.role = "any" => DOMAIN given[r].file = {role}
      /\ given[r].args.role # "any" => role = given[r].args.role
      /\ IF role = "server" THEN s.bind_addr ELSE s.remote_addr
      /\ \A g \in Range(s.services) :
           /\ IF role = "server" THEN g.bind_addr ELSE g.local_addr
           /\ token(s, g) > 0
      /\ Count(s) \in 1 .. MaxServices
      /\ s.quic.max_connections > 0 /\ s.quic.max_streams > 0 /\ s.quic.max_udp_flows > 0

\* Every accepted client authenticates the server in one of the two layers: its
\* TLS verifies the certificate, or its Noise pattern starts from the server's
\* key.
ServerAuthenticated ==
  \A r \in Roles : "client" \in DOMAIN config[r] => LET s == config[r]["client"] IN
    \/ VerifiesChain(s.quic)
    \/ NeedsRemote(s.noise, "client") /\ key(s.noise.remote_public_key)

Agree ==
  /\ noise("server").pattern = noise("client").pattern
  /\ given["server"].bound = given["client"].bound
  /\ Known("server") = Known("client")

\* No payload is taken from a stranger: the server returns a request, and the
\* client a reply, only when both are on the same stream of the same TLS
\* connection, use the same pattern and know the same keys; and the client
\* returns only after the server did.
AgreedBeforePayload ==
  /\ st["server"] = "done" => Agree
  /\ st["client"] = "done" => Agree /\ st["server"] = "done"

\* The turns never leave both ends waiting, whatever the two configurations, and
\* no timer is needed to end a handshake.  Two ends that agree, whose keys all
\* decode and whose registration fits a frame, both return, unless one of them
\* times out first.  All others fail closed at both ends: also when a key that
\* the start-up check let pass does not decode, and when the names and tokens
\* together are too long for a frame.
HandshakeEnds ==
  (\A r \in Roles : st[r] = "start") ~>
    /\ \A r \in Roles : st[r] \in {"done", "failed"}
    /\ IF Agree /\ Fits /\ \A r \in Roles : Builds(noise(r), r)
         THEN late \/ \A r \in Roles : st[r] = "done"
         ELSE \A r \in Roles : st[r] = "failed"
=============================================================================
