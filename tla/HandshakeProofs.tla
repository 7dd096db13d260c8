-------------------------- MODULE HandshakeProofs ---------------------------
(***************************************************************************)
(* AgreedBeforePayload (module Handshake) for any configurations, command  *)
(* lines, keys and bindings, and in every interleaving of the two ends.    *)
(***************************************************************************)
EXTENDS Handshake, SequenceTheorems, TLAPS

-----------------------------------------------------------------------------
(* Sequences over no particular set                                        *)

IsSeq(s) == \E S : s \in Seq(S)

\* What write_frame adds to a stream, and a message to a transcript: one
\* element, at the end.
LEMMA Appended ==
  ASSUME NEW s, NEW e, IsSeq(s)
  PROVE  /\ IsSeq(Append(s, e))
         /\ Len(s) \in Nat
         /\ Len(Append(s, e)) = Len(s) + 1
         /\ Append(s, e)[Len(s) + 1] = e
         /\ \A i \in 1 .. Len(s) : Append(s, e)[i] = s[i]
<1>1. PICK S : s \in Seq(S)
  BY Zenon DEF IsSeq
<1>2. s \in Seq(S \cup {e})
  BY <1>1, SeqMonotonic, Zenon
<1>3. Append(s, e) \in Seq(S \cup {e})
  BY <1>2, AppendProperties, Zenon
<1>4. IsSeq(Append(s, e))
  BY <1>3, Zenon DEF IsSeq
<1> QED
  BY <1>2, <1>4, AppendProperties

\* What read_frame takes from a stream: the first frame.
LEMMA Taken ==
  ASSUME NEW s, IsSeq(s), s # <<>>
  PROVE  /\ IsSeq(Tail(s))
         /\ Len(s) \in Nat \ {0}
         /\ Head(s) = s[1]
         /\ Len(Tail(s)) = Len(s) - 1
         /\ \A i \in 1 .. Len(Tail(s)) : Tail(s)[i] = s[i + 1]
<1>1. PICK S : s \in Seq(S)
  BY Zenon DEF IsSeq
<1>2. Tail(s) \in Seq(S)
  BY <1>1, HeadTailProperties, Zenon
<1>3. IsSeq(Tail(s))
  BY <1>2, Zenon DEF IsSeq
<1> QED
  BY <1>1, <1>3, HeadTailProperties

PerRole(f) == f = [r \in Roles |-> f[r]]

Sets(g, f, r, e) == g = [f EXCEPT ![r] = e]

\* A step of one end writes its own entry of a variable.
LEMMA Updated ==
  ASSUME NEW f, NEW g, NEW e, NEW r \in Roles, PerRole(f), Sets(g, f, r, e)
  PROVE  PerRole(g) /\ g[r] = e /\ \A q \in Roles : q # r => g[q] = f[q]
  BY Zenon DEF PerRole, Sets

\* What `handshake` of crypto.rs starts a transcript with.
LEMMA Triple ==
  ASSUME NEW a, NEW b, NEW c
  PROVE  /\ IsSeq(<<a, b, c>>) /\ Len(<<a, b, c>>) = 3
         /\ <<a, b, c>>[1] = a /\ <<a, b, c>>[2] = b /\ <<a, b, c>>[3] = c
<1>1. <<a, b, c>> \in Seq({a, b, c})
  OBVIOUS
<1>2. IsSeq(<<a, b, c>>)
  BY <1>1, Zenon DEF IsSeq
<1> QED
  BY <1>2, Zenon

-----------------------------------------------------------------------------
(* The inductive invariant                                                 *)

Connected(r) == st[r] \notin {"boot", "rejected", "valid", "launched"}

Keyed(r) == st[r] \in {"handshake", "transport", "reply", "done"}

\* what every transcript of r begins with
StartsAs(h, r) == h[1] = noise(r).pattern /\ h[2] = Prologue(r) /\ h[3] = Known(r)

\* the transcript of r holds the messages that r has seen
Own(r) ==
  Keyed(r) =>
    /\ IsSeq(hash[r]) /\ StartsAs(hash[r], r) /\ Len(hash[r]) = 3 + seen[r]
    /\ IF st[r] = "handshake" THEN seen[r] < Messages(noise(r).pattern)
       ELSE seen[r] = Messages(noise(r).pattern)

\* a frame of r is a transcript of r; that of the whole handshake is sealed by
\* the server only in its reply
Sound(r, m) ==
  m # Fin =>
    /\ StartsAs(m, r)
    /\ r = "server" /\ st["server"] # "done" => Len(m) < 3 + Messages(noise(r).pattern)

Frames(r) ==
  /\ IsSeq(wire[r])
  /\ ~Connected(r) => wire[r] = <<>>
  /\ \A i \in 1 .. Len(wire[r]) : Sound(r, wire[r][i])

Shape ==
  /\ st \in [Roles -> {"boot", "rejected", "valid", "launched", "start", "handshake",
                       "transport", "reply", "done", "failed"}]
  /\ seen \in [Roles -> Nat]
  /\ PerRole(hash)
  /\ PerRole(wire)
  /\ Connected("client") <=> Connected("server")
  /\ \A r \in Roles : (Connected(r) /\ st[r] # "start") \/ seen[r] = 0

IInv ==
  /\ Shape
  /\ \A r \in Roles : Own(r) /\ Frames(r)
  /\ AgreedBeforePayload

LEMMA Initially == Init => IInv
<1> SUFFICES ASSUME Init PROVE IInv
  BY Zenon
<1>1. IsSeq(<<>>)
  <2>1. <<>> \in Seq({})
    OBVIOUS
  <2> QED
    BY <2>1, Zenon DEF IsSeq
<1>2. \A r \in Roles : st[r] = "boot" /\ wire[r] = <<>>
  BY Zenon DEF Init
<1>3. Shape /\ AgreedBeforePayload
  BY <1>2, Zenon DEF Init, Shape, PerRole, Connected, AgreedBeforePayload, Roles
<1>4. \A r \in Roles : Own(r) /\ Frames(r)
  BY <1>1, <1>2 DEF Own, Keyed, Frames
<1> QED
  BY <1>3, <1>4, Zenon DEF IInv

-----------------------------------------------------------------------------
(* Once both ends are connected, nothing they agree or disagree on changes *)

Settled ==
  /\ UNCHANGED <<given, config>>
  /\ st["server"] = "done" => st'["server"] = "done"

LEMMA Fixed ==
  ASSUME Settled, NEW r
  PROVE  noise(r)' = noise(r) /\ Prologue(r)' = Prologue(r) /\ Known(r)' = Known(r)
<1>1. noise(r)' = noise(r)
  BY Zenon DEF Settled, noise
<1>2. Prologue(r)' = Prologue(r)
  BY Zenon DEF Settled, Prologue
<1>3. Known(r)' = Known(r)
  BY <1>1, Zenon DEF Known
<1> QED
  BY <1>1, <1>2, <1>3, Zenon

\* An end that neither moves nor sees a message keeps its transcript.
LEMMA OwnKept ==
  ASSUME Settled, NEW r, Own(r),
         st'[r] = st[r] \/ ~Keyed(r)', hash'[r] = hash[r], seen'[r] = seen[r]
  PROVE  Own(r)'
  BY Fixed, Zenon DEF Own, Keyed, StartsAs

\* The frames of an end stay sound while none is added, while one is read, and
\* when a sound one is added.
LEMMA FramesKept ==
  ASSUME Settled, NEW r, Frames(r), Connected(r) <=> Connected(r)',
         wire'[r] = wire[r]
  PROVE  Frames(r)'
  BY Fixed, Zenon DEF Frames, Sound, StartsAs, Settled

LEMMA FramesRead ==
  ASSUME Settled, NEW r, Frames(r), Connected(r), Connected(r)',
         wire[r] # <<>>, wire'[r] = Tail(wire[r])
  PROVE  Frames(r)' /\ Sound(r, Head(wire[r]))
<1> DEFINE s == wire[r]
<1>1. /\ IsSeq(Tail(s)) /\ Len(s) \in Nat \ {0} /\ Head(s) = s[1]
      /\ Len(Tail(s)) = Len(s) - 1
      /\ \A i \in 1 .. Len(Tail(s)) : Tail(s)[i] = s[i + 1]
  BY Taken, Zenon DEF Frames
<1>2. \A i \in 1 .. Len(s) : Sound(r, s[i])
  BY Zenon DEF Frames
<1>3. \A i \in 1 .. Len(Tail(s)) : Sound(r, Tail(s)[i])
  BY <1>1, <1>2
<1>4. \A i \in 1 .. Len(wire'[r]) : Sound(r, wire[r][i])'
  BY <1>3, Fixed, Zenon DEF Sound, StartsAs, Settled
<1>5. Frames(r)'
  BY <1>1, <1>4, Zenon DEF Frames
<1>6. 1 \in 1 .. Len(s)
  BY <1>1
<1> QED
  BY <1>1, <1>2, <1>5, <1>6, Zenon

MaySend(r, m) ==
  m # Fin =>
    /\ StartsAs(m, r)
    /\ r = "server" /\ st'["server"] # "done" => Len(m) < 3 + Messages(noise(r).pattern)

LEMMA FramesAdded ==
  ASSUME Settled, NEW r, NEW m, Frames(r), Connected(r), Connected(r)',
         wire'[r] = Append(wire[r], m), MaySend(r, m)
  PROVE  Frames(r)'
<1> DEFINE s == wire[r]
<1>1. /\ IsSeq(Append(s, m)) /\ Len(s) \in Nat
      /\ Len(Append(s, m)) = Len(s) + 1
      /\ Append(s, m)[Len(s) + 1] = m
      /\ \A i \in 1 .. Len(s) : Append(s, m)[i] = s[i]
  BY Appended DEF Frames
<1>2. \A i \in 1 .. Len(s) : Sound(r, s[i])
  BY Zenon DEF Frames
<1>3. ASSUME NEW i \in 1 .. Len(s) + 1
      PROVE  Sound(r, wire[r][i])'
  <2>1. CASE i = Len(s) + 1
    BY <1>1, <2>1, Fixed, Zenon DEF Sound, StartsAs, MaySend
  <2>2. CASE i \in 1 .. Len(s)
    BY <1>1, <1>2, <2>2, Fixed, Zenon DEF Sound, StartsAs, Settled
  <2> QED
    BY <1>1, <2>1, <2>2
<1> QED
  BY <1>1, <1>3, Zenon DEF Frames

LEMMA AgreementKept ==
  ASSUME Settled, AgreedBeforePayload, \A r \in Roles : st'[r] = "done" => st[r] = "done"
  PROVE  AgreedBeforePayload'
<1>1. Agree' <=> Agree
  BY Fixed DEF Agree, Settled
<1> QED
  BY <1>1, Zenon DEF AgreedBeforePayload, Settled, Roles

-----------------------------------------------------------------------------
(* Every step preserves the invariant                                      *)

\* main: neither end is connected, so that a config may still change
LEMMA BootKeeps ==
  ASSUME IInv, NEW r \in Roles, Boot(r)
  PROVE  IInv'
<1> USE DEF Roles
<1>1. /\ st[r] = "boot"
      /\ \E s \in {"valid", "launched", "rejected"} : st' = [st EXCEPT ![r] = s]
      /\ UNCHANGED <<seen, hash, wire>>
  BY Zenon DEF Boot
<1>2. Shape' /\ \A q \in Roles : ~Connected(q) /\ ~Connected(q)'
  BY <1>1 DEF IInv, Shape, Connected
<1>3. \A q \in Roles : Own(q)' /\ ~(st[q] = "done")'
  BY <1>2, Zenon DEF Own, Keyed, Connected
<1>4. \A q \in Roles : wire'[q] = <<>> /\ IsSeq(wire'[q])
  BY <1>1, <1>2, Zenon DEF IInv, Frames
<1>5. \A q \in Roles : Frames(q)'
  BY <1>4 DEF Frames
<1> QED
  BY <1>2, <1>3, <1>5, Zenon DEF IInv, AgreedBeforePayload

LEMMA ConnectKeeps ==
  ASSUME IInv, Connect
  PROVE  IInv'
<1> USE DEF Roles
<1>1. /\ \A q \in Roles : st[q] = "launched" /\ st'[q] = "start"
      /\ st' = [q \in Roles |-> "start"]
      /\ UNCHANGED <<seen, hash, wire>>
  BY Zenon DEF Connect
<1>2. Shape' /\ \A q \in Roles : ~Connected(q) /\ Connected(q)'
  BY <1>1, Zenon DEF IInv, Shape, Connected
<1>3. \A q \in Roles : Own(q)' /\ ~(st[q] = "done")'
  BY <1>1, Zenon DEF Own, Keyed
<1>4. \A q \in Roles : wire'[q] = <<>> /\ IsSeq(wire'[q])
  BY <1>1, <1>2, Zenon DEF IInv, Frames
<1>5. \A q \in Roles : Frames(q)'
  BY <1>2, <1>4 DEF Frames
<1> QED
  BY <1>2, <1>3, <1>5, Zenon DEF IInv, AgreedBeforePayload

\* an end that fails leaves its transcript alone and ends its stream
LEMMA FailKeeps ==
  ASSUME IInv, NEW r \in Roles, Connected(r), st[r] # "done", Fail(r)
  PROVE  IInv'
<1> USE DEF Roles
<1>1. /\ st' = [st EXCEPT ![r] = "failed"]
      /\ wire' = [wire EXCEPT ![r] = Append(wire[r], Fin)]
      /\ UNCHANGED <<given, config, seen, hash>>
  BY Zenon DEF Fail
<1>2. /\ PerRole(wire') /\ wire'[r] = Append(wire[r], Fin)
      /\ \A q \in Roles : q # r => wire'[q] = wire[q]
  <2> DEFINE e == Append(wire[r], Fin)
  <2>1. Sets(wire', wire, r, e) /\ PerRole(wire)
    BY <1>1, Zenon DEF Sets, IInv, Shape
  <2> HIDE DEF e
  <2>2. PerRole(wire') /\ wire'[r] = e /\ \A q \in Roles : q # r => wire'[q] = wire[q]
    BY <2>1, Updated
  <2> QED
    BY <2>2, Zenon DEF e
<1>3. /\ Shape' /\ Settled
      /\ \A q \in Roles : Connected(q) /\ Connected(q)'
      /\ \A q \in Roles : st'[q] = "done" => st[q] = "done"
  BY <1>1, <1>2, Zenon DEF IInv, Shape, Connected, Settled
<1>4. ASSUME NEW q \in Roles PROVE Own(q)'
  <2>1. st'[q] = st[q] \/ ~Keyed(q)'
    BY <1>1, Zenon DEF IInv, Shape, Keyed
  <2> QED
    BY <1>1, <1>3, <2>1, OwnKept, Zenon DEF IInv
<1>5. ASSUME NEW q \in Roles PROVE Frames(q)'
  <2>1. Frames(q)
    BY Zenon DEF IInv
  <2>2. CASE q = r
    <3>1. MaySend(q, Fin)
      BY Zenon DEF MaySend
    <3> QED
      BY <1>2, <1>3, <2>1, <2>2, <3>1, FramesAdded, Zenon
  <2>3. CASE q # r
    BY <1>2, <1>3, <2>1, <2>3, FramesKept, Zenon
  <2> QED
    BY <2>2, <2>3, Zenon
<1>6. AgreedBeforePayload'
  BY <1>3, AgreementKept, Zenon DEF IInv
<1> QED
  BY <1>3, <1>4, <1>5, <1>6, Zenon DEF IInv

LEMMA StartKeeps ==
  ASSUME IInv, NEW r \in Roles, Start(r)
  PROVE  IInv'
<1> USE DEF Roles
<1>0. st[r] = "start" /\ Connected(r)
  BY Zenon DEF Start, Connected
<1>1. CASE ~Builds(noise(r), r)
  <2>1. Fail(r)
    BY <1>1, Zenon DEF Start
  <2> QED
    BY <1>0, <2>1, FailKeeps, Zenon
<1>2. CASE Builds(noise(r), r)
  <2> DEFINE h == <<noise(r).pattern, Prologue(r), Known(r)>>
  <2>1. /\ st' = [st EXCEPT ![r] = "handshake"]
        /\ hash' = [hash EXCEPT ![r] = h]
        /\ UNCHANGED <<given, config, seen, wire>>
    BY <1>2, Zenon DEF Start
  <2>2. /\ PerRole(hash') /\ hash'[r] = h
        /\ \A q \in Roles : q # r => hash'[q] = hash[q]
    <3>1. Sets(hash', hash, r, h) /\ PerRole(hash)
      BY <2>1, Zenon DEF Sets, IInv, Shape
    <3> QED
      BY <3>1, Updated
  <2>3. /\ Shape' /\ Settled /\ seen[r] = 0
        /\ \A q \in Roles : Connected(q) /\ Connected(q)'
        /\ \A q \in Roles : st'[q] = "done" => st[q] = "done"
    BY <1>0, <2>1, <2>2, Zenon DEF IInv, Shape, Connected, Settled
  <2>4. ASSUME NEW q \in Roles PROVE Own(q)'
    <3>1. CASE q = r
      <4>1. IsSeq(h) /\ Len(h) = 3 /\ h[1] = noise(r).pattern /\ h[2] = Prologue(r) /\ h[3] = Known(r)
        BY Triple, Zenon
      <4>2. st'[r] = "handshake" /\ seen'[r] = 0
        BY <2>1, <2>3, Zenon DEF IInv, Shape
      <4> QED
        BY <2>2, <2>3, <3>1, <4>1, <4>2, Fixed DEF Own, StartsAs, Messages
    <3>2. CASE q # r
      <4>1. st'[q] = st[q] /\ hash'[q] = hash[q] /\ seen'[q] = seen[q]
        BY <2>1, <2>2, <3>2, Zenon DEF IInv, Shape
      <4> QED
        BY <2>3, <4>1, OwnKept, Zenon DEF IInv
    <3> QED
      BY <3>1, <3>2, Zenon
  <2>5. \A q \in Roles : Frames(q)'
    BY <2>1, <2>3, FramesKept, Zenon DEF IInv
  <2>6. AgreedBeforePayload'
    BY <2>3, AgreementKept, Zenon DEF IInv
  <2> QED
    BY <2>3, <2>4, <2>5, <2>6, Zenon DEF IInv
<1> QED
  BY <1>1, <1>2, Zenon

\* all but the frames, when an end has written or read one more message
LEMMA AdvanceKeeps ==
  ASSUME IInv, NEW r \in Roles, st[r] = "handshake", NEW m, Advance(r, m), PerRole(wire')
  PROVE  /\ Shape' /\ Settled /\ AgreedBeforePayload'
         /\ \A q \in Roles : Own(q)' /\ Connected(q) /\ Connected(q)'
<1> USE DEF Roles
<1> DEFINE h == Append(hash[r], m)
           n == Messages(noise(r).pattern)
<1>1. /\ seen' = [seen EXCEPT ![r] = seen[r] + 1]
      /\ hash' = [hash EXCEPT ![r] = h]
      /\ st' = [st EXCEPT ![r] = IF seen[r] + 1 = n THEN "transport" ELSE "handshake"]
      /\ UNCHANGED <<given, config>>
  BY Zenon DEF Advance
<1>2. PerRole(hash') /\ hash'[r] = h /\ \A q \in Roles : q # r => hash'[q] = hash[q]
  <2>1. Sets(hash', hash, r, h) /\ PerRole(hash)
    BY <1>1, Zenon DEF Sets, IInv, Shape
  <2> HIDE DEF h
  <2> QED
    BY <2>1, Updated
<1> HIDE DEF n
<1>3. /\ Shape' /\ Settled
      /\ \A q \in Roles : Connected(q) /\ Connected(q)'
      /\ \A q \in Roles : st'[q] = "done" => st[q] = "done"
  BY <1>1, <1>2 DEF IInv, Shape, Connected, Settled
<1>4. ASSUME NEW q \in Roles PROVE Own(q)'
  <2>1. CASE q = r
    <3>1. /\ IsSeq(hash[r]) /\ StartsAs(hash[r], r) /\ Len(hash[r]) = 3 + seen[r]
          /\ seen[r] < n /\ n \in Nat /\ seen[r] \in Nat
      BY Zenon DEF IInv, Shape, Own, Keyed, n, Messages
    <3>2. IsSeq(h) /\ Len(h) = 3 + (seen[r] + 1) /\ h[1] = hash[r][1] /\ h[2] = hash[r][2] /\ h[3] = hash[r][3]
      BY <3>1, Appended, SMTT(20)
    <3>3. /\ seen'[r] = seen[r] + 1
          /\ st'[r] = IF seen[r] + 1 = n THEN "transport" ELSE "handshake"
      BY <1>1, Zenon DEF IInv, Shape
    <3>4. (IF st'[r] = "handshake" THEN seen'[r] < n ELSE seen'[r] = n) /\ noise(r)' = noise(r)
      BY <1>3, <3>1, <3>3, Fixed
    <3>5. StartsAs(hash[r], r)'
      <4> HIDE DEF h
      <4> QED
        BY <1>2, <1>3, <3>1, <3>2, Fixed, Zenon DEF StartsAs
    <3>6. IsSeq(hash'[r]) /\ Len(hash'[r]) = 3 + seen'[r]
      BY <1>2, <3>2, <3>3, Zenon
    <3>7. IF st'[r] = "handshake" THEN seen'[r] < Messages(noise(r)'.pattern)
          ELSE seen'[r] = Messages(noise(r)'.pattern)
      BY <3>4, Zenon DEF n
    <3>8. Own(r)'
      BY <3>5, <3>6, <3>7, Zenon DEF Own
    <3> QED
      BY <2>1, <3>8, Zenon
  <2>2. CASE q # r
    <3>1. st'[q] = st[q] /\ hash'[q] = hash[q] /\ seen'[q] = seen[q]
      BY <1>1, <1>2, <2>2, Zenon DEF IInv, Shape
    <3> QED
      BY <1>3, <3>1, OwnKept, Zenon DEF IInv
  <2> QED
    BY <2>1, <2>2, Zenon
<1>5. AgreedBeforePayload'
  BY <1>3, AgreementKept, Zenon DEF IInv
<1> QED
  BY <1>3, <1>4, <1>5, Zenon

\* what r seals with its transcript before the handshake is over
LEMMA MaySendOwn ==
  ASSUME IInv, NEW r \in Roles, Keyed(r),
         r = "server" => st[r] = "handshake" \/ st'["server"] = "done"
  PROVE  MaySend(r, hash[r])
<1>1. StartsAs(hash[r], r) /\ Len(hash[r]) = 3 + seen[r] /\ seen[r] \in Nat
  BY Zenon DEF IInv, Shape, Own
<1>2. st[r] = "handshake" => seen[r] < Messages(noise(r).pattern)
  BY Zenon DEF IInv, Own
<1>3. Messages(noise(r).pattern) \in Nat
  BY Zenon DEF Messages
<1> QED
  BY <1>1, <1>2, <1>3 DEF MaySend

\* Write(r) and Take(r) change one end's frames
LEMMA WriteChanges ==
  ASSUME IInv, NEW r \in Roles, Write(r)
  PROVE  /\ PerRole(wire') /\ wire'[r] = Append(wire[r], hash[r])
         /\ \A q \in Roles : q # r => wire'[q] = wire[q]
<1> DEFINE e == Append(wire[r], hash[r])
<1>1. Sets(wire', wire, r, e) /\ PerRole(wire)
  BY Zenon DEF Sets, IInv, Shape, Write
<1> HIDE DEF e
<1>2. PerRole(wire') /\ wire'[r] = e /\ \A q \in Roles : q # r => wire'[q] = wire[q]
  BY <1>1, Updated
<1> QED
  BY <1>2, Zenon DEF e

LEMMA TakeChanges ==
  ASSUME IInv, NEW r \in Roles, Take(r)
  PROVE  /\ PerRole(wire') /\ Other(r) \in Roles /\ Other(r) # r
         /\ wire'[Other(r)] = Tail(wire[Other(r)]) /\ wire'[r] = wire[r]
<1> DEFINE e == Tail(wire[Other(r)])
<1>1. Other(r) \in Roles /\ Other(r) # r
  BY Zenon DEF Other, Roles
<1>2. Sets(wire', wire, Other(r), e) /\ PerRole(wire)
  BY Zenon DEF Sets, IInv, Shape, Take
<1> HIDE DEF e
<1>3. PerRole(wire') /\ wire'[Other(r)] = e /\ \A q \in Roles : q # Other(r) => wire'[q] = wire[q]
  BY <1>1, <1>2, Updated
<1> QED
  BY <1>1, <1>3, Zenon DEF e

LEMMA WriteMessageKeeps ==
  ASSUME IInv, NEW r \in Roles, WriteMessage(r)
  PROVE  IInv'
<1>1. st[r] = "handshake" /\ Advance(r, hash[r]) /\ Write(r)
  BY Zenon DEF WriteMessage
<1>2. /\ PerRole(wire') /\ wire'[r] = Append(wire[r], hash[r])
      /\ \A q \in Roles : q # r => wire'[q] = wire[q]
  BY <1>1, WriteChanges, Zenon
<1>3. /\ Shape' /\ Settled /\ AgreedBeforePayload'
      /\ \A q \in Roles : Own(q)' /\ Connected(q) /\ Connected(q)'
  BY <1>1, <1>2, AdvanceKeeps, Zenon
<1>4. MaySend(r, hash[r])
  BY <1>1, MaySendOwn, Zenon DEF Keyed
<1>5. ASSUME NEW q \in Roles PROVE Frames(q)'
  <2>1. Frames(q)
    BY Zenon DEF IInv
  <2>2. CASE q = r
    BY <1>2, <1>3, <1>4, <2>1, <2>2, FramesAdded, Zenon
  <2>3. CASE q # r
    BY <1>2, <1>3, <2>1, <2>3, FramesKept, Zenon
  <2> QED
    BY <2>2, <2>3, Zenon
<1> QED
  BY <1>3, <1>5, Zenon DEF IInv

LEMMA ReadMessageKeeps ==
  ASSUME IInv, NEW r \in Roles, ReadMessage(r)
  PROVE  IInv'
<1> DEFINE o == Other(r)
<1>1. st[r] = "handshake" /\ Advance(r, Incoming(r)) /\ Take(r) /\ wire[o] # <<>>
  BY Zenon DEF ReadMessage, Arrived
<1>2. /\ PerRole(wire') /\ o \in Roles /\ o # r
      /\ wire'[o] = Tail(wire[o]) /\ wire'[r] = wire[r]
  BY <1>1, TakeChanges, Zenon
<1>3. /\ Shape' /\ Settled /\ AgreedBeforePayload'
      /\ \A q \in Roles : Own(q)' /\ Connected(q) /\ Connected(q)'
  BY <1>1, <1>2, AdvanceKeeps, Zenon
<1>4. Frames(o) /\ Frames(r)
  BY <1>2, Zenon DEF IInv
<1>5. Frames(o)'
  BY <1>1, <1>2, <1>3, <1>4, FramesRead, Zenon
<1>6. Frames(r)'
  BY <1>2, <1>3, <1>4, FramesKept, Zenon
<1>7. \A q \in Roles : q = r \/ q = o
  BY DEF Other, Roles
<1> HIDE DEF o
<1> QED
  BY <1>3, <1>5, <1>6, <1>7, Zenon DEF IInv

\* a step that moves one end on from a complete handshake
LEMMA MoveKeeps ==
  ASSUME IInv, NEW r \in Roles, st[r] \in {"transport", "reply"},
         NEW s \in {"reply", "done"}, Sets(st', st, r, s),
         UNCHANGED <<given, config, seen, hash>>, PerRole(wire')
  PROVE  /\ Shape' /\ Settled /\ st'[r] = s
         /\ \A q \in Roles : Own(q)' /\ Connected(q) /\ Connected(q)'
         /\ \A q \in Roles : q # r => st'[q] = st[q]
<1> USE DEF Roles
<1>1. /\ Shape' /\ Settled /\ st'[r] = s
      /\ \A q \in Roles : Connected(q) /\ Connected(q)'
      /\ \A q \in Roles : q # r => st'[q] = st[q]
  BY Zenon DEF IInv, Shape, Connected, Settled, Sets
<1>2. ASSUME NEW q \in Roles PROVE Own(q)'
  <2>1. CASE q = r
    <3>1. /\ IsSeq(hash[r]) /\ StartsAs(hash[r], r) /\ Len(hash[r]) = 3 + seen[r]
          /\ seen[r] = Messages(noise(r).pattern)
      BY Zenon DEF IInv, Own, Keyed
    <3> QED
      BY <1>1, <2>1, <3>1, Fixed, Zenon DEF Own, StartsAs
  <2>2. CASE q # r
    BY <1>1, <2>2, OwnKept, Zenon DEF IInv
  <2> QED
    BY <2>1, <2>2, Zenon
<1> QED
  BY <1>1, <1>2, Zenon

LEMMA RequestKeeps ==
  ASSUME IInv, Request
  PROVE  IInv'
<1>1. /\ "client" \in Roles /\ st["client"] = "transport" /\ Write("client")
      /\ Sets(st', st, "client", "reply") /\ UNCHANGED <<given, config, seen, hash>>
  BY Zenon DEF Request, Sets, Roles
<1>2. /\ PerRole(wire') /\ wire'["client"] = Append(wire["client"], hash["client"])
      /\ \A q \in Roles : q # "client" => wire'[q] = wire[q]
  BY <1>1, WriteChanges, Zenon
<1>3. /\ Shape' /\ Settled /\ st'["client"] = "reply"
      /\ \A q \in Roles : Own(q)' /\ Connected(q) /\ Connected(q)'
      /\ \A q \in Roles : q # "client" => st'[q] = st[q]
  BY <1>1, <1>2, MoveKeeps, Zenon
<1>4. MaySend("client", hash["client"])
  BY <1>1, MaySendOwn, Zenon DEF Keyed
<1>5. ASSUME NEW q \in Roles PROVE Frames(q)'
  <2>1. Frames(q)
    BY Zenon DEF IInv
  <2>2. CASE q = "client"
    BY <1>2, <1>3, <1>4, <2>1, <2>2, FramesAdded, Zenon
  <2>3. CASE q # "client"
    BY <1>2, <1>3, <2>1, <2>3, FramesKept, Zenon
  <2> QED
    BY <2>2, <2>3, Zenon
<1>6. AgreedBeforePayload'
  BY <1>3, AgreementKept, Zenon DEF IInv
<1> QED
  BY <1>3, <1>5, <1>6, Zenon DEF IInv

\* The server opens a frame of the client with its own transcript, so both began
\* with the same three parts.
LEMMA ReadRequestKeeps ==
  ASSUME IInv, ReadRequest
  PROVE  IInv'
<1> DEFINE t == Tail(wire["client"])
           a == Append(wire["server"], hash["server"])
<1>1. /\ st["server"] = "transport" /\ wire["client"] # <<>>
      /\ Head(wire["client"]) # Fin /\ Head(wire["client"]) = hash["server"]
      /\ Sets(st', st, "server", "done") /\ UNCHANGED <<given, config, seen, hash>>
      /\ "server" \in Roles /\ "client" \in Roles
  BY Zenon DEF ReadRequest, Arrived, Incoming, Opens, Other, Sets, Roles
<1>2. PerRole(wire') /\ wire'["client"] = t /\ wire'["server"] = a
  <2> DEFINE w == [wire EXCEPT !["client"] = t]
  <2>1. Sets(w, wire, "client", t) /\ PerRole(wire) /\ Sets(wire', w, "server", a)
    BY Zenon DEF ReadRequest, Sets, IInv, Shape
  <2> HIDE DEF t, a, w
  <2>2. PerRole(w) /\ w["client"] = t
    BY <1>1, <2>1, Updated
  <2> QED
    BY <1>1, <2>1, <2>2, Updated
<1>3. /\ Shape' /\ Settled /\ st'["server"] = "done"
      /\ \A q \in Roles : Own(q)' /\ Connected(q) /\ Connected(q)'
      /\ \A q \in Roles : q # "server" => st'[q] = st[q]
  BY <1>1, <1>2, MoveKeeps, Zenon
<1>4. Frames("client") /\ Frames("server")
  BY <1>1, Zenon DEF IInv
<1>5. Frames("client")' /\ Sound("client", Head(wire["client"]))
  BY <1>1, <1>2, <1>3, <1>4, FramesRead, Zenon
<1>6. MaySend("server", hash["server"])
  BY <1>1, <1>3, MaySendOwn, Zenon DEF Keyed
<1>7. Frames("server")'
  BY <1>1, <1>2, <1>3, <1>4, <1>6, FramesAdded, Zenon
<1>8. Agree
  <2>1. StartsAs(hash["server"], "server")
    BY <1>1, Zenon DEF IInv, Own, Keyed
  <2>2. StartsAs(hash["server"], "client")
    BY <1>1, <1>5, Zenon DEF Sound
  <2> QED
    BY <2>1, <2>2, Zenon DEF StartsAs, Agree, Prologue
<1>9. Agree'
  BY <1>3, <1>8, Fixed DEF Agree, Settled
<1>10. AgreedBeforePayload'
  BY <1>3, <1>9, Zenon DEF AgreedBeforePayload
<1> QED
  BY <1>3, <1>5, <1>7, <1>10, Zenon DEF IInv, Roles

\* The client opens a frame of the server with the transcript of the whole
\* handshake: it can only be the reply.
LEMMA ReadReplyKeeps ==
  ASSUME IInv, ReadReply
  PROVE  IInv'
<1>1. /\ st["client"] = "reply" /\ wire["server"] # <<>> /\ Take("client")
      /\ Head(wire["server"]) # Fin /\ Head(wire["server"]) = hash["client"]
      /\ Sets(st', st, "client", "done") /\ UNCHANGED <<given, config, seen, hash>>
      /\ "server" \in Roles /\ "client" \in Roles /\ Other("client") = "server"
  BY Zenon DEF ReadReply, Arrived, Incoming, Opens, Other, Sets, Roles
<1>2. PerRole(wire') /\ wire'["server"] = Tail(wire["server"]) /\ wire'["client"] = wire["client"]
  BY <1>1, TakeChanges, Zenon
<1>3. /\ Shape' /\ Settled /\ st'["client"] = "done"
      /\ \A q \in Roles : Own(q)' /\ Connected(q) /\ Connected(q)'
      /\ \A q \in Roles : q # "client" => st'[q] = st[q]
  BY <1>1, <1>2, MoveKeeps, Zenon
<1>4. Frames("client") /\ Frames("server")
  BY <1>1, Zenon DEF IInv
<1>5. Frames("server")' /\ Sound("server", Head(wire["server"]))
  BY <1>1, <1>2, <1>3, <1>4, FramesRead, Zenon
<1>6. Frames("client")'
  BY <1>1, <1>2, <1>3, <1>4, FramesKept, Zenon
<1>7. st["server"] = "done"
  <2>1. /\ StartsAs(hash["client"], "client")
        /\ Len(hash["client"]) = 3 + Messages(noise("client").pattern)
    BY <1>1, Zenon DEF IInv, Own, Keyed
  <2>2. /\ StartsAs(hash["client"], "server")
        /\ st["server"] # "done" =>
             Len(hash["client"]) < 3 + Messages(noise("server").pattern)
    BY <1>1, <1>5, Zenon DEF Sound
  <2>3. noise("client").pattern = noise("server").pattern
    BY <2>1, <2>2, Zenon DEF StartsAs
  <2> QED
    BY <2>1, <2>2, <2>3 DEF Messages
<1>8. Agree /\ st'["server"] = "done"
  BY <1>1, <1>3, <1>7, Zenon DEF IInv, AgreedBeforePayload
<1>9. Agree'
  BY <1>3, <1>8, Fixed DEF Agree, Settled
<1>10. AgreedBeforePayload'
  BY <1>8, <1>9, Zenon DEF AgreedBeforePayload
<1> QED
  BY <1>3, <1>5, <1>6, <1>10, Zenon DEF IInv, Roles

LEMMA Inductive == IInv /\ [Next]_vars => IInv'
<1> SUFFICES ASSUME IInv, [Next]_vars PROVE IInv'
  BY Zenon
<1>1. CASE UNCHANGED vars
  <2>1. Settled
    BY <1>1, Zenon DEF vars, Settled
  <2>2. Shape'
    BY <1>1, Zenon DEF vars, IInv, Shape, Connected
  <2>3. \A r \in Roles : Connected(r) <=> Connected(r)'
    BY <1>1, Zenon DEF vars, Connected
  <2>4. \A r \in Roles : Own(r)'
    BY <1>1, <2>1, OwnKept, Zenon DEF vars, IInv
  <2>5. \A r \in Roles : Frames(r)'
    BY <1>1, <2>1, <2>3, FramesKept, Zenon DEF vars, IInv
  <2>6. AgreedBeforePayload'
    BY <1>1, <2>1, AgreementKept, Zenon DEF vars, IInv
  <2> QED
    BY <2>2, <2>4, <2>5, <2>6, Zenon DEF IInv
<1>2. CASE Connect
  BY <1>2, ConnectKeeps, Zenon
<1>3. CASE Request
  BY <1>3, RequestKeeps, Zenon
<1>4. CASE TooLong
  <2>1. "client" \in Roles /\ st["client"] = "transport" /\ Fail("client")
    BY <1>4, Zenon DEF TooLong, Roles
  <2> QED
    BY <2>1, FailKeeps, Zenon DEF Connected
<1>5. CASE ReadReply
  BY <1>5, ReadReplyKeeps, Zenon
<1>6. CASE ReadRequest
  BY <1>6, ReadRequestKeeps, Zenon
<1>7. ASSUME NEW r \in Roles, Step(r) PROVE IInv'
  <2>1. CASE Rejects(r) \/ Missing(r)
    <3>1. st[r] \in {"handshake", "transport", "reply"} /\ Fail(r)
      BY <2>1, Zenon DEF Rejects, Missing, Arrived, Waits
    <3> QED
      BY <3>1, FailKeeps, Zenon DEF Connected
  <2> QED
    BY <1>7, <2>1, BootKeeps, StartKeeps, WriteMessageKeeps, ReadMessageKeeps, Zenon DEF Step
<1>8. ASSUME NEW r \in Roles, Timeout(r) PROVE IInv'
  <2>1. st[r] \in {"start", "handshake", "transport", "reply"} /\ Fail(r)
    BY <1>8, Zenon DEF Timeout
  <2> QED
    BY <2>1, FailKeeps, Zenon DEF Connected
<1> QED
  BY <1>1, <1>2, <1>3, <1>4, <1>5, <1>6, <1>7, <1>8, Zenon DEF Next, Client

\* Whatever the two files, command lines, keys and stream bindings are: the
\* server returns a request only from a client with the same pattern, the same
\* known keys and the same stream of the same TLS connection, and the client
\* returns only after the server did.
THEOREM NoPayloadFromStrangers == Spec => []AgreedBeforePayload
<1>1. IInv => AgreedBeforePayload
  BY Zenon DEF IInv
<1> QED
  BY Initially, Inductive, <1>1, PTL DEF Spec

-----------------------------------------------------------------------------
(* The configuration that is accepted                                      *)

HasSettings(s) ==
  /\ {"bind_addr", "remote_addr", "default_token", "services", "noise", "quic"} \subseteq DOMAIN s
  /\ {"certificate", "private_key", "trusted_root", "keep_alive_interval", "max_idle_timeout",
      "max_connections", "max_streams", "max_udp_flows"} \subseteq DOMAIN s.quic

\* t is s with other values for the settings qs of its QUIC table
Kept(t, s, qs) ==
  /\ DOMAIN t = DOMAIN s /\ DOMAIN t.quic = DOMAIN s.quic
  /\ \A f \in DOMAIN s : f # "quic" => t[f] = s[f]
  /\ \A q \in DOMAIN s.quic : q \notin qs => t.quic[q] = s.quic[q]

SetsAlive(t, s, e) == t = [s EXCEPT !.quic.keep_alive_interval = e]
SetsIdle(t, s, e)  == t = [s EXCEPT !.quic.max_idle_timeout = e]
SetsCert(t, s, e)  == t = [s EXCEPT !.quic.certificate = e]
SetsKey(t, s, e)   == t = [s EXCEPT !.quic.private_key = e]
SetsRoot(t, s, e)  == t = [s EXCEPT !.quic.trusted_root = e]

\* An assignment to one QUIC setting.
LEMMA QuicSet ==
  ASSUME NEW s, NEW t, NEW e, HasSettings(s)
  PROVE  /\ SetsAlive(t, s, e) => Kept(t, s, {"keep_alive_interval"})
         /\ SetsIdle(t, s, e) => Kept(t, s, {"max_idle_timeout"})
         /\ SetsCert(t, s, e) => Kept(t, s, {"certificate"})
         /\ SetsKey(t, s, e) => Kept(t, s, {"private_key"})
         /\ SetsRoot(t, s, e) => Kept(t, s, {"trusted_root"}) /\ t.quic.trusted_root = e
<1>0. "quic" \in DOMAIN s
  BY Zenon DEF HasSettings
<1>1. SetsAlive(t, s, e) => Kept(t, s, {"keep_alive_interval"})
  BY <1>0, Zenon DEF SetsAlive, Kept
<1>2. SetsIdle(t, s, e) => Kept(t, s, {"max_idle_timeout"})
  BY <1>0, Zenon DEF SetsIdle, Kept
<1>3. SetsCert(t, s, e) => Kept(t, s, {"certificate"})
  BY <1>0, Zenon DEF SetsCert, Kept
<1>4. SetsKey(t, s, e) => Kept(t, s, {"private_key"})
  BY <1>0, Zenon DEF SetsKey, Kept
<1>5. SetsRoot(t, s, e) => Kept(t, s, {"trusted_root"}) /\ t.quic.trusted_root = e
  BY <1>0, Zenon DEF SetsRoot, Kept, HasSettings
<1> QED
  BY <1>1, <1>2, <1>3, <1>4, <1>5, Zenon

LEMMA KeptSettings ==
  ASSUME NEW s, NEW t, NEW qs, HasSettings(s), Kept(t, s, qs)
  PROVE  HasSettings(t)
  BY Zenon DEF HasSettings, Kept

\* Config::read changes nothing of a validated side but its three paths, and
\* makes no path up.
LEMMA ReadKeeps ==
  ASSUME NEW c, NEW r \in DOMAIN c, HasSettings(c[r])
  PROVE  LET o == Overridden(c[r], r) IN
         /\ Kept(read(c)[r], o, {"certificate", "private_key", "trusted_root"})
         /\ HasSettings(o)
         /\ read(c)[r].quic.trusted_root = Joined(o.quic.trusted_root)
<1> DEFINE o == Overridden(c[r], r)
           a == [o EXCEPT !.quic.certificate = Joined(o.quic.certificate)]
           b == [a EXCEPT !.quic.private_key = Joined(o.quic.private_key)]
           t == read(c)[r]
<1>1. HasSettings(o)
  <2>1. CASE r = "server"
    <3>1. SetsAlive(o, c[r], c[r].heartbeat_interval)
      BY <2>1, Zenon DEF Overridden, SetsAlive
    <3> HIDE DEF o
    <3> QED
      BY <3>1, QuicSet, KeptSettings, Zenon
  <2>2. CASE r # "server"
    <3>1. SetsIdle(o, c[r], c[r].heartbeat_timeout)
      BY <2>2, Zenon DEF Overridden, SetsIdle
    <3> HIDE DEF o
    <3> QED
      BY <3>1, QuicSet, KeptSettings, Zenon
  <2> QED
    BY <2>1, <2>2, Zenon
<1>2. /\ SetsCert(a, o, Joined(o.quic.certificate))
      /\ SetsKey(b, a, Joined(o.quic.private_key))
  BY Zenon DEF SetsCert, SetsKey
<1>3. SetsRoot(t, b, Joined(o.quic.trusted_root))
  <2> HIDE DEF o
  <2> QED
    BY Zenon DEF read, SetsRoot, o
<1> HIDE DEF o, a, b, t
<1>4. Kept(a, o, {"certificate"}) /\ HasSettings(a)
  BY <1>1, <1>2, QuicSet, KeptSettings
<1>5. Kept(b, a, {"private_key"}) /\ HasSettings(b)
  BY <1>2, <1>4, QuicSet, KeptSettings
<1>6. Kept(t, b, {"trusted_root"}) /\ t.quic.trusted_root = Joined(o.quic.trusted_root)
  BY <1>3, <1>5, QuicSet, Zenon
<1>7. Kept(t, o, {"certificate", "private_key", "trusted_root"})
  BY <1>4, <1>5, <1>6, Zenon DEF Kept
<1> QED
  BY <1>1, <1>6, <1>7, Zenon DEF o, t

\* The config of a process, once it has one, was read from its file.
FromFile(r) ==
  LET g == given[r] IN
  config[r] # <<>> =>
    /\ Accepts(g.file, g.args, g.places)
    /\ config[r] = select(read(g.file), Chosen(g.file, g.args))

Origin ==
  /\ given \in Cases
  /\ PerRole(config)
  /\ \A r \in Roles : FromFile(r)

LEMMA OriginInvariant == Spec => []Origin
<1>1. Init => Origin
  BY Zenon DEF Init, Origin, PerRole, FromFile
<1>2. ASSUME Origin, [Next]_vars PROVE Origin'
  <2>1. CASE UNCHANGED <<given, config>>
    BY <1>2, <2>1, Zenon DEF Origin, FromFile
  <2>2. ASSUME NEW r \in Roles, Boot(r) PROVE Origin'
    <3> DEFINE g == given[r]
               c == select(read(g.file), Chosen(g.file, g.args))
    <3>1. UNCHANGED given
      BY <2>2, Zenon DEF Boot
    <3>2. CASE Accepts(g.file, g.args, g.places)
      <4>1. Sets(config', config, r, c) /\ PerRole(config)
        BY <1>2, <2>2, <3>2, Zenon DEF Boot, Sets, Origin
      <4> HIDE DEF c
      <4>2. PerRole(config') /\ config'[r] = c /\ \A q \in Roles : q # r => config'[q] = config[q]
        BY <4>1, Updated
      <4>3. ASSUME NEW q \in Roles PROVE FromFile(q)'
        <5>1. CASE q = r
          BY <3>1, <3>2, <4>2, <5>1, Zenon DEF FromFile, c
        <5>2. CASE q # r
          BY <1>2, <3>1, <4>2, <5>2, Zenon DEF FromFile, Origin
        <5> QED
          BY <5>1, <5>2, Zenon
      <4> QED
        BY <1>2, <3>1, <4>2, <4>3, Zenon DEF Origin
    <3>3. CASE ~Accepts(g.file, g.args, g.places)
      <4>1. UNCHANGED config
        BY <2>2, <3>3, Zenon DEF Boot
      <4> QED
        BY <2>1, <3>1, <4>1, Zenon
    <3> QED
      BY <3>2, <3>3, Zenon
  <2>3. ASSUME NEW r, Start(r) \/ WriteMessage(r) \/ ReadMessage(r) \/ Rejects(r) \/ Missing(r) \/ Timeout(r)
        PROVE  UNCHANGED <<given, config>>
    BY <2>3, SMTT(20) DEF Start, WriteMessage, ReadMessage, Rejects, Missing, Timeout, Advance, Fail
  <2>4. Connect \/ Client \/ ReadRequest => UNCHANGED <<given, config>>
    BY Zenon DEF Connect, Client, Request, TooLong, ReadReply, ReadRequest, Fail
  <2>5. CASE UNCHANGED vars
    BY <2>1, <2>5, SMTT(20) DEF vars
  <2> QED
    BY <1>2, <2>1, <2>2, <2>3, <2>4, <2>5, Zenon DEF Next, Step
<1> QED
  BY <1>1, <1>2, PTL DEF Spec

\* the role that r chose, and its side of the file
Role(r) == Chosen(given[r].file, given[r].args)
Side(r) == Overridden(given[r].file[Role(r)], Role(r))

\* What runs is one role of the file, validated, with no more than its paths
\* completed.
LEMMA Running ==
  ASSUME Origin, NEW r \in Roles, config[r] # <<>>
  PROVE  /\ Role(r) \in Roles /\ DOMAIN given[r].file \subseteq Roles /\ Role(r) \in DOMAIN given[r].file
         /\ DOMAIN config[r] = {Role(r)}
         /\ validate_side(Side(r), Role(r)) /\ HasSettings(Side(r))
         /\ Kept(config[r][Role(r)], Side(r), {"certificate", "private_key", "trusted_root"})
         /\ config[r][Role(r)].quic.trusted_root = Joined(Side(r).quic.trusted_root)
<1> DEFINE c == given[r].file
<1>1. Accepts(c, given[r].args, given[r].places) /\ config[r] = select(read(c), Role(r)) /\ given \in Cases
  BY Zenon DEF Origin, FromFile, Role
<1>2. DOMAIN c \subseteq Roles /\ \A q \in DOMAIN c : HasSettings(c[q])
  BY <1>1, CasesAssumption, Zenon DEF HasSettings
<1>3. Role(r) \in DOMAIN c /\ parse(c)
  BY <1>1, Zenon DEF Accepts, Role
<1>4. validate_side(Side(r), Role(r))
  BY <1>3, SMTT(20) DEF parse, Side
<1> HIDE DEF c
<1>5. DOMAIN config[r] = {Role(r)} /\ config[r][Role(r)] = read(c)[Role(r)]
  BY <1>1, <1>3, Zenon DEF select, Restrict, read
<1>6. /\ Kept(read(c)[Role(r)], Side(r), {"certificate", "private_key", "trusted_root"})
      /\ HasSettings(Side(r)) /\ read(c)[Role(r)].quic.trusted_root = Joined(Side(r).quic.trusted_root)
  BY <1>2, <1>3, ReadKeeps, Zenon DEF Side, c
<1> QED
  BY <1>2, <1>3, <1>4, <1>5, <1>6, Zenon DEF c

\* Whatever the file, the command line and the disk: a client that is launched
\* or reported valid verifies the server's certificate or starts from its key.
THEOREM ClientsAuthenticate == Spec => []ServerAuthenticated
<1>1. Origin => ServerAuthenticated
  <2> SUFFICES ASSUME Origin, NEW r \in Roles, "client" \in DOMAIN config[r]
               PROVE  LET s == config[r]["client"] IN
                      \/ VerifiesChain(s.quic)
                      \/ NeedsRemote(s.noise, "client") /\ key(s.noise.remote_public_key)
    BY Zenon DEF ServerAuthenticated
  <2> DEFINE s == config[r]["client"]
             o == Side(r)
  <2>1. config[r] # <<>>
    OBVIOUS
  <2>2. /\ DOMAIN config[r] = {Role(r)} /\ validate_side(o, Role(r)) /\ HasSettings(o)
        /\ Kept(config[r][Role(r)], o, {"certificate", "private_key", "trusted_root"})
        /\ config[r][Role(r)].quic.trusted_root = Joined(o.quic.trusted_root)
    BY <2>1, Running, Zenon
  <2> HIDE DEF o
  <2>3. Role(r) = "client"
    BY <2>2, Zenon
  <2>4. s.noise = o.noise /\ s.quic.trusted_root = Joined(o.quic.trusted_root)
    BY <2>2, <2>3, SMTT(20) DEF Kept, HasSettings
  <2>5. validate_noise(o.noise, "client", o.quic.trusted_root # "none")
    BY <2>2, <2>3 DEF validate_side
  <2> HIDE DEF s
  <2>6. CASE o.noise.pattern = "XX"
    <3>1. o.quic.trusted_root # "none"
      BY <2>5, <2>6, Zenon DEF validate_noise, Pinned
    <3> QED
      BY <2>4, <3>1, Zenon DEF VerifiesChain, Joined, s
  <2>7. CASE o.noise.pattern \in {"NK", "KK"}
    BY <2>4, <2>5, <2>7 DEF validate_noise, NeedsRemote, s
  <2> QED
    BY <2>5, <2>6, <2>7, Zenon DEF validate_noise, Patterns, s
<1> QED
  BY OriginInvariant, <1>1, PTL

LEMMA BoundsAreNat == MaxToken \in Nat /\ MaxPermits \in Nat /\ MaxFlows \in Nat
BY DEF MaxToken, MaxPermits, MaxFlows

\* Whatever the file, the command line and the disk: what is launched or reported
\* valid has all that its role needs while it runs.
THEOREM AcceptedConfigsRun == Spec => []AcceptedRuns
<1> DEFINE Fine(r, role) ==
             LET s == config[r][role] IN
             /\ DOMAIN config[r] = {role}
             /\ given[r].args.role = "any" => DOMAIN given[r].file = {role}
             /\ given[r].args.role # "any" => role = given[r].args.role
             /\ IF role = "server" THEN s.bind_addr ELSE s.remote_addr
             /\ \A x \in Range(s.services) :
                  /\ IF role = "server" THEN x.bind_addr ELSE x.local_addr
                  /\ token(s, x) > 0
             /\ Count(s) \in 1 .. MaxServices
             /\ s.quic.max_connections > 0 /\ s.quic.max_streams > 0 /\ s.quic.max_udp_flows > 0
<1>1. ASSUME Origin, NEW r \in Roles, config[r] # <<>>
      PROVE  Role(r) \in Roles /\ Fine(r, Role(r))
  <2> DEFINE role == Role(r)
             o == Side(r)
             s == config[r][role]
  <2>1. /\ role \in Roles /\ DOMAIN given[r].file \subseteq Roles /\ role \in DOMAIN given[r].file
        /\ DOMAIN config[r] = {role} /\ validate_side(o, role) /\ HasSettings(o)
        /\ Kept(s, o, {"certificate", "private_key", "trusted_root"})
    BY <1>1, Running, Zenon
  <2>2. given[r].args.role # "any" => role = given[r].args.role
    BY Zenon DEF Chosen, Role
  <2>3. given[r].args.role = "any" => DOMAIN given[r].file = {role}
    <3>1. given[r].args.role = "any" => DOMAIN given[r].file # Roles
      BY <2>1, Zenon DEF Chosen, Roles, Role
    <3> HIDE DEF role
    <3> QED
      BY <2>1, <3>1, Zenon DEF Roles
  <2> HIDE DEF role, o, s
  <2>4. /\ s.bind_addr = o.bind_addr /\ s.remote_addr = o.remote_addr
        /\ s.services = o.services /\ s.default_token = o.default_token
        /\ s.quic.max_connections = o.quic.max_connections
        /\ s.quic.max_streams = o.quic.max_streams
        /\ s.quic.max_udp_flows = o.quic.max_udp_flows
    BY <2>1, SMTT(20) DEF Kept, HasSettings
  <2>5. IF role = "server" THEN s.bind_addr ELSE s.remote_addr
    BY <2>1, <2>4 DEF validate_side, OnlyAddress
  <2>6. ASSUME NEW x \in Range(s.services)
        PROVE  (IF role = "server" THEN x.bind_addr ELSE x.local_addr) /\ token(s, x) > 0
    <3>1. validate_service(o, role, x)
      BY <2>1, <2>4 DEF validate_side
    <3>2. token(s, x) = token(o, x)
      BY <2>4 DEF token
    <3>3. token(o, x) \in 1 .. MaxToken
      BY <3>1 DEF validate_service
    <3>4. IF role = "server" THEN x.bind_addr ELSE x.local_addr
      BY <3>1 DEF validate_service, OnlyAddress
    <3>5. token(s, x) > 0
      BY <3>2, <3>3, BoundsAreNat
    <3> QED
      BY <3>4, <3>5, Zenon
  <2>7. Count(s) = Count(o)
    BY <2>4 DEF Count
  <2>8. Count(s) \in 1 .. MaxServices
    BY <2>1, <2>7 DEF validate_side
  <2>9. PermitsOk(o.quic)
    BY <2>1 DEF validate_side
  <2>10. s.quic.max_connections > 0 /\ s.quic.max_streams > 0 /\ s.quic.max_udp_flows > 0
    BY <2>4, <2>9, BoundsAreNat DEF PermitsOk
  <2> QED
    BY <2>1, <2>2, <2>3, <2>5, <2>6, <2>8, <2>10, Zenon DEF s, role
<1>2. Origin => AcceptedRuns
  BY <1>1, Zenon DEF AcceptedRuns, Accepted
<1> QED
  BY OriginInvariant, <1>2, PTL
=============================================================================
