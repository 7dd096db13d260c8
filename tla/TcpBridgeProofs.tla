-------------------------- MODULE TcpBridgeProofs ---------------------------
(***************************************************************************)
(* Each direction of a bridged TCP connection implements BytePipe, for     *)
(* every buffer length, window and number of bytes.                        *)
(*                                                                         *)
(* The proof needs to know where tx cut the bytes of its peer into chunks. *)
(* A direction has a function `cut` with cut[m] the last byte of the chunk *)
(* sealed with nonce m.  All chunks between the two futures are determined *)
(* by it and by the two nonces: the one tx holds, those on the stream, at  *)
(* the places the frame format gives them, and the one rx has opened.      *)
(***************************************************************************)
EXTENDS TcpBridge, TLAPS

\* The direction that starts at end e, as a byte pipe
Pipe(e) == INSTANCE BytePipe WITH sent <- peer[e].sent, src <- Src(e),
                                  got <- got[Other(e)], ended <- eof[Other(e)] = "fin"

Chunks == [nonce : Nat, plain : Seq(Nat)]

Items == {"prefix"} \cup Chunks

TxStates == [st : {"read", "prefix", "data", "done"}, taken : Nat, nonce : Nat \ {0},
             data : {<<>>} \cup Chunks]

RxStates == [st : {"prefix", "data", "write", "done"}, nonce : Nat \ {0}, plain : Seq(Nat)]

Streams == [wire : Seq(Items), st : {"open", "fin", "reset"}, stopped : BOOLEAN]

TypeOK ==
  /\ peer \in [Ends -> [sent : Nat, st : {"open", "closed", "reset"}]]
  /\ got \in [Ends -> Seq(Nat)]
  /\ eof \in [Ends -> {"no", "fin", "dropped"}]
  /\ tx \in [Ends -> TxStates]
  /\ rx \in [Ends -> RxStates]
  /\ strm \in [Ends -> Streams]
  /\ task \in [Ends -> {"run", "ok", "failed"}]

-----------------------------------------------------------------------------
(* What is between the peers of one direction, from the values of its      *)
(* parts: t is the tx of the near end, w the stream, r the rx of the far   *)
(* end and g what the far peer has received.                               *)

Upto(n) == [i \in 1 .. n |-> i]

Between(m, n) == [i \in 1 .. n - m |-> m + i]

Chunk(cut, m) == [nonce |-> m, plain |-> Between(cut[m - 1], cut[m])]

\* tx has sealed t.nonce - 1 chunks, none of them empty, that end where it has
\* read to, and holds the last of them until it is written
Cuts(cut, t) ==
  /\ cut[0] = 0
  /\ \A m, n \in 0 .. t.nonce - 1 : m < n => cut[m] < cut[n]
  /\ cut[t.nonce - 1] = t.taken
  /\ t.st \in {"prefix", "data"} => t.nonce > 1 /\ t.data = Chunk(cut, t.nonce - 1)

\* rx has opened r.nonce - 1 of the chunks; the last of them may not be written
\* to the far peer yet
Received(cut, t, r, g) ==
  /\ r.nonce <= t.nonce
  /\ r.st = "write" => r.nonce > 1 /\ r.plain = Between(cut[r.nonce - 2], cut[r.nonce - 1])
  /\ g = Upto(IF r.st = "write" THEN cut[r.nonce - 2] ELSE cut[r.nonce - 1])

\* number of items tx has written, two for each chunk, and rx has read
Written(t) == 2 * (t.nonce - 1) - (IF t.st = "prefix" THEN 2 ELSE IF t.st = "data" THEN 1 ELSE 0)

Read(r) == 2 * (r.nonce - 1) + (IF r.st = "data" THEN 1 ELSE 0)

\* the stream holds the items that were written and not read; item 2m is chunk m
Left(t, r) == Written(t) - Read(r)

OnWire(cut, t, w, r) ==
  /\ Left(t, r) \in Nat
  /\ w \in [1 .. Left(t, r) -> Items]
  /\ \A m \in Nat : 2 * m - Read(r) \in 1 .. Left(t, r) => w[2 * m - Read(r)] = Chunk(cut, m)

\* all of a direction; a stream that was reset has lost what it held
Direction(cut, t, s, r, g) ==
  /\ Cuts(cut, t)
  /\ Received(cut, t, r, g)
  /\ s.st # "reset" => OnWire(cut, t, s.wire, r)
  /\ s.st = "reset" => s.wire = <<>>

-----------------------------------------------------------------------------

Conveys(e, cut) == Direction(cut, tx[e], strm[e], rx[Other(e)], got[Other(e)])

Carried(e) == \E cut \in [Nat -> Nat] : Conveys(e, cut)

\* The end of a direction: a task that runs has not reset its stream, tx is done
\* only at the end of all bytes, and without a failure a stream is finished only
\* by a tx that is done.
Ending(e) ==
  /\ tx[e].taken <= peer[e].sent
  /\ task[e] = "run" => strm[e].st # "reset"
  /\ tx[e].st = "done" => peer[e].st # "open" /\ tx[e].taken = peer[e].sent
  /\ ~Failure /\ strm[e].st = "fin" => tx[e].st = "done"
  /\ eof[e] = "fin" => rx[e].st = "done"

IInv ==
  /\ TypeOK
  /\ \A e \in Ends : Ending(e)
  /\ \A e \in Ends : Carried(e)

-----------------------------------------------------------------------------
(* One step of tx or rx on the values of a direction *)

\* A chunk is determined by the cuts on its two sides.
LEMMA SameChunk ==
  ASSUME NEW a \in [Nat -> Nat], NEW b \in [Nat -> Nat], NEW m \in Nat \ {0},
         a[m - 1] = b[m - 1], a[m] = b[m]
  PROVE  Chunk(a, m) = Chunk(b, m)
BY DEF Chunk

\* Sequences of bytes, and of items, as functions
LEMMA BetweenType ==
  ASSUME NEW m \in Nat, NEW n \in Nat, m <= n
  PROVE  Between(m, n) \in Seq(Nat)
<1>1. PICK k \in Nat : k = n - m
  OBVIOUS
<1>2. [i \in 1 .. k |-> m + i] \in Seq(Nat)
  OBVIOUS
<1>3. QED
  BY <1>1, <1>2 DEF Between

LEMMA SeqIsFunction ==
  ASSUME NEW S, NEW s \in Seq(S), NEW n, Len(s) = n
  PROVE  s \in [1 .. n -> S]
<1>1. s \in [1 .. Len(s) -> S]
  OBVIOUS
<1>2. QED
  BY <1>1, Zenon

IsAppend(v, S, n, w, x) ==
  /\ v \in [1 .. n + 1 -> S]
  /\ v[n + 1] = x
  /\ \A i \in 1 .. n : v[i] = w[i]

LEMMA AppendItem ==
  ASSUME NEW S, NEW n \in Nat, NEW w \in [1 .. n -> S], NEW x \in S
  PROVE  IsAppend(Append(w, x), S, n, w, x)
<1>1. w \in Seq(S) /\ Len(w) = n
  OBVIOUS
<1>2. Append(w, x) \in Seq(S) /\ Len(Append(w, x)) = n + 1
  BY <1>1
<1>3. Append(w, x) \in [1 .. n + 1 -> S]
  <2>1. PICK s \in Seq(S) : s = Append(w, x)
    BY <1>2, Zenon
  <2>2. PICK k : k = n + 1
    OBVIOUS
  <2>3. s \in [1 .. k -> S]
    BY <1>2, <2>1, <2>2, SeqIsFunction, Zenon
  <2>4. QED
    BY <2>1, <2>2, <2>3, Zenon
<1>4. Append(w, x)[n + 1] = x /\ \A i \in 1 .. n : Append(w, x)[i] = w[i]
  BY <1>1
<1>5. QED
  BY <1>3, <1>4, Zenon DEF IsAppend

LEMMA TailItems ==
  ASSUME NEW S, NEW n \in Nat, NEW w \in [1 .. n -> S], w # <<>>
  PROVE  /\ n > 0
         /\ Tail(w) \in [1 .. n - 1 -> S]
         /\ \A i \in 1 .. n - 1 : Tail(w)[i] = w[i + 1]
         /\ Head(w) = w[1]
<1>1. w \in Seq(S) /\ Len(w) = n
  OBVIOUS
<1>2. n > 0
  BY <1>1
<1>3. Tail(w) \in Seq(S) /\ Len(Tail(w)) = n - 1
  BY <1>1, <1>2
<1>4. Tail(w) \in [1 .. n - 1 -> S]
  <2>1. PICK s \in Seq(S) : s = Tail(w)
    BY <1>3, Zenon
  <2>2. PICK k : k = n - 1
    OBVIOUS
  <2>3. s \in [1 .. k -> S]
    BY <1>3, <2>1, <2>2, SeqIsFunction, Zenon
  <2>4. QED
    BY <2>1, <2>2, <2>3, Zenon
<1>5. (\A i \in 1 .. n - 1 : Tail(w)[i] = w[i + 1]) /\ Head(w) = w[1]
  BY <1>1, <1>2
<1>6. QED
  BY <1>2, <1>4, <1>5

LEMMA UptoBetween ==
  ASSUME NEW m \in Nat, NEW n \in Nat, m <= n
  PROVE  Upto(m) \o Between(m, n) = Upto(n)
<1>1. PICK k \in Nat : k = n - m
  OBVIOUS
<1>2. Between(m, n) = [i \in 1 .. k |-> m + i]
  BY <1>1 DEF Between
<1>3. Upto(m) \in Seq(Nat) /\ Len(Upto(m)) = m
  BY DEF Upto
<1>4. [i \in 1 .. k |-> m + i] \in Seq(Nat) /\ Len([i \in 1 .. k |-> m + i]) = k
  OBVIOUS
<1>5. QED
  BY <1>1, <1>2, <1>3, <1>4 DEF Upto

\* A chunk is a nonce and bytes.
LEMMA ChunkType ==
  ASSUME NEW cut \in [Nat -> Nat], NEW m \in Nat \ {0}, cut[m - 1] <= cut[m]
  PROVE  /\ Chunk(cut, m) \in Chunks
         /\ Chunk(cut, m).nonce = m
         /\ Chunk(cut, m).plain = Between(cut[m - 1], cut[m])
<1>1. m - 1 \in Nat
  OBVIOUS
<1>2. cut[m - 1] \in Nat /\ cut[m] - cut[m - 1] \in Nat
  BY <1>1
<1>3. Between(cut[m - 1], cut[m]) \in Seq(Nat)
  <2>1. cut[m] \in Nat
    BY <1>1
  <2>2. QED
    BY <1>2, <2>1, BetweenType, Zenon
<1>4. /\ Chunk(cut, m).nonce = m
      /\ Chunk(cut, m).plain = Between(cut[m - 1], cut[m])
  BY Zenon DEF Chunk
<1>5. m \in Nat
  OBVIOUS
<1>6. Chunk(cut, m) \in Chunks
  BY <1>3, <1>5, Zenon DEF Chunk, Chunks
<1>7. QED
  BY <1>4, <1>6, Zenon

\* The fields of tx and rx
LEMMA Fields ==
  /\ \A t \in TxStates : t.nonce \in Nat \ {0} /\ t.taken \in Nat
                         /\ t.st \in {"read", "prefix", "data", "done"}
  /\ \A r \in RxStates : r.nonce \in Nat \ {0} /\ r.plain \in Seq(Nat)
                         /\ r.st \in {"prefix", "data", "write", "done"}
BY DEF TxStates, RxStates

\* The numbers of items
LEMMA Counts ==
  /\ \A t \in TxStates : Written(t) \in Int
  /\ \A r \in RxStates : Read(r) \in Nat
BY Fields DEF Written, Read

\* tx read n bytes
Reads(t, u, n) ==
  u = [st |-> "prefix", taken |-> t.taken + n, nonce |-> t.nonce + 1,
       data |-> [nonce |-> t.nonce, plain |-> [i \in 1 .. n |-> t.taken + i]]]

\* The cut that a read adds
NextCut(cut, t, n) == [cut EXCEPT ![t.nonce] = t.taken + n]

\* `new` has the same first cuts
SameUpto(new, cut, n) == \A m \in 0 .. n : new[m] = cut[m]

LEMMA NextCutType ==
  ASSUME NEW cut \in [Nat -> Nat], NEW t \in TxStates, NEW n \in Nat \ {0}
  PROVE  /\ NextCut(cut, t, n) \in [Nat -> Nat]
         /\ NextCut(cut, t, n)[t.nonce] = t.taken + n
         /\ SameUpto(NextCut(cut, t, n), cut, t.nonce - 1)
<1>1. t.nonce \in Nat \ {0} /\ t.taken \in Nat
  BY Fields
<1>2. QED
  BY <1>1 DEF NextCut, SameUpto

\* The chunk a read seals is the one the new cut gives.
LEMMA ReadSeals ==
  ASSUME NEW new \in [Nat -> Nat], NEW t \in TxStates, NEW n \in Nat \ {0}, NEW u,
         new[t.nonce - 1] = t.taken, new[t.nonce] = t.taken + n, Reads(t, u, n)
  PROVE  u.data = Chunk(new, t.nonce)
<1>1. t.nonce \in Nat \ {0} /\ t.taken \in Nat
  BY Fields
<1>2. (t.taken + n) - t.taken = n
  BY <1>1
<1>3. QED
  BY <1>2 DEF Reads, Chunk, Between

LEMMA ReadFields ==
  ASSUME NEW t, NEW u, NEW n, Reads(t, u, n)
  PROVE  u.st = "prefix" /\ u.taken = t.taken + n /\ u.nonce = t.nonce + 1
BY DEF Reads

LEMMA ReadType ==
  ASSUME NEW t \in TxStates, NEW n \in Nat \ {0}, NEW u, Reads(t, u, n)
  PROVE  u \in TxStates
<1>1. t.nonce \in Nat \ {0} /\ t.taken \in Nat
  BY Fields
<1>2. [i \in 1 .. n |-> t.taken + i] \in Seq(Nat)
  BY <1>1
<1>3. [nonce |-> t.nonce, plain |-> [i \in 1 .. n |-> t.taken + i]] \in Chunks
  BY <1>1, <1>2 DEF Chunks
<1>4. QED
  BY <1>1, <1>3 DEF Reads, TxStates

\* The cuts are in order.
LEMMA CutsOrder ==
  ASSUME NEW cut \in [Nat -> Nat], NEW t \in TxStates, Cuts(cut, t),
         NEW m \in Nat, m < t.nonce
  PROVE  cut[m] <= t.taken
<1>1. t.nonce \in Nat \ {0} /\ t.taken \in Nat
  BY Fields
<1>2. CASE m = t.nonce - 1
  BY <1>1, <1>2 DEF Cuts
<1>3. CASE m < t.nonce - 1
  BY <1>1, <1>3 DEF Cuts
<1>4. QED
  BY <1>1, <1>2, <1>3

\* reader.read and the sealing of what it returned add a cut.
LEMMA ReadAddsCut ==
  ASSUME NEW cut \in [Nat -> Nat], NEW t \in TxStates, NEW n \in Nat \ {0}, NEW u,
         Cuts(cut, t), Reads(t, u, n)
  PROVE  Cuts(NextCut(cut, t, n), u)
<1> DEFINE new == NextCut(cut, t, n)
<1>1. t.nonce \in Nat \ {0} /\ t.taken \in Nat
  BY Fields
<1>2. u.nonce = t.nonce + 1 /\ u.taken = t.taken + n /\ u.nonce - 1 = t.nonce
  BY <1>1, ReadFields
<1>3. new \in [Nat -> Nat] /\ new[t.nonce] = t.taken + n
  BY NextCutType
<1>4. \A m \in 0 .. t.nonce - 1 : new[m] = cut[m]
  BY NextCutType DEF SameUpto
<1> HIDE DEF new
<1>5. cut[0] = 0 /\ cut[t.nonce - 1] = t.taken
  BY DEF Cuts
<1>6. new[0] = 0 /\ new[t.nonce - 1] = t.taken
  BY <1>1, <1>4, <1>5
<1>7. ASSUME NEW m \in 0 .. u.nonce - 1, NEW k \in 0 .. u.nonce - 1, m < k
      PROVE  new[m] < new[k]
  <2>1. m \in 0 .. t.nonce - 1 /\ k \in Nat /\ new[m] = cut[m] /\ cut[m] \in Nat
    BY <1>1, <1>2, <1>4, <1>7
  <2>2. CASE k = t.nonce
    <3>1. cut[m] <= t.taken
      BY <1>1, <2>1, CutsOrder
    <3>2. QED
      BY <1>1, <1>3, <2>1, <2>2, <3>1
  <2>3. CASE k # t.nonce
    <3>1. k \in 0 .. t.nonce - 1 /\ new[k] = cut[k]
      BY <1>1, <1>2, <1>4, <1>7, <2>3
    <3>2. QED
      BY <1>7, <2>1, <3>1 DEF Cuts
  <2>4. QED
    BY <2>2, <2>3
<1>8. u.data = Chunk(new, u.nonce - 1)
  BY <1>2, <1>3, <1>6, ReadSeals
<1>9. u.nonce > 1
  BY <1>1, <1>2
<1>10. QED
  BY <1>2, <1>3, <1>6, <1>7, <1>8, <1>9 DEF Cuts, new

\* A new cut changes nothing of what the far end has received,
LEMMA ReadKeepsReceived ==
  ASSUME NEW cut \in [Nat -> Nat], NEW new \in [Nat -> Nat],
         NEW t \in TxStates, NEW u, NEW r \in RxStates, NEW g,
         u.nonce = t.nonce + 1, SameUpto(new, cut, t.nonce - 1),
         Received(cut, t, r, g)
  PROVE  Received(new, u, r, g)
<1>1. t.nonce \in Nat \ {0} /\ r.nonce \in Nat \ {0}
  BY Fields
<1>2. r.nonce <= t.nonce
  BY DEF Received
<1>3. new[r.nonce - 1] = cut[r.nonce - 1]
  BY <1>1, <1>2 DEF SameUpto
<1>4. r.nonce > 1 => new[r.nonce - 2] = cut[r.nonce - 2]
  BY <1>1, <1>2 DEF SameUpto
<1>5. r.nonce <= u.nonce
  BY <1>1, <1>2
<1>6. QED
  BY <1>3, <1>4, <1>5 DEF Received

\* and nothing of what is on the stream.
LEMMA ReadKeepsWire ==
  ASSUME NEW cut \in [Nat -> Nat], NEW new \in [Nat -> Nat],
         NEW t \in TxStates, NEW u, NEW r \in RxStates, NEW w,
         t.st = "read", u.st = "prefix", u.nonce = t.nonce + 1,
         SameUpto(new, cut, t.nonce - 1),
         OnWire(cut, t, w, r)
  PROVE  OnWire(new, u, w, r)
<1>1. t.nonce \in Nat \ {0} /\ Read(r) \in Nat
  BY Fields, Counts
<1>2. Written(u) = Written(t) /\ Written(t) = 2 * (t.nonce - 1)
  BY <1>1 DEF Written
<1>3. ASSUME NEW m \in Nat, 2 * m - Read(r) \in 1 .. Left(t, r)
      PROVE  w[2 * m - Read(r)] = Chunk(new, m)
  <2>1. m \in Nat \ {0} /\ m <= t.nonce - 1
    BY <1>1, <1>2, <1>3 DEF Left
  <2>2. new[m - 1] = cut[m - 1] /\ new[m] = cut[m]
    BY <1>1, <2>1 DEF SameUpto
  <2>3. Chunk(new, m) = Chunk(cut, m)
    BY <2>1, <2>2, SameChunk
  <2>4. QED
    BY <1>3, <2>3 DEF OnWire
<1>4. Left(u, r) = Left(t, r)
  BY <1>2 DEF Left
<1>5. QED
  BY <1>3, <1>4 DEF OnWire

\* Item number k of a stream, if it is not a prefix
ItemAt(cut, k, x) == \A m \in Nat : 2 * m = k => x = Chunk(cut, m)

NotEmpty(w) == w # <<>>

\* Writing an item, the next one of the format, puts it behind the others.
LEMMA PutItem ==
  ASSUME NEW cut \in [Nat -> Nat], NEW t \in TxStates, NEW u \in TxStates, NEW r \in RxStates,
         NEW w, NEW x \in Items,
         Written(u) = Written(t) + 1,
         ItemAt(cut, Written(u), x),
         OnWire(cut, t, w, r)
  PROVE  OnWire(cut, u, Append(w, x), r)
<1>1. PICK n \in Nat : n = Left(t, r)
  BY DEF OnWire
<1>2. w \in [1 .. n -> Items]
  BY <1>1 DEF OnWire
<1>3. Read(r) \in Nat /\ Written(t) \in Int
  BY Counts
<1>4. Left(u, r) = n + 1 /\ Written(u) = Read(r) + n + 1
  BY <1>1, <1>3 DEF Left
<1>5. IsAppend(Append(w, x), Items, n, w, x)
  BY <1>2, AppendItem, Zenon
<1>6. PICK v : v = Append(w, x)
  BY Zenon
<1>7. v[n + 1] = x /\ \A i \in 1 .. n : v[i] = w[i]
  BY <1>5, <1>6, Zenon DEF IsAppend
<1>8. ASSUME NEW m \in Nat, 2 * m - Read(r) \in 1 .. n + 1
      PROVE  v[2 * m - Read(r)] = Chunk(cut, m)
  <2>1. CASE 2 * m - Read(r) = n + 1
    <3>1. 2 * m = Written(u)
      BY <1>3, <1>4, <2>1
    <3>2. x = Chunk(cut, m)
      BY <3>1, Zenon DEF ItemAt
    <3>3. QED
      BY <1>7, <2>1, <3>2, Zenon
  <2>2. CASE 2 * m - Read(r) # n + 1
    <3>1. 2 * m - Read(r) \in 1 .. n
      BY <1>3, <1>8, <2>2
    <3>2. w[2 * m - Read(r)] = Chunk(cut, m)
      BY <1>1, <3>1 DEF OnWire
    <3>3. QED
      BY <1>7, <3>1, <3>2, Zenon
  <2>3. QED
    BY <2>1, <2>2
<1>9. v \in [1 .. n + 1 -> Items]
  BY <1>5, <1>6, Zenon DEF IsAppend
<1>10. OnWire(cut, u, v, r)
  <2>1. n + 1 \in Nat
    OBVIOUS
  <2>2. QED
    BY <1>4, <1>8, <1>9, <2>1 DEF OnWire
<1>11. QED
  BY <1>6, <1>10, Zenon

\* Reading an item takes the one that was written longest ago.
LEMMA TakeItem ==
  ASSUME NEW cut \in [Nat -> Nat], NEW t \in TxStates, NEW r \in RxStates, NEW q, NEW w,
         Read(q) = Read(r) + 1, NotEmpty(w),
         OnWire(cut, t, w, r)
  PROVE  /\ OnWire(cut, t, Tail(w), q)
         /\ ItemAt(cut, Read(q), Head(w))
         /\ Read(q) <= Written(t)
<1>1. PICK n \in Nat : n = Left(t, r)
  BY DEF OnWire
<1>2. w \in [1 .. n -> Items]
  BY <1>1 DEF OnWire
<1>3. Read(r) \in Nat /\ Written(t) \in Int
  BY Counts
<1>4. /\ n > 0
      /\ Tail(w) \in [1 .. n - 1 -> Items]
      /\ \A i \in 1 .. n - 1 : Tail(w)[i] = w[i + 1]
      /\ Head(w) = w[1]
  BY <1>2, TailItems, Zenon DEF NotEmpty
<1>5. PICK v : v = Tail(w)
  BY Zenon
<1>6. \A i \in 1 .. n - 1 : v[i] = w[i + 1]
  BY <1>4, <1>5, Zenon
<1>7. n > 0 /\ Left(t, q) = n - 1 /\ Read(q) <= Written(t)
  <2>1. n > 0
    BY <1>4, Zenon
  <2>2. QED
    BY <1>1, <1>3, <2>1 DEF Left
<1>8. ASSUME NEW m \in Nat, 2 * m - Read(q) \in 1 .. n - 1
      PROVE  v[2 * m - Read(q)] = Chunk(cut, m)
  <2>1. 2 * m - Read(r) \in 1 .. n /\ 2 * m - Read(r) = (2 * m - Read(q)) + 1
    BY <1>3, <1>8
  <2>2. w[2 * m - Read(r)] = Chunk(cut, m)
    BY <1>1, <2>1 DEF OnWire
  <2>3. v[2 * m - Read(q)] = w[(2 * m - Read(q)) + 1]
    BY <1>6, <1>8, Zenon
  <2>4. QED
    BY <2>1, <2>2, <2>3, Zenon
<1>9. v \in [1 .. n - 1 -> Items]
  BY <1>4, <1>5, Zenon
<1>10. OnWire(cut, t, v, q)
  <2>1. n - 1 \in Nat
    BY <1>7
  <2>2. QED
    BY <1>7, <1>8, <1>9, <2>1 DEF OnWire
<1>11. ASSUME NEW m \in Nat, 2 * m = Read(q)
       PROVE  w[1] = Chunk(cut, m)
  <2>1. 2 * m - Read(r) = 1 /\ 1 \in 1 .. n
    BY <1>3, <1>7, <1>11
  <2>2. 2 * m - Read(r) \in 1 .. Left(t, r)
    BY <1>1, <2>1, Zenon
  <2>3. w[2 * m - Read(r)] = Chunk(cut, m)
    BY <2>2, Zenon DEF OnWire
  <2>4. QED
    BY <2>1, <2>3, Zenon
<1>12. OnWire(cut, t, Tail(w), q)
  BY <1>5, <1>10, Zenon
<1>13. Head(w) = w[1]
  BY <1>4, Zenon
<1>14. QED
  BY <1>7, <1>11, <1>12, <1>13, Zenon DEF ItemAt

\* A step that neither writes nor reads an item leaves the stream as it is.
LEMMA KeepItems ==
  ASSUME NEW cut, NEW t, NEW u, NEW r, NEW q, NEW w,
         Written(u) = Written(t), Read(q) = Read(r), OnWire(cut, t, w, r)
  PROVE  OnWire(cut, u, w, q)
<1>1. Left(u, q) = Left(t, r)
  BY Zenon DEF Left
<1>2. QED
  BY <1>1, Zenon DEF OnWire

-----------------------------------------------------------------------------
(* The steps of a direction *)

\* Changing the state of tx, and dropping what it holds once it reads again
LEMMA TxSet ==
  ASSUME NEW t \in TxStates, NEW st \in {"read", "prefix", "data", "done"}
  PROVE  /\ [t EXCEPT !.st = st] \in TxStates
         /\ [t EXCEPT !.st = st].st = st
         /\ [t EXCEPT !.st = st].nonce = t.nonce
         /\ [t EXCEPT !.st = st].taken = t.taken
         /\ [t EXCEPT !.st = st].data = t.data
BY DEF TxStates

LEMMA RecordClear ==
  ASSUME NEW S, NEW N, NEW K, NEW D, NEW t \in [st : S, taken : N, nonce : K, data : D],
         NEW st \in S, NEW x \in D
  PROVE  /\ [t EXCEPT !.st = st, !.data = x] \in [st : S, taken : N, nonce : K, data : D]
         /\ [t EXCEPT !.st = st, !.data = x].st = st
         /\ [t EXCEPT !.st = st, !.data = x].nonce = t.nonce
         /\ [t EXCEPT !.st = st, !.data = x].taken = t.taken
<1>1. PICK v : v = [t EXCEPT !.st = st]
  BY Zenon
<1>2. /\ v \in [st : S, taken : N, nonce : K, data : D]
      /\ v.st = st /\ v.nonce = t.nonce /\ v.taken = t.taken
  BY <1>1
<1>3. [t EXCEPT !.st = st, !.data = x] = [v EXCEPT !.data = x]
  BY <1>1
<1>4. /\ [v EXCEPT !.data = x] \in [st : S, taken : N, nonce : K, data : D]
      /\ [v EXCEPT !.data = x].st = v.st
      /\ [v EXCEPT !.data = x].nonce = v.nonce
      /\ [v EXCEPT !.data = x].taken = v.taken
  BY <1>2
<1>5. QED
  BY <1>2, <1>3, <1>4, Zenon

LEMMA TxClear ==
  ASSUME NEW t \in TxStates
  PROVE  /\ [t EXCEPT !.st = "read", !.data = <<>>] \in TxStates
         /\ [t EXCEPT !.st = "read", !.data = <<>>].st = "read"
         /\ [t EXCEPT !.st = "read", !.data = <<>>].nonce = t.nonce
         /\ [t EXCEPT !.st = "read", !.data = <<>>].taken = t.taken
<1>1. "read" \in {"read", "prefix", "data", "done"} /\ <<>> \in {<<>>} \cup Chunks
  BY Zenon
<1>2. QED
  BY <1>1, RecordClear, Zenon DEF TxStates

LEMMA RxSet ==
  ASSUME NEW r \in RxStates, NEW st \in {"prefix", "data", "write", "done"}
  PROVE  /\ [r EXCEPT !.st = st] \in RxStates
         /\ [r EXCEPT !.st = st].st = st
         /\ [r EXCEPT !.st = st].nonce = r.nonce
BY DEF RxStates

LEMMA RecordClearPlain ==
  ASSUME NEW S, NEW K, NEW D, NEW r \in [st : S, nonce : K, plain : D], NEW st \in S, NEW x \in D
  PROVE  /\ [r EXCEPT !.st = st, !.plain = x] \in [st : S, nonce : K, plain : D]
         /\ [r EXCEPT !.st = st, !.plain = x].st = st
         /\ [r EXCEPT !.st = st, !.plain = x].nonce = r.nonce
<1>1. PICK v : v = [r EXCEPT !.st = st]
  BY Zenon
<1>2. v \in [st : S, nonce : K, plain : D] /\ v.st = st /\ v.nonce = r.nonce
  BY <1>1
<1>3. [r EXCEPT !.st = st, !.plain = x] = [v EXCEPT !.plain = x]
  BY <1>1
<1>4. /\ [v EXCEPT !.plain = x] \in [st : S, nonce : K, plain : D]
      /\ [v EXCEPT !.plain = x].st = v.st
      /\ [v EXCEPT !.plain = x].nonce = v.nonce
  BY <1>2
<1>5. QED
  BY <1>2, <1>3, <1>4, Zenon

LEMMA RxClear ==
  ASSUME NEW r \in RxStates
  PROVE  /\ [r EXCEPT !.st = "prefix", !.plain = <<>>] \in RxStates
         /\ [r EXCEPT !.st = "prefix", !.plain = <<>>].st = "prefix"
         /\ [r EXCEPT !.st = "prefix", !.plain = <<>>].nonce = r.nonce
<1>1. <<>> \in Seq(Nat)
  OBVIOUS
<1>2. "prefix" \in {"prefix", "data", "write", "done"}
  BY Zenon
<1>3. QED
  BY <1>1, <1>2, RecordClearPlain, Zenon DEF RxStates

\* What the far end has received depends on the number of chunks only.
LEMMA SameReceived ==
  ASSUME NEW cut, NEW t, NEW u, NEW r, NEW g, u.nonce = t.nonce, Received(cut, t, r, g)
  PROVE  Received(cut, u, r, g)
BY Zenon DEF Received

\* TxRead
LEMMA DirectionRead ==
  ASSUME NEW cut \in [Nat -> Nat], NEW t \in TxStates, NEW n \in Nat \ {0}, NEW u,
         NEW s, NEW r \in RxStates, NEW g,
         t.st = "read", Reads(t, u, n), s.st # "reset", Direction(cut, t, s, r, g)
  PROVE  Direction(NextCut(cut, t, n), u, s, r, g)
<1>1. Cuts(cut, t) /\ Received(cut, t, r, g) /\ OnWire(cut, t, s.wire, r)
  BY Zenon DEF Direction
<1>2. /\ NextCut(cut, t, n) \in [Nat -> Nat]
      /\ SameUpto(NextCut(cut, t, n), cut, t.nonce - 1)
  BY NextCutType, Zenon
<1>3. u.st = "prefix" /\ u.nonce = t.nonce + 1
  BY ReadFields, Zenon
<1>4. Cuts(NextCut(cut, t, n), u)
  BY <1>1, ReadAddsCut, Zenon
<1>5. Received(NextCut(cut, t, n), u, r, g)
  BY <1>1, <1>2, <1>3, ReadKeepsReceived, Zenon
<1>6. OnWire(NextCut(cut, t, n), u, s.wire, r)
  BY <1>1, <1>2, <1>3, ReadKeepsWire, Zenon
<1>7. QED
  BY <1>4, <1>5, <1>6, Zenon DEF Direction

\* TxPrefix
LEMMA DirectionPrefix ==
  ASSUME NEW cut \in [Nat -> Nat], NEW t \in TxStates, NEW u \in TxStates,
         NEW s, NEW z, NEW r \in RxStates, NEW g,
         t.st = "prefix", u.st = "data", u.nonce = t.nonce, u.taken = t.taken, u.data = t.data,
         s.st # "reset", z.st = s.st, z.wire = Append(s.wire, "prefix"),
         Direction(cut, t, s, r, g)
  PROVE  Direction(cut, u, z, r, g)
<1>1. Cuts(cut, t) /\ Received(cut, t, r, g) /\ OnWire(cut, t, s.wire, r)
  BY Zenon DEF Direction
<1>2. Cuts(cut, u)
  BY <1>1, Zenon DEF Cuts
<1>3. Received(cut, u, r, g)
  BY <1>1, SameReceived, Zenon
<1>4. PICK k \in Nat \ {0} : k = t.nonce
  BY Fields, Zenon
<1>5. Written(t) = 2 * (k - 1) - 2 /\ Written(u) = 2 * (k - 1) - 1
  BY <1>4 DEF Written
<1>6. Written(u) = Written(t) + 1 /\ ItemAt(cut, Written(u), "prefix")
  BY <1>5 DEF ItemAt
<1>7. "prefix" \in Items
  BY Zenon DEF Items
<1>8. OnWire(cut, u, z.wire, r)
  BY <1>1, <1>6, <1>7, PutItem, Zenon
<1>9. QED
  BY <1>2, <1>3, <1>8, Zenon DEF Direction

\* The data of a frame is the item that is due after its prefix.
LEMMA DataItem ==
  ASSUME NEW cut \in [Nat -> Nat], NEW t \in TxStates, NEW u,
         t.st = "data", u.st = "read", u.nonce = t.nonce, Cuts(cut, t)
  PROVE  /\ t.data \in Items
         /\ Written(u) = Written(t) + 1
         /\ ItemAt(cut, Written(u), t.data)
<1>1. PICK k \in Nat \ {0} : k = t.nonce
  BY Fields, Zenon
<1>2. t.data = Chunk(cut, k - 1) /\ k > 1 /\ \A m, n \in 0 .. k - 1 : m < n => cut[m] < cut[n]
  BY <1>1, Zenon DEF Cuts
<1>3. Chunk(cut, k - 1) \in Chunks
  <2>1. PICK j \in Nat \ {0} : j = k - 1
    BY <1>2
  <2>2. cut[j - 1] <= cut[j]
    BY <1>2, <2>1
  <2>3. QED
    BY <2>1, <2>2, ChunkType
<1>4. t.data \in Items
  BY <1>2, <1>3, Zenon DEF Items
<1>5. Written(t) = 2 * (k - 1) - 1 /\ Written(u) = 2 * (k - 1)
  BY <1>1 DEF Written
<1>6. Written(u) = Written(t) + 1
  BY <1>5
<1>7. ASSUME NEW m \in Nat, 2 * m = Written(u)
      PROVE  t.data = Chunk(cut, m)
  <2>1. m = k - 1
    BY <1>5, <1>7
  <2>2. QED
    BY <1>2, <2>1, Zenon
<1>8. QED
  BY <1>4, <1>6, <1>7, Zenon DEF ItemAt

\* TxData
LEMMA DirectionData ==
  ASSUME NEW cut \in [Nat -> Nat], NEW t \in TxStates, NEW u \in TxStates,
         NEW s, NEW z, NEW r \in RxStates, NEW g,
         t.st = "data", u.st = "read", u.nonce = t.nonce, u.taken = t.taken,
         s.st # "reset", z.st = s.st, z.wire = Append(s.wire, t.data),
         Direction(cut, t, s, r, g)
  PROVE  Direction(cut, u, z, r, g)
<1>1. Cuts(cut, t) /\ Received(cut, t, r, g) /\ OnWire(cut, t, s.wire, r)
  BY Zenon DEF Direction
<1>2. Cuts(cut, u)
  BY <1>1 DEF Cuts
<1>3. Received(cut, u, r, g)
  BY <1>1, SameReceived, Zenon
<1>4. t.data \in Items /\ Written(u) = Written(t) + 1 /\ ItemAt(cut, Written(u), t.data)
  BY <1>1, DataItem, Zenon
<1>5. OnWire(cut, u, z.wire, r)
  BY <1>1, <1>4, PutItem, Zenon
<1>6. QED
  BY <1>2, <1>3, <1>5, Zenon DEF Direction

\* TxEof
LEMMA DirectionEof ==
  ASSUME NEW cut \in [Nat -> Nat], NEW t \in TxStates, NEW u \in TxStates,
         NEW s, NEW z, NEW r \in RxStates, NEW g,
         t.st = "read", u.st = "done", u.nonce = t.nonce, u.taken = t.taken,
         s.st # "reset", z.st # "reset", z.wire = s.wire,
         Direction(cut, t, s, r, g)
  PROVE  Direction(cut, u, z, r, g)
<1>1. Cuts(cut, t) /\ Received(cut, t, r, g) /\ OnWire(cut, t, s.wire, r)
  BY Zenon DEF Direction
<1>2. Cuts(cut, u)
  BY <1>1 DEF Cuts
<1>3. Received(cut, u, r, g)
  BY <1>1, SameReceived, Zenon
<1>4. Written(u) = Written(t)
  BY DEF Written
<1>5. OnWire(cut, u, z.wire, r)
  BY <1>1, <1>4, KeepItems, Zenon
<1>6. QED
  BY <1>2, <1>3, <1>5, Zenon DEF Direction

\* A stream that is let go of keeps what it holds, or is reset and loses it.
LEMMA DirectionDrop ==
  ASSUME NEW cut, NEW t, NEW s, NEW z, NEW r, NEW g,
         \/ z.st = s.st /\ z.wire = s.wire
         \/ s.st # "reset" /\ z.st = "fin" /\ z.wire = s.wire
         \/ z.st = "reset" /\ z.wire = <<>>,
         Direction(cut, t, s, r, g)
  PROVE  Direction(cut, t, z, r, g)
BY Zenon DEF Direction

\* RxPrefix
LEMMA DirectionTakePrefix ==
  ASSUME NEW cut \in [Nat -> Nat], NEW t \in TxStates,
         NEW s, NEW z, NEW r \in RxStates, NEW q \in RxStates, NEW g,
         r.st = "prefix", q.st = "data", q.nonce = r.nonce,
         NotEmpty(s.wire), z.st = s.st, z.wire = Tail(s.wire),
         Direction(cut, t, s, r, g)
  PROVE  Direction(cut, t, z, q, g)
<1>1. s.st # "reset"
  BY Zenon DEF Direction, NotEmpty
<1>2. Cuts(cut, t) /\ Received(cut, t, r, g) /\ OnWire(cut, t, s.wire, r)
  BY <1>1, Zenon DEF Direction
<1>3. Received(cut, t, q, g)
  BY <1>2, Zenon DEF Received
<1>4. Read(q) = Read(r) + 1
  BY Fields DEF Read
<1>5. OnWire(cut, t, z.wire, q)
  BY <1>2, <1>4, TakeItem, Zenon
<1>6. QED
  BY <1>1, <1>2, <1>3, <1>5, Zenon DEF Direction

\* What rx holds after it has opened the chunk at the head of the stream
Opens(r, q, x) == q = [st |-> "write", nonce |-> r.nonce + 1, plain |-> x.plain]

LEMMA OpensFields ==
  ASSUME NEW r, NEW x, NEW q, Opens(r, q, x)
  PROVE  q.st = "write" /\ q.nonce = r.nonce + 1 /\ q.plain = x.plain
BY DEF Opens

LEMMA OpensType ==
  ASSUME NEW r \in RxStates, NEW x \in Chunks, NEW q, Opens(r, q, x)
  PROVE  q \in RxStates
<1>1. r.nonce \in Nat \ {0}
  BY Fields, Zenon
<1>2. x.plain \in Seq(Nat)
  BY DEF Chunks
<1>3. r.nonce + 1 \in Nat \ {0}
  BY <1>1
<1>4. QED
  BY <1>2, <1>3 DEF Opens, RxStates

\* The number of chunks that rx may open
LEMMA ReadBound ==
  ASSUME NEW t \in TxStates, NEW k \in Nat, 2 * k <= Written(t)
  PROVE  k + 1 <= t.nonce
<1>1. t.nonce \in Nat \ {0}
  BY Fields, Zenon
<1>2. QED
  BY <1>1 DEF Written

LEMMA OpensCount ==
  ASSUME NEW r, NEW q, NEW k \in Nat \ {0}, r.nonce = k, r.st = "data", q.st = "write", q.nonce = k + 1
  PROVE  Read(q) = Read(r) + 1 /\ Read(q) = 2 * k
BY DEF Read

\* The cuts on both sides of a sealed chunk are in order.
LEMMA CutsStep ==
  ASSUME NEW cut \in [Nat -> Nat], NEW t \in TxStates, Cuts(cut, t),
         NEW k \in Nat \ {0}, k > 1, k <= t.nonce
  PROVE  cut[k - 2] \in Nat /\ cut[k - 1] \in Nat /\ cut[k - 2] < cut[k - 1]
<1>1. t.nonce \in Nat \ {0}
  BY Fields, Zenon
<1>2. k - 2 \in 0 .. t.nonce - 1 /\ k - 1 \in 0 .. t.nonce - 1 /\ k - 2 < k - 1
  BY <1>1
<1>3. cut[k - 2] < cut[k - 1]
  BY <1>2, Zenon DEF Cuts
<1>4. QED
  BY <1>2, <1>3

LEMMA SealedChunk ==
  ASSUME NEW cut \in [Nat -> Nat], NEW t \in TxStates, Cuts(cut, t),
         NEW k \in Nat \ {0}, k + 1 <= t.nonce
  PROVE  /\ Chunk(cut, k) \in Chunks
         /\ Chunk(cut, k).plain = Between(cut[k - 1], cut[k])
<1>1. k + 1 \in Nat \ {0} /\ k + 1 > 1 /\ (k + 1) - 2 = k - 1 /\ (k + 1) - 1 = k
  OBVIOUS
<1>2. cut[k - 1] \in Nat /\ cut[k] \in Nat /\ cut[k - 1] < cut[k]
  BY <1>1, CutsStep
<1>3. cut[k - 1] <= cut[k]
  BY <1>2
<1>4. QED
  BY <1>3, ChunkType, Zenon

\* RxData: the chunk that is due, and with it its bytes
LEMMA DirectionTakeData ==
  ASSUME NEW cut \in [Nat -> Nat], NEW t \in TxStates,
         NEW s, NEW z, NEW r \in RxStates, NEW q, NEW g,
         r.st = "data", Opens(r, q, Head(s.wire)),
         NotEmpty(s.wire), z.st = s.st, z.wire = Tail(s.wire),
         Direction(cut, t, s, r, g)
  PROVE  q \in RxStates /\ Direction(cut, t, z, q, g)
<1>1. s.st # "reset"
  BY Zenon DEF Direction, NotEmpty
<1>2. Cuts(cut, t) /\ Received(cut, t, r, g) /\ OnWire(cut, t, s.wire, r)
  BY <1>1, Zenon DEF Direction
<1>3. PICK k \in Nat \ {0} : k = r.nonce
  BY Fields, Zenon
<1>4. q.st = "write" /\ q.nonce = k + 1 /\ q.plain = Head(s.wire).plain
  <2>1. q.st = "write" /\ q.nonce = r.nonce + 1 /\ q.plain = Head(s.wire).plain
    BY OpensFields, Zenon
  <2>2. QED
    BY <1>3, <2>1, Zenon
<1>5. Read(q) = Read(r) + 1 /\ Read(q) = 2 * k
  BY <1>3, <1>4, OpensCount
<1>6. /\ OnWire(cut, t, z.wire, q)
      /\ ItemAt(cut, Read(q), Head(s.wire))
      /\ Read(q) <= Written(t)
  BY <1>2, <1>5, TakeItem, Zenon
<1>7. Head(s.wire) = Chunk(cut, k)
  BY <1>5, <1>6, Zenon DEF ItemAt
<1>8. k + 1 <= t.nonce
  <2>1. 2 * k <= Written(t)
    BY <1>5, <1>6, Zenon
  <2>2. QED
    BY <2>1, ReadBound, Zenon
<1>9. /\ Chunk(cut, k) \in Chunks
      /\ Chunk(cut, k).plain = Between(cut[k - 1], cut[k])
  BY <1>2, <1>8, SealedChunk, Zenon
<1>10. q \in RxStates
  BY <1>7, <1>9, OpensType, Zenon
<1>11. Received(cut, t, q, g)
  <2>1. g = Upto(cut[k - 1])
    BY <1>2, <1>3 DEF Received
  <2>2. k + 1 > 1 /\ (k + 1) - 2 = k - 1 /\ (k + 1) - 1 = k
    OBVIOUS
  <2>3. q.plain = Between(cut[k - 1], cut[k])
    BY <1>4, <1>7, <1>9, Zenon
  <2>4. QED
    BY <1>4, <1>8, <2>1, <2>2, <2>3, Zenon DEF Received
<1>12. QED
  BY <1>1, <1>2, <1>6, <1>10, <1>11, Zenon DEF Direction

\* RxWrite: the far peer receives the bytes that follow those it has
LEMMA DirectionWrite ==
  ASSUME NEW cut \in [Nat -> Nat], NEW t \in TxStates,
         NEW s, NEW r \in RxStates, NEW q \in RxStates, NEW g,
         r.st = "write", q.st = "prefix", q.nonce = r.nonce,
         Direction(cut, t, s, r, g)
  PROVE  Direction(cut, t, s, q, g \o r.plain)
<1>1. Cuts(cut, t) /\ Received(cut, t, r, g)
  BY Zenon DEF Direction
<1>2. PICK k \in Nat \ {0} : k = r.nonce
  BY Fields, Zenon
<1>3. /\ k <= t.nonce /\ k > 1
      /\ r.plain = Between(cut[k - 2], cut[k - 1])
      /\ g = Upto(cut[k - 2])
  BY <1>1, <1>2, Zenon DEF Received
<1>4. cut[k - 2] \in Nat /\ cut[k - 1] \in Nat /\ cut[k - 2] <= cut[k - 1]
  BY <1>1, <1>2, <1>3, CutsStep
<1>5. g \o r.plain = Upto(cut[k - 1])
  BY <1>3, <1>4, UptoBetween, Zenon
<1>6. Received(cut, t, q, g \o r.plain)
  BY <1>2, <1>3, <1>5 DEF Received
<1>7. Read(q) = Read(r)
  BY DEF Read
<1>8. s.st # "reset" => OnWire(cut, t, s.wire, q)
  BY <1>7, KeepItems, Zenon DEF Direction
<1>9. QED
  BY <1>1, <1>6, <1>8, Zenon DEF Direction

\* RxEof
LEMMA DirectionDone ==
  ASSUME NEW cut \in [Nat -> Nat], NEW t, NEW s, NEW r, NEW q, NEW g,
         r.st = "prefix", q.st = "done", q.nonce = r.nonce,
         Direction(cut, t, s, r, g)
  PROVE  Direction(cut, t, s, q, g)
<1>1. Received(cut, t, q, g)
  BY Zenon DEF Direction, Received
<1>2. Read(q) = Read(r)
  BY DEF Read
<1>3. s.st # "reset" => OnWire(cut, t, s.wire, q)
  BY <1>2, KeepItems, Zenon DEF Direction
<1>4. QED
  BY <1>1, <1>3, Zenon DEF Direction

-----------------------------------------------------------------------------
(* Updates of the variables *)

\* There are two ends.
LEMMA TwoEnds ==
  ASSUME NEW e \in Ends
  PROVE  /\ Other(e) \in Ends /\ Other(e) # e /\ Other(Other(e)) = e
         /\ \A d \in Ends : d = e \/ d = Other(e)
BY DEF Ends, Other

LEMMA Update ==
  ASSUME NEW S, NEW T, NEW f \in [S -> T], NEW e \in S, NEW x \in T, NEW h,
         h = [f EXCEPT ![e] = x]
  PROVE  h \in [S -> T] /\ h[e] = x /\ \A d \in S : d # e => h[d] = f[d]
OBVIOUS

SetWire(h, f, e, w) == h = [f EXCEPT ![e].wire = w]

WireSet(S, T, h, f, e, w) ==
  /\ h \in [S -> T]
  /\ h[e].wire = w /\ h[e].st = f[e].st
  /\ \A d \in S : d # e => h[d] = f[d]

LEMMA UpdateWire ==
  ASSUME NEW S, NEW W, NEW X, NEW B, NEW f \in [S -> [wire : W, st : X, stopped : B]],
         NEW e \in S, NEW x \in W, NEW h, SetWire(h, f, e, x)
  PROVE  WireSet(S, [wire : W, st : X, stopped : B], h, f, e, x)
BY DEF SetWire, WireSet

\* The types of the parts
LEMMA Parts ==
  ASSUME TypeOK, NEW e \in Ends
  PROVE  /\ tx[e] \in TxStates /\ rx[e] \in RxStates /\ strm[e] \in Streams
         /\ strm[e].wire \in Seq(Items) /\ strm[e].st \in {"open", "fin", "reset"}
<1>1. tx[e] \in TxStates /\ rx[e] \in RxStates /\ strm[e] \in Streams
  BY Zenon DEF TypeOK
<1>2. strm[e].wire \in Seq(Items) /\ strm[e].st \in {"open", "fin", "reset"}
  BY <1>1 DEF Streams
<1>3. QED
  BY <1>1, <1>2, Zenon

\* A direction whose parts do not change is carried on.
LEMMA CarriedSame ==
  ASSUME NEW e \in Ends, Carried(e),
         tx'[e] = tx[e], rx'[Other(e)] = rx[Other(e)], got'[Other(e)] = got[Other(e)],
         strm'[e].st = strm[e].st, strm'[e].wire = strm[e].wire
  PROVE  Carried(e)'
<1>1. PICK cut \in [Nat -> Nat] : Conveys(e, cut)
  BY Zenon DEF Carried
<1>2. Direction(cut, tx[e], strm'[e], rx[Other(e)], got[Other(e)])
  BY <1>1, DirectionDrop, Zenon DEF Conveys
<1>3. Conveys(e, cut)'
  BY <1>2, Zenon DEF Conveys
<1>4. QED
  BY <1>3, Zenon DEF Carried

\* The same for its end.
LEMMA EndingSame ==
  ASSUME NEW e \in Ends, Ending(e), Failure => Failure',
         peer'[e] = peer[e], tx'[e] = tx[e], rx'[e] = rx[e], eof'[e] = eof[e],
         task'[e] = task[e], strm'[e].st = strm[e].st
  PROVE  Ending(e)'
BY Zenon DEF Ending

LEMMA SameFailure ==
  ASSUME UNCHANGED <<peer, task, tunnel>>
  PROVE  Failure' <=> Failure
BY DEF Failure

-----------------------------------------------------------------------------
(* The steps of the bridge keep the invariant *)

LEMMA TxReadKeeps ==
  ASSUME IInv, NEW e \in Ends, TxRead(e)
  PROVE  IInv'
<1>1. TypeOK /\ \A d \in Ends : Ending(d) /\ Carried(d)
  BY Zenon DEF IInv
<1>2. tx[e] \in TxStates /\ rx[Other(e)] \in RxStates /\ Other(e) \in Ends
  BY <1>1, Parts, TwoEnds, Zenon
<1>3. /\ task[e] = "run" /\ tx[e].st = "read"
      /\ UNCHANGED <<peer, got, eof, rx, strm, task, tunnel, faults>>
  BY Zenon DEF TxRead
<1>4. PICK n \in 1 .. BufLen :
        /\ n <= peer[e].sent - tx[e].taken
        /\ \E u : Reads(tx[e], u, n) /\ tx' = [tx EXCEPT ![e] = u]
  BY Zenon DEF TxRead, Tx, Reads
<1>5. n \in Nat \ {0}
  BY BridgeAssumption
<1>6. PICK u : Reads(tx[e], u, n) /\ tx' = [tx EXCEPT ![e] = u]
  BY <1>4, Zenon
<1>7. u \in TxStates /\ u.st = "prefix" /\ u.taken = tx[e].taken + n
  <2>1. u \in TxStates
    BY <1>2, <1>5, <1>6, ReadType, Zenon
  <2>2. QED
    BY <1>6, <2>1, ReadFields, Zenon
<1>8. tx' \in [Ends -> TxStates] /\ tx'[e] = u /\ \A d \in Ends : d # e => tx'[d] = tx[d]
  <2>1. tx \in [Ends -> TxStates]
    BY <1>1, Zenon DEF TypeOK
  <2>2. QED
    BY <1>6, <1>7, <2>1, Update, Zenon
<1>9. TypeOK'
  BY <1>1, <1>3, <1>8, Zenon DEF TypeOK
<1>10. Failure' <=> Failure
  BY <1>3, SameFailure, Zenon
<1>11. Ending(e)'
  <2>1. Ending(e) /\ peer[e].sent \in Nat /\ tx[e].taken \in Nat
    BY <1>1, <1>2, Fields DEF TypeOK
  <2>2. tx[e].taken + n <= peer[e].sent
    BY <1>4, <1>5, <2>1
  <2>3. ~Failure => strm[e].st # "fin"
    BY <1>3, <2>1 DEF Ending
  <2>4. u.taken <= peer[e].sent /\ u.st # "done"
    BY <1>7, <2>2
  <2>5. QED
    BY <1>3, <1>8, <1>10, <2>1, <2>3, <2>4, Zenon DEF Ending
<1>12. Carried(e)'
  <2>1. PICK cut \in [Nat -> Nat] : Conveys(e, cut)
    BY <1>1, Zenon DEF Carried
  <2>2. strm[e].st # "reset"
    BY <1>1, <1>3, Zenon DEF Ending
  <2>3. Direction(NextCut(cut, tx[e], n), u, strm[e], rx[Other(e)], got[Other(e)])
    BY <1>2, <1>3, <1>5, <1>6, <2>1, <2>2, DirectionRead, Zenon DEF Conveys
  <2>4. NextCut(cut, tx[e], n) \in [Nat -> Nat]
    BY <1>2, <1>5, NextCutType, Zenon
  <2>5. PICK new \in [Nat -> Nat] : new = NextCut(cut, tx[e], n)
    BY <2>4, Zenon
  <2>6. Conveys(e, new)'
    BY <1>3, <1>8, <2>3, <2>5, Zenon DEF Conveys
  <2>7. QED
    BY <2>6, Zenon DEF Carried
<1>13. ASSUME NEW d \in Ends, d # e
       PROVE  Ending(d)' /\ Carried(d)'
  BY <1>1, <1>3, <1>8, <1>10, <1>13, EndingSame, CarriedSame, Zenon
<1>14. QED
  BY <1>9, <1>11, <1>12, <1>13, Zenon DEF IInv

LEMMA UpdateStream ==
  ASSUME NEW f \in [Ends -> Streams], NEW e \in Ends, NEW w \in Seq(Items), NEW h,
         SetWire(h, f, e, w)
  PROVE  WireSet(Ends, Streams, h, f, e, w)
BY UpdateWire, Zenon DEF Streams

LEMMA AppendType ==
  ASSUME NEW S, NEW w \in Seq(S), NEW x \in S
  PROVE  Append(w, x) \in Seq(S)
OBVIOUS

LEMMA TxPrefixKeeps ==
  ASSUME IInv, NEW e \in Ends, TxPrefix(e)
  PROVE  IInv'
<1>1. TypeOK /\ \A d \in Ends : Ending(d) /\ Carried(d)
  BY Zenon DEF IInv
<1>2. tx[e] \in TxStates /\ rx[Other(e)] \in RxStates /\ strm[e].wire \in Seq(Items)
  BY <1>1, Parts, TwoEnds, Zenon
<1>3. /\ task[e] = "run" /\ tx[e].st = "prefix"
      /\ UNCHANGED <<peer, got, eof, rx, task, tunnel, faults>>
  BY Zenon DEF TxPrefix, CanWrite
<1>4. PICK u : u = [tx[e] EXCEPT !.st = "data"] /\ tx' = [tx EXCEPT ![e] = u]
  BY Zenon DEF TxPrefix, Tx
<1>5. u \in TxStates /\ u.st = "data" /\ u.nonce = tx[e].nonce /\ u.taken = tx[e].taken /\ u.data = tx[e].data
  BY <1>2, <1>4, TxSet, Zenon
<1>6. strm[e].st # "reset"
  BY <1>1, <1>3, Zenon DEF Ending
<1>7. PICK cut \in [Nat -> Nat] : Conveys(e, cut)
  BY <1>1, Zenon DEF Carried
<1>8. "prefix" \in Items
  BY Zenon DEF Items
<1>9. PICK w \in Seq(Items) : w = Append(strm[e].wire, "prefix")
  BY <1>2, <1>8, AppendType, Zenon
<1>10. SetWire(strm', strm, e, w)
  BY <1>9, Zenon DEF TxPrefix, Put, SetWire
<1>11. /\ strm' \in [Ends -> Streams] /\ strm'[e].wire = w /\ strm'[e].st = strm[e].st
       /\ \A d \in Ends : d # e => strm'[d] = strm[d]
  <2>1. strm \in [Ends -> Streams]
    BY <1>1, Zenon DEF TypeOK
  <2>2. WireSet(Ends, Streams, strm', strm, e, w)
    BY <1>10, <2>1, UpdateStream, Zenon
  <2>3. QED
    BY <2>2, Zenon DEF WireSet
<1>12. tx' \in [Ends -> TxStates] /\ tx'[e] = u /\ \A d \in Ends : d # e => tx'[d] = tx[d]
  <2>1. tx \in [Ends -> TxStates]
    BY <1>1, Zenon DEF TypeOK
  <2>2. QED
    BY <1>4, <1>5, <2>1, Update, Zenon
<1>13. TypeOK'
  BY <1>1, <1>3, <1>11, <1>12, Zenon DEF TypeOK
<1>14. Failure' <=> Failure
  BY <1>3, SameFailure, Zenon
<1>15. Ending(e)'
  <2>1. Ending(e) /\ (~Failure => strm[e].st # "fin")
    BY <1>1, <1>3 DEF Ending
  <2>2. QED
    BY <1>3, <1>5, <1>11, <1>12, <1>14, <2>1 DEF Ending
<1>16. Carried(e)'
  <2>1. Direction(cut, u, strm'[e], rx[Other(e)], got[Other(e)])
    BY <1>2, <1>3, <1>5, <1>6, <1>7, <1>9, <1>11, DirectionPrefix, Zenon DEF Conveys
  <2>2. Conveys(e, cut)'
    BY <1>3, <1>12, <2>1, Zenon DEF Conveys
  <2>3. QED
    BY <2>2, Zenon DEF Carried
<1>17. ASSUME NEW d \in Ends, d # e
       PROVE  Ending(d)' /\ Carried(d)'
  BY <1>1, <1>3, <1>11, <1>12, <1>14, <1>17, EndingSame, CarriedSame, Zenon
<1>18. QED
  BY <1>13, <1>15, <1>16, <1>17, Zenon DEF IInv

LEMMA TxDataKeeps ==
  ASSUME IInv, NEW e \in Ends, TxData(e)
  PROVE  IInv'
<1>1. TypeOK /\ \A d \in Ends : Ending(d) /\ Carried(d)
  BY Zenon DEF IInv
<1>2. tx[e] \in TxStates /\ rx[Other(e)] \in RxStates /\ strm[e].wire \in Seq(Items)
  BY <1>1, Parts, TwoEnds, Zenon
<1>3. /\ task[e] = "run" /\ tx[e].st = "data"
      /\ UNCHANGED <<peer, got, eof, rx, task, tunnel, faults>>
  BY Zenon DEF TxData, CanWrite
<1>4. PICK u : u = [tx[e] EXCEPT !.st = "read", !.data = <<>>] /\ tx' = [tx EXCEPT ![e] = u]
  BY Zenon DEF TxData, Tx
<1>5. u \in TxStates /\ u.st = "read" /\ u.nonce = tx[e].nonce /\ u.taken = tx[e].taken
  BY <1>2, <1>4, TxClear, Zenon
<1>6. strm[e].st # "reset"
  BY <1>1, <1>3, Zenon DEF Ending
<1>7. PICK cut \in [Nat -> Nat] : Conveys(e, cut)
  BY <1>1, Zenon DEF Carried
<1>8. tx[e].data \in Items
  <2>1. Cuts(cut, tx[e])
    BY <1>7, Zenon DEF Conveys, Direction
  <2>2. QED
    BY <1>2, <1>3, <1>5, <2>1, DataItem, Zenon
<1>9. PICK w \in Seq(Items) : w = Append(strm[e].wire, tx[e].data)
  BY <1>2, <1>8, AppendType, Zenon
<1>10. SetWire(strm', strm, e, w)
  BY <1>9, Zenon DEF TxData, Put, SetWire
<1>11. /\ strm' \in [Ends -> Streams] /\ strm'[e].wire = w /\ strm'[e].st = strm[e].st
       /\ \A d \in Ends : d # e => strm'[d] = strm[d]
  <2>1. strm \in [Ends -> Streams]
    BY <1>1, Zenon DEF TypeOK
  <2>2. WireSet(Ends, Streams, strm', strm, e, w)
    BY <1>10, <2>1, UpdateStream, Zenon
  <2>3. QED
    BY <2>2, Zenon DEF WireSet
<1>12. tx' \in [Ends -> TxStates] /\ tx'[e] = u /\ \A d \in Ends : d # e => tx'[d] = tx[d]
  <2>1. tx \in [Ends -> TxStates]
    BY <1>1, Zenon DEF TypeOK
  <2>2. QED
    BY <1>4, <1>5, <2>1, Update, Zenon
<1>13. TypeOK'
  BY <1>1, <1>3, <1>11, <1>12, Zenon DEF TypeOK
<1>14. Failure' <=> Failure
  BY <1>3, SameFailure, Zenon
<1>15. Ending(e)'
  <2>1. Ending(e) /\ (~Failure => strm[e].st # "fin")
    BY <1>1, <1>3 DEF Ending
  <2>2. QED
    BY <1>3, <1>5, <1>11, <1>12, <1>14, <2>1 DEF Ending
<1>16. Carried(e)'
  <2>1. Direction(cut, u, strm'[e], rx[Other(e)], got[Other(e)])
    BY <1>2, <1>3, <1>5, <1>6, <1>7, <1>9, <1>11, DirectionData, Zenon DEF Conveys
  <2>2. Conveys(e, cut)'
    BY <1>3, <1>12, <2>1, Zenon DEF Conveys
  <2>3. QED
    BY <2>2, Zenon DEF Carried
<1>17. ASSUME NEW d \in Ends, d # e
       PROVE  Ending(d)' /\ Carried(d)'
  BY <1>1, <1>3, <1>11, <1>12, <1>14, <1>17, EndingSame, CarriedSame, Zenon
<1>18. QED
  BY <1>13, <1>15, <1>16, <1>17, Zenon DEF IInv

LEMMA FinishedFields ==
  ASSUME NEW s \in Streams
  PROVE  Finished(s) \in Streams /\ Finished(s).st = "fin" /\ Finished(s).wire = s.wire
<1>1. PICK W : W = Seq(Items)
  BY Zenon
<1>2. s \in [wire : W, st : {"open", "fin", "reset"}, stopped : BOOLEAN]
  BY <1>1, Zenon DEF Streams
<1>3. /\ Finished(s) \in [wire : W, st : {"open", "fin", "reset"}, stopped : BOOLEAN]
      /\ Finished(s).st = "fin" /\ Finished(s).wire = s.wire
  BY <1>2 DEF Finished
<1>4. QED
  BY <1>1, <1>3, Zenon DEF Streams

LEMMA TxEofKeeps ==
  ASSUME IInv, NEW e \in Ends, TxEof(e)
  PROVE  IInv'
<1>1. TypeOK /\ \A d \in Ends : Ending(d) /\ Carried(d)
  BY Zenon DEF IInv
<1>2. tx[e] \in TxStates /\ rx[Other(e)] \in RxStates /\ strm[e] \in Streams
  BY <1>1, Parts, TwoEnds, Zenon
<1>3. /\ task[e] = "run" /\ tx[e].st = "read" /\ AtEof(e)
      /\ UNCHANGED <<peer, got, eof, rx, task, tunnel, faults>>
  BY Zenon DEF TxEof
<1>4. PICK u : u = [tx[e] EXCEPT !.st = "done"] /\ tx' = [tx EXCEPT ![e] = u]
  BY Zenon DEF TxEof, Tx
<1>5. u \in TxStates /\ u.st = "done" /\ u.nonce = tx[e].nonce /\ u.taken = tx[e].taken
  BY <1>2, <1>4, TxSet, Zenon
<1>6. PICK z \in Streams : z = Finished(strm[e]) /\ z.st = "fin" /\ z.wire = strm[e].wire
  BY <1>2, FinishedFields, Zenon
<1>7. strm' = [strm EXCEPT ![e] = z]
  BY <1>6, Zenon DEF TxEof
<1>8. strm' \in [Ends -> Streams] /\ strm'[e] = z /\ \A d \in Ends : d # e => strm'[d] = strm[d]
  <2>1. strm \in [Ends -> Streams]
    BY <1>1, Zenon DEF TypeOK
  <2>2. QED
    BY <1>7, <2>1, Update, Zenon
<1>9. tx' \in [Ends -> TxStates] /\ tx'[e] = u /\ \A d \in Ends : d # e => tx'[d] = tx[d]
  <2>1. tx \in [Ends -> TxStates]
    BY <1>1, Zenon DEF TypeOK
  <2>2. QED
    BY <1>4, <1>5, <2>1, Update, Zenon
<1>10. TypeOK'
  BY <1>1, <1>3, <1>8, <1>9, Zenon DEF TypeOK
<1>11. Failure' <=> Failure
  BY <1>3, SameFailure, Zenon
<1>12. Ending(e)'
  <2>1. Ending(e) /\ peer[e].st # "open" /\ tx[e].taken = peer[e].sent
    BY <1>1, <1>3 DEF AtEof
  <2>2. z.st # "reset"
    BY <1>6
  <2>3. QED
    BY <1>3, <1>5, <1>8, <1>9, <2>1, <2>2, Zenon DEF Ending
<1>13. Carried(e)'
  <2>1. PICK cut \in [Nat -> Nat] : Conveys(e, cut)
    BY <1>1, Zenon DEF Carried
  <2>2. strm[e].st # "reset" /\ z.st # "reset"
    BY <1>1, <1>3, <1>6 DEF Ending
  <2>3. Direction(cut, u, z, rx[Other(e)], got[Other(e)])
    BY <1>2, <1>3, <1>5, <1>6, <2>1, <2>2, DirectionEof, Zenon DEF Conveys
  <2>4. Conveys(e, cut)'
    BY <1>3, <1>8, <1>9, <2>3, Zenon DEF Conveys
  <2>5. QED
    BY <2>4, Zenon DEF Carried
<1>14. ASSUME NEW d \in Ends, d # e
       PROVE  Ending(d)' /\ Carried(d)'
  BY <1>1, <1>3, <1>8, <1>9, <1>11, <1>14, EndingSame, CarriedSame, Zenon
<1>15. QED
  BY <1>10, <1>12, <1>13, <1>14, Zenon DEF IInv

LEMMA TailType ==
  ASSUME NEW S, NEW w \in Seq(S), NotEmpty(w)
  PROVE  Tail(w) \in Seq(S)
BY DEF NotEmpty

LEMMA RxPrefixKeeps ==
  ASSUME IInv, NEW e \in Ends, RxPrefix(e)
  PROVE  IInv'
<1>1. TypeOK /\ \A d \in Ends : Ending(d) /\ Carried(d)
  BY Zenon DEF IInv
<1>2. PICK o \in Ends : o = Other(e) /\ o # e /\ Other(o) = e
  BY TwoEnds, Zenon
<1>3. tx[o] \in TxStates /\ rx[e] \in RxStates /\ strm[o].wire \in Seq(Items)
  BY <1>1, Parts, Zenon
<1>4. /\ rx[e].st = "prefix" /\ NotEmpty(strm[o].wire)
      /\ UNCHANGED <<peer, got, eof, tx, task, tunnel, faults>>
  BY <1>2, Zenon DEF RxPrefix, In, NotEmpty
<1>5. PICK q : q = [rx[e] EXCEPT !.st = "data"] /\ rx' = [rx EXCEPT ![e] = q]
  BY <1>2, Zenon DEF RxPrefix, Rx, In
<1>6. PICK w \in Seq(Items) : w = Tail(strm[o].wire)
  BY <1>3, <1>4, TailType, Zenon
<1>7. SetWire(strm', strm, o, w)
  BY <1>2, <1>6, Zenon DEF RxPrefix, Take, SetWire
<1>8. /\ strm' \in [Ends -> Streams] /\ strm'[o].wire = w /\ strm'[o].st = strm[o].st
      /\ strm'[e] = strm[e]
  <2>1. strm \in [Ends -> Streams]
    BY <1>1, Zenon DEF TypeOK
  <2>2. WireSet(Ends, Streams, strm', strm, o, w)
    BY <1>7, <2>1, UpdateStream, Zenon
  <2>3. QED
    BY <1>2, <2>2, Zenon DEF WireSet
<1>9. PICK cut \in [Nat -> Nat] : Conveys(o, cut)
  BY <1>1, Zenon DEF Carried
<1>10. q \in RxStates /\ q.st # "done" /\ Direction(cut, tx[o], strm'[o], q, got[e])
  <2>1. q \in RxStates /\ q.st = "data" /\ q.nonce = rx[e].nonce
    BY <1>3, <1>5, RxSet, Zenon
  <2>2. Direction(cut, tx[o], strm'[o], q, got[e])
    BY <1>2, <1>3, <1>4, <1>6, <1>8, <1>9, <2>1, DirectionTakePrefix, Zenon DEF Conveys
  <2>3. QED
    BY <2>1, <2>2
<1>11. rx' \in [Ends -> RxStates] /\ rx'[e] = q /\ rx'[o] = rx[o]
  <2>1. rx \in [Ends -> RxStates]
    BY <1>1, Zenon DEF TypeOK
  <2>2. QED
    BY <1>2, <1>5, <1>10, <2>1, Update, Zenon
<1>12. TypeOK'
  BY <1>1, <1>4, <1>8, <1>11, Zenon DEF TypeOK
<1>13. Failure' <=> Failure
  BY <1>4, SameFailure, Zenon
<1>14. Ending(e)'
  <2>1. Ending(e) /\ eof[e] # "fin"
    BY <1>1, <1>4 DEF Ending
  <2>2. QED
    BY <1>4, <1>8, <1>13, <2>1, Zenon DEF Ending
<1>15. Ending(o)'
  BY <1>1, <1>4, <1>8, <1>11, <1>13, EndingSame, Zenon
<1>16. Carried(o)'
  <2>1. Conveys(o, cut)'
    BY <1>2, <1>4, <1>10, <1>11, Zenon DEF Conveys
  <2>2. QED
    BY <2>1, Zenon DEF Carried
<1>17. Carried(e)'
  BY <1>1, <1>2, <1>4, <1>8, <1>11, CarriedSame, Zenon
<1>18. QED
  BY <1>2, <1>12, <1>14, <1>15, <1>16, <1>17, TwoEnds, Zenon DEF IInv

LEMMA RxDataKeeps ==
  ASSUME IInv, NEW e \in Ends, RxData(e)
  PROVE  IInv'
<1>1. TypeOK /\ \A d \in Ends : Ending(d) /\ Carried(d)
  BY Zenon DEF IInv
<1>2. PICK o \in Ends : o = Other(e) /\ o # e /\ Other(o) = e
  BY TwoEnds, Zenon
<1>3. tx[o] \in TxStates /\ rx[e] \in RxStates /\ strm[o].wire \in Seq(Items)
  BY <1>1, Parts, Zenon
<1>4. /\ rx[e].st = "data" /\ NotEmpty(strm[o].wire)
      /\ UNCHANGED <<peer, got, eof, tx, task, tunnel, faults>>
  BY <1>2, Zenon DEF RxData, In, NotEmpty
<1>5. PICK q : Opens(rx[e], q, Head(strm[o].wire)) /\ rx' = [rx EXCEPT ![e] = q]
  BY <1>2, Zenon DEF RxData, Rx, In, Opens
<1>6. PICK w \in Seq(Items) : w = Tail(strm[o].wire)
  BY <1>3, <1>4, TailType, Zenon
<1>7. SetWire(strm', strm, o, w)
  BY <1>2, <1>6, Zenon DEF RxData, Take, SetWire
<1>8. /\ strm' \in [Ends -> Streams] /\ strm'[o].wire = w /\ strm'[o].st = strm[o].st
      /\ strm'[e] = strm[e]
  <2>1. strm \in [Ends -> Streams]
    BY <1>1, Zenon DEF TypeOK
  <2>2. WireSet(Ends, Streams, strm', strm, o, w)
    BY <1>7, <2>1, UpdateStream, Zenon
  <2>3. QED
    BY <1>2, <2>2, Zenon DEF WireSet
<1>9. PICK cut \in [Nat -> Nat] : Conveys(o, cut)
  BY <1>1, Zenon DEF Carried
<1>10. q \in RxStates /\ q.st # "done" /\ Direction(cut, tx[o], strm'[o], q, got[e])
  <2>1. q.st = "write"
    BY <1>5, OpensFields, Zenon
  <2>2. q \in RxStates /\ Direction(cut, tx[o], strm'[o], q, got[e])
    BY <1>2, <1>3, <1>4, <1>5, <1>6, <1>8, <1>9, DirectionTakeData, Zenon DEF Conveys
  <2>3. QED
    BY <2>1, <2>2
<1>11. rx' \in [Ends -> RxStates] /\ rx'[e] = q /\ rx'[o] = rx[o]
  <2>1. rx \in [Ends -> RxStates]
    BY <1>1, Zenon DEF TypeOK
  <2>2. QED
    BY <1>2, <1>5, <1>10, <2>1, Update, Zenon
<1>12. TypeOK'
  BY <1>1, <1>4, <1>8, <1>11, Zenon DEF TypeOK
<1>13. Failure' <=> Failure
  BY <1>4, SameFailure, Zenon
<1>14. Ending(e)'
  <2>1. Ending(e) /\ eof[e] # "fin"
    BY <1>1, <1>4 DEF Ending
  <2>2. QED
    BY <1>4, <1>8, <1>13, <2>1, Zenon DEF Ending
<1>15. Ending(o)'
  BY <1>1, <1>4, <1>8, <1>11, <1>13, EndingSame, Zenon
<1>16. Carried(o)'
  <2>1. Conveys(o, cut)'
    BY <1>2, <1>4, <1>10, <1>11, Zenon DEF Conveys
  <2>2. QED
    BY <2>1, Zenon DEF Carried
<1>17. Carried(e)'
  BY <1>1, <1>2, <1>4, <1>8, <1>11, CarriedSame, Zenon
<1>18. QED
  BY <1>2, <1>12, <1>14, <1>15, <1>16, <1>17, TwoEnds, Zenon DEF IInv

LEMMA ConcatType ==
  ASSUME NEW S, NEW a \in Seq(S), NEW b \in Seq(S)
  PROVE  a \o b \in Seq(S)
OBVIOUS

\* writer.write_all and writer.shutdown change rx and what the far peer sees.
LEMMA RxWriteKeeps ==
  ASSUME IInv, NEW e \in Ends, RxWrite(e)
  PROVE  IInv'
<1>1. TypeOK /\ \A d \in Ends : Ending(d) /\ Carried(d)
  BY Zenon DEF IInv
<1>2. PICK o \in Ends : o = Other(e) /\ o # e /\ Other(o) = e
  BY TwoEnds, Zenon
<1>3. tx[o] \in TxStates /\ rx[e] \in RxStates
  BY <1>1, Parts, Zenon
<1>4. rx[e].st = "write" /\ UNCHANGED <<peer, eof, tx, strm, task, tunnel, faults>>
  BY Zenon DEF RxWrite
<1>5. PICK q : q = [rx[e] EXCEPT !.st = "prefix", !.plain = <<>>] /\ rx' = [rx EXCEPT ![e] = q]
  BY Zenon DEF RxWrite, Rx
<1>6. q \in RxStates /\ q.st = "prefix" /\ q.nonce = rx[e].nonce
  BY <1>3, <1>5, RxClear, Zenon
<1>7. rx' \in [Ends -> RxStates] /\ rx'[e] = q /\ rx'[o] = rx[o]
  <2>1. rx \in [Ends -> RxStates]
    BY <1>1, Zenon DEF TypeOK
  <2>2. QED
    BY <1>2, <1>5, <1>6, <2>1, Update, Zenon
<1>8. got' \in [Ends -> Seq(Nat)] /\ got'[e] = got[e] \o rx[e].plain /\ got'[o] = got[o]
  <2>1. got \in [Ends -> Seq(Nat)] /\ got[e] \in Seq(Nat) /\ rx[e].plain \in Seq(Nat)
    BY <1>1, <1>3, Fields, Zenon DEF TypeOK
  <2>2. PICK g \in Seq(Nat) : g = got[e] \o rx[e].plain
    BY <2>1, ConcatType, Zenon
  <2>3. got' = [got EXCEPT ![e] = g]
    BY <2>2, Zenon DEF RxWrite
  <2>4. QED
    BY <1>2, <2>1, <2>2, <2>3, Update, Zenon
<1>9. TypeOK'
  BY <1>1, <1>4, <1>7, <1>8, Zenon DEF TypeOK
<1>10. Failure' <=> Failure
  BY <1>4, SameFailure, Zenon
<1>11. Ending(e)'
  <2>1. Ending(e) /\ eof[e] # "fin"
    BY <1>1, <1>4 DEF Ending
  <2>2. QED
    BY <1>4, <1>10, <2>1, Zenon DEF Ending
<1>12. Ending(o)'
  BY <1>1, <1>4, <1>7, <1>10, EndingSame, Zenon
<1>13. Carried(o)'
  <2>1. PICK cut \in [Nat -> Nat] : Conveys(o, cut)
    BY <1>1, Zenon DEF Carried
  <2>2. Direction(cut, tx[o], strm[o], q, got[e] \o rx[e].plain)
    BY <1>2, <1>3, <1>4, <1>6, <2>1, DirectionWrite, Zenon DEF Conveys
  <2>3. Conveys(o, cut)'
    BY <1>2, <1>4, <1>7, <1>8, <2>2, Zenon DEF Conveys
  <2>4. QED
    BY <2>3, Zenon DEF Carried
<1>14. Carried(e)'
  BY <1>1, <1>2, <1>4, <1>7, <1>8, CarriedSame, Zenon
<1>15. QED
  BY <1>2, <1>9, <1>11, <1>12, <1>13, <1>14, TwoEnds, Zenon DEF IInv

LEMMA RxEofKeeps ==
  ASSUME IInv, NEW e \in Ends, RxEof(e)
  PROVE  IInv'
<1>1. TypeOK /\ \A d \in Ends : Ending(d) /\ Carried(d)
  BY Zenon DEF IInv
<1>2. PICK o \in Ends : o = Other(e) /\ o # e /\ Other(o) = e
  BY TwoEnds, Zenon
<1>3. rx[e] \in RxStates
  BY <1>1, Parts, Zenon
<1>4. rx[e].st = "prefix" /\ UNCHANGED <<peer, got, tx, strm, task, tunnel, faults>>
  BY Zenon DEF RxEof
<1>5. PICK q : q = [rx[e] EXCEPT !.st = "done"] /\ rx' = [rx EXCEPT ![e] = q]
  BY Zenon DEF RxEof, Rx
<1>6. q \in RxStates /\ q.st = "done" /\ q.nonce = rx[e].nonce
  BY <1>3, <1>5, RxSet, Zenon
<1>7. rx' \in [Ends -> RxStates] /\ rx'[e] = q /\ rx'[o] = rx[o]
  <2>1. rx \in [Ends -> RxStates]
    BY <1>1, Zenon DEF TypeOK
  <2>2. QED
    BY <1>2, <1>5, <1>6, <2>1, Update, Zenon
<1>8. eof' \in [Ends -> {"no", "fin", "dropped"}] /\ eof'[o] = eof[o]
  BY <1>1, <1>2 DEF TypeOK, RxEof
<1>9. TypeOK'
  BY <1>1, <1>4, <1>7, <1>8, Zenon DEF TypeOK
<1>10. Failure' <=> Failure
  BY <1>4, SameFailure, Zenon
<1>11. Ending(e)'
  BY <1>1, <1>4, <1>6, <1>7, <1>10, Zenon DEF Ending
<1>12. Ending(o)'
  BY <1>1, <1>4, <1>7, <1>8, <1>10, EndingSame, Zenon
<1>13. Carried(o)'
  <2>1. PICK cut \in [Nat -> Nat] : Conveys(o, cut)
    BY <1>1, Zenon DEF Carried
  <2>2. Direction(cut, tx[o], strm[o], q, got[e])
    BY <1>2, <1>4, <1>6, <2>1, DirectionDone, Zenon DEF Conveys
  <2>3. Conveys(o, cut)'
    BY <1>2, <1>4, <1>7, <2>2, Zenon DEF Conveys
  <2>4. QED
    BY <2>3, Zenon DEF Carried
<1>14. Carried(e)'
  BY <1>1, <1>2, <1>4, <1>7, CarriedSame, Zenon
<1>15. QED
  BY <1>2, <1>9, <1>11, <1>12, <1>13, <1>14, TwoEnds, Zenon DEF IInv

-----------------------------------------------------------------------------
(* Letting go of the stream, and the environment *)

Drops(s, z) ==
  \/ z.st = s.st /\ z.wire = s.wire
  \/ s.st # "reset" /\ z.st = "fin" /\ z.wire = s.wire
  \/ z.st = "reset" /\ z.wire = <<>>

LEMMA CarriedDrop ==
  ASSUME NEW e \in Ends, Carried(e), Drops(strm[e], strm'[e]),
         UNCHANGED <<tx, rx, got>>
  PROVE  Carried(e)'
<1>1. PICK cut \in [Nat -> Nat] : Conveys(e, cut)
  BY Zenon DEF Carried
<1>2. Direction(cut, tx[e], strm'[e], rx[Other(e)], got[Other(e)])
  BY <1>1, DirectionDrop, Zenon DEF Conveys, Drops
<1>3. Conveys(e, cut)'
  BY <1>2, Zenon DEF Conveys
<1>4. QED
  BY <1>3, Zenon DEF Carried

\* The two ways quinn lets go of a half of a stream
LEMMA DroppedFields ==
  ASSUME NEW s \in Streams, NEW b \in BOOLEAN
  PROVE  /\ SendDropped(s) \in Streams /\ Drops(s, SendDropped(s))
         /\ RecvDropped(s, b) \in Streams
         /\ RecvDropped(s, b).st = s.st /\ RecvDropped(s, b).wire = s.wire
<1>1. PICK W : W = Seq(Items)
  BY Zenon
<1>2. s \in [wire : W, st : {"open", "fin", "reset"}, stopped : BOOLEAN]
  BY <1>1, Zenon DEF Streams
<1>3. /\ RecvDropped(s, b) \in [wire : W, st : {"open", "fin", "reset"}, stopped : BOOLEAN]
      /\ RecvDropped(s, b).st = s.st /\ RecvDropped(s, b).wire = s.wire
  <2>1. PICK c \in BOOLEAN : c = (s.stopped \/ ~b)
    BY Zenon
  <2>2. RecvDropped(s, b) = [s EXCEPT !.stopped = c]
    BY <2>1, Zenon DEF RecvDropped
  <2>3. QED
    BY <1>2, <2>2
<1>4. <<>> \in W
  BY <1>1
<1>5. /\ SendDropped(s) \in [wire : W, st : {"open", "fin", "reset"}, stopped : BOOLEAN]
      /\ Drops(s, SendDropped(s))
  <2>1. CASE s.st # "open"
    BY <1>2, <2>1, Zenon DEF SendDropped, Drops
  <2>2. CASE s.st = "open" /\ ~s.stopped
    BY <1>2, <2>2 DEF SendDropped, Drops
  <2>3. CASE s.st = "open" /\ s.stopped
    <3>1. PICK v : v = [s EXCEPT !.st = "reset"]
      BY Zenon
    <3>2. v \in [wire : W, st : {"open", "fin", "reset"}, stopped : BOOLEAN] /\ v.st = "reset"
      BY <1>2, <3>1
    <3>3. SendDropped(s) = [v EXCEPT !.wire = <<>>]
      BY <2>3, <3>1 DEF SendDropped
    <3>4. QED
      BY <1>4, <3>2, <3>3 DEF Drops
  <2>4. QED
    BY <2>1, <2>2, <2>3, Zenon
<1>6. QED
  BY <1>1, <1>3, <1>5, Zenon DEF Streams

\* Whichever way a task ends, its own half of the stream is dropped, of the other
\* half nothing changes but that it is stopped, and no peer sees an orderly end.
LEMMA LetGoFields ==
  ASSUME TypeOK, NEW e \in Ends, LetGo(e), NEW o, o = Other(e)
  PROVE  /\ strm' \in [Ends -> Streams] /\ Drops(strm[e], strm'[e])
         /\ strm'[o].st = strm[o].st /\ strm'[o].wire = strm[o].wire
         /\ eof' \in [Ends -> {"no", "fin", "dropped"}]
         /\ \A d \in Ends : eof'[d] = "fin" <=> eof[d] = "fin"
         /\ eof'[o] = eof[o]
<1>1. o \in Ends /\ o # e
  BY TwoEnds, Zenon
<1>2. strm \in [Ends -> Streams] /\ strm[e] \in Streams /\ strm[o] \in Streams
  BY <1>1, Zenon DEF TypeOK
<1>3. /\ strm' \in [Ends -> Streams] /\ Drops(strm[e], strm'[e])
      /\ strm'[o].st = strm[o].st /\ strm'[o].wire = strm[o].wire
  <2>1. CASE tunnel = "lost"
    <3>1. strm' = strm
      BY <2>1, Zenon DEF LetGo
    <3>2. QED
      BY <1>2, <3>1, Zenon DEF Drops
  <2>2. CASE tunnel # "lost"
    <3>1. PICK b \in BOOLEAN : b = (rx[e].st = "done")
      BY Zenon
    <3>2. PICK x \in Streams : x = SendDropped(strm[e]) /\ Drops(strm[e], x)
      BY <1>2, DroppedFields, Zenon
    <3>3. PICK y \in Streams : /\ y = RecvDropped(strm[o], b)
                               /\ y.st = strm[o].st /\ y.wire = strm[o].wire
      BY <1>2, DroppedFields, Zenon
    <3>4. strm' = [strm EXCEPT ![e] = x, ![o] = y]
      BY <1>1, <1>2, <2>2, <3>1, <3>2, <3>3 DEF LetGo
    <3>5. strm' \in [Ends -> Streams] /\ strm'[e] = x /\ strm'[o] = y
      BY <1>1, <1>2, <3>4
    <3>6. QED
      BY <3>2, <3>3, <3>5, Zenon
  <2>3. QED
    BY <2>1, <2>2, Zenon
<1>4. /\ eof' \in [Ends -> {"no", "fin", "dropped"}]
      /\ \A d \in Ends : eof'[d] = "fin" <=> eof[d] = "fin"
      /\ eof'[o] = eof[o]
  BY <1>1 DEF TypeOK, LetGo
<1>5. QED
  BY <1>3, <1>4, Zenon

LEMMA FailKeeps ==
  ASSUME IInv, NEW e \in Ends, Fail(e)
  PROVE  IInv' /\ Failure'
<1>1. TypeOK /\ \A d \in Ends : Ending(d) /\ Carried(d)
  BY Zenon DEF IInv
<1>2. PICK o \in Ends : o = Other(e) /\ o # e
  BY TwoEnds, Zenon
<1>3. /\ strm' \in [Ends -> Streams] /\ Drops(strm[e], strm'[e])
      /\ strm'[o].st = strm[o].st /\ strm'[o].wire = strm[o].wire
      /\ eof' \in [Ends -> {"no", "fin", "dropped"}]
      /\ \A d \in Ends : eof'[d] = "fin" <=> eof[d] = "fin"
      /\ eof'[o] = eof[o]
  BY <1>1, <1>2, LetGoFields, Zenon DEF Fail
<1>4. UNCHANGED <<peer, got, tx, rx, tunnel, faults>>
  BY Zenon DEF Fail
<1>5. task' \in [Ends -> {"run", "ok", "failed"}] /\ task'[e] = "failed" /\ task'[o] = task[o]
  BY <1>1, <1>2 DEF TypeOK, Fail
<1>6. TypeOK'
  BY <1>1, <1>3, <1>4, <1>5, Zenon DEF TypeOK
<1>7. Failure'
  BY <1>5, Zenon DEF Failure
<1>8. Ending(e)'
  <2>1. task'[e] # "run"
    BY <1>5
  <2>2. QED
    BY <1>1, <1>3, <1>4, <1>7, <2>1, Zenon DEF Ending
<1>9. Ending(o)'
  BY <1>1, <1>3, <1>4, <1>5, <1>7, EndingSame, Zenon
<1>10. Carried(e)' /\ Carried(o)'
  BY <1>1, <1>3, <1>4, CarriedDrop, Zenon DEF Drops
<1>11. QED
  BY <1>2, <1>6, <1>7, <1>8, <1>9, <1>10, TwoEnds, Zenon DEF IInv

LEMMA JoinedKeeps ==
  ASSUME IInv, NEW e \in Ends, Joined(e)
  PROVE  IInv' /\ (Failure' <=> Failure)
<1>1. TypeOK /\ \A d \in Ends : Ending(d) /\ Carried(d)
  BY Zenon DEF IInv
<1>2. PICK o \in Ends : o = Other(e) /\ o # e
  BY TwoEnds, Zenon
<1>3. /\ strm' \in [Ends -> Streams] /\ Drops(strm[e], strm'[e])
      /\ strm'[o].st = strm[o].st /\ strm'[o].wire = strm[o].wire
      /\ eof' \in [Ends -> {"no", "fin", "dropped"}]
      /\ \A d \in Ends : eof'[d] = "fin" <=> eof[d] = "fin"
      /\ eof'[o] = eof[o]
  BY <1>1, <1>2, LetGoFields, Zenon DEF Joined
<1>4. UNCHANGED <<peer, got, tx, rx, tunnel, faults>> /\ tx[e].st = "done" /\ task[e] = "run"
  BY Zenon DEF Joined
<1>5. task' \in [Ends -> {"run", "ok", "failed"}] /\ task'[e] = "ok" /\ task'[o] = task[o]
  BY <1>1, <1>2 DEF TypeOK, Joined
<1>6. TypeOK'
  BY <1>1, <1>3, <1>4, <1>5, Zenon DEF TypeOK
<1>7. Failure' <=> Failure
  <2>1. \A d \in Ends : task'[d] = "failed" <=> task[d] = "failed"
    BY <1>2, <1>4, <1>5, TwoEnds
  <2>2. QED
    BY <1>4, <2>1, Zenon DEF Failure
<1>8. Ending(e)'
  <2>1. task'[e] # "run"
    BY <1>5
  <2>2. QED
    BY <1>1, <1>3, <1>4, <2>1, Zenon DEF Ending
<1>9. Ending(o)'
  BY <1>1, <1>3, <1>4, <1>5, <1>7, EndingSame, Zenon
<1>10. Carried(e)' /\ Carried(o)'
  BY <1>1, <1>3, <1>4, CarriedDrop, Zenon DEF Drops
<1>11. QED
  BY <1>2, <1>6, <1>7, <1>8, <1>9, <1>10, TwoEnds, Zenon DEF IInv

\* The TCP peers and the loss of the tunnel
LEMMA PeersKeep ==
  ASSUME IInv, UNCHANGED <<got, eof, tx, rx, strm, task>>, NEW e \in Ends,
         Write(e) \/ Close(e) \/ Reset(e) \/ Cut
  PROVE  /\ IInv'
         /\ Write(e) \/ Close(e) => (Failure' <=> Failure)
         /\ Reset(e) \/ Cut => Failure'
<1>1. TypeOK /\ \A d \in Ends : Ending(d) /\ Carried(d)
  BY Zenon DEF IInv
<1>2. /\ peer' \in [Ends -> [sent : Nat, st : {"open", "closed", "reset"}]]
      /\ \A d \in Ends : /\ peer'[d].sent = peer[d].sent \/ peer[d].st = "open"
                         /\ peer'[d].sent >= peer[d].sent
                         /\ peer[d].st # "open" => peer'[d].st # "open"
      /\ Write(e) \/ Close(e) => \A d \in Ends : peer'[d].st = "reset" <=> peer[d].st = "reset"
      /\ Reset(e) => peer'[e].st = "reset"
  <2> DEFINE Moves == /\ peer' \in [Ends -> [sent : Nat, st : {"open", "closed", "reset"}]]
                      /\ \A d \in Ends : /\ peer'[d].sent = peer[d].sent \/ peer[d].st = "open"
                                         /\ peer'[d].sent >= peer[d].sent
                                         /\ peer[d].st # "open" => peer'[d].st # "open"
  <2>1. peer \in [Ends -> [sent : Nat, st : {"open", "closed", "reset"}]]
    BY <1>1, Zenon DEF TypeOK
  <2>2. Write(e) => Moves
    BY <2>1 DEF Write
  <2>3. Close(e) => Moves
    BY <2>1 DEF Close
  <2>4. Reset(e) => Moves
    BY <2>1 DEF Reset
  <2>5. Cut => Moves
    BY <2>1 DEF Cut
  <2>6. Write(e) \/ Close(e) => \A d \in Ends : peer'[d].st = "reset" <=> peer[d].st = "reset"
    BY <2>1 DEF Write, Close
  <2>7. Reset(e) => peer'[e].st = "reset"
    BY <2>1 DEF Reset
  <2>8. QED
    BY <2>2, <2>3, <2>4, <2>5, <2>6, <2>7, Zenon
<1>3. TypeOK'
  BY <1>1, <1>2, Zenon DEF TypeOK
<1>4. Write(e) \/ Close(e) => (Failure' <=> Failure)
  <2>1. Write(e) \/ Close(e) => tunnel' = tunnel
    BY Zenon DEF Write, Close
  <2>2. QED
    BY <1>2, <2>1, Zenon DEF Failure
<1>5. Reset(e) \/ Cut => Failure'
  <2>1. Cut => tunnel' = "lost"
    BY Zenon DEF Cut
  <2>2. QED
    BY <1>2, <2>1, Zenon DEF Failure
<1>6. ASSUME NEW d \in Ends
      PROVE  Ending(d)'
  <2>1. tx[d].taken \in Nat /\ peer[d].sent \in Nat /\ peer'[d].sent \in Nat
    BY <1>1, <1>2, Parts, Fields DEF TypeOK
  <2>2. tx[d].taken <= peer'[d].sent
    BY <1>1, <1>2, <2>1 DEF Ending
  <2>3. Failure => Failure'
    BY <1>4, <1>5, Zenon
  <2>4. tx[d].st = "done" => peer'[d].st # "open" /\ tx[d].taken = peer'[d].sent
    BY <1>1, <1>2, Zenon DEF Ending
  <2>5. QED
    BY <1>1, <2>2, <2>3, <2>4, Zenon DEF Ending
<1>7. ASSUME NEW d \in Ends
      PROVE  Carried(d)'
  BY <1>1, CarriedSame, Zenon
<1>8. QED
  BY <1>3, <1>4, <1>5, <1>6, <1>7, Zenon DEF IInv

LEMMA InitCarried ==
  ASSUME Init
  PROVE  IInv
<1>1. TypeOK
  <2>1. <<>> \in Seq(Items) /\ <<>> \in Seq(Nat)
    OBVIOUS
  <2>2. [st |-> "read", taken |-> 0, nonce |-> 1, data |-> <<>>] \in TxStates
    BY DEF TxStates
  <2>3. [st |-> "prefix", nonce |-> 1, plain |-> <<>>] \in RxStates
    BY <2>1 DEF RxStates
  <2>4. [wire |-> <<>>, st |-> "open", stopped |-> FALSE] \in Streams
    BY <2>1 DEF Streams
  <2>5. QED
    BY <2>1, <2>2, <2>3, <2>4 DEF Init, TypeOK
<1>2. ASSUME NEW e \in Ends
      PROVE  Ending(e)
  BY DEF Init, Ending
<1>3. ASSUME NEW e \in Ends
      PROVE  Carried(e)
  <2>1. PICK cut \in [Nat -> Nat] : cut = [m \in Nat |-> 0]
    <3>1. [m \in Nat |-> 0] \in [Nat -> Nat]
      OBVIOUS
    <3>2. QED
      BY <3>1, Zenon
  <2>2. /\ tx[e].st = "read" /\ tx[e].taken = 0 /\ tx[e].nonce = 1
        /\ strm[e].wire = <<>> /\ strm[e].st = "open"
    BY DEF Init
  <2>3. rx[Other(e)].st = "prefix" /\ rx[Other(e)].nonce = 1 /\ got[Other(e)] = <<>>
    BY TwoEnds DEF Init
  <2>4. Cuts(cut, tx[e])
    BY <2>1, <2>2 DEF Cuts
  <2>5. Received(cut, tx[e], rx[Other(e)], got[Other(e)])
    <3>1. Upto(0) = <<>> /\ 1 - 1 = 0 /\ cut[0] = 0
      BY <2>1 DEF Upto
    <3>2. QED
      BY <2>2, <2>3, <3>1 DEF Received
  <2>6. OnWire(cut, tx[e], <<>>, rx[Other(e)])
    <3>1. Left(tx[e], rx[Other(e)]) = 0
      BY <2>2, <2>3 DEF Left, Written, Read
    <3>2. <<>> \in [1 .. 0 -> Items] /\ \A i \in Int : i \notin 1 .. 0
      OBVIOUS
    <3>3. Read(rx[Other(e)]) = 0
      BY <2>3 DEF Read
    <3>4. QED
      BY <3>1, <3>2, <3>3 DEF OnWire
  <2>7. Conveys(e, cut)
    BY <2>2, <2>4, <2>5, <2>6 DEF Conveys, Direction
  <2>8. QED
    BY <2>7, Zenon DEF Carried
<1>4. QED
  BY <1>1, <1>2, <1>3, Zenon DEF IInv

LEMMA StepCarried ==
  ASSUME IInv, [Next]_vars
  PROVE  IInv'
<1>1. CASE UNCHANGED vars
  <2>1. UNCHANGED <<peer, got, eof, tx, rx, strm, task, tunnel>>
    BY <1>1, Zenon DEF vars
  <2>2. Failure' <=> Failure
    BY <2>1, SameFailure, Zenon
  <2>3. QED
    BY <2>1, <2>2, EndingSame, CarriedSame, Zenon DEF IInv, TypeOK
<1>2. CASE Cut
  <2>1. "server" \in Ends
    BY DEF Ends
  <2>2. QED
    BY <1>2, <2>1, PeersKeep, Zenon DEF Cut
<1>3. ASSUME NEW e \in Ends, Write(e) \/ Close(e) \/ Reset(e)
      PROVE  IInv'
  BY <1>3, PeersKeep, Zenon DEF Write, Close, Reset
<1>4. ASSUME NEW e \in Ends, TxStep(e)
      PROVE  IInv'
  BY <1>4, TxReadKeeps, TxPrefixKeeps, TxDataKeeps, TxEofKeeps, FailKeeps, Zenon DEF TxStep, TxFails
<1>5. ASSUME NEW e \in Ends, RxStep(e)
      PROVE  IInv'
  BY <1>5, RxPrefixKeeps, RxDataKeeps, RxWriteKeeps, RxEofKeeps, FailKeeps, Zenon DEF RxStep, RxFails
<1>6. ASSUME NEW e \in Ends, Joined(e) \/ Aborted(e)
      PROVE  IInv'
  BY <1>6, JoinedKeeps, FailKeeps, Zenon DEF Aborted
<1>7. QED
  BY <1>1, <1>2, <1>3, <1>4, <1>5, <1>6, Zenon DEF Next

-----------------------------------------------------------------------------
(* The steps of the bridge as steps of a pipe *)

Follows(g, bytes, sent) ==
  \E n \in 1 .. sent - Len(g) : bytes = [i \in 1 .. n |-> Len(g) + i]

\* What rx writes to the far peer are the bytes that follow, at least one, and
\* the near peer has written them.
LEMMA DeliverBytes ==
  ASSUME NEW cut \in [Nat -> Nat], NEW t \in TxStates, NEW s, NEW r \in RxStates, NEW g,
         NEW sent \in Nat, r.st = "write", t.taken <= sent, Direction(cut, t, s, r, g)
  PROVE  Follows(g, r.plain, sent)
<1>1. Cuts(cut, t) /\ Received(cut, t, r, g)
  BY Zenon DEF Direction
<1>2. PICK k \in Nat \ {0} : k = r.nonce
  BY Fields, Zenon
<1>3. /\ k <= t.nonce /\ k > 1
      /\ r.plain = Between(cut[k - 2], cut[k - 1])
      /\ g = Upto(cut[k - 2])
  BY <1>1, <1>2, Zenon DEF Received
<1>4. cut[k - 2] \in Nat /\ cut[k - 1] \in Nat /\ cut[k - 2] < cut[k - 1]
  BY <1>1, <1>3, CutsStep, Zenon
<1>5. cut[k - 1] <= t.taken
  <2>1. k - 1 \in Nat /\ k - 1 < t.nonce
    <3>1. k <= t.nonce /\ k > 1 /\ t.nonce \in Nat
      BY <1>3, Fields, Zenon
    <3>2. QED
      BY <3>1
  <2>2. QED
    BY <1>1, <2>1, CutsOrder, Zenon
<1>6. PICK a \in Nat, b \in Nat : a = cut[k - 2] /\ b = cut[k - 1]
  BY <1>4, Zenon
<1>7. a < b /\ b <= sent
  <2>1. t.taken \in Nat
    BY Fields, Zenon
  <2>2. QED
    BY <1>4, <1>5, <1>6, <2>1
<1>8. Len(g) = a
  BY <1>3, <1>6 DEF Upto
<1>9. r.plain = [i \in 1 .. b - a |-> a + i]
  BY <1>3, <1>6, Zenon DEF Between
<1>10. b - a \in 1 .. sent - a
  BY <1>7
<1>11. b - a \in 1 .. sent - Len(g) /\ r.plain = [i \in 1 .. b - a |-> Len(g) + i]
  BY <1>8, <1>9, <1>10, Zenon
<1>12. QED
  BY <1>11, Zenon DEF Follows

LEMMA AllRead ==
  ASSUME NEW t \in TxStates, NEW r \in RxStates, t.st = "done", r.st = "prefix", Left(t, r) = 0
  PROVE  r.nonce = t.nonce
<1>1. t.nonce \in Nat \ {0} /\ r.nonce \in Nat \ {0}
  BY Fields, Zenon
<1>2. Written(t) = 2 * (t.nonce - 1) /\ Read(r) = 2 * (r.nonce - 1)
  BY <1>1 DEF Written, Read
<1>3. Written(t) - Read(r) = 0
  BY Zenon DEF Left
<1>4. QED
  BY <1>1, <1>2, <1>3

\* The stream was finished and all of it has been read.
Drained(s) == s.st = "fin" /\ s.wire = <<>>

\* At the end of the stream of a tx that is done, everything has arrived.
LEMMA EndComplete ==
  ASSUME NEW cut \in [Nat -> Nat], NEW t \in TxStates, NEW s, NEW r \in RxStates, NEW g,
         t.st = "done", r.st = "prefix", Drained(s), Direction(cut, t, s, r, g)
  PROVE  Len(g) = t.taken
<1> USE DEF Drained
<1>1. Cuts(cut, t) /\ Received(cut, t, r, g) /\ OnWire(cut, t, s.wire, r)
  BY DEF Direction
<1>2. Left(t, r) = 0
  <2>1. PICK n \in Nat : n = Left(t, r)
    BY <1>1, Zenon DEF OnWire
  <2>2. <<>> \in [1 .. n -> Items]
    BY <1>1, <2>1, Zenon DEF OnWire
  <2>3. n = 0
    BY <2>2
  <2>4. QED
    BY <2>1, <2>3, Zenon
<1>3. t.nonce \in Nat \ {0} /\ r.nonce \in Nat \ {0} /\ t.taken \in Nat
  BY Fields, Zenon
<1>4. r.nonce = t.nonce
  BY <1>2, AllRead, Zenon
<1>5. g = Upto(t.taken)
  BY <1>1, <1>4 DEF Received, Cuts
<1>6. QED
  BY <1>3, <1>5 DEF Upto

\* A step that changes nothing of a direction but its failure, for good
LEMMA PipeFails ==
  ASSUME NEW e \in Ends, Failure',
         peer'[e].sent = peer[e].sent, got'[Other(e)] = got[Other(e)],
         eof'[Other(e)] = "fin" <=> eof[Other(e)] = "fin"
  PROVE  Pipe(e)!Next
BY Zenon DEF Pipe!Next, Pipe!Fail, Src

LEMMA PipeStutters ==
  ASSUME NEW e \in Ends, Failure' <=> Failure,
         peer'[e] = peer[e] \/ (Failure /\ peer'[e].sent = peer[e].sent), got'[Other(e)] = got[Other(e)],
         eof'[Other(e)] = "fin" <=> eof[Other(e)] = "fin"
  PROVE  UNCHANGED Pipe(e)!vars
BY Zenon DEF Pipe!vars, Src

LEMMA PipeDelivers ==
  ASSUME IInv, NEW e \in Ends, RxWrite(e), NEW o \in Ends, o = Other(e)
  PROVE  Pipe(o)!Next
<1>1. TypeOK /\ Ending(o) /\ Ending(e) /\ Carried(o) /\ Other(o) = e
  BY TwoEnds, Zenon DEF IInv
<1>2. rx[e].st = "write" /\ UNCHANGED <<peer, eof, tx, strm, task, tunnel, faults>>
  BY Zenon DEF RxWrite
<1>3. tx[o] \in TxStates /\ rx[e] \in RxStates /\ peer[o].sent \in Nat /\ tx[o].taken <= peer[o].sent
  BY <1>1, Parts DEF TypeOK, Ending
<1>4. PICK cut \in [Nat -> Nat] : Direction(cut, tx[o], strm[o], rx[e], got[e])
  BY <1>1, Zenon DEF Carried, Conveys
<1>5. Follows(got[e], rx[e].plain, peer[o].sent)
  BY <1>2, <1>3, <1>4, DeliverBytes, Zenon
<1>6. got'[e] = got[e] \o rx[e].plain
  <2>1. PICK g : g = got[e] \o rx[e].plain
    BY Zenon
  <2>2. got' = [got EXCEPT ![e] = g]
    BY <2>1, Zenon DEF RxWrite
  <2>3. QED
    BY <1>1, <2>1, <2>2, Zenon DEF TypeOK
<1>7. eof[e] # "fin"
  BY <1>1, <1>2 DEF Ending
<1>8. (Failure' <=> Failure) /\ Src(o)' = Src(o)
  BY <1>2, SameFailure, Zenon DEF Src
<1>9. Pipe(o)!Deliver
  <2>1. PICK n \in 1 .. peer[o].sent - Len(got[e]) :
          rx[e].plain = [i \in 1 .. n |-> Len(got[e]) + i]
    BY <1>5, Zenon DEF Follows
  <2>2. got'[e] = got[e] \o [i \in 1 .. n |-> Len(got[e]) + i]
    BY <1>6, <2>1, Zenon
  <2>3. QED
    BY <1>1, <1>2, <1>7, <1>8, <2>2, Zenon DEF Pipe!Deliver
<1>10. QED
  BY <1>9, Zenon DEF Pipe!Next

LEMMA PipeEnds ==
  ASSUME IInv, NEW e \in Ends, RxEof(e), NEW o \in Ends, o = Other(e)
  PROVE  Pipe(o)!Next
<1>1. TypeOK /\ Ending(o) /\ Ending(e) /\ Carried(o) /\ Other(o) = e
  BY TwoEnds, Zenon DEF IInv
<1>2. /\ rx[e].st = "prefix" /\ strm[o].wire = <<>> /\ strm[o].st = "fin"
      /\ UNCHANGED <<peer, got, tx, strm, task, tunnel, faults>>
  BY Zenon DEF RxEof, AtFin, In
<1>3. tx[o] \in TxStates /\ rx[e] \in RxStates
  BY <1>1, Parts, Zenon
<1>4. PICK cut \in [Nat -> Nat] : Direction(cut, tx[o], strm[o], rx[e], got[e])
  BY <1>1, Zenon DEF Carried, Conveys
<1>5. eof'[e] = "fin" /\ eof[e] # "fin"
  BY <1>1, <1>2 DEF Ending, RxEof, TypeOK
<1>6. (Failure' <=> Failure) /\ Src(o)' = Src(o)
  BY <1>2, SameFailure, Zenon DEF Src
<1>7. Src(o) = "failed" \/ (Src(o) = "closed" /\ Len(got[e]) = peer[o].sent)
  <2>1. CASE Failure
    BY <2>1, Zenon DEF Src
  <2>2. CASE ~Failure
    <3>1. tx[o].st = "done"
      BY <1>1, <1>2, <2>2, Zenon DEF Ending
    <3>2. peer[o].st # "open" /\ tx[o].taken = peer[o].sent
      BY <1>1, <3>1, Zenon DEF Ending
    <3>3. Len(got[e]) = tx[o].taken
      <4>1. rx[e].st = "prefix" /\ Drained(strm[o])
        BY <1>2, Zenon DEF Drained
      <4>2. QED
        BY <1>3, <1>4, <3>1, <4>1, EndComplete, Zenon
    <3>4. peer[o].st # "reset"
      BY <2>2, Zenon DEF Failure
    <3>5. peer[o].st \in {"open", "closed", "reset"}
      BY <1>1 DEF TypeOK
    <3>6. QED
      BY <2>2, <3>2, <3>3, <3>4, <3>5, Zenon DEF Src
  <2>3. QED
    BY <2>1, <2>2, Zenon
<1>8. Pipe(o)!End
  BY <1>1, <1>2, <1>5, <1>6, <1>7, Zenon DEF Pipe!End
<1>9. QED
  BY <1>8, Zenon DEF Pipe!Next

\* Each step of the bridge is a step of the pipe of each direction, or none.
LEMMA PipeStep ==
  ASSUME IInv, [Next]_vars, NEW d \in Ends
  PROVE  Pipe(d)!Next \/ UNCHANGED Pipe(d)!vars
<1>1. PICK o \in Ends : o = Other(d) /\ o # d /\ Other(o) = d
  BY TwoEnds, Zenon
<1>2. CASE UNCHANGED vars
  <2>1. UNCHANGED <<peer, got, eof, task, tunnel>>
    BY <1>2, Zenon DEF vars
  <2>2. QED
    BY <2>1, SameFailure, PipeStutters, Zenon
<1>3. CASE Cut
  <2>1. Failure' /\ UNCHANGED <<peer, got, eof>>
    BY <1>3, Zenon DEF Cut, Failure
  <2>2. QED
    BY <2>1, PipeFails, Zenon
<1>4. ASSUME NEW e \in Ends, Write(e) PROVE Pipe(d)!Next \/ UNCHANGED Pipe(d)!vars
  <2>1. UNCHANGED <<got, eof, tx, rx, strm, task, tunnel>> /\ peer[e].st = "open"
    BY <1>4, Zenon DEF Write
  <2>2. Failure' <=> Failure
    BY <1>4, <2>1, PeersKeep, Zenon
  <2>3. peer \in [Ends -> [sent : Nat, st : {"open", "closed", "reset"}]]
    BY Zenon DEF IInv, TypeOK
  <2>4. CASE d = e
    <3>1. peer'[e].sent = peer[e].sent + 1 /\ peer'[e].st = peer[e].st
      BY <1>4, <2>3 DEF Write
    <3>2. Src(e) # "closed" /\ Src(e)' = Src(e)
      BY <2>1, <2>2, <3>1 DEF Src
    <3>3. Pipe(e)!Write
      BY <2>1, <3>1, <3>2, Zenon DEF Pipe!Write
    <3>4. QED
      BY <2>4, <3>3, Zenon DEF Pipe!Next
  <2>5. CASE d # e
    <3>1. peer'[d] = peer[d]
      BY <1>4, <2>3, <2>5 DEF Write
    <3>2. QED
      BY <2>1, <2>2, <3>1, PipeStutters, Zenon
  <2>6. QED
    BY <2>4, <2>5, Zenon
<1>5. ASSUME NEW e \in Ends, Close(e) PROVE Pipe(d)!Next \/ UNCHANGED Pipe(d)!vars
  <2>1. UNCHANGED <<got, eof, tx, rx, strm, task, tunnel>> /\ peer[e].st = "open"
    BY <1>5, Zenon DEF Close
  <2>2. Failure' <=> Failure
    BY <1>5, <2>1, PeersKeep, Zenon
  <2>3. peer \in [Ends -> [sent : Nat, st : {"open", "closed", "reset"}]]
    BY Zenon DEF IInv, TypeOK
  <2>4. peer'[e].sent = peer[e].sent /\ peer'[e].st = "closed"
    BY <1>5, <2>3 DEF Close
  <2>5. CASE d = e /\ ~Failure
    <3>1. Src(e) = "open" /\ Src(e)' = "closed"
      BY <2>1, <2>2, <2>4, <2>5, Zenon DEF Src
    <3>2. Pipe(e)!Close
      BY <2>1, <2>4, <3>1, Zenon DEF Pipe!Close
    <3>3. QED
      BY <2>5, <3>2, Zenon DEF Pipe!Next
  <2>6. CASE d = e /\ Failure
    BY <2>1, <2>2, <2>4, <2>6, PipeStutters, Zenon
  <2>7. CASE d # e
    <3>1. peer'[d] = peer[d]
      BY <1>5, <2>3, <2>7 DEF Close
    <3>2. QED
      BY <2>1, <2>2, <3>1, PipeStutters, Zenon
  <2>8. QED
    BY <2>5, <2>6, <2>7, Zenon
<1>6. ASSUME NEW e \in Ends, Reset(e) PROVE Pipe(d)!Next
  <2>1. UNCHANGED <<got, eof, tx, rx, strm, task, tunnel>>
    BY <1>6, Zenon DEF Reset
  <2>2. Failure'
    BY <1>6, <2>1, PeersKeep, Zenon
  <2>3. peer'[d].sent = peer[d].sent
    <3>1. peer \in [Ends -> [sent : Nat, st : {"open", "closed", "reset"}]]
      BY Zenon DEF IInv, TypeOK
    <3>2. QED
      BY <1>6, <3>1 DEF Reset
  <2>4. QED
    BY <2>1, <2>2, <2>3, PipeFails, Zenon
<1>7. ASSUME NEW e \in Ends, Fail(e) PROVE Pipe(d)!Next
  <2>1. Failure' /\ UNCHANGED <<peer, got>>
    BY <1>7, FailKeeps, Zenon DEF Fail
  <2>2. eof'[o] = "fin" <=> eof[o] = "fin"
    BY <1>7, LetGoFields, Zenon DEF Fail, IInv
  <2>3. QED
    BY <1>1, <2>1, <2>2, PipeFails, Zenon
<1>8. ASSUME NEW e \in Ends, Joined(e) PROVE UNCHANGED Pipe(d)!vars
  <2>1. (Failure' <=> Failure) /\ UNCHANGED <<peer, got>>
    BY <1>8, JoinedKeeps, Zenon DEF Joined
  <2>2. eof'[o] = "fin" <=> eof[o] = "fin"
    BY <1>8, LetGoFields, Zenon DEF Joined, IInv
  <2>3. QED
    BY <1>1, <2>1, <2>2, PipeStutters, Zenon
<1>9. ASSUME NEW e \in Ends,
             TxRead(e) \/ TxPrefix(e) \/ TxData(e) \/ TxEof(e) \/ RxPrefix(e) \/ RxData(e)
      PROVE  UNCHANGED Pipe(d)!vars
  <2>1. UNCHANGED <<peer, got, eof, task, tunnel>>
    BY <1>9, Zenon DEF TxRead, TxPrefix, TxData, TxEof, RxPrefix, RxData
  <2>2. QED
    BY <2>1, SameFailure, PipeStutters, Zenon
<1>10. ASSUME NEW e \in Ends, RxWrite(e) PROVE Pipe(d)!Next \/ UNCHANGED Pipe(d)!vars
  <2>1. CASE e = o
    BY <1>1, <1>10, <2>1, PipeDelivers, Zenon
  <2>2. CASE e = d
    <3>1. UNCHANGED <<peer, eof, task, tunnel>>
      BY <1>10, Zenon DEF RxWrite
    <3>2. got'[o] = got[o]
      BY <1>1, <1>10, <2>2, Zenon DEF RxWrite, IInv, TypeOK
    <3>3. QED
      BY <1>1, <3>1, <3>2, SameFailure, PipeStutters, Zenon
  <2>3. QED
    BY <1>1, <2>1, <2>2, TwoEnds, Zenon
<1>11. ASSUME NEW e \in Ends, RxEof(e) PROVE Pipe(d)!Next \/ UNCHANGED Pipe(d)!vars
  <2>1. CASE e = o
    BY <1>1, <1>11, <2>1, PipeEnds, Zenon
  <2>2. CASE e = d
    <3>1. UNCHANGED <<peer, got, task, tunnel>>
      BY <1>11, Zenon DEF RxEof
    <3>2. eof'[o] = eof[o]
      BY <1>1, <1>11, <2>2, Zenon DEF RxEof, IInv, TypeOK
    <3>3. QED
      BY <1>1, <3>1, <3>2, SameFailure, PipeStutters, Zenon
  <2>3. QED
    BY <1>1, <2>1, <2>2, TwoEnds, Zenon
<1>12. ASSUME NEW e \in Ends, TxStep(e) \/ RxStep(e) \/ Joined(e) \/ Aborted(e)
       PROVE  Pipe(d)!Next \/ UNCHANGED Pipe(d)!vars
  BY <1>7, <1>8, <1>9, <1>10, <1>11, <1>12, Zenon
  DEF TxStep, RxStep, TxFails, RxFails, Aborted
<1>13. QED
  BY <1>2, <1>3, <1>4, <1>5, <1>6, <1>12, Zenon DEF Next

-----------------------------------------------------------------------------

\* Between the two peers of a bridged connection nothing is lost, repeated or
\* reordered, and an end is not made up, for every MaxBytes, BufLen and Window:
\* both directions of `bridge` (crypto.rs) implement BytePipe.
THEOREM BridgeIsPipe == Spec => ImplementsPipe
<1>1. Spec => []IInv
  BY InitCarried, StepCarried, PTL DEF Spec
<1>2. Init => FromServer!Init /\ FromClient!Init
  BY DEF Init, FromServer!Init, FromClient!Init, Src, Failure, Ends
<1>3. IInv /\ [Next]_vars => [FromServer!Next]_(FromServer!vars)
  <2>1. SUFFICES ASSUME IInv, [Next]_vars
                 PROVE  FromServer!Next \/ UNCHANGED FromServer!vars
    OBVIOUS
  <2>2. "server" \in Ends /\ Other("server") = "client"
    BY DEF Ends, Other
  <2>3. Pipe("server")!Next \/ UNCHANGED Pipe("server")!vars
    BY <2>1, <2>2, PipeStep, Zenon
  <2>4. QED
    BY <2>2, <2>3, Zenon
    DEF Pipe!Next, Pipe!vars, Pipe!Write, Pipe!Close, Pipe!Fail, Pipe!Deliver, Pipe!End,
        FromServer!Next, FromServer!vars, FromServer!Write, FromServer!Close,
        FromServer!Fail, FromServer!Deliver, FromServer!End
<1>4. IInv /\ [Next]_vars => [FromClient!Next]_(FromClient!vars)
  <2>1. SUFFICES ASSUME IInv, [Next]_vars
                 PROVE  FromClient!Next \/ UNCHANGED FromClient!vars
    OBVIOUS
  <2>2. "client" \in Ends /\ Other("client") = "server"
    BY DEF Ends, Other
  <2>3. Pipe("client")!Next \/ UNCHANGED Pipe("client")!vars
    BY <2>1, <2>2, PipeStep, Zenon
  <2>4. QED
    BY <2>2, <2>3, Zenon
    DEF Pipe!Next, Pipe!vars, Pipe!Write, Pipe!Close, Pipe!Fail, Pipe!Deliver, Pipe!End,
        FromClient!Next, FromClient!vars, FromClient!Write, FromClient!Close,
        FromClient!Fail, FromClient!Deliver, FromClient!End
<1>5. QED
  BY <1>1, <1>2, <1>3, <1>4, PTL DEF Spec, ImplementsPipe, FromServer!Spec, FromClient!Spec
=============================================================================
