------------------------ MODULE DatagramCryptoProofs ------------------------
(***************************************************************************)
(* The bitmap of ReplayWindow represents exactly the recorded nonces, and  *)
(* the datagram channel opens every datagram at most once, refuses none    *)
(* without reason and never reuses a nonce: for every number of words and  *)
(* bits and every budget.                                                  *)
(***************************************************************************)
EXTENDS DatagramCrypto, TLAPS

-----------------------------------------------------------------------------
(* Arithmetic the provers do not find by themselves. *)

\* Multiplication as an uninterpreted operator: what follows needs these facts
\* about it and no others.
Times(x, y) == x * y

LEMMA TimesType ==
  ASSUME NEW x \in Nat, NEW y \in Nat
  PROVE  Times(x, y) \in Nat
BY DEF Times

LEMMA TimesAssoc ==
  ASSUME NEW x \in Nat, NEW y \in Nat, NEW z \in Nat
  PROVE  Times(Times(x, y), z) = Times(y, Times(x, z))
BY DEF Times

LEMMA TimesDistributes ==
  ASSUME NEW x \in Nat, NEW y \in Nat, NEW z \in Nat
  PROVE  Times(z, x) + Times(z, y) = Times(z, x + y)
BY DEF Times

LEMMA TimesMonotone ==
  ASSUME NEW x \in Nat, NEW y \in Nat, NEW b \in Nat, x <= y
  PROVE  Times(b, x) <= Times(b, y)
BY DEF Times

\* Multiples of b that are not equal are at least b apart.
LEMMA MultiplesApart ==
  ASSUME NEW b \in Nat, NEW q \in Nat, NEW p \in Nat, q < p
  PROVE  Times(b, q) + b <= Times(b, p)
<1>1. Times(b, q + 1) <= Times(b, p) BY TimesMonotone
<1>2. Times(b, q + 1) = Times(b, q) + b BY DEF Times
<1> QED BY <1>1, <1>2

\* r is a's residue modulo b and q its quotient
Division(a, b, q, r) == q = a \div b /\ r = a % b /\ a = Times(b, q) + r

LEMMA DivisionExists ==
  ASSUME NEW a \in Nat, NEW b \in Nat \ {0}
  PROVE  \E q \in Nat, r \in 0 .. b - 1 : Division(a, b, q, r)
<1>1. a \div b \in Nat /\ a % b \in 0 .. b - 1 OBVIOUS
<1>2. a = Times(b, a \div b) + (a % b) BY DEF Times
<1>3. Division(a, b, a \div b, a % b) BY <1>2, Zenon DEF Division
<1> QED BY <1>1, <1>3, Zenon

LEMMA ResidueUnique ==
  ASSUME NEW b \in Nat \ {0},
         NEW q \in Nat, NEW r \in 0 .. b - 1,
         NEW p \in Nat, NEW s \in 0 .. b - 1,
         Times(b, q) + r = Times(b, p) + s
  PROVE  r = s
<1>1. ~(q < p) BY MultiplesApart, TimesType
<1>2. ~(p < q) BY MultiplesApart, TimesType
<1>3. p = q BY <1>1, <1>2
<1>4. Times(b, q) \in Nat BY TimesType
<1> QED BY <1>3, <1>4

\* Reducing modulo a multiple of b first does not change the residue modulo b:
\* n % 64 is the bit of n within the word (n % 1024) / 64.
LEMMA ResidueOfResidue ==
  ASSUME NEW a \in Nat, NEW w \in Nat \ {0}, NEW b \in Nat \ {0}
  PROVE  (a % (w * b)) % b = a % b
<1> DEFINE W == w * b
<1>1. W \in Nat \ {0} /\ W = Times(w, b) BY DEF Times
<1> HIDE DEF W
<1>2. PICK k \in Nat, c \in 0 .. W - 1 : Division(a, W, k, c)
  BY <1>1, DivisionExists, Zenon
<1>3. c \in Nat BY <1>1
<1>4. PICK d \in Nat, r \in 0 .. b - 1 : Division(c, b, d, r)
  BY <1>3, DivisionExists, Zenon
<1>5. PICK e \in Nat, s \in 0 .. b - 1 : Division(a, b, e, s)
  BY DivisionExists, Zenon
<1>6. /\ a = Times(W, k) + c
      /\ c = Times(b, d) + r
      /\ a = Times(b, e) + s
  BY <1>2, <1>4, <1>5, Zenon DEF Division
<1>7. Times(W, k) = Times(b, Times(w, k)) BY <1>1, TimesAssoc
<1>8. Times(b, Times(w, k)) + Times(b, d) = Times(b, Times(w, k) + d)
  BY TimesDistributes, TimesType, Zenon
<1>9. Times(w, k) + d \in Nat
  <2>1. Times(w, k) \in Nat BY TimesType, Zenon
  <2> QED BY <2>1
<1>10. Times(W, k) \in Nat /\ Times(b, d) \in Nat /\ Times(b, Times(w, k) + d) \in Nat
  BY <1>1, <1>9, TimesType
<1>11. a = Times(b, Times(w, k) + d) + r
  BY <1>3, <1>6, <1>7, <1>8, <1>10
<1>12. r = s BY <1>6, <1>9, <1>11, ResidueUnique
<1>13. c = a % W /\ r = c % b /\ s = a % b
  BY <1>2, <1>4, <1>5, Zenon DEF Division
<1> QED BY <1>12, <1>13, Zenon DEF W

-----------------------------------------------------------------------------
(* Slots of the bitmap. *)

SameSlot(m, n) == Word(m) = Word(n) /\ Bit(m) = Bit(n)

LEMMA Sizes ==
  /\ Words \in Nat \ {0}
  /\ Bits \in Nat \ {0}
  /\ Window \in Nat \ {0}
  /\ Window = Times(Bits, Words)
BY WindowAssumption DEF Window, Times

\* The slot of a nonce exists: the index into `seen` is within the array.
LEMMA SlotType ==
  ASSUME NEW n \in Nat
  PROVE  Word(n) \in WordIds /\ Bit(n) \in BitIds
<1>1. PICK k \in Nat, x \in 0 .. Window - 1 : Division(n, Window, k, x)
  BY Sizes, DivisionExists, Zenon
<1>2. x \in Nat /\ x < Window BY Sizes, <1>1
<1>3. PICK q \in Nat, r \in 0 .. Bits - 1 : Division(x, Bits, q, r)
  BY Sizes, <1>2, DivisionExists, Zenon
<1>4. x = Times(Bits, q) + r BY <1>3, Zenon DEF Division
<1>5. q < Words
  <2>1. q >= Words => Times(Bits, Words) <= Times(Bits, q)
    BY Sizes, TimesMonotone
  <2>2. Times(Bits, q) \in Nat BY Sizes, TimesType, Zenon
  <2> QED BY Sizes, <1>2, <1>4, <2>1, <2>2
<1>6. Word(n) = q BY <1>1, <1>3, Zenon DEF Division, Word
<1>7. PICK j \in Nat, b \in 0 .. Bits - 1 : Division(n, Bits, j, b)
  BY Sizes, DivisionExists, Zenon
<1>8. Bit(n) = b BY <1>7, Zenon DEF Division, Bit
<1> QED BY Sizes, <1>5, <1>6, <1>8 DEF WordIds, BitIds

\* Two nonces that share a slot are congruent modulo the window.
LEMMA SlotCongruent ==
  ASSUME NEW m \in Nat, NEW n \in Nat, SameSlot(m, n)
  PROVE  m % Window = n % Window
<1>1. \A a \in Nat : a % Window = Times(Bits, Word(a)) + Bit(a)
  <2> SUFFICES ASSUME NEW a \in Nat
               PROVE  a % Window = Times(Bits, Word(a)) + Bit(a)
    BY Zenon
  <2>1. PICK k \in Nat, x \in 0 .. Window - 1 : Division(a, Window, k, x)
    BY Sizes, DivisionExists, Zenon
  <2>2. x \in Nat BY Sizes
  <2>3. PICK q \in Nat, r \in 0 .. Bits - 1 : Division(x, Bits, q, r)
    BY Sizes, <2>2, DivisionExists, Zenon
  <2>4. (a % Window) % Bits = a % Bits
    BY Sizes, ResidueOfResidue, Zenon DEF Window
  <2> QED BY <2>1, <2>3, <2>4, Zenon DEF Division, Word, Bit
<1> QED BY <1>1, Zenon DEF SameSlot

\* Two different nonces less than a window apart never share a slot.
LEMMA SlotUnique ==
  ASSUME NEW m \in Nat, NEW n \in Nat, m <= n, n - m < Window, SameSlot(m, n)
  PROVE  m = n
<1>1. PICK p \in Nat, r \in 0 .. Window - 1 : Division(m, Window, p, r)
  BY Sizes, DivisionExists, Zenon
<1>2. PICK q \in Nat, s \in 0 .. Window - 1 : Division(n, Window, q, s)
  BY Sizes, DivisionExists, Zenon
<1>3. /\ r = s
      /\ m = Times(Window, p) + r
      /\ n = Times(Window, q) + s
  BY <1>1, <1>2, SlotCongruent, Zenon DEF Division
<1>4. Times(Window, p) \in Nat /\ Times(Window, q) \in Nat
  BY Sizes, TimesType, Zenon
<1>5. ~(p < q) BY Sizes, <1>3, <1>4, MultiplesApart
<1>6. ~(q < p) BY Sizes, <1>3, <1>4, MultiplesApart
<1>7. p = q BY <1>5, <1>6
<1> QED BY <1>3, <1>7

\* Nonces within a window of h share a slot only if they are the same nonce.
LEMMA SlotInWindow ==
  ASSUME NEW h \in Nat, NEW m \in 0 .. h, NEW n \in 0 .. h,
         h - m < Window, h - n < Window
  PROVE  SameSlot(m, n) <=> m = n
<1>1. m <= n \/ n <= m OBVIOUS
<1>2. (m <= n => n - m < Window) /\ (n <= m => m - n < Window) BY Sizes
<1>3. SameSlot(m, n) => SameSlot(n, m) BY DEF SameSlot
<1>4. m = n => SameSlot(m, n) BY DEF SameSlot
<1> QED BY <1>1, <1>2, <1>3, <1>4, SlotUnique

-----------------------------------------------------------------------------
(* acceptable and record *)

SeenType == [WordIds -> SUBSET BitIds]

LEMMA MarkOne ==
  ASSUME NEW seen \in SeenType, NEW m \in Nat, NEW n \in Nat
  PROVE  LET marked == [seen EXCEPT ![Word(n)] = @ \cup {Bit(n)}]
         IN  /\ marked \in SeenType
             /\ Marked(marked, m) <=> Marked(seen, m) \/ SameSlot(m, n)
BY SlotType DEF SeenType, Marked, SameSlot

LEMMA ClearRange ==
  ASSUME NEW seen \in SeenType, NEW R \in SUBSET Nat, NEW m \in Nat
  PROVE  /\ Cleared(seen, R) \in SeenType
         /\ Marked(Cleared(seen, R), m) <=>
              Marked(seen, m) /\ ~\E y \in R : SameSlot(m, y)
BY SlotType DEF SeenType, Marked, SameSlot, Cleared

LEMMA SlideType ==
  ASSUME NEW r \in ReplayWindowType, NEW n \in Nat
  PROVE  Slide(r, n) \in SeenType
<1>1. r.seen \in SeenType /\ EmptyWindow.seen \in SeenType
  BY DEF ReplayWindowType, SeenType, EmptyWindow
<1>2. CASE r.highest = None \/ n <= r.highest BY <1>1, <1>2 DEF Slide
<1>3. CASE ~(r.highest = None \/ n <= r.highest)
  <2>1. r.highest + 1 .. n \in SUBSET Nat BY <1>3 DEF ReplayWindowType
  <2> QED BY <1>1, <1>3, <2>1, ClearRange, Zenon DEF Slide
<1> QED BY <1>2, <1>3

\* record() keeps the type of the window.
LEMMA RecordType ==
  ASSUME NEW r \in ReplayWindowType, NEW n \in Nat
  PROVE  record(r, n) \in ReplayWindowType
BY SlideType, MarkOne, Zenon DEF record, ReplayWindowType, SeenType

LEMMA RecordMarks ==
  ASSUME NEW r \in ReplayWindowType, NEW n \in Nat, NEW m \in Nat
  PROVE  Marked(record(r, n).seen, m) <=> Marked(Slide(r, n), m) \/ SameSlot(m, n)
BY SlideType, MarkOne DEF record

LEMMA EmptyUnmarked ==
  ASSUME NEW m \in Nat
  PROVE  ~Marked(EmptyWindow.seen, m)
BY SlotType DEF EmptyWindow, Marked

\* record() of an acceptable nonce adds exactly that nonce to the represented
\* set: bits of an earlier lap are cleared, and no bit of the window is lost.
THEOREM RecordRepresents ==
  ASSUME NEW r \in ReplayWindowType, NEW S \in SUBSET Nat, NEW n \in Nat,
         Represents(r, S), acceptable(r, n)
  PROVE  Represents(record(r, n), S \cup {n})
<1> DEFINE h == record(r, n).highest
<1>1. h \in Nat /\ h \in S \cup {n} /\ \A m \in S \cup {n} : m <= h
  BY DEF record, Represents, ReplayWindowType, None
<1> SUFFICES ASSUME NEW m \in 0 .. h, h - m < Window
             PROVE  Marked(record(r, n).seen, m) <=> m \in S \cup {n}
  BY <1>1 DEF Represents, None
<1>2. m \in Nat /\ n <= h BY <1>1
<1>3. SUFFICES Marked(Slide(r, n), m) \/ SameSlot(m, n) <=> m \in S \cup {n}
  BY <1>2, RecordMarks
<1>4. CASE r.highest = None
  <2>1. h = n /\ S = {} /\ Slide(r, n) = EmptyWindow.seen
    BY <1>4 DEF record, Slide, Represents
  <2>2. SameSlot(m, n) <=> m = n BY <1>1, <2>1, SlotInWindow, Sizes
  <2> QED BY <1>2, <2>1, <2>2, EmptyUnmarked
<1>5. CASE r.highest # None /\ n > r.highest /\ n - r.highest >= Window
  <2>1. h = n /\ Slide(r, n) = EmptyWindow.seen
    BY <1>5 DEF record, Slide, ReplayWindowType
  <2>2. SameSlot(m, n) <=> m = n BY <1>1, <2>1, SlotInWindow, Sizes
  <2>3. m \notin S
    BY <1>1, <1>5, <2>1, Sizes DEF Represents, ReplayWindowType
  <2> QED BY <1>2, <2>1, <2>2, <2>3, EmptyUnmarked
<1>6. CASE r.highest # None /\ n > r.highest /\ n - r.highest < Window
  <2>1. h = n BY <1>6 DEF record
  <2>2. SameSlot(m, n) <=> m = n
    <3>1. m \in 0 .. n /\ n \in 0 .. n /\ n - m < Window /\ n - n < Window
      BY <1>1, <2>1, Sizes
    <3> QED BY <3>1, SlotInWindow, Zenon
  <2> DEFINE R == r.highest + 1 .. n
  <2>3. R \in SUBSET Nat /\ r.seen \in SeenType
    BY <1>6 DEF ReplayWindowType, SeenType
  <2>4. Slide(r, n) = Cleared(r.seen, R)
    BY <1>6, Sizes DEF Slide, ReplayWindowType
  <2>5. Marked(Slide(r, n), m) <=>
          Marked(r.seen, m) /\ ~\E y \in R : SameSlot(m, y)
    <3> HIDE DEF R
    <3> QED BY <1>2, <2>3, <2>4, ClearRange, ZenonT(30)
  <2>6. ASSUME NEW y \in R PROVE SameSlot(m, y) <=> m = y
    BY <1>1, <1>6, <2>1, SlotInWindow, Sizes DEF ReplayWindowType
  <2>7. CASE m <= r.highest
    <3>1. r.highest - m < Window /\ m \in 0 .. r.highest
      BY <1>2, <1>6, <2>1, <2>7, Sizes DEF ReplayWindowType
    <3>2. Marked(r.seen, m) <=> m \in S BY <3>1 DEF Represents
    <3>3. m \notin R /\ m # n BY <1>6, <2>7 DEF ReplayWindowType
    <3> QED BY <2>2, <2>5, <2>6, <3>2, <3>3
  <2>8. CASE m > r.highest
    <3>1. m \in R BY <1>2, <1>6, <2>1, <2>8 DEF ReplayWindowType
    <3>2. m \notin S BY <1>6, <2>8 DEF Represents, ReplayWindowType
    <3> QED BY <2>2, <2>5, <2>6, <3>1, <3>2
  <2> QED BY <1>2, <1>6, <2>7, <2>8 DEF ReplayWindowType
<1>7. CASE r.highest # None /\ ~(n > r.highest)
  <2>1. h = r.highest /\ Slide(r, n) = r.seen
    BY <1>7 DEF record, Slide, ReplayWindowType
  <2>2. h - n < Window BY <1>7, <2>1 DEF acceptable
  <2>3. SameSlot(m, n) <=> m = n BY <1>1, <1>2, <2>2, SlotInWindow, Sizes
  <2>4. Marked(r.seen, m) <=> m \in S BY <2>1 DEF Represents
  <2> QED BY <2>1, <2>3, <2>4
<1> QED BY <1>4, <1>5, <1>6, <1>7, Sizes DEF ReplayWindowType

\* acceptable() answers for the represented set: a nonce is refused exactly if
\* it was recorded or is a window or more behind the greatest recorded nonce.
THEOREM AcceptableExact ==
  ASSUME NEW r \in ReplayWindowType, NEW S \in SUBSET Nat, NEW n \in Nat,
         Represents(r, S)
  PROVE  acceptable(r, n) <=> n \notin S /\ \A m \in S : m - n < Window
<1>1. CASE r.highest = None BY <1>1 DEF acceptable, Represents
<1>2. CASE r.highest # None /\ n > r.highest
  BY <1>2, Sizes DEF acceptable, Represents, ReplayWindowType
<1>3. CASE r.highest # None /\ ~(n > r.highest)
  <2>1. r.highest \in Nat /\ n \in 0 .. r.highest
    BY <1>3 DEF ReplayWindowType
  <2>2. acceptable(r, n) <=> r.highest - n < Window /\ ~Marked(r.seen, n)
    BY <1>3 DEF acceptable
  <2>3. r.highest - n < Window => (Marked(r.seen, n) <=> n \in S)
    BY <2>1 DEF Represents
  <2>4. r.highest - n < Window <=> \A m \in S : m - n < Window
    BY <1>3, <2>1, Sizes DEF Represents
  <2> QED BY <2>2, <2>3, <2>4
<1> QED BY <1>1, <1>2, <1>3

-----------------------------------------------------------------------------
(* The channel *)

LEMMA OpenedType ==
  ASSUME TypeOK
  PROVE  Opened \in SUBSET Nat
BY BudgetAssumption DEF TypeOK, Opened, Nonces

LEMMA InitInv == Init => IndInv
<1> SUFFICES ASSUME Init PROVE IndInv OBVIOUS
<1>1. TypeOK
  BY BudgetAssumption
  DEF Init, TypeOK, Nonces, Results, ReplayWindowType, EmptyWindow
<1>2. wire = 0 .. next - 1 BY DEF Init
<1>3. AtMostOnce BY DEF Init, AtMostOnce
<1>4. Represents(replay, Opened)
  BY DEF Init, Represents, Opened, EmptyWindow, None
<1> QED BY <1>1, <1>2, <1>3, <1>4 DEF IndInv

\* The log entry a successful open() appends.
LEMMA OpenedAppend ==
  ASSUME TypeOK, NEW n \in Nonces, opened' = Append(opened, n)
  PROVE  /\ opened' \in Seq(Nonces)
         /\ Opened' = Opened \cup {n}
         /\ n \notin Opened /\ AtMostOnce => AtMostOnce'
<1>1. opened \in Seq(Nonces) BY DEF TypeOK
<1>2. /\ opened' \in Seq(Nonces)
      /\ Len(opened') = Len(opened) + 1
      /\ Len(opened) \in Nat
      /\ \A i \in 1 .. Len(opened) : opened'[i] = opened[i]
      /\ opened'[Len(opened) + 1] = n
  BY <1>1
<1>3. 1 .. Len(opened') = 1 .. Len(opened) \cup {Len(opened) + 1} BY <1>2
<1>4. Opened' = Opened \cup {n} BY <1>2, <1>3 DEF Opened
<1>5. ASSUME n \notin Opened, AtMostOnce PROVE AtMostOnce'
  <2> SUFFICES ASSUME NEW i \in 1 .. Len(opened'), NEW j \in 1 .. Len(opened'),
                      opened'[i] = opened'[j]
               PROVE  i = j
    BY DEF AtMostOnce
  <2> QED BY <1>2, <1>3, <1>5 DEF AtMostOnce, Opened
<1> QED BY <1>2, <1>4, <1>5

LEMMA NextInv == IndInv /\ [Next]_vars => IndInv'
<1> SUFFICES ASSUME IndInv, [Next]_vars PROVE IndInv' OBVIOUS
<1> USE DEF IndInv
<1>1. CASE Seal
  <2>1. TypeOK' BY <1>1, BudgetAssumption DEF Seal, TypeOK, Nonces, Results
  <2>2. wire' = 0 .. next' - 1 BY <1>1 DEF Seal, TypeOK
  <2>3. AtMostOnce' /\ Represents(replay, Opened)'
    BY <1>1 DEF Seal, AtMostOnce, Opened
  <2> QED BY <2>1, <2>2, <2>3
<1>2. ASSUME UNCHANGED <<next, wire, replay, opened>>, result' \in Results
      PROVE  IndInv'
  BY <1>2 DEF TypeOK, AtMostOnce, Opened
<1>3. CASE SealExhausted BY <1>2, <1>3 DEF SealExhausted, Results
<1>4. CASE OpenShort BY <1>2, <1>4 DEF OpenShort, Results
<1>5. CASE \E n \in 0 .. Budget : OpenStale(n) \/ OpenForged(n)
  BY <1>2, <1>5 DEF OpenStale, OpenForged, Results
<1>6. CASE \E n \in wire : OpenValid(n)
  <2>1. PICK n \in wire : OpenValid(n) BY <1>6
  <2>2. n \in Nonces /\ n \in Nat BY BudgetAssumption DEF TypeOK, Nonces
  <2>3. acceptable(replay, n) BY <2>1 DEF OpenValid, Passes
  <2>4. replay \in ReplayWindowType /\ Opened \in SUBSET Nat
    BY OpenedType DEF TypeOK
  <2>5. n \notin Opened BY <2>2, <2>3, <2>4, AcceptableExact
  <2>6. /\ opened' \in Seq(Nonces)
        /\ Opened' = Opened \cup {n}
        /\ AtMostOnce'
    BY <2>1, <2>2, <2>5, OpenedAppend DEF OpenValid
  <2>7. replay' \in ReplayWindowType
    BY <2>1, <2>2, <2>4, RecordType DEF OpenValid
  <2>8. Represents(replay, Opened)'
    BY <2>1, <2>2, <2>3, <2>4, <2>6, RecordRepresents DEF OpenValid
  <2>9. TypeOK' BY <2>1, <2>6, <2>7 DEF OpenValid, TypeOK, Results
  <2> QED BY <2>1, <2>6, <2>8, <2>9 DEF OpenValid
<1>7. CASE UNCHANGED vars BY <1>2, <1>7 DEF vars, TypeOK
<1> QED BY <1>1, <1>3, <1>4, <1>5, <1>6, <1>7 DEF Next

\* The inductive invariant holds of every reachable state.
THEOREM Invariance == Spec => []IndInv
BY InitInv, NextInv, PTL DEF Spec

\* Every variable keeps its type; in particular `next` never passes the budget.
THEOREM TypeCorrect == Spec => []TypeOK
<1>1. IndInv => TypeOK BY DEF IndInv
<1> QED BY <1>1, Invariance, PTL

\* open() never returns the same datagram twice.
THEOREM OpenedAtMostOnce == Spec => []AtMostOnce
<1>1. IndInv => AtMostOnce BY DEF IndInv
<1> QED BY <1>1, Invariance, PTL

\* open() refuses a genuine datagram only if it was opened before or is a whole
\* window behind one that was.
THEOREM NeverFalselyRejected == Spec => []NoFalseReject
<1>1. IndInv => NoFalseReject
  <2> SUFFICES ASSUME IndInv, NEW n \in wire,
                      \A i \in 1 .. Len(opened) :
                        opened[i] # n /\ opened[i] - n < Window
               PROVE  Passes(n)
    BY DEF NoFalseReject
  <2>1. n \in Nat /\ n < Budget BY BudgetAssumption DEF IndInv, TypeOK, Nonces
  <2>2. Opened \in SUBSET Nat /\ replay \in ReplayWindowType
    BY OpenedType DEF IndInv, TypeOK
  <2>3. n \notin Opened /\ \A m \in Opened : m - n < Window BY DEF Opened
  <2>4. acceptable(replay, n) BY <2>1, <2>2, <2>3, AcceptableExact DEF IndInv
  <2> QED BY <2>1, <2>4 DEF Passes
<1> QED BY <1>1, Invariance, PTL

\* seal() never uses a nonce a second time under the same key.
THEOREM NoncesFresh == Spec => NonceNeverReused
<1>1. IndInv /\ [Next]_vars => [next' # next => next \notin wire]_vars
  BY DEF IndInv, TypeOK
<1> QED BY <1>1, Invariance, PTL DEF Spec, NonceNeverReused

\* The bitmap implements the abstract anti-replay log: what open() accepts, in
\* its order, is a behaviour of AntiReplay with a span of one window.
THEOREM RefinesAntiReplay == Spec => ImplementsAntiReplay
<1>1. Init => AR!Init BY DEF Init, AR!Init
<1>2. IndInv /\ [Next]_vars => [AR!Next]_opened
  <2> SUFFICES ASSUME IndInv, Next, opened' # opened PROVE AR!Next
    BY DEF vars
  <2>1. PICK n \in wire : OpenValid(n)
    BY DEF Next, Seal, SealExhausted, OpenShort, OpenStale, OpenForged
  <2>2. n \in Nonces /\ n \in Nat
    BY BudgetAssumption DEF IndInv, TypeOK, Nonces
  <2>3. Opened \in SUBSET Nat /\ replay \in ReplayWindowType
    BY OpenedType DEF IndInv, TypeOK
  <2>4. n \notin Opened /\ \A m \in Opened : m - n < Window
    BY <2>1, <2>2, <2>3, AcceptableExact DEF IndInv, OpenValid, Passes
  <2>5. AR!Accept(n) BY <2>1, <2>4 DEF AR!Accept, OpenValid, Opened
  <2> QED BY <2>2, <2>5 DEF AR!Next, Nonces
<1> QED BY <1>1, <1>2, Invariance, PTL DEF Spec, ImplementsAntiReplay, AR!Spec
=============================================================================
