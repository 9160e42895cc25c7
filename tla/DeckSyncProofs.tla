--------------------------- MODULE DeckSyncProofs ---------------------------
(***************************************************************************)
(* What the provers show of DeckSync for every set of pages, every order   *)
(* of their client ids and every bound.                                    *)
(*                                                                         *)
(* The ids of updates are totally ordered, so the paths of writes are, and *)
(* a document has one last write of each field (PathsInOrder, LastWrites). *)
(* The inductive invariant is SyncInv(all), where `all` is the set of all  *)
(* updates there ever were: the frames, the replicas, the room and its     *)
(* files hold some of them.  The parts it has for each page say what one   *)
(* may rely on while it reads the frames of its socket in order.           *)
(* SoleInv says whose the updates are: it is what the guard's revoking     *)
(* nothing of a sole editor's rests on.  Origin, last, says where a page's *)
(* updates came from: it is what a page told to drop its replica has done. *)
(***************************************************************************)
EXTENDS DeckSync, CollectionProofs

\* Paths in order.

Id == Nat \X Nat \X Nat

LEMMA LessIsTotalOrder ==
  ASSUME NEW a \in Id, NEW b \in Id, NEW c \in Id
  PROVE  /\ ~ Less(a, a)
         /\ Less(a, b) /\ Less(b, c) => Less(a, c)
         /\ a = b \/ Less(a, b) \/ Less(b, a)
<1>1. /\ a[1] \in Nat /\ a[2] \in Nat /\ a[3] \in Nat
      /\ b[1] \in Nat /\ b[2] \in Nat /\ b[3] \in Nat
      /\ c[1] \in Nat /\ c[2] \in Nat /\ c[3] \in Nat
  BY DEF Id
<1>2. a[1] = b[1] /\ a[2] = b[2] /\ a[3] = b[3] => a = b
  BY DEF Id
<1>3. QED
  BY <1>1, <1>2 DEF Less

\* Sequences with the same elements are the same.
LEMMA SameSequence ==
  ASSUME NEW E, NEW s \in Seq(E), NEW t \in Seq(E), Len(s) = Len(t), \A i \in 1 .. Len(s) : s[i] = t[i]
  PROVE  s = t
<1>1. s = [i \in 1 .. Len(s) |-> s[i]] /\ t = [i \in 1 .. Len(t) |-> t[i]]
  OBVIOUS
<1>2. QED
  BY <1>1

\* Where two paths part: one has ended, or its id is the lesser.
Part(p, q, i) ==
  /\ i \in Nat /\ 1 <= i /\ i <= Len(q) /\ i <= Len(p) + 1
  /\ \A j \in Nat : 1 <= j /\ j < i => p[j] = q[j]
  /\ i <= Len(p) => Less(p[i], q[i])

LEMMA SameStart ==
  ASSUME NEW p \in Seq(Id), NEW q \in Seq(Id), NEW n \in Nat, n <= Len(p), n <= Len(q)
  PROVE  SubSeq(p, 1, n) = SubSeq(q, 1, n) <=> \A j \in Nat : 1 <= j /\ j <= n => p[j] = q[j]
<1> DEFINE a == SubSeq(p, 1, n)
           b == SubSeq(q, 1, n)
<1>1. /\ a \in Seq(Id) /\ Len(a) = n /\ \A j \in 1 .. n : a[j] = p[j]
      /\ b \in Seq(Id) /\ Len(b) = n /\ \A j \in 1 .. n : b[j] = q[j]
  OBVIOUS
<1>2. (\A j \in 1 .. n : a[j] = b[j]) => a = b
  <2> HIDE DEF a, b
  <2>1. QED
    BY <1>1, SameSequence
<1>3. QED
  <2>1. ASSUME a = b, NEW j \in Nat, 1 <= j, j <= n
        PROVE  p[j] = q[j]
    <3>1. j \in 1 .. n
      BY <2>1
    <3> HIDE DEF a, b
    <3>2. QED
      BY <3>1, <2>1, <1>1
  <2>2. ASSUME \A j \in Nat : 1 <= j /\ j <= n => p[j] = q[j]
        PROVE  a = b
    <3> HIDE DEF a, b
    <3>1. QED
      BY <2>2, <1>1, <1>2
  <2>3. QED
    BY <2>1, <2>2

LEMMA PrecedesIs ==
  ASSUME NEW p \in Seq(Id), NEW q \in Seq(Id)
  PROVE  Precedes(p, q) <=> \E i \in Nat : Part(p, q, i)
<1>0. Len(p) \in Nat /\ Len(q) \in Nat /\ DOMAIN p = 1 .. Len(p) /\ DOMAIN q = 1 .. Len(q)
  OBVIOUS
<1>1. ASSUME IsStrictPrefix(p, q)
      PROVE  Part(p, q, Len(p) + 1)
  <2>1. Len(p) <= Len(q) /\ SubSeq(p, 1, Len(p)) = SubSeq(q, 1, Len(p)) /\ p # q
    BY <1>1 DEF IsStrictPrefix, IsPrefix
  <2>2. \A j \in Nat : 1 <= j /\ j <= Len(p) => p[j] = q[j]
    BY <2>1, <1>0, SameStart
  <2>3. Len(p) # Len(q)
    <3>1. \A j \in 1 .. Len(p) : p[j] = q[j]
      BY <2>2, <1>0
    <3>2. QED
      BY <2>1, <3>1, SameSequence
  <2>4. Len(p) + 1 \in Nat /\ Len(p) + 1 <= Len(q) /\ ~ (Len(p) + 1 <= Len(p))
    <3>1. Len(p) <= Len(q)
      BY <2>1
    <3>2. Len(p) \in Nat /\ Len(q) \in Nat
      BY <1>0
    <3>3. \A m, n \in Nat : m <= n /\ m # n => m + 1 \in Nat /\ m + 1 <= n /\ ~ (m + 1 <= m)
      OBVIOUS
    <3>4. QED
      BY <3>1, <3>2, <3>3, <2>3
  <2>5. \A j \in Nat : 1 <= j /\ j < Len(p) + 1 => p[j] = q[j]
    BY <2>2, <1>0
  <2>6. QED
    BY <2>4, <2>5, <1>0 DEF Part
<1>2. ASSUME NEW i \in DOMAIN p \cap DOMAIN q,
             SubSeq(p, 1, i - 1) = SubSeq(q, 1, i - 1), Less(p[i], q[i])
      PROVE  Part(p, q, i)
  <2>1. i \in Nat /\ 1 <= i /\ i <= Len(p) /\ i <= Len(q) /\ i - 1 \in Nat
    BY <1>0, <1>2
  <2>2. \A j \in Nat : 1 <= j /\ j <= i - 1 => p[j] = q[j]
    BY <2>1, <1>0, <1>2, SameStart
  <2>3. QED
    BY <2>1, <2>2, <1>0, <1>2 DEF Part
<1>3. ASSUME NEW i \in Nat, Part(p, q, i)
      PROVE  Precedes(p, q)
  <2>1. /\ 1 <= i /\ i <= Len(q) /\ i <= Len(p) + 1 /\ i - 1 \in Nat
        /\ \A j \in Nat : 1 <= j /\ j <= i - 1 => p[j] = q[j]
    BY <1>3, <1>0 DEF Part
  <2>2. SubSeq(p, 1, i - 1) = SubSeq(q, 1, i - 1)
    <3>1. i - 1 <= Len(p) /\ i - 1 <= Len(q)
      BY <2>1, <1>0
    <3>2. QED
      BY <3>1, <2>1, SameStart
  <2>3. CASE i <= Len(p)
    <3>1. i \in DOMAIN p \cap DOMAIN q /\ Less(p[i], q[i])
      BY <2>1, <2>3, <1>3, <1>0 DEF Part
    <3>2. QED
      BY <3>1, <2>2 DEF Precedes
  <2>4. CASE i = Len(p) + 1
    <3>1. i - 1 = Len(p) /\ Len(p) <= Len(q) /\ p # q
      BY <2>4, <2>1, <1>0
    <3>2. IsStrictPrefix(p, q)
      BY <3>1, <2>2 DEF IsStrictPrefix, IsPrefix
    <3>3. QED
      BY <3>2 DEF Precedes
  <2>5. QED
    BY <2>1, <2>3, <2>4, <1>0
<1>4. QED
  BY <1>0, <1>1, <1>2, <1>3 DEF Precedes

\* The rightmost path is well defined: paths are totally ordered.
THEOREM PathsInOrder ==
  ASSUME NEW p \in Seq(Id), NEW q \in Seq(Id), NEW r \in Seq(Id)
  PROVE  /\ ~ Precedes(p, p)
         /\ Precedes(p, q) /\ Precedes(q, r) => Precedes(p, r)
         /\ p = q \/ Precedes(p, q) \/ Precedes(q, p)
<1>0. /\ Len(p) \in Nat /\ Len(q) \in Nat /\ Len(r) \in Nat
      /\ \A i \in Nat : 1 <= i /\ i <= Len(p) => p[i] \in Id
      /\ \A i \in Nat : 1 <= i /\ i <= Len(q) => q[i] \in Id
      /\ \A i \in Nat : 1 <= i /\ i <= Len(r) => r[i] \in Id
  OBVIOUS
<1>1. ~ Precedes(p, p)
  <2>1. SUFFICES ASSUME NEW i \in Nat, Part(p, p, i)
                PROVE  FALSE
    BY PrecedesIs
  <2>2. p[i] \in Id /\ Less(p[i], p[i])
    BY <2>1, <1>0 DEF Part
  <2>3. QED
    BY <2>2, LessIsTotalOrder
<1>2. ASSUME Precedes(p, q), Precedes(q, r)
      PROVE  Precedes(p, r)
  <2>1. PICK i \in Nat : Part(p, q, i)
    BY <1>2, PrecedesIs
  <2>2. PICK j \in Nat : Part(q, r, j)
    BY <1>2, PrecedesIs
  <2>3. CASE i < j
    <3>1. Part(p, r, i)
      BY <2>1, <2>2, <2>3, <1>0 DEF Part
    <3>2. QED
      BY <3>1, PrecedesIs
  <2>4. CASE j < i
    <3>1. Part(p, r, j)
      BY <2>1, <2>2, <2>4, <1>0 DEF Part
    <3>2. QED
      BY <3>1, PrecedesIs
  <2>5. CASE i = j
    <3>1. i <= Len(p) => Less(p[i], r[i])
      <4>1. ASSUME i <= Len(p)
            PROVE  Less(p[i], r[i])
        <5>1. p[i] \in Id /\ q[i] \in Id /\ r[i] \in Id
          BY <4>1, <2>1, <2>2, <2>5, <1>0 DEF Part
        <5>2. Less(p[i], q[i]) /\ Less(q[i], r[i])
          BY <4>1, <2>1, <2>2, <2>5, <1>0 DEF Part
        <5>3. QED
          BY <5>1, <5>2, LessIsTotalOrder
      <4>2. QED
        BY <4>1
    <3>2. Part(p, r, i)
      BY <2>1, <2>2, <2>5, <1>0, <3>1 DEF Part
    <3>3. QED
      BY <3>2, PrecedesIs
  <2>6. QED
    BY <2>3, <2>4, <2>5
<1>3. ASSUME p # q
      PROVE  Precedes(p, q) \/ Precedes(q, p)
  <2> DEFINE Differ(i) == i > Len(p) \/ i > Len(q) \/ p[i] # q[i]
             S == {i \in Nat : 1 <= i /\ Differ(i)}
  <2>1. Len(p) + 1 \in S
    BY <1>0
  <2>2. PICK i \in S : \A n \in S : i <= n
    BY <2>1, LeastNumber
  <2>3. i \in Nat /\ 1 <= i /\ Differ(i)
    BY <2>2
  <2>4. \A j \in Nat : 1 <= j /\ j < i => j <= Len(p) /\ j <= Len(q) /\ p[j] = q[j]
    <3>1. ASSUME NEW j \in Nat, 1 <= j, j < i
          PROVE  j <= Len(p) /\ j <= Len(q) /\ p[j] = q[j]
      <4>1. j \notin S
        BY <3>1, <2>2, <2>3
      <4>2. QED
        BY <4>1, <3>1, <1>0
    <3>2. QED
      BY <3>1
  <2>5. i <= Len(p) + 1 /\ i <= Len(q) + 1
    <3>1. i = 1 \/ (i - 1 \in Nat /\ 1 <= i - 1 /\ i - 1 < i)
      BY <2>3
    <3>2. QED
      BY <3>1, <2>4, <2>3, <1>0
  <2>6. CASE i > Len(p) /\ i > Len(q)
    <3>1. Len(p) = Len(q)
      BY <2>5, <2>6, <2>3, <1>0
    <3>2. \A j \in 1 .. Len(p) : p[j] = q[j]
      BY <2>4, <2>6, <2>3, <1>0
    <3>3. QED
      BY <3>1, <3>2, <1>3, SameSequence
  <2>7. CASE i > Len(p) /\ i <= Len(q)
    <3>1. Part(p, q, i)
      BY <2>7, <2>3, <2>4, <2>5, <1>0 DEF Part
    <3>2. QED
      BY <3>1, PrecedesIs, <2>3
  <2>8. CASE i <= Len(p) /\ i > Len(q)
    <3>1. Part(q, p, i)
      BY <2>8, <2>3, <2>4, <2>5, <1>0 DEF Part
    <3>2. QED
      BY <3>1, PrecedesIs, <2>3
  <2>9. CASE i <= Len(p) /\ i <= Len(q)
    <3>1. p[i] \in Id /\ q[i] \in Id /\ p[i] # q[i]
      BY <2>9, <2>3, <1>0
    <3>2. Less(p[i], q[i]) \/ Less(q[i], p[i])
      BY <3>1, LessIsTotalOrder
    <3>3. Part(p, q, i) \/ Part(q, p, i)
      BY <3>2, <2>9, <2>3, <2>4, <2>5, <1>0 DEF Part
    <3>4. QED
      BY <3>3, PrecedesIs, <2>3
  <2>10. QED
    BY <2>3, <2>6, <2>7, <2>8, <2>9, <1>0
<1>4. QED
  BY <1>1, <1>2, <1>3

\* A path precedes what was appended to it.
LEMMA AppendIsAfter ==
  ASSUME NEW p \in Seq(Id), NEW id \in Id
  PROVE  Append(p, id) \in Seq(Id) /\ Precedes(p, Append(p, id))
<1> DEFINE q == Append(p, id)
<1>1. q \in Seq(Id) /\ Len(q) = Len(p) + 1 /\ Len(p) \in Nat /\ \A j \in 1 .. Len(p) : q[j] = p[j]
  OBVIOUS
<1>2. Part(p, q, Len(p) + 1)
  <2> HIDE DEF q
  <2>1. QED
    BY <1>1 DEF Part
<1>3. QED
  <2> HIDE DEF q
  <2>1. Precedes(p, q)
    BY <1>1, <1>2, PrecedesIs
  <2>2. QED
    BY <1>1, <2>1 DEF q

-----------------------------------------------------------------------------
\* The invariant.  `all` holds every update there was since the start.

Proper(update) ==
  /\ update.id \in Id /\ update.needs \subseteq Id
  /\ update.text \in Seq(Id) /\ update.approval \in Seq(Id)

\* An id names one update, and what an update needs comes with what that needs.
Consistent(all) ==
  /\ IsFiniteSet(all) /\ FirstUpdate \in all
  /\ \A update \in all : Proper(update)
  /\ \A update, other \in all : update.id = other.id => update = other
  /\ \A update, other \in all : other.id \in update.needs => other.needs \subseteq update.needs

\* The next clock of the replica is nobody's: it made the first n of its updates, and its
\* number had only earlier replicas before.
Below(all, replicaOf, n) ==
  \A update \in all : \A id \in update.needs \cup {update.id} :
    id[2] = replicaOf[2] => id[1] < replicaOf[1] \/ (id[1] = replicaOf[1] /\ id[3] <= n)

PageFrame(all) ==
  [kind : {"welcome", "accessChanged"}, role : Roles] \cup [kind : {"stepOne"}, has : SUBSET Id]
  \cup [kind : {"stepTwo", "update"}, updates : SUBSET all] \cup {Resynchronise}

RoomFrame(all) ==
  [kind : {"stepOne"}, has : SUBSET Id] \cup [kind : {"stepTwo", "update"}, updates : SUBSET all]

Typed(all) ==
  /\ role \in [Clients -> Roles] /\ known \in [Clients -> Roles]
  /\ held \in [Clients -> [Slots -> {"none", "open", "gone"}]]
  /\ carried \in [Clients -> [Slots -> SUBSET all]]
  /\ phase \in [Clients -> {"offline", "joining", "synchronising", "online"}]
  /\ slot \in [Clients -> Slots]
  /\ composed \in [Clients -> BOOLEAN]
  /\ replica \in [Clients -> SUBSET all]
  /\ replicaId \in [Clients -> Nat \X Nat]
  /\ toRoom \in [Clients -> [Slots -> Seq(RoomFrame(all))]]
  /\ toClient \in [Clients -> Seq(PageFrame(all))]
  /\ roleChanges \in Nat /\ crashes \in Nat

\* The room and its files.
Stored(all) ==
  /\ room \subseteq all /\ durable \cup unflushed = room /\ FirstUpdate \in durable
  /\ View(room) = room /\ View(durable) = durable
  /\ ~ Forbidden(room) /\ ~ Forbidden(durable)
  /\ roomId \in Nat \X Nat /\ roomId[2] = RoomNumber
  /\ Below(all, roomId, Cardinality(Own(room, roomId)))

\* What a page composes over holds the deck's first text, and its next update has a new id.
Composes(all, client) ==
  /\ replicaId[client][2] = PageNumber[client]
  /\ Below(all, replicaId[client], Cardinality(Own(Shown(client), replicaId[client])))
  /\ composed[client] => FirstUpdate \in replica[client]
  /\ \A frame \in Range(toClient[client]) :
       frame.kind = "stepTwo" => FirstUpdate \in replica[client] \cup frame.updates

\* A connection the room does not hold carries nothing, and a page that left its socket hears nothing.
Quiet(client) ==
  /\ \A s \in Slots : held[client][s] # "open" => carried[client][s] = {} /\ toRoom[client][s] = <<>>
  /\ phase[client] = "offline" => toClient[client] = <<>>

\* The first frame of a connection is the room's welcome, and its step 1 comes after it.
Greeted(client) ==
  IF phase[client] = "joining"
  THEN /\ carried[client][slot[client]] = {} /\ toRoom[client][slot[client]] = <<>>
       /\ Held(client) = "open" => toClient[client] # <<>>
       /\ toClient[client] # <<>> =>
            /\ Head(toClient[client]).kind = "welcome"
            /\ \E frame \in Range(Tail(toClient[client])) : frame.kind = "stepOne"
            /\ \A frame \in Range(Tail(toClient[client])) : frame.kind \notin {"welcome", "stepTwo"}
  ELSE \A frame \in Range(toClient[client]) : frame.kind # "welcome"

\* What a page sent is its own; what it is sent is the room's, while the room does not die.
Honest(client) ==
  /\ phase[client] # "offline" =>
       /\ carried[client][slot[client]] \subseteq replica[client]
       /\ UpdatesIn(toRoom[client][slot[client]]) \subseteq replica[client]
       /\ \A frame \in Range(toRoom[client][slot[client]]) :
            frame.kind = "stepOne" => frame.has \subseteq IdsOf(replica[client])
  /\ crashes = 0 \/ Hears(client, slot[client]) => UpdatesIn(toClient[client]) \subseteq room
  /\ Hears(client, slot[client]) =>
       \A frame \in Range(toClient[client]) : frame.kind = "stepOne" => frame.has \subseteq IdsOf(room)

\* What the room has reaches the page, from the answer to its step 1 on.
Served(client) ==
  Hears(client, slot[client])
  /\ (phase[client] = "online" \/ \E frame \in Range(toClient[client]) : frame.kind = "stepTwo")
    => room \subseteq replica[client] \cup UpdatesIn(toClient[client])

\* What the page has reaches the room, from the answer to the room's step 1 on.
Heard(client) ==
  Hears(client, slot[client]) /\ Answered(client) /\ ~ ToldToDrop(client)
    => replica[client] \subseteq
         room \cup UpdatesIn(toRoom[client][slot[client]]) \cup carried[client][slot[client]]

\* What a page has and the room lacks it made itself, as an editor.
Owns(client) ==
  /\ crashes = 0 => replica[client] \ room \subseteq Own(replica[client], replicaId[client])
  /\ roleChanges = 0 =>
       /\ known[client] = role[client]
       /\ \A frame \in Range(toClient[client]) :
            frame.kind \in {"welcome", "accessChanged"} => frame.role = role[client]
  /\ crashes = 0 /\ roleChanges = 0 /\ role[client] # "editor" => replica[client] \subseteq room

PageInv(all, client) ==
  /\ Composes(all, client) /\ Quiet(client) /\ Greeted(client) /\ Honest(client)
  /\ Served(client) /\ Heard(client) /\ Owns(client)

SyncInv(all) ==
  Consistent(all) /\ Typed(all) /\ Stored(all) /\ \A client \in Clients : PageInv(all, client)

-----------------------------------------------------------------------------
\* Documents.

LEMMA ThereIsARightmost ==
  ASSUME NEW S, IsFiniteSet(S), S # {}, NEW f \in [S -> Seq(Id)]
  PROVE  \E last \in S : \A other \in S : ~ Precedes(f[last], f[other])
<1> DEFINE Has(s) == \E last \in s : \A other \in s : ~ Precedes(f[last], f[other])
           P == {k \in Nat : \A s \in SUBSET S : Cardinality(s) = k /\ s # {} => Has(s)}
<1>0. \A s \in SUBSET S : IsFiniteSet(s) /\ Cardinality(s) \in Nat /\ (Cardinality(s) = 0 => s = {})
  BY FS_Subset, FS_CardinalityType, FS_EmptySet
<1>1. 0 \in P
  BY <1>0
<1>2. ASSUME NEW k \in Nat, k \in P
      PROVE  k + 1 \in P
  <2>1. SUFFICES ASSUME NEW s \in SUBSET S, Cardinality(s) = k + 1, s # {}
                PROVE  Has(s)
    OBVIOUS
  <2>2. PICK x \in s : TRUE
    BY <2>1
  <2>3. s \ {x} \in SUBSET S /\ Cardinality(s \ {x}) = k
    <3>1. IsFiniteSet(s)
      BY <1>0
    <3>2. Cardinality(s \ {x}) = Cardinality(s) - 1
      BY <3>1, <2>2, FS_RemoveElement
    <3>3. QED
      BY <3>2, <2>1
  <2>4. CASE s \ {x} = {}
    <3>1. \A other \in s : other = x
      BY <2>4
    <3>2. f[x] \in Seq(Id)
      OBVIOUS
    <3>3. ~ Precedes(f[x], f[x])
      BY <3>2, PathsInOrder
    <3>4. QED
      BY <3>1, <3>3, <2>2
  <2>5. CASE s \ {x} # {}
    <3>1. Has(s \ {x})
      BY <2>3, <2>5, <1>2
    <3>2. PICK y \in s \ {x} : \A other \in s \ {x} : ~ Precedes(f[y], f[other])
      BY <3>1
    <3>3. f[x] \in Seq(Id) /\ f[y] \in Seq(Id) /\ \A other \in s : f[other] \in Seq(Id)
      OBVIOUS
    <3>4. CASE Precedes(f[y], f[x])
      <4>1. ASSUME NEW other \in s, Precedes(f[x], f[other])
            PROVE  FALSE
        <5>1. other # x
          BY <4>1, <3>3, PathsInOrder
        <5>2. Precedes(f[y], f[other])
          BY <4>1, <3>3, <3>4, PathsInOrder
        <5>3. QED
          BY <5>1, <5>2, <3>2
      <4>2. QED
        BY <4>1, <2>2
    <3>5. CASE ~ Precedes(f[y], f[x])
      <4>1. \A other \in s : ~ Precedes(f[y], f[other])
        BY <3>5, <3>2
      <4>2. QED
        BY <4>1
    <3>6. QED
      BY <3>4, <3>5
  <2>6. QED
    BY <2>4, <2>5
<1>3. Nat \subseteq P
  <2> HIDE DEF P
  <2>1. QED
    BY <1>1, <1>2, SetInduction
<1>4. Cardinality(S) \in P
  BY <1>3, <1>0
<1>5. QED
  BY <1>4

\* A document that holds the deck's first update has a last write of either field.
THEOREM LastWrites ==
  ASSUME NEW all, Consistent(all), NEW doc \in SUBSET all, FirstUpdate \in doc
  PROVE  /\ /\ LastText(doc) \in doc /\ LastText(doc).text # <<>>
            /\ \A other \in doc : ~ Precedes(LastText(doc).text, other.text)
         /\ /\ LastApproval(doc) \in doc /\ LastApproval(doc).approval # <<>>
            /\ \A other \in doc : ~ Precedes(LastApproval(doc).approval, other.approval)
<1>1. IsFiniteSet(doc) /\ \A u \in doc : Proper(u)
  BY FS_Subset DEF Consistent
<1>2. FirstUpdate.text = <<FirstId>> /\ FirstUpdate.approval = <<FirstId>>
  BY DEF FirstUpdate
<1>3. \A path \in Seq(Id) : path # <<>> => Precedes(<<>>, path)
  <2>1. SUFFICES ASSUME NEW path \in Seq(Id), path # <<>>
                PROVE  Precedes(<<>>, path)
    OBVIOUS
  <2>2. <<>> \in Seq(Id) /\ Len(<<>>) = 0 /\ Len(path) \in Nat /\ 1 <= Len(path)
    BY <2>1
  <2>3. Part(<<>>, path, 1)
    BY <2>2 DEF Part
  <2>4. QED
    BY <2>2, <2>3, PrecedesIs
<1>4. <<FirstId>> \in Seq(Id) /\ <<FirstId>> # <<>>
  BY DEF FirstId, Id
<1>5. \E last \in doc : last.text # <<>> /\ \A other \in doc : ~ Precedes(last.text, other.text)
  <2> DEFINE f == [u \in doc |-> u.text]
  <2>1. f \in [doc -> Seq(Id)] /\ \A u \in doc : f[u] = u.text
    BY <1>1 DEF Proper
  <2>2. PICK last \in doc : \A other \in doc : ~ Precedes(f[last], f[other])
    <3> HIDE DEF f
    <3>1. QED
      BY <2>1, <1>1, ThereIsARightmost
  <2>3. \A other \in doc : ~ Precedes(last.text, other.text)
    BY <2>1, <2>2
  <2>4. last.text # <<>>
    BY <2>3, <1>2, <1>3, <1>4
  <2>5. QED
    BY <2>3, <2>4
<1>6. \E last \in doc : last.approval # <<>> /\ \A other \in doc : ~ Precedes(last.approval, other.approval)
  <2> DEFINE f == [u \in doc |-> u.approval]
  <2>1. f \in [doc -> Seq(Id)] /\ \A u \in doc : f[u] = u.approval
    BY <1>1 DEF Proper
  <2>2. PICK last \in doc : \A other \in doc : ~ Precedes(f[last], f[other])
    <3> HIDE DEF f
    <3>1. QED
      BY <2>1, <1>1, ThereIsARightmost
  <2>3. \A other \in doc : ~ Precedes(last.approval, other.approval)
    BY <2>1, <2>2
  <2>4. last.approval # <<>>
    BY <2>3, <1>2, <1>3, <1>4
  <2>5. QED
    BY <2>3, <2>4
<1>7. QED
  <2>1. /\ LastText(doc) \in doc /\ LastText(doc).text # <<>>
        /\ \A other \in doc : ~ Precedes(LastText(doc).text, other.text)
    BY <1>5 DEF LastText
  <2>2. /\ LastApproval(doc) \in doc /\ LastApproval(doc).approval # <<>>
        /\ \A other \in doc : ~ Precedes(LastApproval(doc).approval, other.approval)
    BY <1>6 DEF LastApproval
  <2>3. QED
    BY <2>1, <2>2

\* A write placed after the last one is the last.
THEOREM WrittenLast ==
  ASSUME NEW all, Consistent(all), NEW doc \in SUBSET all, FirstUpdate \in doc,
         NEW w, NEW id \in Id, w.approval = Append(LastApproval(doc).approval, id)
  PROVE  LastApproval(doc \cup {w}) = w
<1> DEFINE last == LastApproval(doc)
<1>1. last \in doc /\ \A other \in doc : ~ Precedes(last.approval, other.approval)
  BY LastWrites
<1>2. \A u \in doc : u.approval \in Seq(Id)
  BY DEF Consistent, Proper
<1>3. w.approval \in Seq(Id) /\ Precedes(last.approval, w.approval)
  BY <1>1, <1>2, AppendIsAfter
<1> HIDE DEF last
<1>4. ASSUME NEW u \in doc
      PROVE  Precedes(u.approval, w.approval)
  <2>1. u.approval = last.approval \/ Precedes(u.approval, last.approval)
    BY <1>1, <1>2, PathsInOrder
  <2>2. QED
    BY <2>1, <1>1, <1>2, <1>3, PathsInOrder
<1>5. \A other \in doc \cup {w} : ~ Precedes(w.approval, other.approval)
  <2>1. ~ Precedes(w.approval, w.approval)
    BY <1>3, PathsInOrder
  <2>2. ASSUME NEW u \in doc, Precedes(w.approval, u.approval)
        PROVE  FALSE
    <3>1. Precedes(w.approval, w.approval)
      BY <2>2, <1>2, <1>3, <1>4, PathsInOrder
    <3>2. QED
      BY <3>1, <2>1
  <2>3. QED
    BY <2>1, <2>2
<1>6. w.approval # <<>>
  <2>1. ~ Precedes(last.approval, <<>>)
    <3>1. last.approval \in Seq(Id) /\ <<>> \in Seq(Id) /\ Len(<<>>) = 0
      BY <1>1, <1>2
    <3>2. \A i \in Nat : ~ Part(last.approval, <<>>, i)
      BY <3>1 DEF Part
    <3>3. QED
      BY <3>1, <3>2, PrecedesIs
  <2>2. QED
    BY <2>1, <1>3
<1>7. \A u \in doc \cup {w} :
        u.approval # <<>> /\ (\A other \in doc \cup {w} : ~ Precedes(u.approval, other.approval)) => u = w
  BY <1>4
<1>8. QED
  BY <1>5, <1>6, <1>7 DEF LastApproval

\* After a write that approves nothing there is nothing to correct.
THEOREM NothingApproved ==
  ASSUME NEW all, Consistent(all), NEW doc \in SUBSET all, FirstUpdate \in doc,
         NEW w, NEW id \in Id, w.approval = Append(LastApproval(doc).approval, id), w.value = Unapproved
  PROVE  ~ Forbidden(doc \cup {w})
BY WrittenLast DEF Forbidden, ApprovalOf

\* What a replica shows of some updates it shows of more.
LEMMA ViewGrows ==
  ASSUME NEW some, NEW more, some \subseteq more
  PROVE  View(some) \subseteq View(more) /\ View(some) \subseteq some
BY DEF View, IdsOf

\* What a replica shows needs nothing it does not show.
LEMMA ViewIsClosed ==
  ASSUME NEW all, Consistent(all), NEW doc \in SUBSET all
  PROVE  View(View(doc)) = View(doc)
<1>1. ASSUME NEW u \in View(doc), NEW id \in u.needs
      PROVE  id \in IdsOf(View(doc))
  <2>1. u \in doc /\ id \in IdsOf(doc)
    BY <1>1 DEF View
  <2>2. PICK v \in doc : v.id = id
    BY <2>1 DEF IdsOf
  <2>3. v.needs \subseteq u.needs
    BY <2>1, <2>2, <1>1 DEF Consistent
  <2>4. v \in View(doc)
    BY <2>2, <2>3, <1>1 DEF View
  <2>5. QED
    BY <2>2, <2>4 DEF IdsOf
<1>2. QED
  BY <1>1 DEF View

\* What a replica made of a document counts up with it.
LEMMA OwnGrows ==
  ASSUME NEW all, Consistent(all), NEW more \in SUBSET all, NEW some \in SUBSET more, NEW replicaOf
  PROVE  /\ Cardinality(Own(some, replicaOf)) \in Nat /\ Cardinality(Own(more, replicaOf)) \in Nat
         /\ Cardinality(Own(some, replicaOf)) <= Cardinality(Own(more, replicaOf))
<1>1. IsFiniteSet(more) /\ Own(more, replicaOf) \subseteq more
  BY FS_Subset DEF Consistent, Own
<1>2. IsFiniteSet(Own(more, replicaOf)) /\ Own(some, replicaOf) \subseteq Own(more, replicaOf)
  BY <1>1, FS_Subset DEF Own
<1>3. QED
  BY <1>2, FS_Subset, FS_CardinalityType

LEMMA BelowGrows ==
  ASSUME NEW all, Consistent(all), NEW replicaOf, NEW n \in Nat, NEW m \in Nat, n <= m, Below(all, replicaOf, n)
  PROVE  Below(all, replicaOf, m)
<1>1. ASSUME NEW u \in all, NEW id \in u.needs \cup {u.id}
      PROVE  id \in Id /\ id[3] \in Nat
  BY <1>1 DEF Consistent, Proper, Id
<1>2. QED
  BY <1>1 DEF Below

\* A renewed replica has made nothing yet.
LEMMA BelowRenewed ==
  ASSUME NEW all, Consistent(all), NEW replicaOf \in Nat \X Nat, NEW n, NEW m \in Nat, Below(all, replicaOf, n)
  PROVE  /\ Renewed(replicaOf) \in Nat \X Nat /\ Renewed(replicaOf)[2] = replicaOf[2]
         /\ Below(all, Renewed(replicaOf), m)
<1>1. ASSUME NEW u \in all, NEW id \in u.needs \cup {u.id}
      PROVE  id \in Id /\ id[1] \in Nat
  BY <1>1 DEF Consistent, Proper, Id
<1>2. replicaOf[1] \in Nat /\ Renewed(replicaOf)[1] = replicaOf[1] + 1 /\ Renewed(replicaOf)[2] = replicaOf[2]
  BY DEF Renewed
<1>3. Renewed(replicaOf) \in Nat \X Nat
  BY DEF Renewed
<1>4. Below(all, Renewed(replicaOf), m)
  BY <1>1, <1>2 DEF Below
<1>5. QED
  BY <1>2, <1>3, <1>4

-----------------------------------------------------------------------------
\* Updates.

\* An update names nothing but what its replica held, and itself.
LEMMA NeededIsKnown ==
  ASSUME NEW all, Consistent(all), NEW doc \in SUBSET all, NEW parents \in SUBSET doc, NEW replicaOf
  PROVE  /\ Needed(doc, parents, replicaOf) \subseteq Id
         /\ \A id \in Needed(doc, parents, replicaOf) :
              \E u \in doc : id \in u.needs \cup {u.id}
         /\ \A v \in all : v.id \in Needed(doc, parents, replicaOf) => v.needs \subseteq Needed(doc, parents, replicaOf)
         /\ View(doc) = doc => Needed(doc, parents, replicaOf) \subseteq IdsOf(doc)
<1> DEFINE from == parents \cup Own(doc, replicaOf)
           needed == Needed(doc, parents, replicaOf)
<1>1. from \subseteq doc
  BY DEF Own
<1>2. \A id \in needed : \E u \in from : id \in u.needs \cup {u.id}
  BY DEF Needed
<1>3. \A u \in from : u.needs \subseteq needed
  BY DEF Needed
<1> HIDE DEF from, needed
<1>4. needed \subseteq Id
  BY <1>1, <1>2 DEF Consistent, Proper
<1>5. \A v \in all : v.id \in needed => v.needs \subseteq needed
  <2>1. ASSUME NEW v \in all, v.id \in needed
        PROVE  v.needs \subseteq needed
    <3>1. PICK u \in from : v.id \in u.needs \cup {u.id}
      BY <2>1, <1>2
    <3>2. v.needs \subseteq u.needs
      BY <3>1, <1>1 DEF Consistent
    <3>3. QED
      BY <3>1, <3>2, <1>3
  <2>2. QED
    BY <2>1
<1>6. View(doc) = doc => needed \subseteq IdsOf(doc)
  BY <1>1, <1>2 DEF View, IdsOf
<1>7. \A id \in needed : \E u \in doc : id \in u.needs \cup {u.id}
  BY <1>1, <1>2
<1>8. QED
  BY <1>4, <1>5, <1>6, <1>7 DEF needed

\* An update nobody has: it keeps what the updates of a deck have in common, and it is the
\* next of its replica and nothing to the others.
NewUpdate(all, doc, replicaOf, w) ==
  /\ w.id \in Id /\ w.id \notin IdsOf(all) /\ ReplicaOf(w.id) = replicaOf
  /\ Consistent(all \cup {w})
  /\ \A m \in Nat : Cardinality(Own(doc, replicaOf)) + 1 <= m => Below(all \cup {w}, replicaOf, m)
  /\ \A other, m : other[2] # replicaOf[2] /\ Below(all, other, m) => Below(all \cup {w}, other, m)
  /\ View(doc) = doc => View(doc \cup {w}) = doc \cup {w}

\* What a replica makes is new.
THEOREM MadeIsNew ==
  ASSUME NEW all, Consistent(all), NEW doc \in SUBSET all, NEW replicaOf \in Nat \X Nat, replicaOf[2] # 0,
         Below(all, replicaOf, Cardinality(Own(doc, replicaOf))),
         NEW parents \in SUBSET doc, NEW text \in Seq(Id), NEW approval \in Seq(Id), NEW by, NEW value,
         NEW w, w = Made(doc, replicaOf, by, parents, text, approval, value)
  PROVE  NewUpdate(all, doc, replicaOf, w)
<1> DEFINE n == Cardinality(Own(doc, replicaOf))
           needed == Needed(doc, parents, replicaOf)
<1>1. n \in Nat
  BY OwnGrows
<1>2. /\ w.id = IdOf(replicaOf, n + 1) /\ w.needs = needed
      /\ w.text = text /\ w.approval = approval
  BY DEF Made
<1>3. /\ needed \subseteq Id
      /\ \A id \in needed : \E u \in doc : id \in u.needs \cup {u.id}
      /\ \A v \in all : v.id \in needed => v.needs \subseteq needed
      /\ View(doc) = doc => needed \subseteq IdsOf(doc)
  BY NeededIsKnown
<1> HIDE DEF n, needed
<1>4. replicaOf[1] \in Nat /\ replicaOf[2] \in Nat /\ replicaOf = <<replicaOf[1], replicaOf[2]>>
  OBVIOUS
<1>5. w.id \in Id /\ w.id[1] = replicaOf[1] /\ w.id[2] = replicaOf[2] /\ w.id[3] = n + 1
  <2>1. w.id = <<replicaOf[1], replicaOf[2], n + 1>>
    BY <1>2 DEF IdOf
  <2>2. n + 1 \in Nat
    BY <1>1
  <2>3. QED
    BY <2>1, <2>2, <1>4 DEF Id
<1>6. ReplicaOf(w.id) = replicaOf
  BY <1>4, <1>5 DEF ReplicaOf
<1>7. Below(all, replicaOf, n)
  BY DEF n
<1>8. \A u \in all : w.id \notin u.needs \cup {u.id}
  <2>1. ASSUME NEW u \in all, w.id \in u.needs \cup {u.id}
        PROVE  FALSE
    <3>1. replicaOf[1] < replicaOf[1] \/ n + 1 <= n
      BY <2>1, <1>5, <1>7 DEF Below
    <3>2. QED
      BY <3>1, <1>1, <1>4
  <2>2. QED
    BY <2>1
<1>9. w.id \notin needed
  BY <1>3, <1>8
<1>10. Consistent(all \cup {w})
  <2>1. IsFiniteSet(all \cup {w})
    BY FS_AddElement DEF Consistent
  <2>2. Proper(w)
    BY <1>2, <1>3, <1>5 DEF Proper
  <2>3. \A u, v \in all \cup {w} : u.id = v.id => u = v
    BY <1>8 DEF Consistent
  <2>4. \A u, v \in all \cup {w} : v.id \in u.needs => v.needs \subseteq u.needs
    BY <1>2, <1>3, <1>8, <1>9 DEF Consistent
  <2>5. QED
    BY <2>1, <2>2, <2>3, <2>4 DEF Consistent
<1>11. ASSUME NEW m \in Nat, n + 1 <= m
       PROVE  Below(all \cup {w}, replicaOf, m)
  <2>1. ASSUME NEW u \in all, NEW id \in u.needs \cup {u.id}, id[2] = replicaOf[2]
        PROVE  id[1] < replicaOf[1] \/ (id[1] = replicaOf[1] /\ id[3] <= m)
    <3>1. id[3] \in Nat
      BY <2>1 DEF Consistent, Proper, Id
    <3>2. id[1] < replicaOf[1] \/ (id[1] = replicaOf[1] /\ id[3] <= n)
      BY <2>1, <1>7 DEF Below
    <3>3. QED
      BY <3>1, <3>2, <1>1, <1>11
  <2>2. \A id \in w.needs : \E u \in all : id \in u.needs \cup {u.id}
    BY <1>2, <1>3
  <2>3. ASSUME NEW id \in w.needs \cup {w.id}, id[2] = replicaOf[2]
        PROVE  id[1] < replicaOf[1] \/ (id[1] = replicaOf[1] /\ id[3] <= m)
    <3>1. CASE id \in w.needs
      BY <3>1, <2>1, <2>2, <2>3
    <3>2. CASE id = w.id
      BY <3>2, <1>5, <1>11
    <3>3. QED
      BY <2>3, <3>1, <3>2
  <2>4. QED
    BY <2>1, <2>3 DEF Below
<1>12. ASSUME NEW other, NEW m, other[2] # replicaOf[2], Below(all, other, m)
       PROVE  Below(all \cup {w}, other, m)
  BY <1>2, <1>3, <1>5, <1>12 DEF Below
<1>13. ASSUME View(doc) = doc
       PROVE  View(doc \cup {w}) = doc \cup {w}
  BY <1>13, <1>2, <1>3 DEF View, IdsOf
<1>14. QED
  BY <1>5, <1>6, <1>8, <1>10, <1>11, <1>12, <1>13 DEF IdsOf, n, NewUpdate

\* Both fields are written after the last writes to them.
LEMMA SaveIsNew ==
  ASSUME NEW all, Consistent(all), NEW doc \in SUBSET all, FirstUpdate \in doc,
         NEW replicaOf \in Nat \X Nat, replicaOf[2] # 0,
         Below(all, replicaOf, Cardinality(Own(doc, replicaOf))),
         NEW by, NEW value, NEW w, w = Save(doc, replicaOf, by, value)
  PROVE  /\ NewUpdate(all, doc, replicaOf, w)
         /\ value = Unapproved => ~ Forbidden(doc \cup {w})
<1> DEFINE id == IdOf(replicaOf, Cardinality(Own(doc, replicaOf)) + 1)
           parents == {LastText(doc), LastApproval(doc)}
           text == Append(LastText(doc).text, id)
           approval == Append(LastApproval(doc).approval, id)
<1>1. LastText(doc) \in doc /\ LastApproval(doc) \in doc
  BY LastWrites
<1>2. LastText(doc).text \in Seq(Id) /\ LastApproval(doc).approval \in Seq(Id)
  BY <1>1 DEF Consistent, Proper
<1>3. id \in Id
  <2>1. Cardinality(Own(doc, replicaOf)) \in Nat /\ replicaOf[1] \in Nat /\ replicaOf[2] \in Nat
    BY OwnGrows
  <2>2. QED
    BY <2>1 DEF IdOf, Id
<1>4. w = Made(doc, replicaOf, by, parents, text, approval, value)
  BY DEF Save
<1>5. w.approval = approval /\ w.value = value
  BY <1>4 DEF Made
<1> HIDE DEF id
<1>6. text \in Seq(Id) /\ approval \in Seq(Id) /\ parents \in SUBSET doc
  BY <1>1, <1>2, <1>3
<1>7. value = Unapproved => ~ Forbidden(doc \cup {w})
  BY <1>3, <1>5, NothingApproved
<1> HIDE DEF parents, text, approval
<1>8. NewUpdate(all, doc, replicaOf, w)
  BY <1>4, <1>6, MadeIsNew
<1>9. QED
  BY <1>7, <1>8

\* Setting the approval writes that field alone.
LEMMA ApprovalIsNew ==
  ASSUME NEW all, Consistent(all), NEW doc \in SUBSET all, FirstUpdate \in doc,
         NEW replicaOf \in Nat \X Nat, replicaOf[2] # 0,
         Below(all, replicaOf, Cardinality(Own(doc, replicaOf))),
         NEW by, NEW value, NEW w, w = SetApproval(doc, replicaOf, by, value)
  PROVE  /\ NewUpdate(all, doc, replicaOf, w)
         /\ value = Unapproved => ~ Forbidden(doc \cup {w})
<1> DEFINE id == IdOf(replicaOf, Cardinality(Own(doc, replicaOf)) + 1)
           parents == {LastApproval(doc)}
           approval == Append(LastApproval(doc).approval, id)
<1>1. LastApproval(doc) \in doc
  BY LastWrites
<1>2. LastApproval(doc).approval \in Seq(Id) /\ <<>> \in Seq(Id)
  BY <1>1 DEF Consistent, Proper
<1>3. id \in Id
  <2>1. Cardinality(Own(doc, replicaOf)) \in Nat /\ replicaOf[1] \in Nat /\ replicaOf[2] \in Nat
    BY OwnGrows
  <2>2. QED
    BY <2>1 DEF IdOf, Id
<1>4. w = Made(doc, replicaOf, by, parents, <<>>, approval, value)
  BY DEF SetApproval
<1>5. w.approval = approval /\ w.value = value
  BY <1>4 DEF Made
<1> HIDE DEF id
<1>6. approval \in Seq(Id) /\ parents \in SUBSET doc
  BY <1>1, <1>2, <1>3
<1>7. value = Unapproved => ~ Forbidden(doc \cup {w})
  BY <1>3, <1>5, NothingApproved
<1> HIDE DEF parents, approval
<1>8. NewUpdate(all, doc, replicaOf, w)
  BY <1>2, <1>4, <1>6, MadeIsNew
<1>9. QED
  BY <1>7, <1>8

\* A replica that got its new update counts it.
LEMMA NewIsCounted ==
  ASSUME NEW all, Consistent(all), NEW doc \in SUBSET all, NEW replicaOf, NEW w, NewUpdate(all, doc, replicaOf, w),
         NEW later \in SUBSET (all \cup {w}), doc \cup {w} \subseteq later
  PROVE  Below(all \cup {w}, replicaOf, Cardinality(Own(later, replicaOf)))
<1> DEFINE made0 == Own(doc, replicaOf)
           made1 == Own(later, replicaOf)
<1>1. made0 \cup {w} \subseteq made1 /\ w \notin made0
  <2>1. w \notin doc
    BY DEF NewUpdate, IdsOf
  <2>2. QED
    BY <2>1 DEF Own, NewUpdate
<1>2. IsFiniteSet(made0) /\ IsFiniteSet(made1)
  <2>1. made0 \subseteq all /\ made1 \subseteq all \cup {w}
    BY DEF Own
  <2>2. QED
    BY <2>1, FS_Subset DEF Consistent, NewUpdate
<1> HIDE DEF made0, made1
<1>3. /\ Cardinality(made0) \in Nat /\ Cardinality(made1) \in Nat
      /\ Cardinality(made0 \cup {w}) = Cardinality(made0) + 1
      /\ Cardinality(made0 \cup {w}) <= Cardinality(made1)
  BY <1>1, <1>2, FS_CardinalityType, FS_AddElement, FS_Subset
<1>4. Cardinality(made0) + 1 <= Cardinality(made1)
  BY <1>3
<1>5. QED
  BY <1>3, <1>4 DEF NewUpdate, made0, made1

\* Every command an editor may give makes a new update.
LEMMA EditIsNew ==
  ASSUME NEW all, Consistent(all), NEW doc \in SUBSET all, FirstUpdate \in doc,
         NEW replicaOf \in Nat \X Nat, replicaOf[2] # 0,
         Below(all, replicaOf, Cardinality(Own(doc, replicaOf))),
         NEW person, NEW w \in Edits(doc, replicaOf, person)
  PROVE  NewUpdate(all, doc, replicaOf, w)
<1>1. CASE w = Save(doc, replicaOf, person, Unapproved)
  BY <1>1, SaveIsNew
<1>2. CASE w = SaveApproved(doc, replicaOf, person)
  <2> DEFINE value == ApprovedBy(person, IdOf(replicaOf, Cardinality(Own(doc, replicaOf)) + 1))
  <2>1. w = Save(doc, replicaOf, person, value)
    BY <1>2 DEF SaveApproved
  <2> HIDE DEF value
  <2>2. QED
    BY <2>1, SaveIsNew
<1>3. CASE w = Approve(doc, replicaOf, person)
  <2> DEFINE value == ApprovedBy(person, TextOf(doc))
  <2>1. w = SetApproval(doc, replicaOf, person, value)
    BY <1>3 DEF Approve
  <2> HIDE DEF value
  <2>2. QED
    BY <2>1, ApprovalIsNew
<1>4. QED
  BY <1>1, <1>2, <1>3 DEF Edits

\* The room takes what was sent and at most one new update of its own, its correction; together
\* they lack no other update, and no approval of another text is left.
Judged(all, before, incoming, after, replicaOf, corrections) ==
  /\ before \subseteq after /\ after \subseteq before \cup incoming
  /\ ~ Forbidden(after \cup corrections)
  /\ \/ corrections = {} /\ View(after) = after
     \/ \E w : /\ corrections = {w} /\ NewUpdate(all, after, replicaOf, w)
               /\ View(after \cup {w}) = after \cup {w}

\* What the room holds after an update and its correction is closed and judged.
THEOREM GuardedIsJudged ==
  ASSUME NEW all, Consistent(all), NEW before \in SUBSET all, FirstUpdate \in before,
         View(before) = before, ~ Forbidden(before), NEW incoming \in SUBSET all,
         NEW after, after = View(before \cup incoming),
         NEW replicaOf \in Nat \X Nat, replicaOf[2] # 0,
         Below(all, replicaOf, Cardinality(Own(before, replicaOf))),
         NEW sender, NEW mayApprove, NEW corrections,
         corrections = Corrections(before, after, sender, mayApprove, replicaOf)
  PROVE  Judged(all, before, incoming, after, replicaOf, corrections)
<1>1. before \subseteq after /\ after \subseteq before \cup incoming
  BY ViewGrows
<1>2. after \in SUBSET all /\ FirstUpdate \in after
  BY <1>1
<1>3. View(after) = after
  BY ViewIsClosed
<1>4. CASE Revokes(before, after, sender, mayApprove)
  <2> DEFINE w == SetApproval(after, replicaOf, "room", Unapproved)
  <2>1. corrections = {w}
    BY <1>4 DEF Corrections
  <2>2. Below(all, replicaOf, Cardinality(Own(after, replicaOf)))
    BY <1>1, <1>2, OwnGrows, BelowGrows
  <2>3. NewUpdate(all, after, replicaOf, w) /\ ~ Forbidden(after \cup {w})
    <3>1. \A x : x = w => NewUpdate(all, after, replicaOf, x) /\ ~ Forbidden(after \cup {x})
      <4> HIDE DEF w
      <4>1. SUFFICES ASSUME NEW x, x = SetApproval(after, replicaOf, "room", Unapproved)
                    PROVE  NewUpdate(all, after, replicaOf, x) /\ ~ Forbidden(after \cup {x})
        BY DEF w
      <4>2. QED
        BY <4>1, <1>2, <2>2, ApprovalIsNew
    <3> HIDE DEF w
    <3>2. QED
      BY <3>1
  <2> HIDE DEF w
  <2>4. View(after \cup {w}) = after \cup {w}
    BY <2>3, <1>3 DEF NewUpdate
  <2>5. QED
    BY <2>1, <2>3, <2>4, <1>1 DEF Judged
<1>5. CASE ~ Revokes(before, after, sender, mayApprove)
  <2>1. corrections = {} /\ after \cup corrections = after
    BY <1>5 DEF Corrections
  <2>2. ~ Forbidden(after)
    BY <1>5 DEF Revokes, Forbidden
  <2>3. QED
    BY <2>1, <2>2, <1>1, <1>3 DEF Judged
<1>6. QED
  BY <1>4, <1>5

-----------------------------------------------------------------------------
\* Frames.

Carried(frame) == IF CarriesUpdates(frame) THEN frame.updates ELSE {}

LEMMA UpdatesInIs ==
  ASSUME NEW frames
  PROVE  UpdatesIn(frames) = UNION {Carried(frame) : frame \in Range(frames)}
BY DEF UpdatesIn, Carried

LEMMA UpdatesSent ==
  ASSUME NEW E, NEW frames \in Seq(E), NEW frame \in E
  PROVE  /\ Append(frames, frame) \in Seq(E)
         /\ Range(Append(frames, frame)) = Range(frames) \cup {frame}
         /\ UpdatesIn(Append(frames, frame)) = UpdatesIn(frames) \cup Carried(frame)
         /\ Append(frames, frame) # <<>>
         /\ frames # <<>> => /\ Head(Append(frames, frame)) = Head(frames)
                             /\ Tail(Append(frames, frame)) = Append(Tail(frames), frame)
                             /\ Range(Tail(Append(frames, frame))) = Range(Tail(frames)) \cup {frame}
<1>1. Append(frames, frame) \in Seq(E) /\ Append(frames, frame) # <<>>
  <2>1. Append(frames, frame) \in Seq(E) /\ Len(Append(frames, frame)) = Len(frames) + 1 /\ Len(frames) \in Nat
    OBVIOUS
  <2>2. Len(<<>>) = 0
    OBVIOUS
  <2>3. QED
    BY <2>1, <2>2
<1>2. Range(Append(frames, frame)) = Range(frames) \cup {frame}
  BY RangeOfAppend
<1>3. UpdatesIn(Append(frames, frame)) = UpdatesIn(frames) \cup Carried(frame)
  BY <1>2, UpdatesInIs
<1>4. ASSUME frames # <<>>
      PROVE  /\ Head(Append(frames, frame)) = Head(frames)
             /\ Tail(Append(frames, frame)) = Append(Tail(frames), frame)
             /\ Range(Tail(Append(frames, frame))) = Range(Tail(frames)) \cup {frame}
  <2>1. Head(Append(frames, frame)) = Head(frames)
    BY <1>4
  <2>2. Tail(Append(frames, frame)) = Append(Tail(frames), frame)
    BY <1>4
  <2>3. Tail(frames) \in Seq(E)
    BY <1>4
  <2>4. Range(Append(Tail(frames), frame)) = Range(Tail(frames)) \cup {frame}
    <3> DEFINE rest == Tail(frames)
    <3> HIDE DEF rest
    <3>1. rest \in Seq(E)
      BY <2>3 DEF rest
    <3>2. Range(Append(rest, frame)) = Range(rest) \cup {frame}
      BY <3>1, RangeOfAppend
    <3>3. QED
      BY <3>2 DEF rest
  <2>5. QED
    BY <2>1, <2>2, <2>4
<1>5. QED
  BY <1>1, <1>2, <1>3, <1>4

LEMMA UpdatesRead ==
  ASSUME NEW E, NEW frames \in Seq(E), frames # <<>>
  PROVE  /\ Head(frames) \in E /\ Tail(frames) \in Seq(E)
         /\ Range(frames) = {Head(frames)} \cup Range(Tail(frames))
         /\ UpdatesIn(frames) = Carried(Head(frames)) \cup UpdatesIn(Tail(frames))
<1>1. /\ Head(frames) \in E /\ Tail(frames) \in Seq(E)
      /\ Range(frames) = {Head(frames)} \cup Range(Tail(frames))
  BY RangeOfTail
<1>2. QED
  BY <1>1, UpdatesInIs

LEMMA NoUpdates ==
  /\ Range(<<>>) = {} /\ UpdatesIn(<<>>) = {} /\ \A E : <<>> \in Seq(E)
<1>1. Range(<<>>) = {}
  BY DEF Range
<1>2. QED
  BY <1>1, UpdatesInIs

LEMMA PageFrames ==
  ASSUME NEW all, NEW frame \in PageFrame(all)
  PROVE  /\ frame.kind \in FrameKinds
         /\ CarriesUpdates(frame) => frame.updates \in SUBSET all
         /\ frame.kind = "stepOne" => frame.has \in SUBSET Id
         /\ frame.kind \in {"welcome", "accessChanged"} => frame.role \in Roles
         /\ frame.kind = "resynchroniseRequired" <=> frame = Resynchronise
BY DEF PageFrame, FrameKinds, CarriesUpdates, Resynchronise

LEMMA RoomFrames ==
  ASSUME NEW all, NEW frame \in RoomFrame(all)
  PROVE  /\ frame.kind \in {"stepOne", "stepTwo", "update"}
         /\ CarriesUpdates(frame) => frame.updates \in SUBSET all
         /\ frame.kind = "stepOne" => frame.has \in SUBSET Id
         /\ ~ CarriesUpdates(frame) <=> frame.kind = "stepOne"
BY DEF RoomFrame, CarriesUpdates

LEMMA MadeFrames ==
  ASSUME NEW all
  PROVE  /\ \A r \in Roles : Welcome(r) \in PageFrame(all) /\ AccessChanged(r) \in PageFrame(all)
         /\ \A ids \in SUBSET Id : StepOne(ids) \in PageFrame(all) /\ StepOne(ids) \in RoomFrame(all)
         /\ \A updates \in SUBSET all :
              /\ StepTwo(updates) \in PageFrame(all) /\ StepTwo(updates) \in RoomFrame(all)
              /\ UpdateFrame(updates) \in PageFrame(all) /\ UpdateFrame(updates) \in RoomFrame(all)
         /\ Resynchronise \in PageFrame(all)
BY DEF PageFrame, RoomFrame, Welcome, AccessChanged, StepOne, StepTwo, UpdateFrame

LEMMA IdsAreTyped ==
  ASSUME NEW all, Consistent(all), NEW doc \in SUBSET all
  PROVE  IdsOf(doc) \in SUBSET Id /\ \A u \in all : u.id \in IdsOf(doc) => u \in doc
BY DEF Consistent, Proper, IdsOf

-----------------------------------------------------------------------------
\* Steps of one page, or of the room with it.

SamePage(client) ==
  /\ phase'[client] = phase[client] /\ slot'[client] = slot[client] /\ composed'[client] = composed[client]
  /\ known'[client] = known[client] /\ role'[client] = role[client]
  /\ replica'[client] = replica[client] /\ replicaId'[client] = replicaId[client]
  /\ held'[client] = held[client] /\ carried'[client] = carried[client]
  /\ toRoom'[client] = toRoom[client] /\ toClient'[client] = toClient[client]

\* The room's document stays, and so do the other pages.
Alone(client) ==
  /\ room' = room /\ unflushed' = unflushed /\ durable' = durable /\ roomId' = roomId /\ crashes' = crashes
  /\ roleChanges' \in Nat /\ roleChanges <= roleChanges'
  /\ \A other \in Clients \ {client} : SamePage(other)

\* New updates are nothing to a replica of another number.
Spread(all, more, number) ==
  /\ all \subseteq more
  /\ \A replicaOf, m : replicaOf[2] # number /\ Below(all, replicaOf, m) => Below(more, replicaOf, m)

LEMMA NothingNew ==
  ASSUME NEW all, NEW number
  PROVE  Spread(all, all, number)
BY DEF Spread

LEMMA OneNew ==
  ASSUME NEW all, NEW doc, NEW replicaOf, NEW w, NewUpdate(all, doc, replicaOf, w)
  PROVE  Spread(all, all \cup {w}, replicaOf[2])
BY DEF Spread, NewUpdate

LEMMA PageKept ==
  ASSUME NEW all, NEW client, PageInv(all, client), SamePage(client),
         room' = room, crashes' = crashes, roleChanges \in Nat, roleChanges' \in Nat, roleChanges <= roleChanges',
         NEW more, Below(more, replicaId[client], Cardinality(Own(Shown(client), replicaId[client])))
  PROVE  PageInv(more, client)'
<1>1. roleChanges' = 0 => roleChanges = 0
  OBVIOUS
<1>2. roleChanges > 0 => roleChanges' > 0
  OBVIOUS
<1>3. Hears(client, slot[client])' <=> Hears(client, slot[client])
  BY DEF SamePage, Hears
<1>4. Composes(more, client)' /\ Quiet(client)' /\ Greeted(client)'
  BY DEF SamePage, PageInv, Composes, Quiet, Greeted, Shown, Held
<1>5. Honest(client)' /\ Served(client)'
  BY <1>3 DEF SamePage, PageInv, Honest, Served
<1>6. Heard(client)'
  BY <1>3 DEF SamePage, PageInv, Heard, Answered, Welcomed, ToldToDrop
<1>7. Owns(client)'
  BY <1>1, <1>2 DEF SamePage, PageInv, Owns
<1>8. QED
  BY <1>4, <1>5, <1>6, <1>7 DEF PageInv

LEMMA OthersKept ==
  ASSUME NEW all, SyncInv(all), NEW client \in Clients, Alone(client),
         NEW more, Consistent(more), Spread(all, more, PageNumber[client]),
         Typed(more)', PageInv(more, client)'
  PROVE  SyncInv(more)'
<1>1. Stored(more)'
  <2>1. Stored(all) /\ PageNumber[client] # RoomNumber
    BY SyncAssumption DEF SyncInv
  <2>2. Below(more, roomId, Cardinality(Own(room, roomId)))
    BY <2>1 DEF Stored, Spread
  <2>3. QED
    BY <2>1, <2>2 DEF Alone, Stored, Spread
<1>2. ASSUME NEW other \in Clients, other # client
      PROVE  PageInv(more, other)'
  <2>1. SamePage(other) /\ PageInv(all, other)
    BY <1>2 DEF SyncInv, Alone
  <2>2. /\ room' = room /\ crashes' = crashes
        /\ roleChanges \in Nat /\ roleChanges' \in Nat /\ roleChanges <= roleChanges'
    BY DEF Alone, SyncInv, Typed
  <2>3. Below(more, replicaId[other], Cardinality(Own(Shown(other), replicaId[other])))
    <3>1. PageNumber[other] # PageNumber[client]
      BY <1>2, SyncAssumption
    <3>2. QED
      BY <2>1, <3>1 DEF PageInv, Composes, Spread
  <2>4. QED
    BY <2>1, <2>2, <2>3, PageKept
<1>3. QED
  BY <1>1, <1>2 DEF SyncInv

LEMMA FramesOfMore ==
  ASSUME NEW all, NEW more, all \subseteq more
  PROVE  /\ PageFrame(all) \subseteq PageFrame(more) /\ RoomFrame(all) \subseteq RoomFrame(more)
         /\ \A frames \in Seq(PageFrame(all)) : frames \in Seq(PageFrame(more))
         /\ \A frames \in Seq(RoomFrame(all)) : frames \in Seq(RoomFrame(more))
<1>1. PageFrame(all) \subseteq PageFrame(more)
  BY DEF PageFrame
<1>2. RoomFrame(all) \subseteq RoomFrame(more)
  BY DEF RoomFrame
<1>3. \A frames \in Seq(PageFrame(all)) : frames \in Seq(PageFrame(more))
  <2> DEFINE A == PageFrame(all)
             B == PageFrame(more)
  <2> HIDE DEF A, B
  <2>1. A \subseteq B
    BY <1>1 DEF A, B
  <2>2. \A frames \in Seq(A) : frames \in Seq(B)
    BY <2>1
  <2>3. QED
    BY <2>2 DEF A, B
<1>4. \A frames \in Seq(RoomFrame(all)) : frames \in Seq(RoomFrame(more))
  <2> DEFINE A == RoomFrame(all)
             B == RoomFrame(more)
  <2> HIDE DEF A, B
  <2>1. A \subseteq B
    BY <1>2 DEF A, B
  <2>2. \A frames \in Seq(A) : frames \in Seq(B)
    BY <2>1
  <2>3. QED
    BY <2>2 DEF A, B
<1>5. QED
  BY <1>1, <1>2, <1>3, <1>4

LEMMA TypedOfMore ==
  ASSUME NEW all, NEW more, all \subseteq more, Typed(all)
  PROVE  Typed(more)
<1>1. toRoom \in [Clients -> [Slots -> Seq(RoomFrame(more))]] /\ toClient \in [Clients -> Seq(PageFrame(more))]
  <2> DEFINE A == Seq(RoomFrame(all))
             B == Seq(RoomFrame(more))
             C == Seq(PageFrame(all))
             D == Seq(PageFrame(more))
  <2>1. toRoom \in [Clients -> [Slots -> A]] /\ toClient \in [Clients -> C]
    BY DEF Typed
  <2>2. A \subseteq B /\ C \subseteq D
    BY FramesOfMore
  <2> HIDE DEF A, B, C, D
  <2>3. toRoom \in [Clients -> [Slots -> B]] /\ toClient \in [Clients -> D]
    BY <2>1, <2>2
  <2>4. QED
    BY <2>3 DEF B, D
<1>2. carried \in [Clients -> [Slots -> SUBSET more]] /\ replica \in [Clients -> SUBSET more]
  BY DEF Typed
<1>3. QED
  BY <1>1, <1>2 DEF Typed

\* A frame was put at the end of others.
Appended(before, after, frame) ==
  /\ Range(after) = Range(before) \cup {frame} /\ UpdatesIn(after) = UpdatesIn(before) \cup Carried(frame)
  /\ after # <<>>
  /\ before # <<>> => Head(after) = Head(before) /\ Range(Tail(after)) = Range(Tail(before)) \cup {frame}

\* A frame was taken from before others.
TakenOff(before, after, frame) ==
  /\ before # <<>> /\ frame = Head(before) /\ after = Tail(before)
  /\ Range(before) = Range(after) \cup {frame} /\ UpdatesIn(before) = UpdatesIn(after) \cup Carried(frame)

LEMMA Sent ==
  ASSUME NEW all, NEW more, all \subseteq more, Typed(all), NEW client \in Clients,
         NEW frame \in RoomFrame(more), Send(client, frame)
  PROVE  /\ toRoom' \in [Clients -> [Slots -> Seq(RoomFrame(more))]]
         /\ \A other \in Clients \ {client} : toRoom'[other] = toRoom[other]
         /\ \A s \in Slots : s # slot[client] => toRoom'[client][s] = toRoom[client][s]
         /\ Held(client) # "open" => toRoom'[client][slot[client]] = toRoom[client][slot[client]]
         /\ Held(client) = "open" =>
              Appended(toRoom[client][slot[client]], toRoom'[client][slot[client]], frame)
<1> DEFINE before == toRoom[client][slot[client]]
           after == IF Held(client) = "open" THEN Append(before, frame) ELSE before
<1>1. Typed(more)
  BY TypedOfMore
<1>2. slot[client] \in Slots /\ toRoom \in [Clients -> [Slots -> Seq(RoomFrame(more))]]
  BY <1>1 DEF Typed
<1>3. toRoom' = [toRoom EXCEPT ![client][slot[client]] = after]
  BY DEF Send
<1>4. before \in Seq(RoomFrame(more))
  BY <1>2
<1>5. /\ Held(client) = "open" => Appended(before, after, frame)
      /\ after \in Seq(RoomFrame(more))
  <2> HIDE DEF before
  <2>1. Append(before, frame) \in Seq(RoomFrame(more)) /\ Appended(before, Append(before, frame), frame)
    BY <1>4, UpdatesSent DEF Appended
  <2>2. QED
    BY <2>1, <1>4
<1> HIDE DEF after
<1>6. /\ toRoom' \in [Clients -> [Slots -> Seq(RoomFrame(more))]]
      /\ \A other \in Clients \ {client} : toRoom'[other] = toRoom[other]
      /\ \A s \in Slots : s # slot[client] => toRoom'[client][s] = toRoom[client][s]
      /\ toRoom'[client][slot[client]] = after
  BY <1>2, <1>3, <1>5
<1>7. QED
  BY <1>5, <1>6 DEF after

LEMMA AnswerSent ==
  ASSUME NEW all, NEW more, all \subseteq more, Typed(all), NEW client \in Clients, NEW s,
         NEW frame \in PageFrame(more), Answer(client, s, frame)
  PROVE  /\ toClient' \in [Clients -> Seq(PageFrame(more))]
         /\ \A other \in Clients \ {client} : toClient'[other] = toClient[other]
         /\ ~ Hears(client, s) => toClient'[client] = toClient[client]
         /\ Hears(client, s) => Appended(toClient[client], toClient'[client], frame)
<1> DEFINE before == toClient[client]
<1>1. toClient \in [Clients -> Seq(PageFrame(more))]
  BY TypedOfMore DEF Typed
<1>2. before \in Seq(PageFrame(more))
  BY <1>1
<1>3. Append(before, frame) \in Seq(PageFrame(more)) /\ Appended(before, Append(before, frame), frame)
  <2> HIDE DEF before
  <2>1. QED
    BY <1>2, UpdatesSent DEF Appended
<1>4. CASE Hears(client, s)
  <2>1. toClient' = [toClient EXCEPT ![client] = Append(before, frame)]
    BY <1>4 DEF Answer
  <2>2. toClient'[client] = Append(before, frame)
    BY <2>1, <1>1
  <2>3. toClient' \in [Clients -> Seq(PageFrame(more))]
    BY <2>1, <1>1, <1>3
  <2>4. \A other \in Clients \ {client} : toClient'[other] = toClient[other]
    BY <2>1, <1>1
  <2>5. QED
    BY <1>3, <1>4, <2>2, <2>3, <2>4
<1>5. CASE ~ Hears(client, s)
  BY <1>1, <1>5 DEF Answer
<1>6. QED
  BY <1>4, <1>5

LEMMA FrameRead ==
  ASSUME NEW all, Typed(all), NEW client \in Clients, toClient[client] # <<>>, Read(client)
  PROVE  /\ toClient' \in [Clients -> Seq(PageFrame(all))]
         /\ \A other \in Clients \ {client} : toClient'[other] = toClient[other]
         /\ Frame(client) \in PageFrame(all)
         /\ TakenOff(toClient[client], toClient'[client], Frame(client))
<1> DEFINE before == toClient[client]
<1>1. toClient \in [Clients -> Seq(PageFrame(all))] /\ before \in Seq(PageFrame(all))
  BY DEF Typed
<1>2. Head(before) \in PageFrame(all) /\ Tail(before) \in Seq(PageFrame(all)) /\ TakenOff(before, Tail(before), Head(before))
  <2> HIDE DEF before
  <2>1. before # <<>>
    BY DEF before
  <2>2. QED
    BY <1>1, <2>1, UpdatesRead DEF TakenOff
<1>3. toClient' = [toClient EXCEPT ![client] = Tail(before)] /\ Frame(client) = Head(before)
  BY DEF Read, Frame
<1> HIDE DEF before
<1>4. toClient'[client] = Tail(before)
  BY <1>1, <1>3
<1>5. toClient' \in [Clients -> Seq(PageFrame(all))]
  BY <1>1, <1>2, <1>3
<1>6. \A other \in Clients \ {client} : toClient'[other] = toClient[other]
  BY <1>1, <1>3
<1>7. QED
  BY <1>2, <1>3, <1>4, <1>5, <1>6 DEF before

LEMMA FrameTaken ==
  ASSUME NEW all, Typed(all), NEW client \in Clients, NEW s \in Slots, toRoom[client][s] # <<>>, Take(client, s)
  PROVE  /\ toRoom' \in [Clients -> [Slots -> Seq(RoomFrame(all))]]
         /\ \A other \in Clients \ {client} : toRoom'[other] = toRoom[other]
         /\ \A t \in Slots : t # s => toRoom'[client][t] = toRoom[client][t]
         /\ Received(client, s) \in RoomFrame(all)
         /\ TakenOff(toRoom[client][s], toRoom'[client][s], Received(client, s))
<1> DEFINE before == toRoom[client][s]
<1>1. toRoom \in [Clients -> [Slots -> Seq(RoomFrame(all))]] /\ before \in Seq(RoomFrame(all))
  BY DEF Typed
<1>2. Head(before) \in RoomFrame(all) /\ Tail(before) \in Seq(RoomFrame(all)) /\ TakenOff(before, Tail(before), Head(before))
  <2> HIDE DEF before
  <2>1. before # <<>>
    BY DEF before
  <2>2. QED
    BY <1>1, <2>1, UpdatesRead DEF TakenOff
<1>3. toRoom' = [toRoom EXCEPT ![client][s] = Tail(before)] /\ Received(client, s) = Head(before)
  BY DEF Take, Received
<1> HIDE DEF before
<1>4. toRoom'[client][s] = Tail(before)
  BY <1>1, <1>3
<1>5. toRoom' \in [Clients -> [Slots -> Seq(RoomFrame(all))]]
  BY <1>1, <1>2, <1>3
<1>6. \A other \in Clients \ {client} : toRoom'[other] = toRoom[other]
  BY <1>1, <1>3
<1>7. \A t \in Slots : t # s => toRoom'[client][t] = toRoom[client][t]
  BY <1>1, <1>3
<1>8. QED
  BY <1>2, <1>3, <1>4, <1>5, <1>6, <1>7 DEF before

-----------------------------------------------------------------------------
\* The page's steps.

LEMMA ShownHoldsFirst ==
  ASSUME NEW all, Consistent(all), NEW doc \in SUBSET all
  PROVE  /\ View(doc) \in SUBSET all
         /\ FirstUpdate \in doc <=> FirstUpdate \in View(doc)
         /\ FirstUpdate \in doc <=> FirstId \in IdsOf(doc)
<1>1. FirstUpdate.needs = {} /\ FirstUpdate.id = FirstId
  BY DEF FirstUpdate
<1>2. QED
  BY <1>1 DEF View, IdsOf, Consistent

\* A local update goes into the replica, and to the room when the socket was welcomed.
LEMMA EditKeepsInv ==
  ASSUME NEW all, SyncInv(all), NEW client \in Clients, Edit(client)
  PROVE  \E more : SyncInv(more)'
<1> DEFINE shown == Shown(client)
           own == replicaId[client]
           n == Cardinality(Own(shown, own))
<1>1. Consistent(all) /\ Typed(all) /\ PageInv(all, client)
  BY DEF SyncInv
<1>2. PICK w \in Edits(shown, own, client) :
        /\ replica' = [replica EXCEPT ![client] = @ \cup {w}]
        /\ IF Welcomed(client) THEN Send(client, UpdateFrame({w})) ELSE UNCHANGED toRoom
  BY DEF Edit
<1>3. /\ composed[client] /\ known[client] = "editor"
      /\ UNCHANGED <<serverVars, phase, slot, composed, known, replicaId, toClient, roleChanges, crashes>>
  BY DEF Edit
<1> DEFINE more == all \cup {w}
<1>4. /\ replica[client] \in SUBSET all /\ own \in Nat \X Nat /\ own[2] = PageNumber[client] /\ own[2] # 0
      /\ Below(all, own, n) /\ FirstUpdate \in replica[client]
  BY <1>1, <1>3, SyncAssumption DEF Typed, PageInv, Composes
<1>5. shown \in SUBSET all /\ FirstUpdate \in shown
  BY <1>1, <1>4, ShownHoldsFirst DEF Shown
<1>6. NewUpdate(all, shown, own, w)
  <2> HIDE DEF shown, own
  <2>1. QED
    BY <1>1, <1>4, <1>5, EditIsNew DEF n
<1>7. Consistent(more) /\ Spread(all, more, PageNumber[client]) /\ ReplicaOf(w.id) = own
  BY <1>4, <1>6, OneNew DEF NewUpdate
<1>8. Alone(client)
  <2>1. \A other \in Clients \ {client} : toRoom'[other] = toRoom[other]
    <3>1. CASE Welcomed(client)
      <4>1. UpdateFrame({w}) \in RoomFrame(more) /\ all \subseteq more
        BY MadeFrames
      <4>2. QED
        BY <3>1, <4>1, <1>1, <1>2, Sent
    <3>2. QED
      BY <3>1, <1>2
  <2>2. \A other \in Clients \ {client} : replica'[other] = replica[other]
    BY <1>1, <1>2 DEF Typed
  <2>3. QED
    BY <2>1, <2>2, <1>1, <1>3 DEF Alone, SamePage, serverVars, Typed
<1>9. replica'[client] = replica[client] \cup {w}
  BY <1>1, <1>2 DEF Typed
<1>10. /\ toRoom' \in [Clients -> [Slots -> Seq(RoomFrame(more))]]
       /\ \A s \in Slots : s # slot[client] => toRoom'[client][s] = toRoom[client][s]
       /\ Welcomed(client) /\ Held(client) = "open" =>
            Appended(toRoom[client][slot[client]], toRoom'[client][slot[client]], UpdateFrame({w}))
       /\ ~ (Welcomed(client) /\ Held(client) = "open") => toRoom'[client][slot[client]] = toRoom[client][slot[client]]
  <2>1. CASE Welcomed(client)
    <3>1. UpdateFrame({w}) \in RoomFrame(more) /\ all \subseteq more
      BY MadeFrames
    <3>2. QED
      BY <2>1, <3>1, <1>1, <1>2, Sent
  <2>2. CASE ~ Welcomed(client)
    <3>1. toRoom' = toRoom
      BY <2>2, <1>2
    <3>2. Typed(more)
      BY <1>1, TypedOfMore
    <3>3. QED
      BY <3>1, <3>2, <2>2 DEF Typed
  <2>3. QED
    BY <2>1, <2>2
<1>11. Typed(more)'
  <2>1. Typed(more)
    BY <1>1, TypedOfMore
  <2>2. replica' \in [Clients -> SUBSET more]
    <3>1. replica \in [Clients -> SUBSET more]
      BY <2>1 DEF Typed
    <3>2. QED
      BY <3>1, <1>2
  <2>3. QED
    BY <2>1, <2>2, <1>10, <1>3 DEF Typed, serverVars
<1>12. Carried(UpdateFrame({w})) = {w} /\ UpdateFrame({w}).kind = "update"
  BY DEF Carried, CarriesUpdates, UpdateFrame
<1>13. /\ room' = room /\ phase' = phase /\ slot' = slot /\ held' = held /\ carried' = carried /\ composed' = composed
       /\ known' = known /\ role' = role /\ replicaId' = replicaId /\ toClient' = toClient
       /\ roleChanges' = roleChanges /\ crashes' = crashes
  BY <1>3 DEF serverVars
<1>14. slot[client] \in Slots
  BY <1>1 DEF Typed
<1>15. Composes(more, client)'
  <2> DEFINE shownAfter == View(replica[client] \cup {w})
  <2>1. shown \cup {w} \subseteq shownAfter
    <3>1. View(shown) = shown
      BY <1>1, <1>4, ViewIsClosed DEF Shown
    <3>2. View(shown \cup {w}) = shown \cup {w}
      BY <3>1, <1>6 DEF NewUpdate
    <3>3. shown \subseteq replica[client]
      BY ViewGrows DEF Shown
    <3> HIDE DEF shown
    <3>4. View(shown \cup {w}) \subseteq shownAfter
      BY <3>3, ViewGrows
    <3>5. QED
      BY <3>2, <3>4
  <2>2. shownAfter \in SUBSET more
    BY <1>4 DEF View
  <2> HIDE DEF shownAfter, shown, own, more
  <2>5. Below(more, own, Cardinality(Own(shownAfter, own)))
    BY <2>1, <2>2, <1>1, <1>5, <1>6, NewIsCounted DEF more
  <2>6. Below(more, own, Cardinality(Own(View(replica'[client]), own)))
    BY <2>5, <1>9 DEF shownAfter
  <2>7. Composes(all, client)
    BY <1>1 DEF PageInv
  <2>8. QED
    BY <2>6, <2>7, <1>9, <1>13 DEF Composes, Shown, own
<1>16. Quiet(client)'
  <2>1. Quiet(client)
    BY <1>1 DEF PageInv
  <2>2. QED
    BY <2>1, <1>10, <1>13, <1>14 DEF Quiet, Held
<1>17. Greeted(client)'
  <2>1. Greeted(client)
    BY <1>1 DEF PageInv
  <2>2. phase[client] = "joining" => toRoom'[client][slot[client]] = toRoom[client][slot[client]]
    BY <1>10 DEF Welcomed
  <2>3. QED
    BY <2>1, <2>2, <1>13 DEF Greeted, Held
<1>18. Honest(client)'
  <2>1. Honest(client)
    BY <1>1 DEF PageInv
  <2>2. /\ UpdatesIn(toRoom'[client][slot[client]]) \subseteq UpdatesIn(toRoom[client][slot[client]]) \cup {w}
        /\ \A frame \in Range(toRoom'[client][slot[client]]) :
             frame.kind = "stepOne" => frame \in Range(toRoom[client][slot[client]])
    BY <1>10, <1>12 DEF Appended
  <2>3. IdsOf(replica[client]) \subseteq IdsOf(replica'[client])
    BY <1>9 DEF IdsOf
  <2>4. QED
    BY <2>1, <2>2, <2>3, <1>9, <1>13 DEF Honest, Hears
<1>19. Served(client)'
  <2>1. Served(client)
    BY <1>1 DEF PageInv
  <2>2. QED
    BY <2>1, <1>9, <1>13 DEF Served, Hears
<1>20. Heard(client)'
  <2>1. Heard(client)
    BY <1>1 DEF PageInv
  <2>2. Hears(client, slot[client]) /\ Answered(client) => Welcomed(client) /\ Held(client) = "open"
    BY DEF Hears, Answered, Held
  <2>3. QED
    BY <2>1, <2>2, <1>9, <1>10, <1>12, <1>13 DEF Heard, Hears, Answered, Welcomed, ToldToDrop, Appended
<1>21. Owns(client)'
  <2>1. Owns(client)
    BY <1>1 DEF PageInv
  <2>2. Own(replica'[client], own) = Own(replica[client], own) \cup {w}
    BY <1>7, <1>9 DEF Own
  <2>3. QED
    BY <2>1, <2>2, <1>3, <1>9, <1>13 DEF Owns
<1>22. PageInv(more, client)'
  BY <1>15, <1>16, <1>17, <1>18, <1>19, <1>20, <1>21 DEF PageInv
<1>23. SyncInv(more)'
  <2> HIDE DEF more
  <2>1. QED
    BY <1>7, <1>8, <1>11, <1>22, OthersKept
<1>24. QED
  BY <1>23

\* A new socket has nothing on it.
LEMMA OpenKeepsInv ==
  ASSUME NEW all, SyncInv(all), NEW client \in Clients, Open(client)
  PROVE  SyncInv(all)'
<1> DEFINE next == 3 - slot[client]
<1>1. Consistent(all) /\ Typed(all) /\ PageInv(all, client)
  BY DEF SyncInv
<1>2. slot[client] \in Slots /\ next \in Slots /\ next # slot[client]
  BY <1>1 DEF Typed, Slots
<1>3. /\ phase[client] = "offline" /\ held[client][next] # "open"
      /\ phase' = [phase EXCEPT ![client] = "joining"]
      /\ slot' = [slot EXCEPT ![client] = next]
      /\ held' = [held EXCEPT ![client][next] = "none"]
      /\ room' = room /\ unflushed' = unflushed /\ durable' = durable /\ roomId' = roomId
      /\ role' = role /\ carried' = carried /\ composed' = composed /\ known' = known
      /\ replica' = replica /\ replicaId' = replicaId /\ toRoom' = toRoom /\ toClient' = toClient
      /\ roleChanges' = roleChanges /\ crashes' = crashes
  BY DEF Open, networkVars, boundVars
<1> HIDE DEF next
<1>4. Typed(all)' /\ Alone(client)
  BY <1>1, <1>2, <1>3 DEF Typed, Alone, SamePage
<1>5. /\ phase'[client] = "joining" /\ slot'[client] = next
      /\ held'[client][next] = "none" /\ \A s \in Slots : held'[client][s] = held[client][s] \/ s = next
  BY <1>1, <1>2, <1>3 DEF Typed
<1>6. carried[client][next] = {} /\ toRoom[client][next] = <<>> /\ toClient[client] = <<>>
  BY <1>1, <1>2, <1>3 DEF PageInv, Quiet
<1>7. ~ Hears(client, slot[client])'
  BY <1>5 DEF Hears
<1>8. Composes(all, client)' /\ Quiet(client)' /\ Greeted(client)'
  BY <1>1, <1>3, <1>5, <1>6 DEF PageInv, Composes, Quiet, Greeted, Shown, Held
<1>9. Honest(client)' /\ Served(client)' /\ Heard(client)'
  BY <1>3, <1>5, <1>6, <1>7, NoUpdates DEF Honest, Served, Heard
<1>10. Owns(client)'
  BY <1>1, <1>3 DEF PageInv, Owns
<1>11. QED
  BY <1>1, <1>4, <1>8, <1>9, <1>10, OthersKept, NothingNew DEF PageInv

\* Nothing of a lost socket is heard.
LEMMA LoseKeepsInv ==
  ASSUME NEW all, SyncInv(all), NEW client \in Clients, Lose(client)
  PROVE  SyncInv(all)'
<1>1. Consistent(all) /\ Typed(all) /\ PageInv(all, client)
  BY DEF SyncInv
<1>2. /\ phase' = [phase EXCEPT ![client] = "offline"]
      /\ toClient' = [toClient EXCEPT ![client] = <<>>]
      /\ slot' = slot /\ held' = held
      /\ room' = room /\ unflushed' = unflushed /\ durable' = durable /\ roomId' = roomId
      /\ role' = role /\ carried' = carried /\ composed' = composed /\ known' = known
      /\ replica' = replica /\ replicaId' = replicaId /\ toRoom' = toRoom
      /\ roleChanges' = roleChanges /\ crashes' = crashes
  BY DEF Lose, LeaveSocket, serverVars
<1>3. phase'[client] = "offline" /\ toClient'[client] = <<>>
  BY <1>1, <1>2 DEF Typed
<1>4. Typed(all)' /\ Alone(client)
  <2>1. toClient' \in [Clients -> Seq(PageFrame(all))]
    BY <1>1, <1>2, NoUpdates DEF Typed
  <2>2. QED
    BY <2>1, <1>1, <1>2 DEF Typed, Alone, SamePage
<1>5. ~ Hears(client, slot[client])'
  BY <1>3 DEF Hears
<1>6. Composes(all, client)' /\ Quiet(client)' /\ Greeted(client)'
  BY <1>1, <1>2, <1>3, NoUpdates DEF PageInv, Composes, Quiet, Greeted, Shown
<1>7. Honest(client)' /\ Served(client)' /\ Heard(client)'
  BY <1>2, <1>3, <1>5, NoUpdates DEF Honest, Served, Heard
<1>8. Owns(client)'
  BY <1>1, <1>2, <1>3, NoUpdates DEF PageInv, Owns
<1>9. QED
  BY <1>1, <1>4, <1>6, <1>7, <1>8, OthersKept, NothingNew DEF PageInv

\* The welcome is answered with the ids of what the page shows.
LEMMA WelcomeKeepsInv ==
  ASSUME NEW all, SyncInv(all), NEW client \in Clients, WelcomeArrives(client)
  PROVE  SyncInv(all)'
<1> DEFINE frame == Frame(client)
           step == StepOne(IdsOf(Shown(client)))
           before == toClient[client]
           sent == toRoom[client][slot[client]]
<1>1. Consistent(all) /\ Typed(all) /\ PageInv(all, client) /\ slot[client] \in Slots
  BY DEF SyncInv, Typed
<1>2. /\ before # <<>> /\ frame.kind = "welcome" /\ Read(client) /\ Send(client, step)
      /\ phase' = [phase EXCEPT ![client] = "synchronising"]
      /\ known' = [known EXCEPT ![client] = frame.role]
      /\ slot' = slot /\ held' = held
      /\ room' = room /\ unflushed' = unflushed /\ durable' = durable /\ roomId' = roomId
      /\ role' = role /\ carried' = carried /\ composed' = composed
      /\ replica' = replica /\ replicaId' = replicaId
      /\ roleChanges' = roleChanges /\ crashes' = crashes
  BY DEF WelcomeArrives, Reads, Frame, serverVars, boundVars
<1>3. Shown(client) \in SUBSET all /\ IdsOf(Shown(client)) \in SUBSET Id /\ IdsOf(Shown(client)) \subseteq IdsOf(replica[client])
  <2>1. replica[client] \in SUBSET all
    BY <1>1 DEF Typed
  <2>2. Shown(client) \in SUBSET all /\ Shown(client) \subseteq replica[client]
    BY <2>1, ViewGrows DEF Shown
  <2>3. QED
    BY <2>2, <1>1, IdsAreTyped DEF IdsOf
<1>4. step \in RoomFrame(all) /\ step.kind = "stepOne" /\ step.has = IdsOf(Shown(client)) /\ Carried(step) = {}
  BY <1>3, MadeFrames DEF StepOne, Carried, CarriesUpdates
<1>5. /\ toClient' \in [Clients -> Seq(PageFrame(all))] /\ frame \in PageFrame(all)
      /\ \A other \in Clients \ {client} : toClient'[other] = toClient[other]
      /\ TakenOff(before, toClient'[client], frame)
  BY <1>1, <1>2, FrameRead
<1>6. /\ toRoom' \in [Clients -> [Slots -> Seq(RoomFrame(all))]]
      /\ \A other \in Clients \ {client} : toRoom'[other] = toRoom[other]
      /\ \A s \in Slots : s # slot[client] => toRoom'[client][s] = toRoom[client][s]
      /\ Held(client) # "open" => toRoom'[client][slot[client]] = sent
      /\ Held(client) = "open" => Appended(sent, toRoom'[client][slot[client]], step)
  <2> HIDE DEF step
  <2>1. QED
    BY <1>1, <1>2, <1>4, Sent
<1> HIDE DEF step, frame, before
<1>7. frame.role \in Roles /\ Carried(frame) = {}
  BY <1>2, <1>5, PageFrames DEF Carried, CarriesUpdates
<1>8. Typed(all)' /\ Alone(client)
  <2>1. known' \in [Clients -> Roles] /\ \A other \in Clients \ {client} : known'[other] = known[other]
    BY <1>1, <1>2, <1>7 DEF Typed
  <2>2. Typed(all)'
    BY <2>1, <1>1, <1>2, <1>5, <1>6 DEF Typed
  <2>3. Alone(client)
    BY <2>1, <1>1, <1>2, <1>5, <1>6 DEF Typed, Alone, SamePage
  <2>4. QED
    BY <2>2, <2>3
<1>9. phase'[client] = "synchronising" /\ known'[client] = frame.role
  BY <1>1, <1>2 DEF Typed
<1>10. /\ phase[client] = "joining" /\ sent = <<>> /\ carried[client][slot[client]] = {}
       /\ \E f \in Range(toClient'[client]) : f.kind = "stepOne"
       /\ \A f \in Range(toClient'[client]) : f.kind \notin {"welcome", "stepTwo"}
       /\ Range(before) = Range(toClient'[client]) \cup {frame} /\ UpdatesIn(before) = UpdatesIn(toClient'[client])
  <2>1. phase[client] = "joining"
    BY <1>1, <1>2, <1>5 DEF PageInv, Greeted, TakenOff, before
  <2>2. QED
    BY <2>1, <1>1, <1>2, <1>5, <1>7 DEF PageInv, Greeted, TakenOff, before
<1>11. Composes(all, client)'
  BY <1>1, <1>2, <1>10 DEF PageInv, Composes, Shown
<1>12. Quiet(client)' /\ Greeted(client)'
  BY <1>1, <1>2, <1>6, <1>9, <1>10 DEF PageInv, Quiet, Greeted, Held
<1>13. Honest(client)'
  <2>1. UpdatesIn(toRoom'[client][slot[client]]) = {} /\ \A f \in Range(toRoom'[client][slot[client]]) : f = step
    BY <1>4, <1>6, <1>10, NoUpdates DEF Appended
  <2>2. \A f \in Range(toClient'[client]) : f \in Range(before)
    BY <1>10
  <2>3. QED
    BY <2>1, <2>2, <1>1, <1>2, <1>3, <1>4, <1>9, <1>10 DEF PageInv, Honest, Hears, before
<1>14. Served(client)' /\ Heard(client)'
  BY <1>9, <1>10 DEF Served, Heard, Answered
<1>15. Owns(client)'
  BY <1>1, <1>2, <1>9, <1>10 DEF PageInv, Owns, before
<1>16. QED
  BY <1>1, <1>8, <1>11, <1>12, <1>13, <1>14, <1>15, OthersKept, NothingNew DEF PageInv

\* The room's step 1 is answered with all the room lacks.
LEMMA StepOneKeepsInv ==
  ASSUME NEW all, SyncInv(all), NEW client \in Clients, StepOneArrives(client)
  PROVE  SyncInv(all)'
<1> DEFINE frame == Frame(client)
           missing == Missing(replica[client], frame.has)
           step == StepTwo(missing)
           before == toClient[client]
           sent == toRoom[client][slot[client]]
<1>1. Consistent(all) /\ Typed(all) /\ PageInv(all, client) /\ slot[client] \in Slots /\ room \subseteq all
  BY DEF SyncInv, Typed, Stored
<1>2. /\ before # <<>> /\ frame.kind = "stepOne" /\ Read(client) /\ Send(client, step)
      /\ phase' = phase /\ known' = known /\ slot' = slot /\ held' = held
      /\ room' = room /\ unflushed' = unflushed /\ durable' = durable /\ roomId' = roomId
      /\ role' = role /\ carried' = carried /\ composed' = composed
      /\ replica' = replica /\ replicaId' = replicaId
      /\ roleChanges' = roleChanges /\ crashes' = crashes
  BY DEF StepOneArrives, Reads, Frame, serverVars, boundVars
<1>3. missing \subseteq replica[client] /\ replica[client] \in SUBSET all
  BY <1>1 DEF Missing, Typed
<1>4. step \in RoomFrame(all) /\ step.kind = "stepTwo" /\ Carried(step) = missing
  <2>1. missing \in SUBSET all
    BY <1>3
  <2> HIDE DEF missing
  <2>2. QED
    BY <2>1, MadeFrames DEF StepTwo, Carried, CarriesUpdates
<1>5. /\ toClient' \in [Clients -> Seq(PageFrame(all))] /\ frame \in PageFrame(all)
      /\ \A other \in Clients \ {client} : toClient'[other] = toClient[other]
      /\ TakenOff(before, toClient'[client], frame)
  BY <1>1, <1>2, FrameRead
<1>6. /\ toRoom' \in [Clients -> [Slots -> Seq(RoomFrame(all))]]
      /\ \A other \in Clients \ {client} : toRoom'[other] = toRoom[other]
      /\ \A s \in Slots : s # slot[client] => toRoom'[client][s] = toRoom[client][s]
      /\ Held(client) # "open" => toRoom'[client][slot[client]] = sent
      /\ Held(client) = "open" => Appended(sent, toRoom'[client][slot[client]], step)
  <2> HIDE DEF step
  <2>1. QED
    BY <1>1, <1>2, <1>4, Sent
<1> HIDE DEF step, before
<1>7. Carried(frame) = {}
  BY <1>2 DEF Carried, CarriesUpdates
<1>8. Typed(all)' /\ Alone(client)
  <2>1. Typed(all)'
    BY <1>1, <1>2, <1>5, <1>6 DEF Typed
  <2>2. Alone(client)
    BY <1>1, <1>2, <1>5, <1>6 DEF Typed, Alone, SamePage
  <2>3. QED
    BY <2>1, <2>2
<1>9. Range(before) = Range(toClient'[client]) \cup {frame} /\ UpdatesIn(before) = UpdatesIn(toClient'[client])
  BY <1>5, <1>7 DEF TakenOff
<1>10. /\ phase[client] \notin {"joining", "offline"}
       /\ \A f \in Range(before) : f.kind # "welcome"
  BY <1>1, <1>2, <1>5 DEF PageInv, Greeted, Quiet, TakenOff, before
<1>11. Composes(all, client)'
  BY <1>1, <1>2, <1>9 DEF PageInv, Composes, Shown, before
<1>12. Quiet(client)' /\ Greeted(client)'
  BY <1>1, <1>2, <1>6, <1>9, <1>10 DEF PageInv, Quiet, Greeted, Held
<1>13. /\ UpdatesIn(toRoom'[client][slot[client]]) \subseteq UpdatesIn(sent) \cup missing
       /\ \A f \in Range(toRoom'[client][slot[client]]) : f.kind = "stepOne" => f \in Range(sent)
       /\ UpdatesIn(sent) \subseteq UpdatesIn(toRoom'[client][slot[client]])
       /\ Held(client) = "open" => missing \subseteq UpdatesIn(toRoom'[client][slot[client]])
  BY <1>4, <1>6 DEF Appended
<1> HIDE DEF missing
<1>14. Honest(client)'
  BY <1>13, <1>1, <1>2, <1>3, <1>9 DEF PageInv, Honest, Hears, before
<1>15. Served(client)'
  BY <1>1, <1>2, <1>9 DEF PageInv, Served, Hears, before
<1>16. Heard(client)'
  <2>1. SUFFICES ASSUME Hears(client, slot[client])
                PROVE  replica[client] \subseteq room \cup UpdatesIn(toRoom'[client][slot[client]])
    BY <1>2 DEF Heard, Hears
  <2>2. frame.has \subseteq IdsOf(room) /\ Held(client) = "open"
    BY <1>1, <1>2, <1>9, <2>1 DEF PageInv, Honest, before, Hears, Held
  <2>3. ASSUME NEW u \in replica[client], u \notin room
        PROVE  u \in missing
    <3>1. u.id \notin IdsOf(room)
      BY <2>3, <1>1, <1>3, IdsAreTyped
    <3>2. QED
      BY <3>1, <2>2, <2>3 DEF missing, Missing
  <2>4. QED
    BY <2>2, <2>3, <1>13
<1>17. Owns(client)'
  BY <1>1, <1>2, <1>9 DEF PageInv, Owns, before
<1>18. QED
  BY <1>1, <1>8, <1>11, <1>12, <1>14, <1>15, <1>16, <1>17, OthersKept, NothingNew DEF PageInv

\* The room's answer and its updates go into the replica.
LEMMA UpdateKeepsInv ==
  ASSUME NEW all, SyncInv(all), NEW client \in Clients, StepTwoArrives(client) \/ UpdateArrives(client)
  PROVE  SyncInv(all)'
<1> DEFINE frame == Frame(client)
           before == toClient[client]
<1>1. Consistent(all) /\ Typed(all) /\ PageInv(all, client) /\ slot[client] \in Slots /\ room \subseteq all
  BY DEF SyncInv, Typed, Stored
<1>2. /\ before # <<>> /\ CarriesUpdates(frame) /\ Read(client)
      /\ replica' = [replica EXCEPT ![client] = @ \cup frame.updates]
      /\ \/ /\ frame.kind = "stepTwo" /\ phase' = [phase EXCEPT ![client] = "online"]
            /\ composed' = [composed EXCEPT ![client] = TRUE]
         \/ frame.kind = "update" /\ phase' = phase /\ composed' = composed
      /\ known' = known /\ slot' = slot /\ held' = held /\ toRoom' = toRoom
      /\ room' = room /\ unflushed' = unflushed /\ durable' = durable /\ roomId' = roomId
      /\ role' = role /\ carried' = carried /\ replicaId' = replicaId
      /\ roleChanges' = roleChanges /\ crashes' = crashes
  BY DEF StepTwoArrives, UpdateArrives, Reads, Frame, serverVars, boundVars, CarriesUpdates
<1>3. /\ toClient' \in [Clients -> Seq(PageFrame(all))] /\ frame \in PageFrame(all)
      /\ \A other \in Clients \ {client} : toClient'[other] = toClient[other]
      /\ TakenOff(before, toClient'[client], frame)
  BY <1>1, <1>2, FrameRead
<1> HIDE DEF frame, before
<1>4. frame.updates \in SUBSET all /\ Carried(frame) = frame.updates /\ frame.kind \in {"stepTwo", "update"}
  BY <1>2, <1>3, PageFrames DEF Carried, CarriesUpdates
<1>5. /\ replica' \in [Clients -> SUBSET all] /\ replica'[client] = replica[client] \cup frame.updates
      /\ \A other \in Clients \ {client} : replica'[other] = replica[other]
  BY <1>1, <1>2, <1>4 DEF Typed
<1>6. /\ phase' \in [Clients -> {"offline", "joining", "synchronising", "online"}] /\ composed' \in [Clients -> BOOLEAN]
      /\ \A other \in Clients \ {client} : phase'[other] = phase[other] /\ composed'[other] = composed[other]
      /\ \/ frame.kind = "stepTwo" /\ phase'[client] = "online" /\ composed'[client]
         \/ phase'[client] = phase[client] /\ composed'[client] = composed[client]
  BY <1>1, <1>2 DEF Typed
<1>7. Typed(all)' /\ Alone(client)
  <2>1. Typed(all)'
    BY <1>1, <1>2, <1>3, <1>5, <1>6 DEF Typed
  <2>2. Alone(client)
    BY <1>1, <1>2, <1>3, <1>5, <1>6 DEF Typed, Alone, SamePage
  <2>3. QED
    BY <2>1, <2>2
<1>8. /\ Range(before) = Range(toClient'[client]) \cup {frame}
      /\ UpdatesIn(before) = UpdatesIn(toClient'[client]) \cup frame.updates
  BY <1>3, <1>4 DEF TakenOff
<1>9. /\ phase[client] \notin {"joining", "offline"} /\ phase'[client] \notin {"joining", "offline"}
      /\ \A f \in Range(before) : f.kind # "welcome"
  <2>1. Head(before) = frame /\ frame.kind # "welcome" /\ before # <<>>
    BY <1>3, <1>4 DEF TakenOff
  <2>2. Greeted(client) /\ Quiet(client)
    BY <1>1 DEF PageInv
  <2>3. phase[client] # "joining" /\ phase[client] # "offline"
    BY <2>1, <2>2 DEF Greeted, Quiet, before
  <2>4. QED
    BY <2>2, <2>3, <1>6 DEF Greeted, before
<1>10. Composes(all, client)'
  <2> DEFINE own == replicaId[client]
  <2>1. Composes(all, client)
    BY <1>1 DEF PageInv
  <2>2. Below(all, own, Cardinality(Own(View(replica'[client]), own)))
    <3>1. replica[client] \subseteq replica'[client] /\ replica'[client] \in SUBSET all
      BY <1>5
    <3>2. View(replica[client]) \subseteq View(replica'[client]) /\ View(replica'[client]) \in SUBSET all
      BY <3>1, ViewGrows
    <3>3. QED
      BY <3>2, <2>1, <1>1, OwnGrows, BelowGrows DEF Composes, Shown
  <2>3. FirstUpdate \in replica[client] => FirstUpdate \in replica'[client]
    BY <1>5
  <2>4. frame.kind = "stepTwo" => FirstUpdate \in replica'[client]
    BY <2>1, <1>5, <1>8 DEF Composes, before
  <2>5. composed'[client] => FirstUpdate \in replica'[client]
    BY <2>1, <2>3, <2>4, <1>6 DEF Composes
  <2>6. \A f \in Range(toClient'[client]) : f.kind = "stepTwo" => FirstUpdate \in replica'[client] \cup f.updates
    BY <2>1, <2>3, <1>8 DEF Composes, before
  <2>7. QED
    BY <2>1, <2>2, <2>5, <2>6, <1>2 DEF Composes, Shown
<1>11. Quiet(client)' /\ Greeted(client)'
  BY <1>1, <1>2, <1>8, <1>9 DEF PageInv, Quiet, Greeted, Held
<1>12. Hears(client, slot[client])' <=> Hears(client, slot[client])
  BY <1>2, <1>9 DEF Hears
<1>13. Honest(client)'
  <2>1. Honest(client)
    BY <1>1 DEF PageInv
  <2>2. replica[client] \subseteq replica'[client] /\ IdsOf(replica[client]) \subseteq IdsOf(replica'[client])
    BY <1>5 DEF IdsOf
  <2>3. QED
    BY <2>1, <2>2, <1>2, <1>8, <1>9, <1>12 DEF Honest, before
<1>14. Served(client)'
  <2>1. Served(client)
    BY <1>1 DEF PageInv
  <2>2. phase'[client] = "online" \/ (\E f \in Range(toClient'[client]) : f.kind = "stepTwo")
          => phase[client] = "online" \/ \E f \in Range(before) : f.kind = "stepTwo"
    BY <1>6, <1>8
  <2>3. QED
    BY <2>1, <2>2, <1>2, <1>5, <1>8, <1>12 DEF Served, before
<1>15. Heard(client)'
  <2>1. Heard(client) /\ Honest(client)
    BY <1>1 DEF PageInv
  <2>2. Answered(client)' => Answered(client)
    <3>1. Welcomed(client)
      BY <1>1, <1>9 DEF Typed, Welcomed
    <3>2. QED
      BY <3>1, <1>4, <1>8 DEF Answered, before
  <2>3. ToldToDrop(client) => ToldToDrop(client)'
    <3>1. frame # Resynchronise
      BY <1>4 DEF Resynchronise
    <3>2. QED
      BY <3>1, <1>8 DEF ToldToDrop, before
  <2>4. Hears(client, slot[client]) => frame.updates \subseteq room
    BY <2>1, <1>8 DEF Honest, before
  <2>5. QED
    BY <2>1, <2>2, <2>3, <2>4, <1>2, <1>5, <1>12 DEF Heard
<1>16. Owns(client)'
  <2>1. Owns(client) /\ Honest(client)
    BY <1>1 DEF PageInv
  <2>2. Own(replica[client], replicaId[client]) \subseteq Own(replica'[client], replicaId[client])
    BY <1>5 DEF Own
  <2>3. crashes = 0 => frame.updates \subseteq room
    BY <2>1, <1>8 DEF Honest, before
  <2>4. \A f \in Range(toClient'[client]) : f \in Range(before)
    BY <1>8
  <2>5. QED
    BY <2>1, <2>2, <2>3, <2>4, <1>2, <1>5 DEF Owns, before
<1>17. QED
  BY <1>1, <1>7, <1>10, <1>11, <1>13, <1>14, <1>15, <1>16, OthersKept, NothingNew DEF PageInv

\* The page learns its role.
LEMMA RoleKeepsInv ==
  ASSUME NEW all, SyncInv(all), NEW client \in Clients, RoleArrives(client)
  PROVE  SyncInv(all)'
<1> DEFINE frame == Frame(client)
           before == toClient[client]
<1>1. Consistent(all) /\ Typed(all) /\ PageInv(all, client) /\ slot[client] \in Slots
  BY DEF SyncInv, Typed
<1>2. /\ before # <<>> /\ frame.kind = "accessChanged" /\ Read(client)
      /\ known' = [known EXCEPT ![client] = frame.role]
      /\ phase' = phase /\ slot' = slot /\ held' = held /\ toRoom' = toRoom
      /\ room' = room /\ unflushed' = unflushed /\ durable' = durable /\ roomId' = roomId
      /\ role' = role /\ carried' = carried /\ composed' = composed
      /\ replica' = replica /\ replicaId' = replicaId
      /\ roleChanges' = roleChanges /\ crashes' = crashes
  BY DEF RoleArrives, Reads, Frame, serverVars, boundVars
<1>3. /\ toClient' \in [Clients -> Seq(PageFrame(all))] /\ frame \in PageFrame(all)
      /\ \A other \in Clients \ {client} : toClient'[other] = toClient[other]
      /\ TakenOff(before, toClient'[client], frame)
  BY <1>1, <1>2, FrameRead
<1> HIDE DEF frame, before
<1>4. frame.role \in Roles /\ Carried(frame) = {} /\ frame # Resynchronise
  BY <1>2, <1>3, PageFrames DEF Carried, CarriesUpdates, Resynchronise
<1>5. /\ known' \in [Clients -> Roles] /\ known'[client] = frame.role
      /\ \A other \in Clients \ {client} : known'[other] = known[other]
  BY <1>1, <1>2, <1>4 DEF Typed
<1>6. Typed(all)' /\ Alone(client)
  <2>1. Typed(all)'
    BY <1>1, <1>2, <1>3, <1>5 DEF Typed
  <2>2. Alone(client)
    BY <1>1, <1>2, <1>3, <1>5 DEF Typed, Alone, SamePage
  <2>3. QED
    BY <2>1, <2>2
<1>7. Range(before) = Range(toClient'[client]) \cup {frame} /\ UpdatesIn(before) = UpdatesIn(toClient'[client])
  BY <1>3, <1>4 DEF TakenOff
<1>8. phase[client] \notin {"joining", "offline"} /\ \A f \in Range(before) : f.kind # "welcome"
  BY <1>1, <1>2, <1>3 DEF PageInv, Greeted, Quiet, TakenOff, before
<1>9. Composes(all, client)'
  BY <1>1, <1>2, <1>7 DEF PageInv, Composes, Shown, before
<1>10. Quiet(client)' /\ Greeted(client)'
  BY <1>1, <1>2, <1>7, <1>8 DEF PageInv, Quiet, Greeted, Held
<1>11. Honest(client)' /\ Served(client)'
  BY <1>1, <1>2, <1>7 DEF PageInv, Honest, Served, Hears, before
<1>12. Heard(client)'
  BY <1>1, <1>2, <1>4, <1>7 DEF PageInv, Heard, Hears, Answered, Welcomed, ToldToDrop, before
<1>13. Owns(client)'
  BY <1>1, <1>2, <1>5, <1>7 DEF PageInv, Owns, before
<1>14. QED
  BY <1>1, <1>6, <1>9, <1>10, <1>11, <1>12, <1>13, OthersKept, NothingNew DEF PageInv

\* A page that drops its replica starts again with nothing.
LEMMA ResynchroniseKeepsInv ==
  ASSUME NEW all, SyncInv(all), NEW client \in Clients, ResynchroniseArrives(client)
  PROVE  SyncInv(all)'
<1>1. Consistent(all) /\ Typed(all) /\ PageInv(all, client) /\ slot[client] \in Slots
  BY DEF SyncInv, Typed
<1>2. /\ replica' = [replica EXCEPT ![client] = {}]
      /\ replicaId' = [replicaId EXCEPT ![client] = Renewed(@)]
      /\ composed' = [composed EXCEPT ![client] = FALSE]
      /\ phase' = [phase EXCEPT ![client] = "offline"]
      /\ toClient' = [toClient EXCEPT ![client] = <<>>]
      /\ known' = known /\ slot' = slot /\ held' = held /\ toRoom' = toRoom
      /\ room' = room /\ unflushed' = unflushed /\ durable' = durable /\ roomId' = roomId
      /\ role' = role /\ carried' = carried
      /\ roleChanges' = roleChanges /\ crashes' = crashes
  BY DEF ResynchroniseArrives, LeaveSocket, serverVars, boundVars
<1>3. /\ replicaId[client] \in Nat \X Nat /\ replicaId[client][2] = PageNumber[client]
      /\ \E n : Below(all, replicaId[client], n)
  BY <1>1 DEF Typed, PageInv, Composes
<1>4. /\ Renewed(replicaId[client]) \in Nat \X Nat /\ Renewed(replicaId[client])[2] = PageNumber[client]
      /\ \A m \in Nat : Below(all, Renewed(replicaId[client]), m)
  BY <1>1, <1>3, BelowRenewed
<1>5. /\ replica'[client] = {} /\ replicaId'[client] = Renewed(replicaId[client]) /\ ~ composed'[client]
      /\ phase'[client] = "offline" /\ toClient'[client] = <<>>
  BY <1>1, <1>2 DEF Typed
<1>6. Typed(all)' /\ Alone(client)
  <2>1. toClient' \in [Clients -> Seq(PageFrame(all))]
    BY <1>1, <1>2, NoUpdates DEF Typed
  <2>2. replicaId' \in [Clients -> Nat \X Nat]
    BY <1>1, <1>2, <1>4 DEF Typed
  <2>3. Typed(all)'
    BY <2>1, <2>2, <1>1, <1>2 DEF Typed
  <2>4. Alone(client)
    BY <1>1, <1>2 DEF Typed, Alone, SamePage
  <2>5. QED
    BY <2>3, <2>4
<1>7. ~ Hears(client, slot[client])'
  BY <1>5 DEF Hears
<1>8. Composes(all, client)'
  <2>1. Own(View({}), Renewed(replicaId[client])) = {}
    BY DEF Own, View
  <2>2. Cardinality({}) = 0
    BY FS_EmptySet
  <2>3. Below(all, replicaId'[client], Cardinality(Own(View(replica'[client]), replicaId'[client])))
    <3>1. Cardinality(Own(View(replica'[client]), replicaId'[client])) = 0
      BY <2>1, <2>2, <1>5
    <3>2. Below(all, Renewed(replicaId[client]), 0)
      BY <1>4
    <3>3. QED
      BY <3>1, <3>2, <1>5
  <2>4. QED
    BY <2>3, <1>4, <1>5, NoUpdates DEF Composes, Shown
<1>9. Quiet(client)' /\ Greeted(client)'
  BY <1>1, <1>2, <1>5, NoUpdates DEF PageInv, Quiet, Greeted
<1>10. Honest(client)' /\ Served(client)' /\ Heard(client)'
  BY <1>2, <1>5, <1>7, NoUpdates DEF Honest, Served, Heard
<1>11. Owns(client)'
  BY <1>1, <1>2, <1>5, NoUpdates DEF PageInv, Owns
<1>12. QED
  BY <1>1, <1>6, <1>8, <1>9, <1>10, <1>11, OthersKept, NothingNew DEF PageInv

-----------------------------------------------------------------------------
\* The room's steps with one connection.

LEMMA TwoFrames ==
  ASSUME NEW E, NEW first \in E, NEW second \in E
  PROVE  /\ <<first, second>> \in Seq(E) /\ <<first, second>> # <<>> /\ Head(<<first, second>>) = first
         /\ Range(<<first, second>>) = {first, second} /\ Range(Tail(<<first, second>>)) = {second}
         /\ UpdatesIn(<<first, second>>) = Carried(first) \cup Carried(second)
<1> DEFINE both == <<first, second>>
<1>1. both \in Seq(E) /\ both # <<>> /\ Head(both) = first /\ Tail(both) = <<second>>
  OBVIOUS
<1>2. Range(both) = {first, second} /\ Range(<<second>>) = {second}
  BY DEF Range
<1>3. UpdatesIn(both) = Carried(first) \cup Carried(second)
  <2> HIDE DEF both
  <2>1. QED
    BY <1>2, UpdatesInIs
<1>4. QED
  BY <1>1, <1>2, <1>3

\* The room holds the connection and sends its welcome and its step 1.
LEMMA ConnectKeepsInv ==
  ASSUME NEW all, SyncInv(all), NEW client \in Clients, Connect(client)
  PROVE  SyncInv(all)'
<1> DEFINE s == slot[client]
           hello == Welcome(role[client])
           step == StepOne(IdsOf(room))
<1>1. /\ Consistent(all) /\ Typed(all) /\ PageInv(all, client) /\ slot[client] \in Slots
      /\ room \in SUBSET all /\ role[client] \in Roles
  BY DEF SyncInv, Typed, Stored
<1>2. /\ phase[client] = "joining" /\ held[client][s] = "none"
      /\ held' = [held EXCEPT ![client][s] = "open"]
      /\ toClient' = [toClient EXCEPT ![client] = <<hello, step>>]
      /\ phase' = phase /\ slot' = slot /\ composed' = composed /\ known' = known
      /\ replica' = replica /\ replicaId' = replicaId /\ toRoom' = toRoom
      /\ room' = room /\ unflushed' = unflushed /\ durable' = durable /\ roomId' = roomId
      /\ role' = role /\ carried' = carried
      /\ roleChanges' = roleChanges /\ crashes' = crashes
  BY DEF Connect, pageVars, boundVars, Held
<1>3. /\ hello \in PageFrame(all) /\ hello.kind = "welcome" /\ hello.role = role[client]
      /\ step \in PageFrame(all) /\ step.kind = "stepOne" /\ step.has = IdsOf(room)
      /\ Carried(hello) = {} /\ Carried(step) = {}
  BY <1>1, MadeFrames, IdsAreTyped DEF Welcome, StepOne, Carried, CarriesUpdates
<1> HIDE DEF hello, step
<1> DEFINE frames == <<hello, step>>
<1>4. /\ frames \in Seq(PageFrame(all)) /\ frames # <<>> /\ Head(frames) = hello
      /\ Range(frames) = {hello, step} /\ Range(Tail(frames)) = {step} /\ UpdatesIn(frames) = {}
  BY <1>3, TwoFrames
<1> HIDE DEF frames
<1>5. /\ toClient' \in [Clients -> Seq(PageFrame(all))] /\ toClient'[client] = frames
      /\ \A other \in Clients \ {client} : toClient'[other] = toClient[other]
  BY <1>1, <1>2, <1>4 DEF Typed, frames
<1>6. /\ held' \in [Clients -> [Slots -> {"none", "open", "gone"}]]
      /\ \A other \in Clients \ {client} : held'[other] = held[other]
      /\ held'[client][s] = "open" /\ \A t \in Slots : t # s => held'[client][t] = held[client][t]
  BY <1>1, <1>2 DEF Typed
<1>7. Typed(all)' /\ Alone(client)
  <2>1. Typed(all)'
    BY <1>1, <1>2, <1>5, <1>6 DEF Typed
  <2>2. Alone(client)
    BY <1>1, <1>2, <1>5, <1>6 DEF Typed, Alone, SamePage
  <2>3. QED
    BY <2>1, <2>2
<1>8. carried[client][s] = {} /\ toRoom[client][s] = <<>>
  BY <1>1, <1>2 DEF PageInv, Greeted
<1>9. Composes(all, client)'
  BY <1>1, <1>2, <1>3, <1>4, <1>5 DEF PageInv, Composes, Shown
<1>10. Quiet(client)' /\ Greeted(client)'
  <2>1. Quiet(client)'
    <3>1. Quiet(client)
      BY <1>1 DEF PageInv
    <3>2. QED
      BY <3>1, <1>2, <1>6 DEF Quiet
  <2>2. /\ phase'[client] = "joining" /\ Head(toClient'[client]).kind = "welcome" /\ toClient'[client] # <<>>
        /\ step \in Range(Tail(toClient'[client]))
        /\ \A frame \in Range(Tail(toClient'[client])) : frame.kind \notin {"welcome", "stepTwo"}
    BY <1>2, <1>3, <1>4, <1>5
  <2>3. Greeted(client)'
    BY <2>2, <1>2, <1>3, <1>8 DEF Greeted
  <2>4. QED
    BY <2>1, <2>3
<1>11. Honest(client)'
  BY <1>2, <1>3, <1>4, <1>5, <1>8, NoUpdates DEF Honest
<1>12. Served(client)' /\ Heard(client)'
  BY <1>2, <1>3, <1>4, <1>5 DEF Served, Heard, Answered, Welcomed
<1>13. Owns(client)'
  <2>1. \A frame \in Range(toClient'[client]) : frame.kind \in {"welcome", "accessChanged"} => frame.role = role[client]
    BY <1>3, <1>4, <1>5
  <2>2. Owns(client)
    BY <1>1 DEF PageInv
  <2>3. QED
    BY <2>1, <2>2, <1>2 DEF Owns
<1>14. QED
  BY <1>1, <1>7, <1>9, <1>10, <1>11, <1>12, <1>13, OthersKept, NothingNew DEF PageInv

\* What an answer leaves as it was.
LEMMA AnswerKeeps ==
  ASSUME NEW all, NEW client, PageInv(all, client), NEW frame,
         frame.kind \notin {"welcome", "stepOne"},
         \/ toClient'[client] = toClient[client]
         \/ /\ Hears(client, slot[client]) /\ Appended(toClient[client], toClient'[client], frame)
            /\ frame.kind = "stepTwo" => phase[client] # "joining",
         phase'[client] = phase[client], slot'[client] = slot[client], held'[client] = held[client],
         carried'[client] = carried[client],
         \/ toRoom'[client] = toRoom[client]
         \/ /\ \A s \in Slots : toRoom[client][s] = <<>> => toRoom'[client][s] = <<>>
            /\ slot[client] \in Slots
  PROVE  Quiet(client)' /\ Greeted(client)'
<1>1. Quiet(client) /\ Greeted(client)
  BY DEF PageInv
<1>2. Quiet(client)'
  BY <1>1 DEF Quiet, Hears
<1>3. Greeted(client)'
  <2>1. CASE phase[client] = "joining"
    <3>1. toRoom'[client][slot[client]] = <<>>
      BY <1>1, <2>1 DEF Greeted
    <3>2. CASE toClient'[client] = toClient[client]
      BY <1>1, <2>1, <3>1, <3>2 DEF Greeted, Held
    <3>3. CASE /\ Hears(client, slot[client]) /\ Appended(toClient[client], toClient'[client], frame)
               /\ frame.kind # "stepTwo"
      <4>1. toClient[client] # <<>> /\ frame.kind \notin {"welcome", "stepTwo"}
        BY <1>1, <2>1, <3>3 DEF Greeted, Held, Hears
      <4>2. QED
        BY <4>1, <1>1, <2>1, <3>1, <3>3 DEF Greeted, Held, Appended
    <3>4. QED
      BY <3>2, <3>3, <2>1
  <2>2. CASE phase[client] # "joining"
    BY <1>1, <2>2 DEF Greeted, Appended
  <2>3. QED
    BY <2>1, <2>2
<1>4. QED
  BY <1>2, <1>3

\* The room tells a page its new role.
LEMMA SetRoleKeepsInv ==
  ASSUME NEW all, SyncInv(all), NEW client \in Clients, SetRole(client)
  PROVE  SyncInv(all)'
<1>1. Consistent(all) /\ Typed(all) /\ PageInv(all, client) /\ slot[client] \in Slots
  BY DEF SyncInv, Typed
<1>2. PICK given \in Roles : /\ role' = [role EXCEPT ![client] = given]
                             /\ Answer(client, slot[client], AccessChanged(given))
  BY DEF SetRole
<1>3. /\ phase' = phase /\ slot' = slot /\ composed' = composed /\ known' = known
      /\ replica' = replica /\ replicaId' = replicaId /\ toRoom' = toRoom
      /\ room' = room /\ unflushed' = unflushed /\ durable' = durable /\ roomId' = roomId
      /\ held' = held /\ carried' = carried
      /\ roleChanges' = roleChanges + 1 /\ crashes' = crashes
  BY DEF SetRole, pageVars
<1> DEFINE frame == AccessChanged(given)
<1>4. /\ frame \in PageFrame(all) /\ frame.kind = "accessChanged" /\ Carried(frame) = {} /\ frame # Resynchronise
  BY MadeFrames DEF AccessChanged, Carried, CarriesUpdates, Resynchronise
<1> HIDE DEF frame
<1>5. /\ toClient' \in [Clients -> Seq(PageFrame(all))]
      /\ \A other \in Clients \ {client} : toClient'[other] = toClient[other]
      /\ \/ toClient'[client] = toClient[client]
         \/ Hears(client, slot[client]) /\ Appended(toClient[client], toClient'[client], frame)
  BY <1>1, <1>2, <1>4, AnswerSent DEF frame
<1>6. roleChanges' \in Nat /\ roleChanges <= roleChanges' /\ roleChanges' > 0
  BY <1>1, <1>3 DEF Typed
<1>7. Typed(all)' /\ Alone(client)
  <2>1. role' \in [Clients -> Roles] /\ \A other \in Clients \ {client} : role'[other] = role[other]
    BY <1>1, <1>2 DEF Typed
  <2>2. Typed(all)'
    BY <2>1, <1>1, <1>3, <1>5, <1>6 DEF Typed
  <2>3. Alone(client)
    BY <2>1, <1>3, <1>5, <1>6 DEF Alone, SamePage
  <2>4. QED
    BY <2>2, <2>3
<1>8. /\ Range(toClient[client]) \subseteq Range(toClient'[client])
      /\ Range(toClient'[client]) \subseteq Range(toClient[client]) \cup {frame}
      /\ UpdatesIn(toClient'[client]) = UpdatesIn(toClient[client])
  BY <1>4, <1>5 DEF Appended
<1>9. Quiet(client)' /\ Greeted(client)'
  BY <1>1, <1>3, <1>4, <1>5, AnswerKeeps
<1>10. Composes(all, client)'
  BY <1>1, <1>3, <1>4, <1>8 DEF PageInv, Composes, Shown
<1>11. Honest(client)' /\ Served(client)'
  BY <1>1, <1>3, <1>4, <1>8 DEF PageInv, Honest, Served, Hears
<1>12. Heard(client)'
  BY <1>1, <1>3, <1>4, <1>8 DEF PageInv, Heard, Hears, Answered, Welcomed, ToldToDrop
<1>13. Owns(client)'
  BY <1>1, <1>3, <1>6 DEF PageInv, Owns
<1>14. QED
  BY <1>1, <1>7, <1>9, <1>10, <1>11, <1>12, <1>13, OthersKept, NothingNew DEF PageInv

\* What a frame taken from a connection leaves as it was.
LEMMA TakingKeeps ==
  ASSUME NEW all, Typed(all), NEW client \in Clients, NEW s \in Slots, toRoom[client][s] # <<>>, Take(client, s)
  PROVE  \A t \in Slots :
           /\ toRoom[client][t] = <<>> => toRoom'[client][t] = <<>>
           /\ Range(toRoom'[client][t]) \subseteq Range(toRoom[client][t])
           /\ UpdatesIn(toRoom'[client][t]) \subseteq UpdatesIn(toRoom[client][t])
           /\ UpdatesIn(toRoom[client][t]) \subseteq UpdatesIn(toRoom'[client][t]) \cup Carried(Received(client, s))
           /\ t # s => toRoom'[client][t] = toRoom[client][t]
<1>1. /\ \A t \in Slots : t # s => toRoom'[client][t] = toRoom[client][t]
      /\ TakenOff(toRoom[client][s], toRoom'[client][s], Received(client, s))
  BY FrameTaken
<1>2. QED
  BY <1>1 DEF TakenOff

\* The room answers a page's step 1 with all the page lacks.
LEMMA AnswerKeepsInv ==
  ASSUME NEW all, SyncInv(all), NEW client \in Clients, NEW s \in Slots, AnswerStepOne(client, s)
  PROVE  SyncInv(all)'
<1> DEFINE asked == Received(client, s)
           missing == Missing(room, asked.has)
           frame == StepTwo(missing)
<1>1. /\ Consistent(all) /\ Typed(all) /\ PageInv(all, client) /\ slot[client] \in Slots
      /\ room \in SUBSET all /\ FirstUpdate \in room /\ replica[client] \in SUBSET all
  BY DEF SyncInv, Typed, Stored
<1>2. /\ toRoom[client][s] # <<>> /\ asked.kind = "stepOne" /\ asked = Head(toRoom[client][s])
      /\ Answer(client, s, frame) /\ Take(client, s)
      /\ phase' = phase /\ slot' = slot /\ composed' = composed /\ known' = known
      /\ replica' = replica /\ replicaId' = replicaId /\ role' = role
      /\ room' = room /\ unflushed' = unflushed /\ durable' = durable /\ roomId' = roomId
      /\ held' = held /\ carried' = carried
      /\ roleChanges' = roleChanges /\ crashes' = crashes
  BY DEF AnswerStepOne, Receives, Received, serverVars, pageVars, boundVars
<1>3. missing \subseteq room /\ missing \in SUBSET all
  BY <1>1 DEF Missing
<1>4. /\ frame \in PageFrame(all) /\ frame.kind = "stepTwo" /\ frame.updates = missing
      /\ Carried(frame) = missing /\ frame # Resynchronise
  <2> HIDE DEF missing
  <2>1. QED
    BY <1>3, MadeFrames DEF StepTwo, Carried, CarriesUpdates, Resynchronise
<1>5. /\ toClient' \in [Clients -> Seq(PageFrame(all))]
      /\ \A other \in Clients \ {client} : toClient'[other] = toClient[other]
      /\ ~ Hears(client, s) => toClient'[client] = toClient[client]
      /\ Hears(client, s) => Appended(toClient[client], toClient'[client], frame)
  <2> HIDE DEF frame
  <2>1. QED
    BY <1>1, <1>2, <1>4, AnswerSent
<1>6. /\ toRoom' \in [Clients -> [Slots -> Seq(RoomFrame(all))]]
      /\ \A other \in Clients \ {client} : toRoom'[other] = toRoom[other]
      /\ TakenOff(toRoom[client][s], toRoom'[client][s], asked)
  BY <1>1, <1>2, FrameTaken
<1>7. \A t \in Slots :
        /\ toRoom[client][t] = <<>> => toRoom'[client][t] = <<>>
        /\ Range(toRoom'[client][t]) \subseteq Range(toRoom[client][t])
        /\ UpdatesIn(toRoom'[client][t]) = UpdatesIn(toRoom[client][t])
  <2>1. Carried(asked) = {}
    BY <1>2 DEF Carried, CarriesUpdates
  <2>2. QED
    BY <2>1, <1>1, <1>2, TakingKeeps
<1> HIDE DEF frame, asked, missing
<1>8. Typed(all)' /\ Alone(client)
  <2>1. Typed(all)'
    BY <1>1, <1>2, <1>5, <1>6 DEF Typed
  <2>2. Alone(client)
    BY <1>1, <1>2, <1>5, <1>6 DEF Typed, Alone, SamePage
  <2>3. QED
    BY <2>1, <2>2
<1>9. Hears(client, s) =>
        /\ s = slot[client] /\ phase[client] \notin {"joining", "offline"}
        /\ asked.has \subseteq IdsOf(replica[client])
  BY <1>1, <1>2, <1>6 DEF PageInv, Greeted, Honest, Hears, TakenOff
<1>10. Quiet(client)' /\ Greeted(client)'
  <2>1. \/ toClient'[client] = toClient[client]
        \/ /\ Hears(client, slot[client]) /\ Appended(toClient[client], toClient'[client], frame)
           /\ phase[client] # "joining"
    BY <1>5, <1>9
  <2>2. QED
    BY <2>1, <1>1, <1>2, <1>4, <1>7, AnswerKeeps
<1>11. Hears(client, s) => room \subseteq replica[client] \cup missing
  <2>1. ASSUME Hears(client, s), NEW u \in room, u \notin missing
        PROVE  u \in replica[client]
    <3>1. u.id \in asked.has
      BY <2>1 DEF missing, Missing
    <3>2. u \in all /\ u.id \in IdsOf(replica[client])
      BY <3>1, <2>1, <1>1, <1>9
    <3>3. QED
      BY <3>2, <1>1, IdsAreTyped
  <2>2. QED
    BY <2>1
<1>12. \/ toClient'[client] = toClient[client]
       \/ /\ Hears(client, slot[client]) /\ room \subseteq replica[client] \cup missing
          /\ Range(toClient'[client]) = Range(toClient[client]) \cup {frame}
          /\ UpdatesIn(toClient'[client]) = UpdatesIn(toClient[client]) \cup missing
  BY <1>4, <1>5, <1>9, <1>11 DEF Appended
<1>13. Composes(all, client)'
  BY <1>1, <1>2, <1>4, <1>12 DEF PageInv, Composes, Shown
<1>14. Honest(client)'
  BY <1>1, <1>2, <1>3, <1>4, <1>7, <1>12 DEF PageInv, Honest, Hears
<1>15. Served(client)'
  BY <1>1, <1>2, <1>12 DEF PageInv, Served, Hears
<1>16. Heard(client)'
  <2>1. Heard(client)
    BY <1>1 DEF PageInv
  <2>2. (ToldToDrop(client)' <=> ToldToDrop(client)) /\ (Answered(client)' => Answered(client))
    BY <1>2, <1>4, <1>12 DEF ToldToDrop, Answered, Welcomed
  <2>3. QED
    BY <2>1, <2>2, <1>1, <1>2, <1>7 DEF Heard, Hears
<1>17. Owns(client)'
  BY <1>1, <1>2, <1>4, <1>12 DEF PageInv, Owns
<1>18. QED
  BY <1>1, <1>8, <1>10, <1>13, <1>14, <1>15, <1>16, <1>17, OthersKept, NothingNew DEF PageInv

\* A reader's change goes nowhere, and unless the room has it the page is told to drop it.
LEMMA RefuseKeepsInv ==
  ASSUME NEW all, SyncInv(all), NEW client \in Clients, NEW s \in Slots, RefuseUpdate(client, s)
  PROVE  SyncInv(all)'
<1> DEFINE sent == Received(client, s)
<1>1. /\ Consistent(all) /\ Typed(all) /\ PageInv(all, client) /\ slot[client] \in Slots
      /\ roleChanges \in Nat /\ crashes \in Nat
  BY DEF SyncInv, Typed
<1>2. /\ held[client][s] = "open" /\ toRoom[client][s] # <<>> /\ CarriesUpdates(sent)
      /\ role[client] # "editor" /\ Take(client, s)
      /\ \/ sent.updates \subseteq room /\ toClient' = toClient
         \/ ~ (sent.updates \subseteq room) /\ Answer(client, s, Resynchronise)
      /\ phase' = phase /\ slot' = slot /\ composed' = composed /\ known' = known
      /\ replica' = replica /\ replicaId' = replicaId /\ role' = role
      /\ room' = room /\ unflushed' = unflushed /\ durable' = durable /\ roomId' = roomId
      /\ held' = held /\ carried' = carried
      /\ roleChanges' = roleChanges /\ crashes' = crashes
  BY DEF RefuseUpdate, Receives, AddsNothing, MayEdit, serverVars, pageVars, boundVars
<1>3. /\ Resynchronise \in PageFrame(all) /\ Resynchronise.kind = "resynchroniseRequired"
      /\ Carried(Resynchronise) = {}
  BY MadeFrames DEF Resynchronise, Carried, CarriesUpdates
<1>4. /\ toClient' \in [Clients -> Seq(PageFrame(all))]
      /\ \A other \in Clients \ {client} : toClient'[other] = toClient[other]
      /\ \/ toClient'[client] = toClient[client] /\ (Hears(client, s) => sent.updates \subseteq room)
         \/ /\ Hears(client, s) /\ ~ (sent.updates \subseteq room)
            /\ Appended(toClient[client], toClient'[client], Resynchronise)
  <2>1. CASE toClient' = toClient /\ sent.updates \subseteq room
    BY <2>1, <1>1 DEF Typed
  <2>2. CASE ~ (sent.updates \subseteq room) /\ Answer(client, s, Resynchronise)
    BY <2>2, <1>1, <1>3, AnswerSent
  <2>3. QED
    BY <2>1, <2>2, <1>2
<1>5. /\ toRoom' \in [Clients -> [Slots -> Seq(RoomFrame(all))]]
      /\ \A other \in Clients \ {client} : toRoom'[other] = toRoom[other]
      /\ TakenOff(toRoom[client][s], toRoom'[client][s], sent)
  BY <1>1, <1>2, FrameTaken
<1>6. \A t \in Slots :
        /\ toRoom[client][t] = <<>> => toRoom'[client][t] = <<>>
        /\ Range(toRoom'[client][t]) \subseteq Range(toRoom[client][t])
        /\ UpdatesIn(toRoom'[client][t]) \subseteq UpdatesIn(toRoom[client][t])
        /\ UpdatesIn(toRoom[client][t]) \subseteq UpdatesIn(toRoom'[client][t]) \cup Carried(sent)
        /\ t # s => toRoom'[client][t] = toRoom[client][t]
  BY <1>1, <1>2, TakingKeeps
<1> HIDE DEF sent
<1>7. Carried(sent) = sent.updates
  BY <1>2 DEF Carried
<1>8. Typed(all)' /\ Alone(client)
  <2>1. Typed(all)'
    BY <1>1, <1>2, <1>4, <1>5 DEF Typed
  <2>2. Alone(client)
    BY <1>1, <1>2, <1>4, <1>5 DEF Alone, SamePage
  <2>3. QED
    BY <2>1, <2>2
<1>9. Hears(client, s) => s = slot[client] /\ phase[client] # "offline" /\ sent.updates \subseteq replica[client]
  BY <1>1, <1>5, <1>7 DEF PageInv, Honest, Hears, TakenOff
<1>10. Quiet(client)' /\ Greeted(client)'
  BY <1>1, <1>2, <1>3, <1>4, <1>6, <1>9, AnswerKeeps
<1>11. /\ UpdatesIn(toClient'[client]) = UpdatesIn(toClient[client])
       /\ Range(toClient[client]) \subseteq Range(toClient'[client])
       /\ Range(toClient'[client]) \subseteq Range(toClient[client]) \cup {Resynchronise}
  BY <1>3, <1>4 DEF Appended
<1>12. Composes(all, client)'
  BY <1>1, <1>2, <1>3, <1>11 DEF PageInv, Composes, Shown
<1>13. Honest(client)'
  BY <1>1, <1>2, <1>3, <1>6, <1>11 DEF PageInv, Honest, Hears
<1>14. Served(client)'
  BY <1>1, <1>2, <1>3, <1>11 DEF PageInv, Served, Hears
<1>15. Heard(client)'
  <2>1. Heard(client)
    BY <1>1 DEF PageInv
  <2>2. ToldToDrop(client) => ToldToDrop(client)'
    BY <1>11 DEF ToldToDrop
  <2>3. Answered(client)' => Answered(client)
    BY <1>2, <1>11 DEF Answered, Welcomed
  <2>4. Hears(client, slot[client]) =>
          \/ ToldToDrop(client)'
          \/ UpdatesIn(toRoom[client][slot[client]]) \subseteq room \cup UpdatesIn(toRoom'[client][slot[client]])
    <3>1. CASE s # slot[client]
      BY <3>1, <1>1, <1>6
    <3>2. CASE s = slot[client] /\ toClient'[client] = toClient[client] /\ (Hears(client, s) => sent.updates \subseteq room)
      BY <3>2, <1>1, <1>6, <1>7
    <3>3. CASE s = slot[client] /\ Appended(toClient[client], toClient'[client], Resynchronise)
      BY <3>3 DEF ToldToDrop, Appended
    <3>4. QED
      BY <3>1, <3>2, <3>3, <1>4
  <2>5. QED
    BY <2>1, <2>2, <2>3, <2>4, <1>2 DEF Heard, Hears
<1>16. Owns(client)'
  <2>1. Owns(client)
    BY <1>1 DEF PageInv
  <2>2. \A f \in Range(toClient'[client]) : f.kind \in {"welcome", "accessChanged"} => f \in Range(toClient[client])
    BY <1>3, <1>11
  <2>3. QED
    BY <2>1, <2>2, <1>2 DEF Owns
<1>17. QED
  BY <1>1, <1>8, <1>10, <1>12, <1>13, <1>14, <1>15, <1>16, OthersKept, NothingNew DEF PageInv

\* A connection the room lets go of.
LEMMA ForgetKeepsInv ==
  ASSUME NEW all, SyncInv(all), NEW client \in Clients, NEW s \in Slots, Forget(client, s)
  PROVE  SyncInv(all)'
<1>1. Consistent(all) /\ Typed(all) /\ PageInv(all, client) /\ slot[client] \in Slots
  BY DEF SyncInv, Typed
<1>2. /\ held' = [held EXCEPT ![client][s] = "gone"]
      /\ carried' = [carried EXCEPT ![client][s] = {}]
      /\ toRoom' = [toRoom EXCEPT ![client][s] = <<>>]
      /\ phase' = phase /\ slot' = slot /\ composed' = composed /\ known' = known
      /\ replica' = replica /\ replicaId' = replicaId /\ role' = role /\ toClient' = toClient
      /\ room' = room /\ unflushed' = unflushed /\ durable' = durable /\ roomId' = roomId
      /\ roleChanges' = roleChanges /\ crashes' = crashes
  BY DEF Forget, pageVars
<1>3. /\ held' \in [Clients -> [Slots -> {"none", "open", "gone"}]]
      /\ carried' \in [Clients -> [Slots -> SUBSET all]]
      /\ toRoom' \in [Clients -> [Slots -> Seq(RoomFrame(all))]]
  <2>1. <<>> \in Seq(RoomFrame(all))
    BY NoUpdates
  <2>2. QED
    BY <2>1, <1>1, <1>2 DEF Typed
<1>4. /\ \A other \in Clients \ {client} :
           held'[other] = held[other] /\ carried'[other] = carried[other] /\ toRoom'[other] = toRoom[other]
      /\ held'[client][s] = "gone" /\ carried'[client][s] = {} /\ toRoom'[client][s] = <<>>
      /\ \A t \in Slots \ {s} : /\ held'[client][t] = held[client][t] /\ carried'[client][t] = carried[client][t]
                               /\ toRoom'[client][t] = toRoom[client][t]
  BY <1>1, <1>2 DEF Typed
<1>5. Typed(all)' /\ Alone(client)
  <2>1. Typed(all)'
    BY <1>1, <1>2, <1>3 DEF Typed
  <2>2. Alone(client)
    BY <1>1, <1>2, <1>4 DEF Typed, Alone, SamePage
  <2>3. QED
    BY <2>1, <2>2
<1>6. /\ Hears(client, slot[client])' => Hears(client, slot[client]) /\ slot[client] # s
      /\ carried'[client][slot[client]] \subseteq carried[client][slot[client]]
      /\ Range(toRoom'[client][slot[client]]) \subseteq Range(toRoom[client][slot[client]])
      /\ UpdatesIn(toRoom'[client][slot[client]]) \subseteq UpdatesIn(toRoom[client][slot[client]])
      /\ toRoom[client][slot[client]] = <<>> => toRoom'[client][slot[client]] = <<>>
      /\ Held(client)' = "open" => Held(client) = "open"
  <2>1. CASE s = slot[client]
    BY <2>1, <1>2, <1>4, NoUpdates DEF Hears, Held
  <2>2. CASE s # slot[client]
    BY <2>2, <1>1, <1>2, <1>4 DEF Hears, Held
  <2>3. QED
    BY <2>1, <2>2
<1>7. Composes(all, client)' /\ Quiet(client)' /\ Greeted(client)'
  <2>1. Composes(all, client)'
    BY <1>1, <1>2 DEF PageInv, Composes, Shown
  <2>2. Quiet(client)'
    BY <1>1, <1>2, <1>4 DEF PageInv, Quiet
  <2>3. Greeted(client)'
    BY <1>1, <1>2, <1>6 DEF PageInv, Greeted
  <2>4. QED
    BY <2>1, <2>2, <2>3
<1>8. Honest(client)' /\ Served(client)'
  BY <1>1, <1>2, <1>6 DEF PageInv, Honest, Served
<1>9. Heard(client)'
  BY <1>1, <1>2, <1>4, <1>6 DEF PageInv, Heard, Answered, Welcomed, ToldToDrop
<1>10. Owns(client)'
  BY <1>1, <1>2 DEF PageInv, Owns
<1>11. QED
  BY <1>1, <1>5, <1>7, <1>8, <1>9, <1>10, OthersKept, NothingNew DEF PageInv

-----------------------------------------------------------------------------
\* The room's steps with all.

LEMMA FlushKeepsInv ==
  ASSUME NEW all, SyncInv(all), Flush
  PROVE  SyncInv(all)'
<1>1. Consistent(all) /\ Typed(all) /\ Stored(all)
  BY DEF SyncInv
<1>2. /\ durable' = durable \cup unflushed /\ unflushed' = {}
      /\ UNCHANGED <<room, roomId, role, held, carried, pageVars, networkVars, boundVars>>
  BY DEF Flush
<1>3. Typed(all)'
  BY <1>1, <1>2 DEF Typed, pageVars, networkVars, boundVars
<1>4. Stored(all)'
  <2>1. durable' = room /\ room' = room /\ roomId' = roomId
    BY <1>1, <1>2 DEF Stored
  <2>2. QED
    BY <2>1, <1>1, <1>2 DEF Stored
<1>5. ASSUME NEW client \in Clients
      PROVE  PageInv(all, client)'
  <2>1. SamePage(client) /\ PageInv(all, client)
    BY <1>2 DEF SyncInv, SamePage, pageVars, networkVars
  <2>2. /\ room' = room /\ crashes' = crashes
        /\ roleChanges \in Nat /\ roleChanges' \in Nat /\ roleChanges <= roleChanges'
    BY <1>1, <1>2 DEF Typed, boundVars
  <2>3. Below(all, replicaId[client], Cardinality(Own(Shown(client), replicaId[client])))
    BY <2>1 DEF PageInv, Composes
  <2>4. QED
    BY <2>1, <2>2, <2>3, PageKept
<1>6. QED
  BY <1>1, <1>3, <1>4, <1>5 DEF SyncInv

\* After a crash no page hears anything, and the files were judged.
LEMMA CrashKeepsInv ==
  ASSUME NEW all, SyncInv(all), Crash
  PROVE  SyncInv(all)'
<1>1. Consistent(all) /\ Typed(all) /\ Stored(all)
  BY DEF SyncInv
<1>2. /\ room' = durable /\ unflushed' = {} /\ durable' = durable /\ roomId' = Renewed(roomId)
      /\ held' = [client \in Clients |-> [s \in Slots |-> IF held[client][s] = "open" THEN "gone" ELSE held[client][s]]]
      /\ carried' = [client \in Clients |-> [s \in Slots |-> {}]]
      /\ toRoom' = [client \in Clients |-> [s \in Slots |-> <<>>]]
      /\ phase' = phase /\ slot' = slot /\ composed' = composed /\ known' = known
      /\ replica' = replica /\ replicaId' = replicaId /\ role' = role /\ toClient' = toClient
      /\ roleChanges' = roleChanges /\ crashes' = crashes + 1
  BY DEF Crash, pageVars
<1>3. Typed(all)'
  <2>1. held' \in [Clients -> [Slots -> {"none", "open", "gone"}]]
    BY <1>1, <1>2 DEF Typed
  <2>2. toRoom' \in [Clients -> [Slots -> Seq(RoomFrame(all))]] /\ carried' \in [Clients -> [Slots -> SUBSET all]]
    BY <1>2, NoUpdates
  <2>3. QED
    BY <2>1, <2>2, <1>1, <1>2 DEF Typed
<1>4. Stored(all)'
  <2>1. durable \in SUBSET all
    BY <1>1 DEF Stored
  <2>2. Cardinality(Own(durable, Renewed(roomId))) \in Nat
    BY <2>1, <1>1, OwnGrows
  <2>3. /\ Renewed(roomId) \in Nat \X Nat /\ Renewed(roomId)[2] = RoomNumber
        /\ Below(all, Renewed(roomId), Cardinality(Own(durable, Renewed(roomId))))
    BY <2>2, <1>1, BelowRenewed DEF Stored
  <2>4. QED
    BY <2>1, <2>3, <1>1, <1>2 DEF Stored
<1>5. ASSUME NEW client \in Clients
      PROVE  PageInv(all, client)'
  <2>1. PageInv(all, client) /\ slot[client] \in Slots
    BY <1>1 DEF SyncInv, Typed
  <2>2. \A s \in Slots : held'[client][s] # "open" /\ carried'[client][s] = {} /\ toRoom'[client][s] = <<>>
    BY <1>2
  <2>3. ~ Hears(client, slot[client])' /\ crashes' # 0 /\ crashes' > 0
    BY <2>1, <2>2, <1>1, <1>2 DEF Hears, Typed
  <2>4. Composes(all, client)'
    BY <2>1, <1>2 DEF PageInv, Composes, Shown
  <2>5. Quiet(client)' /\ Greeted(client)'
    BY <2>1, <2>2, <1>2 DEF PageInv, Quiet, Greeted, Held
  <2>6. Honest(client)' /\ Served(client)' /\ Heard(client)'
    BY <2>1, <2>2, <2>3, <1>2, NoUpdates DEF Honest, Served, Heard
  <2>7. Owns(client)'
    BY <2>1, <2>3, <1>2 DEF PageInv, Owns
  <2>8. QED
    BY <2>4, <2>5, <2>6, <2>7 DEF PageInv
<1>6. QED
  BY <1>1, <1>3, <1>4, <1>5 DEF SyncInv

LEMMA BroadcastSent ==
  ASSUME NEW all, Typed(all), NEW updates \in [Clients -> SUBSET all], toClient' = Broadcast(updates)
  PROVE  /\ toClient' \in [Clients -> Seq(PageFrame(all))]
         /\ \A client \in Clients :
              /\ \/ toClient'[client] = toClient[client]
                 \/ /\ Hears(client, slot[client])
                    /\ Appended(toClient[client], toClient'[client], UpdateFrame(updates[client]))
              /\ Hears(client, slot[client]) => updates[client] \subseteq UpdatesIn(toClient'[client])
<1>1. ASSUME NEW client \in Clients
      PROVE  /\ toClient'[client] \in Seq(PageFrame(all))
             /\ \/ toClient'[client] = toClient[client]
                \/ /\ Hears(client, slot[client])
                   /\ Appended(toClient[client], toClient'[client], UpdateFrame(updates[client]))
             /\ Hears(client, slot[client]) => updates[client] \subseteq UpdatesIn(toClient'[client])
  <2> DEFINE frame == UpdateFrame(updates[client])
             before == toClient[client]
  <2>1. frame \in PageFrame(all) /\ Carried(frame) = updates[client]
    BY MadeFrames DEF Carried, CarriesUpdates, UpdateFrame
  <2>2. before \in Seq(PageFrame(all))
    BY DEF Typed
  <2>3. Append(before, frame) \in Seq(PageFrame(all)) /\ Appended(before, Append(before, frame), frame)
    <3> HIDE DEF before, frame
    <3>1. QED
      BY <2>1, <2>2, UpdatesSent DEF Appended
  <2>4. toClient'[client] = IF Hears(client, slot[client]) /\ updates[client] # {}
                            THEN Append(before, frame) ELSE before
    BY DEF Broadcast
  <2>5. updates[client] \subseteq UpdatesIn(Append(before, frame))
    BY <2>1, <2>3 DEF Appended
  <2> HIDE DEF before, frame
  <2>6. CASE Hears(client, slot[client]) /\ updates[client] # {}
    <3>1. toClient'[client] = Append(before, frame)
      BY <2>4, <2>6
    <3>2. QED
      BY <3>1, <2>3, <2>5, <2>6 DEF before, frame
  <2>7. CASE ~ (Hears(client, slot[client]) /\ updates[client] # {})
    <3>1. toClient'[client] = before
      BY <2>4, <2>7
    <3>2. QED
      BY <3>1, <2>2, <2>7 DEF before
  <2>8. QED
    BY <2>6, <2>7
<1>2. toClient' = [client \in Clients |-> toClient'[client]]
  BY DEF Broadcast
<1>3. toClient' \in [Clients -> Seq(PageFrame(all))]
  BY <1>1, <1>2
<1>4. QED
  BY <1>1, <1>3

\* What left a connection is in the room or carried.
Passed(client) ==
  \A s \in Slots :
    /\ toRoom[client][s] = <<>> => toRoom'[client][s] = <<>> /\ carried'[client][s] = carried[client][s]
    /\ Range(toRoom'[client][s]) \subseteq Range(toRoom[client][s])
    /\ UpdatesIn(toRoom'[client][s]) \subseteq UpdatesIn(toRoom[client][s])
    /\ carried'[client][s] \subseteq carried[client][s] \cup UpdatesIn(toRoom[client][s])
    /\ carried[client][s] \cup UpdatesIn(toRoom[client][s])
         \subseteq room' \cup carried'[client][s] \cup UpdatesIn(toRoom'[client][s])

\* The room's document grows, and every page that hears it is sent what it has not.
LEMMA BroadcastKeepsPages ==
  ASSUME NEW all, SyncInv(all), NEW more, Consistent(more), Spread(all, more, RoomNumber),
         NEW added \in SUBSET more, room' = room \cup added,
         NEW updates \in [Clients -> SUBSET more], toClient' = Broadcast(updates),
         \A client \in Clients : updates[client] \subseteq added,
         \A client \in Clients : Hears(client, slot[client]) => added \subseteq updates[client] \cup replica[client],
         \A client \in Clients : Passed(client),
         phase' = phase, slot' = slot, composed' = composed, known' = known, role' = role,
         replica' = replica, replicaId' = replicaId, held' = held,
         roleChanges' = roleChanges, crashes' = crashes
  PROVE  /\ toClient' \in [Clients -> Seq(PageFrame(more))]
         /\ \A client \in Clients : PageInv(more, client)'
<1>1. Typed(all) /\ Typed(more)
  BY TypedOfMore DEF SyncInv, Spread
<1>2. /\ toClient' \in [Clients -> Seq(PageFrame(more))]
      /\ \A client \in Clients :
           /\ \/ toClient'[client] = toClient[client]
              \/ /\ Hears(client, slot[client])
                 /\ Appended(toClient[client], toClient'[client], UpdateFrame(updates[client]))
           /\ Hears(client, slot[client]) => updates[client] \subseteq UpdatesIn(toClient'[client])
  BY <1>1, BroadcastSent
<1>3. ASSUME NEW client \in Clients
      PROVE  PageInv(more, client)'
  <2> DEFINE frame == UpdateFrame(updates[client])
  <2>1. PageInv(all, client) /\ slot[client] \in Slots /\ updates[client] \subseteq added
    BY <1>1 DEF SyncInv, Typed
  <2>2. frame.kind = "update" /\ Carried(frame) = updates[client] /\ frame # Resynchronise
    BY DEF UpdateFrame, Carried, CarriesUpdates, Resynchronise
  <2> HIDE DEF frame
  <2>3. /\ Range(toClient[client]) \subseteq Range(toClient'[client])
        /\ Range(toClient'[client]) \subseteq Range(toClient[client]) \cup {frame}
        /\ UpdatesIn(toClient[client]) \subseteq UpdatesIn(toClient'[client])
        /\ UpdatesIn(toClient'[client]) \subseteq UpdatesIn(toClient[client]) \cup updates[client]
    BY <1>2, <2>2 DEF Appended, frame
  <2>4. Hears(client, slot[client])' <=> Hears(client, slot[client])
    BY DEF Hears
  <2>5. Quiet(client)' /\ Greeted(client)'
    <3>1. Quiet(client)'
      <4>1. Quiet(client) /\ Passed(client)
        BY <2>1 DEF PageInv
      <4>2. phase[client] = "offline" => toClient'[client] = toClient[client]
        BY <1>2 DEF Hears
      <4>3. QED
        BY <4>1, <4>2 DEF Quiet, Passed
    <3>2. Greeted(client)'
      <4>1. CASE phase[client] = "joining"
        <5>1. carried'[client][slot[client]] = {} /\ toRoom'[client][slot[client]] = <<>>
          BY <2>1, <4>1 DEF PageInv, Greeted, Passed
        <5>2. CASE toClient'[client] = toClient[client]
          BY <5>1, <5>2, <2>1, <4>1 DEF PageInv, Greeted, Held
        <5>3. CASE Hears(client, slot[client]) /\ Appended(toClient[client], toClient'[client], frame)
          <6>1. toClient[client] # <<>>
            BY <2>1, <4>1, <5>3 DEF PageInv, Greeted, Held, Hears
          <6>2. QED
            BY <6>1, <5>1, <5>3, <2>1, <2>2, <4>1 DEF PageInv, Greeted, Held, Appended
        <5>4. QED
          BY <5>2, <5>3, <1>2 DEF frame
      <4>2. CASE phase[client] # "joining"
        BY <4>2, <2>1, <2>2, <2>3 DEF PageInv, Greeted
      <4>3. QED
        BY <4>1, <4>2
    <3>3. QED
      BY <3>1, <3>2
  <2>6. Composes(more, client)'
    <3>1. Composes(all, client) /\ PageNumber[client] # RoomNumber
      BY <2>1, SyncAssumption DEF PageInv
    <3>2. Below(more, replicaId[client], Cardinality(Own(Shown(client), replicaId[client])))
      BY <3>1 DEF Composes, Spread
    <3>3. QED
      BY <3>1, <3>2, <2>2, <2>3 DEF Composes, Shown
  <2>7. Honest(client)'
    <3>1. Honest(client) /\ Passed(client)
      BY <2>1 DEF PageInv
    <3>2. room \subseteq room' /\ updates[client] \subseteq room' /\ IdsOf(room) \subseteq IdsOf(room')
      BY <2>1 DEF IdsOf
    <3>3. \A f \in Range(toClient'[client]) : f.kind = "stepOne" => f \in Range(toClient[client])
      BY <2>2, <2>3
    <3>4. phase[client] # "offline" =>
            /\ carried'[client][slot[client]] \subseteq replica[client]
            /\ UpdatesIn(toRoom'[client][slot[client]]) \subseteq replica[client]
            /\ \A f \in Range(toRoom'[client][slot[client]]) : f.kind = "stepOne" => f.has \subseteq IdsOf(replica[client])
      BY <3>1, <2>1 DEF Honest, Passed
    <3>5. crashes = 0 \/ Hears(client, slot[client]) => UpdatesIn(toClient'[client]) \subseteq room'
      BY <3>1, <3>2, <2>3 DEF Honest
    <3>6. Hears(client, slot[client]) =>
            \A f \in Range(toClient'[client]) : f.kind = "stepOne" => f.has \subseteq IdsOf(room')
      BY <3>1, <3>2, <3>3 DEF Honest
    <3>7. QED
      BY <3>4, <3>5, <3>6, <2>4 DEF Honest
  <2>8. Served(client)'
    <3>1. Served(client)
      BY <2>1 DEF PageInv
    <3>2. (\E f \in Range(toClient'[client]) : f.kind = "stepTwo") => \E f \in Range(toClient[client]) : f.kind = "stepTwo"
      BY <2>2, <2>3
    <3>3. Hears(client, slot[client]) => added \subseteq UpdatesIn(toClient'[client]) \cup replica[client]
      BY <1>2
    <3>4. QED
      BY <3>1, <3>2, <3>3, <2>3, <2>4 DEF Served
  <2>9. Heard(client)'
    <3>1. Heard(client) /\ Passed(client)
      BY <2>1 DEF PageInv
    <3>2. (Answered(client)' => Answered(client)) /\ (ToldToDrop(client) => ToldToDrop(client)')
      BY <2>3 DEF Answered, Welcomed, ToldToDrop
    <3>3. carried[client][slot[client]] \cup UpdatesIn(toRoom[client][slot[client]]) \cup room
            \subseteq room' \cup carried'[client][slot[client]] \cup UpdatesIn(toRoom'[client][slot[client]])
      BY <3>1, <2>1 DEF Passed
    <3>4. QED
      BY <3>1, <3>2, <3>3, <2>4 DEF Heard
  <2>10. Owns(client)'
    <3>1. Owns(client)
      BY <2>1 DEF PageInv
    <3>2. \A f \in Range(toClient'[client]) : f.kind \in {"welcome", "accessChanged"} => f \in Range(toClient[client])
      BY <2>2, <2>3
    <3>3. QED
      BY <3>1, <3>2 DEF Owns
  <2>11. QED
    BY <2>5, <2>6, <2>7, <2>8, <2>9, <2>10 DEF PageInv
<1>4. QED
  BY <1>2, <1>3

\* What the room makes for an agent reaches every page that hears it.
LEMMA AgentKeepsInv ==
  ASSUME NEW all, SyncInv(all), AgentEdit
  PROVE  \E more : SyncInv(more)'
<1>1. /\ Consistent(all) /\ Typed(all) /\ Stored(all)
  BY DEF SyncInv
<1>2. PICK w : w = Save(room, roomId, "agent", Unapproved)
  OBVIOUS
<1>3. PICK updates : updates = [page \in Clients |-> {w}]
  OBVIOUS
<1>4. /\ room' = room \cup {w} /\ unflushed' = unflushed \cup {w} /\ toClient' = Broadcast(updates)
      /\ phase' = phase /\ slot' = slot /\ composed' = composed /\ known' = known /\ role' = role
      /\ replica' = replica /\ replicaId' = replicaId /\ held' = held /\ toRoom' = toRoom /\ carried' = carried
      /\ durable' = durable /\ roomId' = roomId
      /\ roleChanges' = roleChanges /\ crashes' = crashes
  BY <1>2, <1>3 DEF AgentEdit, pageVars
<1> DEFINE more == all \cup {w}
<1>5. /\ room \in SUBSET all /\ FirstUpdate \in room /\ View(room) = room
      /\ roomId \in Nat \X Nat /\ roomId[2] = RoomNumber /\ roomId[2] # 0
      /\ Below(all, roomId, Cardinality(Own(room, roomId)))
  BY <1>1, SyncAssumption DEF Stored
<1>6. NewUpdate(all, room, roomId, w) /\ ~ Forbidden(room \cup {w})
  BY <1>1, <1>2, <1>5, SaveIsNew
<1>7. Consistent(more) /\ Spread(all, more, RoomNumber)
  BY <1>5, <1>6, OneNew DEF NewUpdate
<1>8. Below(more, roomId, Cardinality(Own(room \cup {w}, roomId)))
  <2> HIDE DEF more
  <2>1. room \cup {w} \in SUBSET (all \cup {w}) /\ room \in SUBSET all
    BY <1>5
  <2>2. QED
    BY <2>1, <1>1, <1>6, NewIsCounted DEF more
<1>9. Stored(more)'
  <2>1. View(room \cup {w}) = room \cup {w}
    BY <1>5, <1>6 DEF NewUpdate
  <2>2. durable \cup (unflushed \cup {w}) = room \cup {w}
    BY <1>1 DEF Stored
  <2>3. QED
    BY <2>1, <2>2, <1>1, <1>4, <1>5, <1>6, <1>8 DEF Stored
<1>10. \A client \in Clients : Passed(client)
  BY <1>1, <1>4 DEF Passed, Typed
<1>11. {w} \in SUBSET more /\ updates \in [Clients -> SUBSET more] /\ \A client \in Clients : updates[client] = {w}
  BY <1>3
<1> HIDE DEF more
<1>12. toClient' \in [Clients -> Seq(PageFrame(more))] /\ \A client \in Clients : PageInv(more, client)'
  BY <1>4, <1>7, <1>10, <1>11, BroadcastKeepsPages
<1>13. Typed(more)'
  <2>1. Typed(more)
    BY <1>1, <1>7, TypedOfMore DEF Spread
  <2>2. QED
    BY <2>1, <1>4, <1>12 DEF Typed
<1>14. SyncInv(more)'
  BY <1>7, <1>9, <1>12, <1>13 DEF SyncInv
<1>15. QED
  BY <1>14

\* An editor's update and the guard's correction enter the room, its files and the pages as one.
LEMMA GuardedKeepsInv ==
  ASSUME NEW all, SyncInv(all), NEW client \in Clients, NEW s \in Slots, ApplyGuarded(client, s)
  PROVE  \E more : SyncInv(more)'
<1>1. /\ Consistent(all) /\ Typed(all) /\ Stored(all) /\ PageInv(all, client) /\ slot[client] \in Slots
  BY DEF SyncInv, Typed
<1>2. PICK incoming : incoming = Incoming(client, s)
  OBVIOUS
<1>3. PICK after : after = Integrated(incoming)
  OBVIOUS
<1>4. PICK corrections : corrections = Corrections(room, after, client, MayEdit(client), roomId)
  OBVIOUS
<1>5. PICK added : added = (after \ room) \cup corrections
  OBVIOUS
<1>6. PICK updates : updates = [page \in Clients |-> Relayed(client, s, added, incoming, page)]
  OBVIOUS
<1>7. /\ held[client][s] = "open" /\ toRoom[client][s] # <<>> /\ CarriesUpdates(Received(client, s)) /\ Take(client, s)
      /\ room' = room \cup added /\ unflushed' = unflushed \cup added
      /\ carried' = [carried EXCEPT ![client][s] = (room \cup incoming) \ after]
      /\ toClient' = Broadcast(updates)
      /\ phase' = phase /\ slot' = slot /\ composed' = composed /\ known' = known /\ role' = role
      /\ replica' = replica /\ replicaId' = replicaId /\ held' = held
      /\ durable' = durable /\ roomId' = roomId
      /\ roleChanges' = roleChanges /\ crashes' = crashes
  <2>1. Added(client, incoming) = added
    BY <1>3, <1>4, <1>5 DEF Added
  <2>2. QED
    BY <2>1, <1>2, <1>3, <1>6 DEF ApplyGuarded, Receives, Persisted, pageVars, boundVars
<1>8. /\ toRoom' \in [Clients -> [Slots -> Seq(RoomFrame(all))]]
      /\ \A other \in Clients \ {client} : toRoom'[other] = toRoom[other]
      /\ Received(client, s) \in RoomFrame(all)
      /\ TakenOff(toRoom[client][s], toRoom'[client][s], Received(client, s))
      /\ Carried(Received(client, s)) = Received(client, s).updates
  BY <1>1, <1>7, FrameTaken DEF Carried
<1>9. /\ incoming = carried[client][s] \cup Received(client, s).updates /\ incoming \in SUBSET all
      /\ incoming \subseteq carried[client][s] \cup UpdatesIn(toRoom[client][s])
  <2>1. Received(client, s).updates \in SUBSET all
    BY <1>7, <1>8, RoomFrames
  <2>2. QED
    BY <2>1, <1>1, <1>2, <1>8 DEF Incoming, Typed, TakenOff
<1>10. /\ room \in SUBSET all /\ FirstUpdate \in room /\ View(room) = room /\ ~ Forbidden(room)
       /\ roomId \in Nat \X Nat /\ roomId[2] = RoomNumber /\ roomId[2] # 0
       /\ Below(all, roomId, Cardinality(Own(room, roomId)))
       /\ after = View(room \cup incoming)
  BY <1>1, <1>3, SyncAssumption DEF Stored, Integrated
<1>11. /\ room \subseteq after /\ after \subseteq room \cup incoming
       /\ ~ Forbidden(after \cup corrections)
       /\ \/ corrections = {} /\ View(after) = after
          \/ \E w : /\ corrections = {w} /\ NewUpdate(all, after, roomId, w)
                    /\ View(after \cup {w}) = after \cup {w}
  <2>1. PICK mayApprove : mayApprove = MayEdit(client)
    OBVIOUS
  <2>2. corrections = Corrections(room, after, client, mayApprove, roomId)
    BY <2>1, <1>4
  <2>3. room \in SUBSET all /\ incoming \in SUBSET all /\ Consistent(all)
    BY <1>1, <1>9, <1>10
  <2>4. PICK before, replicaOf : before = room /\ replicaOf = roomId
    OBVIOUS
  <2>5. Judged(all, before, incoming, after, replicaOf, corrections)
    <3>1. /\ before \in SUBSET all /\ FirstUpdate \in before /\ View(before) = before /\ ~ Forbidden(before)
          /\ replicaOf \in Nat \X Nat /\ replicaOf[2] # 0
          /\ Below(all, replicaOf, Cardinality(Own(before, replicaOf)))
          /\ after = View(before \cup incoming)
          /\ corrections = Corrections(before, after, client, mayApprove, replicaOf)
      BY <2>2, <2>4, <1>10
    <3>2. QED
      BY <3>1, <2>3, GuardedIsJudged
  <2>6. QED
    BY <2>4, <2>5 DEF Judged
<1>12. room \cup added = after \cup corrections /\ after \in SUBSET all
  BY <1>5, <1>9, <1>10, <1>11
<1>13. PICK more : /\ more = all \cup corrections /\ Consistent(more) /\ Spread(all, more, RoomNumber)
                   /\ Below(more, roomId, Cardinality(Own(after \cup corrections, roomId)))
                   /\ View(after \cup corrections) = after \cup corrections
  <2>1. CASE corrections = {} /\ View(after) = after
    <3>1. /\ Cardinality(Own(room, roomId)) \in Nat /\ Cardinality(Own(after, roomId)) \in Nat
          /\ Cardinality(Own(room, roomId)) <= Cardinality(Own(after, roomId))
      BY <1>1, <1>11, <1>12, OwnGrows
    <3>2. Below(all, roomId, Cardinality(Own(after, roomId)))
      BY <3>1, <1>1, <1>10, BelowGrows
    <3>3. after \cup corrections = after /\ all \cup corrections = all
      BY <2>1
    <3>4. QED
      BY <3>2, <3>3, <2>1, <1>1, NothingNew
  <2>2. CASE \E w : /\ corrections = {w} /\ NewUpdate(all, after, roomId, w)
                    /\ View(after \cup {w}) = after \cup {w}
    <3>1. PICK w : /\ corrections = {w} /\ NewUpdate(all, after, roomId, w)
                   /\ View(after \cup {w}) = after \cup {w}
      BY <2>2
    <3>2. Consistent(all \cup {w}) /\ Spread(all, all \cup {w}, RoomNumber)
      BY <3>1, <1>10, OneNew DEF NewUpdate
    <3>3. after \cup {w} \in SUBSET (all \cup {w})
      BY <1>12
    <3>4. Below(all \cup {w}, roomId, Cardinality(Own(after \cup {w}, roomId)))
      BY <3>1, <3>3, <1>1, <1>12, NewIsCounted
    <3>5. QED
      BY <3>1, <3>2, <3>4
  <2>3. QED
    BY <2>1, <2>2, <1>11
<1>14. Stored(more)'
  <2>1. durable \cup (unflushed \cup added) = room \cup added /\ after \cup corrections \subseteq more
    BY <1>1, <1>12, <1>13 DEF Stored
  <2>2. room' = after \cup corrections
    BY <1>7, <1>12
  <2>3. QED
    BY <2>1, <2>2, <1>1, <1>7, <1>10, <1>11, <1>13 DEF Stored
<1>15. /\ carried' \in [Clients -> [Slots -> SUBSET more]]
       /\ carried'[client][s] = (room \cup incoming) \ after
       /\ \A other \in Clients \ {client} : carried'[other] = carried[other]
       /\ \A t \in Slots \ {s} : carried'[client][t] = carried[client][t]
  <2>1. (room \cup incoming) \ after \in SUBSET all /\ all \subseteq more
    BY <1>9, <1>10, <1>13
  <2>2. carried \in [Clients -> [Slots -> SUBSET all]]
    BY <1>1 DEF Typed
  <2>3. carried' \in [Clients -> [Slots -> SUBSET all]]
    BY <2>1, <2>2, <1>7
  <2>4. carried' \in [Clients -> [Slots -> SUBSET more]]
    BY <2>1, <2>3
  <2>5. QED
    BY <2>2, <2>4, <1>7
<1>16. \A page \in Clients : Passed(page)
  <2>1. ASSUME NEW page \in Clients, page # client
        PROVE  Passed(page)
    BY <2>1, <1>8, <1>15 DEF Passed
  <2>2. Passed(client)
    <3>1. SUFFICES ASSUME NEW t \in Slots
                  PROVE  /\ toRoom[client][t] = <<>> => toRoom'[client][t] = <<>> /\ carried'[client][t] = carried[client][t]
                         /\ Range(toRoom'[client][t]) \subseteq Range(toRoom[client][t])
                         /\ UpdatesIn(toRoom'[client][t]) \subseteq UpdatesIn(toRoom[client][t])
                         /\ carried'[client][t] \subseteq carried[client][t] \cup UpdatesIn(toRoom[client][t])
                         /\ carried[client][t] \cup UpdatesIn(toRoom[client][t])
                              \subseteq room' \cup carried'[client][t] \cup UpdatesIn(toRoom'[client][t])
      BY DEF Passed
    <3>2. /\ toRoom[client][t] = <<>> => toRoom'[client][t] = <<>>
          /\ Range(toRoom'[client][t]) \subseteq Range(toRoom[client][t])
          /\ UpdatesIn(toRoom'[client][t]) \subseteq UpdatesIn(toRoom[client][t])
          /\ UpdatesIn(toRoom[client][t]) \subseteq UpdatesIn(toRoom'[client][t]) \cup Carried(Received(client, s))
          /\ t # s => toRoom'[client][t] = toRoom[client][t]
      BY <1>1, <1>7, TakingKeeps
    <3>3. CASE t # s
      BY <3>2, <3>3, <1>15
    <3>4. CASE t = s
      <4>1. carried'[client][s] \subseteq incoming /\ incoming \subseteq room' \cup carried'[client][s]
        BY <1>7, <1>11, <1>12, <1>15
      <4>2. QED
        BY <3>2, <3>4, <4>1, <1>7, <1>8, <1>9
    <3>5. QED
      BY <3>3, <3>4
  <2>3. QED
    BY <2>1, <2>2
<1>17. /\ added \in SUBSET more /\ updates \in [Clients -> SUBSET more]
       /\ \A page \in Clients : updates[page] \subseteq added
       /\ \A page \in Clients : Hears(page, slot[page]) => added \subseteq updates[page] \cup replica[page]
  <2>1. added \in SUBSET more
    BY <1>5, <1>12, <1>13
  <2>2. \A page \in Clients :
          updates[page] = IF page = client /\ s = slot[client] THEN added \ incoming ELSE added
    BY <1>6 DEF Relayed
  <2>3. Hears(client, slot[client]) /\ s = slot[client] => incoming \subseteq replica[client]
    BY <1>1, <1>9 DEF PageInv, Honest, Hears
  <2>4. updates \in [Clients -> SUBSET more]
    <3>1. \A page \in Clients : updates[page] \in SUBSET more
      BY <2>1, <2>2
    <3>2. QED
      BY <3>1, <1>6
  <2>5. QED
    BY <2>1, <2>2, <2>3, <2>4
<1>18. toClient' \in [Clients -> Seq(PageFrame(more))] /\ \A page \in Clients : PageInv(more, page)'
  BY <1>7, <1>13, <1>16, <1>17, BroadcastKeepsPages
<1>19. Typed(more)'
  <2>1. Typed(more)
    BY <1>1, <1>13, TypedOfMore DEF Spread
  <2>2. toRoom' \in [Clients -> [Slots -> Seq(RoomFrame(more))]]
    <3>1. \A frames \in Seq(RoomFrame(all)) : frames \in Seq(RoomFrame(more))
      BY <1>13, FramesOfMore DEF Spread
    <3>2. QED
      BY <3>1, <1>8
  <2>3. QED
    BY <2>1, <2>2, <1>7, <1>15, <1>18 DEF Typed
<1>20. SyncInv(more)'
  BY <1>13, <1>14, <1>18, <1>19 DEF SyncInv
<1>21. QED
  BY <1>20

-----------------------------------------------------------------------------
\* The theorems.

LEMMA InitHolds ==
  ASSUME Init
  PROVE  SyncInv({FirstUpdate})
<1> DEFINE all == {FirstUpdate}
<1>1. /\ room = all /\ durable = all /\ unflushed = {} /\ roomId = <<0, RoomNumber>>
      /\ role \in [Clients -> Roles] /\ known = role
      /\ held = [client \in Clients |-> [s \in Slots |-> IF s = 1 THEN "open" ELSE "none"]]
      /\ carried = [client \in Clients |-> [s \in Slots |-> {}]]
      /\ phase = [client \in Clients |-> "online"]
      /\ slot = [client \in Clients |-> 1]
      /\ composed = [client \in Clients |-> TRUE]
      /\ replica = [client \in Clients |-> all]
      /\ replicaId = [client \in Clients |-> <<0, PageNumber[client]>>]
      /\ toRoom = [client \in Clients |-> [s \in Slots |-> <<>>]]
      /\ toClient = [client \in Clients |-> <<>>]
      /\ roleChanges = 0 /\ crashes = 0
  BY SyncAssumption DEF Init
<1>2. FirstUpdate.id = FirstId /\ FirstUpdate.needs = {} /\ FirstUpdate.value = Unapproved
  BY DEF FirstUpdate
<1>3. Consistent(all)
  <2>1. Proper(FirstUpdate)
    BY DEF Proper, FirstUpdate, FirstId, Id
  <2>2. IsFiniteSet(all)
    BY FS_Singleton
  <2>3. QED
    BY <2>1, <2>2, <1>2 DEF Consistent
<1>4. View(all) = all
  BY <1>2 DEF View
<1>5. \A replicaOf : \A n : replicaOf[2] # 0 => Below(all, replicaOf, n)
  BY <1>2 DEF Below, FirstId
<1>6. ~ Forbidden(all)
  <2>1. LastApproval(all) = FirstUpdate
    BY <1>3, LastWrites
  <2>2. QED
    BY <2>1, <1>2 DEF Forbidden, ApprovalOf
<1> HIDE DEF all
<1>7. Typed(all)
  <2>1. toRoom \in [Clients -> [Slots -> Seq(RoomFrame(all))]] /\ toClient \in [Clients -> Seq(PageFrame(all))]
    BY <1>1, NoUpdates
  <2>2. \A client \in Clients : <<0, PageNumber[client]>> \in Nat \X Nat
    BY SyncAssumption
  <2>3. replicaId \in [Clients -> Nat \X Nat] /\ slot \in [Clients -> Slots]
    BY <2>2, <1>1 DEF Slots
  <2>4. QED
    BY <2>1, <2>3, <1>1 DEF Typed, Slots
<1>8. Stored(all)
  <2>1. roomId \in Nat \X Nat /\ roomId[2] = RoomNumber /\ roomId[2] # 0
    BY <1>1, SyncAssumption
  <2>2. FirstUpdate \in all
    BY DEF all
  <2>3. QED
    BY <2>1, <2>2, <1>1, <1>4, <1>5, <1>6 DEF Stored
<1>9. ASSUME NEW client \in Clients
      PROVE  PageInv(all, client)
  <2>1. /\ phase[client] = "online" /\ slot[client] = 1 /\ replica[client] = all /\ toClient[client] = <<>>
        /\ replicaId[client] = <<0, PageNumber[client]>> /\ replicaId[client][2] # 0
        /\ \A s \in Slots : carried[client][s] = {} /\ toRoom[client][s] = <<>>
        /\ 1 \in Slots
    BY <1>1, SyncAssumption DEF Slots
  <2>2. Composes(all, client)
    <3>1. replicaId[client][2] = PageNumber[client]
      BY <2>1
    <3>2. PICK n : n = Cardinality(Own(Shown(client), replicaId[client]))
      OBVIOUS
    <3>3. PICK replicaOf : replicaOf = replicaId[client]
      OBVIOUS
    <3>4. Below(all, replicaOf, n)
      BY <2>1, <3>3, <1>5
    <3>5. FirstUpdate \in replica[client]
      BY <2>1 DEF all
    <3>6. Range(toClient[client]) = {}
      BY <2>1, NoUpdates
    <3>7. QED
      BY <3>1, <3>2, <3>3, <3>4, <3>5, <3>6 DEF Composes
  <2>3. Quiet(client) /\ Greeted(client) /\ Honest(client)
    BY <2>1, <1>1, NoUpdates DEF Quiet, Greeted, Honest
  <2>4. Served(client) /\ Heard(client)
    BY <2>1, <1>1 DEF Served, Heard
  <2>5. Owns(client)
    BY <2>1, <1>1, NoUpdates DEF Owns
  <2>6. QED
    BY <2>2, <2>3, <2>4, <2>5 DEF PageInv
<1>10. QED
  BY <1>3, <1>7, <1>8, <1>9 DEF SyncInv, all

Sound == \E all : SyncInv(all)

LEMMA NextKeepsInv ==
  ASSUME NEW all, SyncInv(all), [Next]_vars
  PROVE  \E more : SyncInv(more)'
<1>1. CASE Next
  <2>1. ASSUME NEW client \in Clients, Edit(client)
        PROVE  \E more : SyncInv(more)'
    BY <2>1, EditKeepsInv
  <2>2. ASSUME NEW client \in Clients, Open(client) \/ Lose(client)
        PROVE  \E more : SyncInv(more)'
    BY <2>2, OpenKeepsInv, LoseKeepsInv
  <2>3. ASSUME NEW client \in Clients, Pages(client)
        PROVE  \E more : SyncInv(more)'
    BY <2>3, WelcomeKeepsInv, StepOneKeepsInv, UpdateKeepsInv, RoleKeepsInv, ResynchroniseKeepsInv DEF Pages
  <2>4. ASSUME NEW client \in Clients, Connect(client) \/ SetRole(client)
        PROVE  \E more : SyncInv(more)'
    BY <2>4, ConnectKeepsInv, SetRoleKeepsInv
  <2>5. ASSUME NEW client \in Clients, NEW s \in Slots, Rooms(client, s)
        PROVE  \E more : SyncInv(more)'
    BY <2>5, AnswerKeepsInv, RefuseKeepsInv, GuardedKeepsInv DEF Rooms
  <2>6. ASSUME NEW client \in Clients, NEW s \in Slots, Forget(client, s)
        PROVE  \E more : SyncInv(more)'
    BY <2>6, ForgetKeepsInv
  <2>7. ASSUME AgentEdit \/ Flush \/ Crash
        PROVE  \E more : SyncInv(more)'
    BY <2>7, AgentKeepsInv, FlushKeepsInv, CrashKeepsInv
  <2>8. QED
    BY <1>1, <2>1, <2>2, <2>3, <2>4, <2>5, <2>6, <2>7 DEF Next
<1>2. CASE UNCHANGED vars
  <2>1. /\ room' = room /\ unflushed' = unflushed /\ durable' = durable /\ roomId' = roomId
        /\ role' = role /\ held' = held /\ carried' = carried
        /\ phase' = phase /\ slot' = slot /\ composed' = composed /\ known' = known
        /\ replica' = replica /\ replicaId' = replicaId /\ toRoom' = toRoom /\ toClient' = toClient
        /\ roleChanges' = roleChanges /\ crashes' = crashes
    BY <1>2 DEF vars, serverVars, pageVars, networkVars, boundVars
  <2>2. Consistent(all) /\ Typed(all)' /\ Stored(all)'
    BY <2>1 DEF SyncInv, Typed, Stored
  <2>3. ASSUME NEW client \in Clients
        PROVE  PageInv(all, client)'
    <3>1. SamePage(client) /\ PageInv(all, client)
      BY <2>1 DEF SamePage, SyncInv
    <3>2. /\ roleChanges \in Nat /\ roleChanges' \in Nat /\ roleChanges <= roleChanges'
          /\ Below(all, replicaId[client], Cardinality(Own(Shown(client), replicaId[client])))
      BY <3>1, <2>1 DEF SyncInv, Typed, PageInv, Composes
    <3>3. QED
      BY <3>1, <3>2, <2>1, PageKept
  <2>4. QED
    BY <2>2, <2>3 DEF SyncInv
<1>3. QED
  BY <1>1, <1>2

\* The invariant holds of every state.
THEOREM SyncIsSound == Spec => []Sound
<1>1. Init => Sound
  BY InitHolds DEF Sound
<1>2. Sound /\ [Next]_vars => Sound'
  BY NextKeepsInv DEF Sound
<1>3. QED
  BY <1>1, <1>2, PTL DEF Spec

\* Types, and the room and its files hold no update that waits for another.
THEOREM SyncIsTyped == Spec => []TypeOK
<1>1. Sound => TypeOK
  <2>1. SUFFICES ASSUME NEW all, SyncInv(all)
                PROVE  TypeOK
    BY DEF Sound
  <2>2. Typed(all) /\ Stored(all) /\ \A client \in Clients : Quiet(client)
    BY <2>1 DEF SyncInv, PageInv
  <2>3. ASSUME NEW client \in Clients
        PROVE  /\ \A frame \in Range(toClient[client]) : frame.kind \in FrameKinds
               /\ \A s \in Slots : \A frame \in Range(toRoom[client][s]) : frame.kind \in {"stepOne", "stepTwo", "update"}
               /\ \A s \in Slots : held[client][s] # "open" => carried[client][s] = {} /\ toRoom[client][s] = <<>>
    <3>1. toClient[client] \in Seq(PageFrame(all)) /\ \A s \in Slots : toRoom[client][s] \in Seq(RoomFrame(all))
      BY <2>2 DEF Typed
    <3>2. Range(toClient[client]) \subseteq PageFrame(all) /\ \A s \in Slots : Range(toRoom[client][s]) \subseteq RoomFrame(all)
      BY <3>1, RangeIsIn
    <3>3. QED
      BY <3>2, <2>2, PageFrames, RoomFrames DEF Quiet
  <2>4. QED
    BY <2>2, <2>3 DEF TypeOK, Typed, Stored
<1>2. QED
  BY <1>1, SyncIsSound, PTL

\* No file ever holds what the guard would have corrected, whatever a crash cuts off.
THEOREM FilesAreJudged == Spec => []FilesJudged
<1>1. Sound => FilesJudged
  BY DEF Sound, SyncInv, Stored, FilesJudged
<1>2. QED
  BY <1>1, SyncIsSound, PTL

\* The handshake leaves no gap between a page and its room.
THEOREM HandshakeLeavesNoGap == Spec => []NothingFallsBetween
<1>1. Sound => NothingFallsBetween
  <2>1. SUFFICES ASSUME NEW all, SyncInv(all), NEW client \in Clients, Hears(client, slot[client])
                PROVE  /\ Answered(client) =>
                            \/ ToldToDrop(client)
                            \/ replica[client] \ room \subseteq
                                 UpdatesIn(toRoom[client][slot[client]]) \cup carried[client][slot[client]]
                       /\ phase[client] = "online" => room \ replica[client] \subseteq UpdatesIn(toClient[client])
    BY DEF Sound, NothingFallsBetween
  <2>2. Heard(client) /\ Served(client)
    BY <2>1 DEF SyncInv, PageInv
  <2>3. QED
    BY <2>1, <2>2 DEF Heard, Served
<1>2. QED
  BY <1>1, SyncIsSound, PTL

-----------------------------------------------------------------------------
\* What a page will show: its replica after each of the frames on their way.

\* What the first k frames carry.
Upto(frames, k) == UNION {Carried(frames[i]) : i \in 1 .. k}

\* The room's step 2 is one of them.
InStep(frames, k) == \E i \in 1 .. k : frames[i].kind = "stepTwo"

\* A page that made nothing itself and has, or will have by then, the room's step 2 holds
\* after each frame a document that waits for nothing and that the guard lets stand.
Follows(client) ==
  crashes = 0 /\ Own(replica[client], replicaId[client]) = {} =>
    \A k \in 0 .. Len(toClient[client]) :
      phase[client] = "online" \/ InStep(toClient[client], k) =>
        LET doc == replica[client] \cup Upto(toClient[client], k)
        IN  View(doc) = doc /\ ~ Forbidden(doc)

LEMMA UptoAll ==
  ASSUME NEW E, NEW frames \in Seq(E)
  PROVE  /\ Upto(frames, Len(frames)) = UpdatesIn(frames)
         /\ Upto(frames, 0) = {} /\ ~ InStep(frames, 0)
         /\ \A k \in 0 .. Len(frames) : InStep(frames, k) => \E frame \in Range(frames) : frame.kind = "stepTwo"
<1>1. Len(frames) \in Nat /\ DOMAIN frames = 1 .. Len(frames)
  OBVIOUS
<1>2. Range(frames) = {frames[i] : i \in 1 .. Len(frames)}
  BY <1>1 DEF Range
<1>3. Upto(frames, Len(frames)) = UpdatesIn(frames)
  <2>1. UpdatesIn(frames) = UNION {Carried(frame) : frame \in Range(frames)}
    BY UpdatesInIs
  <2>2. QED
    BY <2>1, <1>2 DEF Upto
<1>4. Upto(frames, 0) = {} /\ ~ InStep(frames, 0)
  BY DEF Upto, InStep
<1>5. \A k \in 0 .. Len(frames) : \A i \in 1 .. k : frames[i] \in Range(frames)
  BY <1>1, <1>2
<1>6. QED
  BY <1>3, <1>4, <1>5 DEF InStep

LEMMA UptoOfAppend ==
  ASSUME NEW E, NEW frames \in Seq(E), NEW frame \in E, NEW k \in 0 .. Len(Append(frames, frame))
  PROVE  /\ k \in 0 .. Len(frames) =>
              /\ Upto(Append(frames, frame), k) = Upto(frames, k)
              /\ InStep(Append(frames, frame), k) <=> InStep(frames, k)
         /\ k \notin 0 .. Len(frames) => k = Len(Append(frames, frame))
<1> DEFINE longer == Append(frames, frame)
<1>1. /\ Len(frames) \in Nat /\ Len(longer) = Len(frames) + 1
      /\ \A i \in 1 .. Len(frames) : longer[i] = frames[i]
  OBVIOUS
<1> HIDE DEF longer
<1>2. k \in 0 .. Len(longer)
  BY DEF longer
<1>3. k \notin 0 .. Len(frames) => k = Len(longer)
  BY <1>1, <1>2
<1>4. ASSUME k \in 0 .. Len(frames)
      PROVE  Upto(longer, k) = Upto(frames, k) /\ (InStep(longer, k) <=> InStep(frames, k))
  <2>1. \A i \in 1 .. k : longer[i] = frames[i]
    BY <1>1, <1>4
  <2>2. QED
    BY <2>1 DEF Upto, InStep
<1>5. QED
  BY <1>3, <1>4 DEF longer

LEMMA UptoOfTail ==
  ASSUME NEW E, NEW frames \in Seq(E), frames # <<>>, NEW k \in 0 .. Len(Tail(frames))
  PROVE  /\ k + 1 \in 0 .. Len(frames)
         /\ Upto(frames, k + 1) = Carried(Head(frames)) \cup Upto(Tail(frames), k)
         /\ InStep(frames, k + 1) <=> Head(frames).kind = "stepTwo" \/ InStep(Tail(frames), k)
<1> DEFINE rest == Tail(frames)
           first == Head(frames)
<1>1. /\ Len(frames) \in Nat /\ Len(frames) >= 1 /\ Len(rest) = Len(frames) - 1 /\ first = frames[1]
      /\ \A i \in 1 .. Len(rest) : rest[i] = frames[i + 1]
  OBVIOUS
<1> HIDE DEF rest, first
<1>2. k \in 0 .. Len(rest) /\ k \in Nat
  BY <1>1 DEF rest
<1>3. \A i \in 1 .. k : rest[i] = frames[i + 1] /\ i + 1 \in 1 .. k + 1
  BY <1>1, <1>2
<1>4. \A i \in 1 .. k + 1 : i = 1 \/ (i - 1 \in 1 .. k /\ frames[i] = rest[i - 1])
  <2>1. ASSUME NEW i \in 1 .. k + 1, i # 1
        PROVE  i - 1 \in 1 .. k /\ frames[i] = rest[i - 1]
    <3>1. i - 1 \in 1 .. k /\ (i - 1) + 1 = i
      BY <2>1, <1>2
    <3>2. QED
      BY <3>1, <1>3
  <2>2. QED
    BY <2>1
<1>5. 1 \in 1 .. k + 1 /\ k + 1 \in 0 .. Len(frames)
  BY <1>1, <1>2
<1>6. Upto(frames, k + 1) = Carried(first) \cup Upto(rest, k)
  <2>1. Upto(frames, k + 1) \subseteq Carried(first) \cup Upto(rest, k)
    <3>1. ASSUME NEW i \in 1 .. k + 1
          PROVE  Carried(frames[i]) \subseteq Carried(first) \cup Upto(rest, k)
      <4>1. CASE i = 1
        BY <4>1, <1>1
      <4>2. CASE i # 1
        BY <4>2, <1>4 DEF Upto
      <4>3. QED
        BY <4>1, <4>2
    <3>2. QED
      BY <3>1 DEF Upto
  <2>2. Carried(first) \subseteq Upto(frames, k + 1)
    BY <1>1, <1>5 DEF Upto
  <2>3. Upto(rest, k) \subseteq Upto(frames, k + 1)
    BY <1>3 DEF Upto
  <2>4. QED
    BY <2>1, <2>2, <2>3
<1>7. InStep(frames, k + 1) <=> first.kind = "stepTwo" \/ InStep(rest, k)
  <2>1. InStep(frames, k + 1) => first.kind = "stepTwo" \/ InStep(rest, k)
    BY <1>1, <1>4 DEF InStep
  <2>2. first.kind = "stepTwo" => InStep(frames, k + 1)
    BY <1>1, <1>5 DEF InStep
  <2>3. InStep(rest, k) => InStep(frames, k + 1)
    BY <1>3 DEF InStep
  <2>4. QED
    BY <2>1, <2>2, <2>3
<1>8. QED
  BY <1>5, <1>6, <1>7 DEF rest, first

\* What a step may do to a page: nothing; send it a frame; have it read one; take its socket
\* away, or give it a new one; let it edit; and the room may die.
Stays(client) ==
  /\ phase'[client] = phase[client] /\ replica'[client] = replica[client]
  /\ replicaId'[client] = replicaId[client]

Told(client) ==
  /\ Stays(client) /\ Hears(client, slot[client])'
  /\ \E frame : toClient'[client] = Append(toClient[client], frame)

HasRead(client) ==
  /\ toClient[client] # <<>> /\ toClient'[client] = Tail(toClient[client])
  /\ replica'[client] = replica[client] \cup Carried(Head(toClient[client]))
  /\ replicaId'[client] = replicaId[client]
  /\ phase'[client] = "online" => phase[client] = "online" \/ Head(toClient[client]).kind = "stepTwo"

Anew(client) ==
  phase'[client] # "online" /\ \A frame \in Range(toClient'[client]) : frame.kind # "stepTwo"

Moved(client) ==
  \/ crashes' = crashes /\ Stays(client) /\ toClient'[client] = toClient[client]
  \/ crashes' = crashes /\ (Told(client) \/ HasRead(client))
  \/ Anew(client)
  \/ Own(replica'[client], replicaId'[client]) # {}
  \/ crashes' # 0

\* Whatever happens to a page, what it will show stands.
LEMMA MovedFollows ==
  ASSUME NEW all, SyncInv(all), NEW more, SyncInv(more)', NEW client \in Clients,
         Moved(client), Follows(client)
  PROVE  Follows(client)'
<1>1. SUFFICES ASSUME crashes' = 0, Own(replica'[client], replicaId'[client]) = {},
                      NEW k \in 0 .. Len(toClient'[client]),
                      phase'[client] = "online" \/ InStep(toClient'[client], k),
                      NEW doc, doc = replica'[client] \cup Upto(toClient'[client], k)
               PROVE  View(doc) = doc /\ ~ Forbidden(doc)
  BY DEF Follows
<1>2. toClient[client] \in Seq(PageFrame(all)) /\ toClient'[client] \in Seq(PageFrame(more))
  BY DEF SyncInv, Typed
<1>3. CASE crashes' = crashes /\ Stays(client) /\ toClient'[client] = toClient[client]
  BY <1>1, <1>3 DEF Stays, Follows
<1>4. CASE crashes' = crashes /\ Told(client)
  <2>1. PICK frame : toClient'[client] = Append(toClient[client], frame)
    BY <1>4 DEF Told
  <2> DEFINE E == PageFrame(all) \cup {frame}
  <2>2. toClient[client] \in Seq(E) /\ frame \in E
    BY <1>2
  <2> HIDE DEF E
  <2>3. /\ k \in 0 .. Len(toClient[client]) =>
             /\ Upto(toClient'[client], k) = Upto(toClient[client], k)
             /\ InStep(toClient'[client], k) <=> InStep(toClient[client], k)
        /\ k \notin 0 .. Len(toClient[client]) => k = Len(toClient'[client])
    <3>1. PICK frames : frames = toClient[client]
      OBVIOUS
    <3>2. frames \in Seq(E) /\ k \in 0 .. Len(Append(frames, frame))
      BY <3>1, <2>1, <2>2, <1>1
    <3>3. /\ k \in 0 .. Len(frames) =>
               /\ Upto(Append(frames, frame), k) = Upto(frames, k)
               /\ InStep(Append(frames, frame), k) <=> InStep(frames, k)
          /\ k \notin 0 .. Len(frames) => k = Len(Append(frames, frame))
      BY <3>2, <2>2, UptoOfAppend
    <3>4. QED
      BY <3>1, <3>3, <2>1
  <2>4. CASE k \in 0 .. Len(toClient[client])
    BY <2>3, <2>4, <1>1, <1>4 DEF Told, Stays, Follows
  <2>5. CASE k \notin 0 .. Len(toClient[client])
    <3>1. Upto(toClient'[client], k) = UpdatesIn(toClient'[client])
      BY <2>3, <2>5, <1>2, UptoAll
    <3>2. phase'[client] = "online" \/ \E f \in Range(toClient'[client]) : f.kind = "stepTwo"
      BY <1>1, <1>2, UptoAll
    <3>3. PageInv(more, client)' /\ Stored(more)'
      BY DEF SyncInv
    <3>4. room' \subseteq replica'[client] \cup UpdatesIn(toClient'[client])
      BY <3>2, <3>3, <1>4 DEF PageInv, Served, Told
    <3>5. UpdatesIn(toClient'[client]) \subseteq room'
      BY <3>3, <1>1 DEF PageInv, Honest
    <3>6. replica'[client] \subseteq room'
      BY <3>3, <1>1 DEF PageInv, Owns
    <3>7. doc = room'
      BY <3>1, <3>4, <3>5, <3>6, <1>1
    <3>8. QED
      BY <3>3, <3>7 DEF Stored
  <2>6. QED
    BY <2>4, <2>5
<1>5. CASE crashes' = crashes /\ HasRead(client)
  <2>1. PICK frames : frames = toClient[client]
    OBVIOUS
  <2>2. frames \in Seq(PageFrame(all)) /\ frames # <<>> /\ toClient'[client] = Tail(frames) /\ k \in 0 .. Len(Tail(frames))
    BY <2>1, <1>1, <1>2, <1>5 DEF HasRead
  <2>3. /\ k + 1 \in 0 .. Len(frames)
        /\ Upto(frames, k + 1) = Carried(Head(frames)) \cup Upto(Tail(frames), k)
        /\ InStep(frames, k + 1) <=> Head(frames).kind = "stepTwo" \/ InStep(Tail(frames), k)
    BY <2>2, UptoOfTail
  <2>4. doc = replica[client] \cup Upto(frames, k + 1)
    BY <2>1, <2>2, <2>3, <1>1, <1>5 DEF HasRead
  <2>5. Own(replica[client], replicaId[client]) = {}
    BY <1>1, <1>5 DEF HasRead, Own
  <2>6. phase[client] = "online" \/ InStep(frames, k + 1)
    BY <2>1, <2>2, <2>3, <1>1, <1>5 DEF HasRead
  <2>7. QED
    BY <2>1, <2>3, <2>4, <2>5, <2>6, <1>1, <1>5 DEF Follows
<1>6. CASE Anew(client)
  BY <1>1, <1>2, <1>6, UptoAll DEF Anew
<1>7. QED
  BY <1>1, <1>3, <1>4, <1>5, <1>6 DEF Moved

LEMMA OwnEdit ==
  ASSUME NEW doc, NEW replicaOf \in Nat \X Nat, NEW person, NEW update \in Edits(doc, replicaOf, person)
  PROVE  ReplicaOf(update.id) = replicaOf
<1> DEFINE clock == Cardinality(Own(doc, replicaOf)) + 1
<1>1. update.id = IdOf(replicaOf, clock)
  BY DEF Edits, Save, SaveApproved, Approve, SetApproval, Made
<1> HIDE DEF clock
<1>2. QED
  BY <1>1 DEF IdOf, ReplicaOf

\* What is sent to a page reaches it, and nobody else.
LEMMA AnswerMoves ==
  ASSUME toClient = [c \in Clients |-> toClient[c]],
         NEW to \in Clients, NEW s, NEW frame, Answer(to, s, frame),
         phase' = phase, replica' = replica, replicaId' = replicaId, slot' = slot, held' = held, crashes' = crashes,
         NEW client \in Clients
  PROVE  Moved(client)
<1>1. Stays(client)
  BY DEF Stays
<1>2. CASE Hears(to, s) /\ client = to
  <2>1. toClient'[client] = Append(toClient[client], frame) /\ Hears(client, slot[client])'
    BY <1>2 DEF Answer, Hears
  <2>2. QED
    BY <1>1, <2>1 DEF Moved, Told
<1>3. CASE ~ (Hears(to, s) /\ client = to)
  <2>1. toClient'[client] = toClient[client]
    BY <1>3 DEF Answer
  <2>2. QED
    BY <1>1, <2>1 DEF Moved
<1>4. QED
  BY <1>2, <1>3

LEMMA BroadcastMoves ==
  ASSUME NEW updates, toClient' = Broadcast(updates),
         phase' = phase, replica' = replica, replicaId' = replicaId, slot' = slot, held' = held, crashes' = crashes,
         NEW client \in Clients
  PROVE  Moved(client)
<1>1. Stays(client)
  BY DEF Stays
<1>2. CASE Hears(client, slot[client]) /\ updates[client] # {}
  <2>1. toClient'[client] = Append(toClient[client], UpdateFrame(updates[client])) /\ Hears(client, slot[client])'
    BY <1>2 DEF Broadcast, Hears
  <2>2. QED
    BY <1>1, <2>1 DEF Moved, Told
<1>3. CASE ~ (Hears(client, slot[client]) /\ updates[client] # {})
  <2>1. toClient'[client] = toClient[client]
    BY <1>3 DEF Broadcast
  <2>2. QED
    BY <1>1, <2>1 DEF Moved
<1>4. QED
  BY <1>2, <1>3

LEMMA PagesMove ==
  ASSUME NEW all, SyncInv(all), NEW actor \in Clients, Pages(actor), NEW client \in Clients
  PROVE  Moved(client)
<1>1. Typed(all)
  BY DEF SyncInv
<1>2. /\ phase \in [Clients -> {"offline", "joining", "synchronising", "online"}]
      /\ replica \in [Clients -> SUBSET all] /\ replicaId \in [Clients -> Nat \X Nat]
      /\ DOMAIN toClient = Clients /\ toClient = [c \in Clients |-> toClient[c]]
  BY <1>1 DEF Typed
<1>3. CASE ResynchroniseArrives(actor)
  <2>1. /\ phase' = [phase EXCEPT ![actor] = "offline"] /\ replica' = [replica EXCEPT ![actor] = {}]
        /\ replicaId' = [replicaId EXCEPT ![actor] = Renewed(@)]
        /\ toClient' = [toClient EXCEPT ![actor] = <<>>] /\ crashes' = crashes
    BY <1>3 DEF ResynchroniseArrives, LeaveSocket, boundVars
  <2>2. client # actor => Stays(client) /\ toClient'[client] = toClient[client]
    BY <1>2, <2>1 DEF Stays
  <2>3. client = actor => Anew(client)
    BY <1>2, <2>1, NoUpdates DEF Anew
  <2>4. QED
    BY <2>1, <2>2, <2>3 DEF Moved
<1>4. ASSUME Read(actor), toClient[actor] # <<>>, crashes' = crashes, replicaId' = replicaId,
             NEW after, phase' = [phase EXCEPT ![actor] = after],
             replica' = [replica EXCEPT ![actor] = @ \cup Carried(Frame(actor))],
             after = "online" => phase[actor] = "online" \/ Frame(actor).kind = "stepTwo"
      PROVE  Moved(client)
  <2>1. toClient' = [toClient EXCEPT ![actor] = Tail(@)] /\ Frame(actor) = Head(toClient[actor])
    BY <1>4 DEF Read, Frame
  <2>2. client # actor => Stays(client) /\ toClient'[client] = toClient[client]
    BY <1>2, <1>4, <2>1 DEF Stays
  <2>3. client = actor => HasRead(client)
    BY <1>2, <1>4, <2>1 DEF HasRead
  <2>4. QED
    BY <1>4, <2>2, <2>3 DEF Moved
<1>5. CASE WelcomeArrives(actor)
  <2>1. Frame(actor).kind = "welcome" /\ toClient[actor] # <<>>
    BY <1>5 DEF WelcomeArrives, Reads, Frame
  <2>2. replica[actor] \cup Carried(Frame(actor)) = replica[actor]
    BY <2>1 DEF Carried, CarriesUpdates
  <2>3. replica' = [replica EXCEPT ![actor] = @ \cup Carried(Frame(actor))]
    BY <1>2, <1>5, <2>2 DEF WelcomeArrives
  <2>4. phase' = [phase EXCEPT ![actor] = "synchronising"]
    BY <1>5 DEF WelcomeArrives
  <2>5. QED
    BY <1>4, <1>5, <2>1, <2>3, <2>4 DEF WelcomeArrives, boundVars
<1>6. CASE StepOneArrives(actor) \/ RoleArrives(actor)
  <2>1. Frame(actor).kind \in {"stepOne", "accessChanged"} /\ toClient[actor] # <<>>
    BY <1>6 DEF StepOneArrives, RoleArrives, Reads, Frame
  <2>2. replica[actor] \cup Carried(Frame(actor)) = replica[actor]
    BY <2>1 DEF Carried, CarriesUpdates
  <2>3. replica' = [replica EXCEPT ![actor] = @ \cup Carried(Frame(actor))]
    BY <1>2, <1>6, <2>2 DEF StepOneArrives, RoleArrives
  <2>4. phase' = [phase EXCEPT ![actor] = phase[actor]]
    BY <1>2, <1>6 DEF StepOneArrives, RoleArrives
  <2>5. Read(actor) /\ replicaId' = replicaId /\ crashes' = crashes
    BY <1>6 DEF StepOneArrives, RoleArrives, boundVars
  <2>6. QED
    BY <1>4, <2>1, <2>3, <2>4, <2>5
<1>7. CASE StepTwoArrives(actor)
  <2>1. Frame(actor).kind = "stepTwo" /\ toClient[actor] # <<>>
    BY <1>7 DEF StepTwoArrives, Reads, Frame
  <2>2. Carried(Frame(actor)) = Frame(actor).updates
    BY <2>1 DEF Carried, CarriesUpdates
  <2>3. replica' = [replica EXCEPT ![actor] = @ \cup Carried(Frame(actor))]
    BY <1>7, <2>2 DEF StepTwoArrives
  <2>4. phase' = [phase EXCEPT ![actor] = "online"]
    BY <1>7 DEF StepTwoArrives
  <2>5. Read(actor) /\ replicaId' = replicaId /\ crashes' = crashes
    BY <1>7 DEF StepTwoArrives, boundVars
  <2>6. QED
    BY <1>4, <2>1, <2>3, <2>4, <2>5
<1>8. CASE UpdateArrives(actor)
  <2>1. Frame(actor).kind = "update" /\ toClient[actor] # <<>>
    BY <1>8 DEF UpdateArrives, Reads, Frame
  <2>2. Carried(Frame(actor)) = Frame(actor).updates
    BY <2>1 DEF Carried, CarriesUpdates
  <2>3. replica' = [replica EXCEPT ![actor] = @ \cup Carried(Frame(actor))]
    BY <1>8, <2>2 DEF UpdateArrives
  <2>4. phase' = [phase EXCEPT ![actor] = phase[actor]]
    BY <1>2, <1>8 DEF UpdateArrives
  <2>5. Read(actor) /\ replicaId' = replicaId /\ crashes' = crashes
    BY <1>8 DEF UpdateArrives, boundVars
  <2>6. QED
    BY <1>4, <2>1, <2>3, <2>4, <2>5
<1>9. QED
  BY <1>3, <1>5, <1>6, <1>7, <1>8 DEF Pages

LEMMA EveryoneMoves ==
  ASSUME NEW all, SyncInv(all), [Next]_vars, NEW client \in Clients
  PROVE  Moved(client)
<1>1. Typed(all)
  BY DEF SyncInv
<1>2. /\ phase \in [Clients -> {"offline", "joining", "synchronising", "online"}]
      /\ replica \in [Clients -> SUBSET all] /\ replicaId \in [Clients -> Nat \X Nat]
      /\ DOMAIN toClient = Clients /\ toClient = [c \in Clients |-> toClient[c]] /\ crashes \in Nat
  BY <1>1 DEF Typed
<1>3. ASSUME NEW actor \in Clients, Edit(actor)
      PROVE  Moved(client)
  <2>1. PICK update \in Edits(Shown(actor), replicaId[actor], actor) :
          replica' = [replica EXCEPT ![actor] = @ \cup {update}]
    BY <1>3 DEF Edit
  <2>2. phase' = phase /\ replicaId' = replicaId /\ toClient' = toClient /\ crashes' = crashes
    BY <1>3 DEF Edit
  <2>3. client # actor => Stays(client) /\ toClient'[client] = toClient[client]
    BY <1>2, <2>1, <2>2 DEF Stays
  <2>4. client = actor => Own(replica'[client], replicaId'[client]) # {}
    <3>1. replicaId[actor] \in Nat \X Nat
      BY <1>2
    <3>2. ReplicaOf(update.id) = replicaId[actor]
      <4>1. PICK doc, replicaOf : doc = Shown(actor) /\ replicaOf = replicaId[actor]
        OBVIOUS
      <4>2. update \in Edits(doc, replicaOf, actor) /\ replicaOf \in Nat \X Nat
        BY <4>1, <3>1
      <4>3. QED
        BY <4>1, <4>2, OwnEdit
    <3>3. update \in replica'[actor]
      BY <1>2, <2>1
    <3>4. QED
      BY <2>2, <3>2, <3>3 DEF Own
  <2>5. QED
    BY <2>2, <2>3, <2>4 DEF Moved
<1>4. ASSUME NEW actor \in Clients, Open(actor)
      PROVE  Moved(client)
  <2>1. /\ phase' = [phase EXCEPT ![actor] = "joining"] /\ toClient[actor] = <<>>
        /\ replica' = replica /\ replicaId' = replicaId /\ toClient' = toClient /\ crashes' = crashes
    BY <1>4 DEF Open, networkVars, boundVars, SyncInv, PageInv, Quiet
  <2>2. client # actor => Stays(client)
    BY <1>2, <2>1 DEF Stays
  <2>3. client = actor => Anew(client)
    BY <1>2, <2>1, NoUpdates DEF Anew
  <2>4. QED
    BY <2>1, <2>2, <2>3 DEF Moved
<1>5. ASSUME NEW actor \in Clients, Lose(actor)
      PROVE  Moved(client)
  <2>1. /\ phase' = [phase EXCEPT ![actor] = "offline"] /\ toClient' = [toClient EXCEPT ![actor] = <<>>]
        /\ replica' = replica /\ replicaId' = replicaId /\ crashes' = crashes
    BY <1>5 DEF Lose, LeaveSocket
  <2>2. client # actor => Stays(client) /\ toClient'[client] = toClient[client]
    BY <1>2, <2>1 DEF Stays
  <2>3. client = actor => Anew(client)
    BY <1>2, <2>1, NoUpdates DEF Anew
  <2>4. QED
    BY <2>1, <2>2, <2>3 DEF Moved
<1>6. ASSUME NEW actor \in Clients, Connect(actor)
      PROVE  Moved(client)
  <2>1. /\ phase[actor] = "joining"
        /\ toClient' = [toClient EXCEPT ![actor] = <<Welcome(role[actor]), StepOne(IdsOf(room))>>]
        /\ phase' = phase /\ replica' = replica /\ replicaId' = replicaId /\ crashes' = crashes
    BY <1>6 DEF Connect, pageVars, boundVars
  <2>2. client # actor => Stays(client) /\ toClient'[client] = toClient[client]
    BY <1>2, <2>1 DEF Stays
  <2>3. \A frame \in Range(<<Welcome(role[actor]), StepOne(IdsOf(room))>>) : frame.kind # "stepTwo"
    BY DEF Range, Welcome, StepOne
  <2>4. client = actor => Anew(client)
    BY <1>2, <2>1, <2>3 DEF Anew
  <2>5. QED
    BY <2>1, <2>2, <2>4 DEF Moved
<1>7. ASSUME NEW actor \in Clients, SetRole(actor)
      PROVE  Moved(client)
  <2>1. PICK other : Answer(actor, slot[actor], AccessChanged(other))
    BY <1>7 DEF SetRole
  <2>2. /\ phase' = phase /\ replica' = replica /\ replicaId' = replicaId /\ slot' = slot
        /\ held' = held /\ crashes' = crashes
    BY <1>7 DEF SetRole, pageVars
  <2>3. QED
    BY <1>2, <2>1, <2>2, AnswerMoves
<1>8. ASSUME NEW actor \in Clients, NEW s \in Slots, Rooms(actor, s)
      PROVE  Moved(client)
  <2>1. /\ phase' = phase /\ replica' = replica /\ replicaId' = replicaId /\ slot' = slot
        /\ held' = held /\ crashes' = crashes
    BY <1>8 DEF Rooms, AnswerStepOne, RefuseUpdate, ApplyGuarded, serverVars, pageVars, boundVars
  <2>2. CASE AnswerStepOne(actor, s)
    <3>1. Answer(actor, s, StepTwo(Missing(room, Received(actor, s).has)))
      BY <2>2 DEF AnswerStepOne
    <3>2. QED
      BY <1>2, <2>1, <3>1, AnswerMoves
  <2>3. CASE RefuseUpdate(actor, s)
    <3>1. toClient' = toClient \/ Answer(actor, s, Resynchronise)
      BY <2>3 DEF RefuseUpdate
    <3>2. toClient' = toClient => Moved(client)
      BY <2>1 DEF Moved, Stays
    <3>3. QED
      BY <1>2, <2>1, <3>1, <3>2, AnswerMoves
  <2>4. CASE ApplyGuarded(actor, s)
    <3>1. PICK updates : toClient' = Broadcast(updates)
      BY <2>4 DEF ApplyGuarded
    <3>2. QED
      BY <2>1, <3>1, BroadcastMoves
  <2>5. QED
    BY <1>8, <2>2, <2>3, <2>4 DEF Rooms
<1>9. CASE AgentEdit
  <2>1. PICK updates : toClient' = Broadcast(updates)
    BY <1>9 DEF AgentEdit
  <2>2. /\ phase' = phase /\ replica' = replica /\ replicaId' = replicaId /\ slot' = slot
        /\ held' = held /\ crashes' = crashes
    BY <1>9 DEF AgentEdit, pageVars
  <2>3. QED
    BY <2>1, <2>2, BroadcastMoves
<1>10. CASE UNCHANGED vars \/ Flush \/ \E actor \in Clients, s \in Slots : Forget(actor, s)
  <2>1. phase' = phase /\ replica' = replica /\ replicaId' = replicaId /\ toClient' = toClient /\ crashes' = crashes
    BY <1>10 DEF vars, Flush, Forget, serverVars, pageVars, networkVars, boundVars
  <2>2. QED
    BY <2>1 DEF Moved, Stays
<1>11. CASE Crash
  BY <1>2, <1>11 DEF Crash, Moved
<1>12. QED
  BY <1>3, <1>4, <1>5, <1>6, <1>7, <1>8, <1>9, <1>10, <1>11, PagesMove DEF Next

\* While the room lives, an online page that has made nothing itself never shows a state the
\* guard corrects.
THEOREM ReadersSeeOnlyJudged == Spec => []ReadersSeeJudged
<1> DEFINE Everyone == \A client \in Clients : Follows(client)
<1>1. Init => Everyone
  <2>1. SUFFICES ASSUME Init, NEW client \in Clients, NEW k \in 0 .. Len(toClient[client])
                PROVE  LET doc == replica[client] \cup Upto(toClient[client], k)
                       IN  View(doc) = doc /\ ~ Forbidden(doc)
    BY DEF Follows
  <2>2. Stored({FirstUpdate}) /\ room = {FirstUpdate}
    BY <2>1, InitHolds DEF SyncInv, Init
  <2>3. replica[client] = room /\ toClient[client] = <<>>
    BY <2>1 DEF Init
  <2>4. k = 0 /\ Upto(<<>>, 0) = {}
    BY <2>1, <2>3 DEF Upto
  <2>5. QED
    BY <2>2, <2>3, <2>4 DEF Stored
<1>2. Sound /\ Sound' /\ Everyone /\ [Next]_vars => Everyone'
  <2>1. SUFFICES ASSUME NEW all, SyncInv(all), Sound', Everyone, [Next]_vars, NEW client \in Clients
                PROVE  Follows(client)'
    BY DEF Sound
  <2>2. PICK more : SyncInv(more)'
    BY <2>1 DEF Sound
  <2>3. Moved(client)
    BY <2>1, EveryoneMoves
  <2>4. QED
    BY <2>1, <2>2, <2>3, MovedFollows
<1>3. Sound /\ Everyone => ReadersSeeJudged
  <2>1. SUFFICES ASSUME NEW all, SyncInv(all), Everyone, NEW client \in Clients, crashes = 0,
                       phase[client] = "online", Own(replica[client], replicaId[client]) = {}
                PROVE  ~ Forbidden(Shown(client))
    BY DEF Sound, ReadersSeeJudged
  <2>2. toClient[client] \in Seq(PageFrame(all))
    BY <2>1 DEF SyncInv, Typed
  <2>3. 0 \in 0 .. Len(toClient[client]) /\ Upto(toClient[client], 0) = {}
    BY <2>2, UptoAll
  <2>4. replica[client] \cup Upto(toClient[client], 0) = replica[client]
    BY <2>3
  <2>5. View(replica[client]) = replica[client] /\ ~ Forbidden(replica[client])
    <3>1. Follows(client)
      BY <2>1
    <3>2. \A k \in 0 .. Len(toClient[client]) :
            View(replica[client] \cup Upto(toClient[client], k)) = replica[client] \cup Upto(toClient[client], k)
            /\ ~ Forbidden(replica[client] \cup Upto(toClient[client], k))
      BY <3>1, <2>1 DEF Follows
    <3>3. QED
      BY <3>2, <2>3, <2>4
  <2>6. QED
    BY <2>5 DEF Shown
<1> HIDE DEF Everyone
<1>4. QED
  BY <1>1, <1>2, <1>3, SyncIsSound, PTL DEF Spec

-----------------------------------------------------------------------------
\* Whose updates there are, while nobody's role changes.

\* What a page has or sent.
Theirs(client) ==
  replica[client] \cup UNION {UpdatesIn(toRoom[client][s]) \cup carried[client][s] : s \in Slots}

Existing == room \cup UNION {Theirs(client) \cup UpdatesIn(toClient[client]) : client \in Clients}

\* What the room holds or a crash took from it.
WasInRoom == IdsOf(room) \cup lost

EndsIn(path, id) == path # <<>> /\ path[Len(path)] = id

\* Every write ends its path; an update approves in its author's name; a correction revokes
\* what it needs.
Signed(update) ==
  /\ EndsIn(update.approval, update.id)
  /\ update.text = <<>> \/ EndsIn(update.text, update.id)
  /\ update.by = "earlier" => update = FirstUpdate
  /\ update.by = "room" => /\ update.text = <<>> /\ update.value = Unapproved
                           /\ Last(Front(update.approval)) \in update.needs
  /\ update.value = Unapproved \/ update.value.by = update.by

\* Whoever made an update edits, and still has it in the replica that it was made in.
StillHeld(update) ==
  update.by \in Clients =>
    /\ role[update.by] = "editor" /\ update \in replica[update.by]
    /\ ReplicaOf(update.id) = replicaId[update.by]

\* A page has what it made itself or the room once held, and is told nothing else.
Traced(client) ==
  /\ \A update \in Theirs(client) : update.by = client \/ update.id \in WasInRoom
  /\ \A update \in UpdatesIn(toClient[client]) : update.id \in WasInRoom
  /\ ToldToDrop(client) => role[client] # "editor"

MadeBy(client) == {update \in replica[client] : update.by = client}

\* One's own updates were made one after the other, each where the ones before were shown.
Chained(client) ==
  /\ \A update, other \in MadeBy(client) :
       /\ update = other \/ update.id \in other.needs \/ other.id \in update.needs
       /\ other.id \in update.needs => Precedes(other.approval, update.approval)
  /\ \A update \in MadeBy(client) : update.needs \subseteq IdsOf(replica[client])

\* What one approves was the text one saw, the last of those one had made.
ApprovesShown(client) ==
  \A update \in MadeBy(client) : update.value # Unapproved =>
    \E text \in replica[client] :
      /\ text.id = update.value.text /\ text.text # <<>> /\ ~ Precedes(text.text, FirstUpdate.text)
      /\ text.by = client => text.id \in update.needs \cup {update.id}
      /\ \A other \in MadeBy(client) :
           other.id \in update.needs \cup {update.id} => ~ Precedes(text.text, other.text)

\* A document that has only one person's updates, and what of it was revoked.
RevokedByLoss(doc) ==
  \A client \in Clients :
    {update.by : update \in doc} \subseteq {"earlier", "room", client} =>
      \A correction \in doc : correction.by = "room" =>
        \E revoked \in doc :
          /\ revoked.id = Last(Front(correction.approval))
          /\ {correction.id, revoked.id, revoked.value.text} \cap lost # {}

\* Every update is named after who made it, and where.
Named == \A update \in Existing : Signed(update) /\ StillHeld(update)

Everywhere == \A client \in Clients : Traced(client) /\ Chained(client) /\ ApprovesShown(client)

Revoked == RevokedByLoss(room) /\ RevokedByLoss(durable)

SoleInv == roleChanges = 0 => Named /\ Everywhere /\ Revoked
\* What a page may get in a step: what was sent to it, what the room held, and what is new of its own.
Source(client, new) ==
  Theirs(client) \cup UpdatesIn(toClient[client]) \cup room \cup {update \in new : update.by = client}

\* What a step does to a page while roles stay.
Passes(client, new) ==
  /\ role'[client] = role[client]
  /\ Theirs(client)' \subseteq Source(client, new)
  /\ UpdatesIn(toClient'[client]) \subseteq UpdatesIn(toClient[client]) \cup room'
  /\ ToldToDrop(client)' => ToldToDrop(client) \/ role[client] # "editor"
  /\ role[client] = "editor" => replica[client] \subseteq replica'[client] /\ replicaId'[client] = replicaId[client]

LEMMA SourceOfParts ==
  ASSUME NEW client, NEW new, replica'[client] \subseteq Source(client, new),
         \A s \in Slots : UpdatesIn(toRoom'[client][s]) \subseteq Source(client, new)
                          /\ carried'[client][s] \subseteq Source(client, new)
  PROVE  Theirs(client)' \subseteq Source(client, new)
<1> DEFINE all == Source(client, new)
<1>1. Theirs(client)' = replica'[client] \cup UNION {UpdatesIn(toRoom'[client][s]) \cup carried'[client][s] : s \in Slots}
  BY DEF Theirs, UpdatesIn, CarriesUpdates
<1> HIDE DEF all
<1>2. replica'[client] \subseteq all /\ \A s \in Slots : UpdatesIn(toRoom'[client][s]) \cup carried'[client][s] \subseteq all
  BY DEF all
<1>3. Theirs(client)' \subseteq all
  BY <1>1, <1>2
<1>4. QED
  BY <1>3 DEF all

LEMMA SourceHas ==
  ASSUME NEW client, NEW new
  PROVE  /\ replica[client] \subseteq Source(client, new) /\ Theirs(client) \subseteq Source(client, new)
         /\ \A s \in Slots : UpdatesIn(toRoom[client][s]) \subseteq Source(client, new)
                             /\ carried[client][s] \subseteq Source(client, new)
         /\ UpdatesIn(toClient[client]) \subseteq Source(client, new) /\ room \subseteq Source(client, new)
BY DEF Source, Theirs

\* A page that nothing happens to.
LEMMA PassesUntouched ==
  ASSUME NEW client, role'[client] = role[client], replica'[client] = replica[client],
         replicaId'[client] = replicaId[client], toRoom'[client] = toRoom[client],
         carried'[client] = carried[client], toClient'[client] = toClient[client], NEW new
  PROVE  Passes(client, new)
<1>1. Theirs(client)' \subseteq Source(client, new)
  BY SourceHas, SourceOfParts
<1>2. ToldToDrop(client)' => ToldToDrop(client)
  BY DEF ToldToDrop
<1>3. QED
  BY <1>1, <1>2 DEF Passes

\* Existing updates come from existing ones.
LEMMA NamedKept ==
  ASSUME Named, NEW new, \A client \in Clients : Passes(client, new) /\ Traced(client),
         room' \subseteq Existing \cup new, WasInRoom \subseteq WasInRoom',
         \A update \in new : Signed(update) /\ StillHeld(update)'
  PROVE  Named' /\ \A client \in Clients : Traced(client)'
<1>1. Existing' \subseteq Existing \cup new
  <2>1. ASSUME NEW client \in Clients
        PROVE  Theirs(client)' \cup UpdatesIn(toClient[client])' \subseteq Existing \cup new
    <3>1. /\ Theirs(client)' \subseteq Theirs(client) \cup UpdatesIn(toClient[client]) \cup room \cup new
          /\ UpdatesIn(toClient[client])' \subseteq UpdatesIn(toClient[client]) \cup room'
      BY DEF Passes, Source
    <3>2. Theirs(client) \cup UpdatesIn(toClient[client]) \cup room \subseteq Existing
      BY DEF Existing
    <3>3. QED
      BY <3>1, <3>2
  <2>2. Existing' = room' \cup UNION {Theirs(client)' \cup UpdatesIn(toClient[client])' : client \in Clients}
    BY DEF Existing
  <2>3. QED
    BY <2>1, <2>2
<1>2. ASSUME NEW update \in Existing
      PROVE  Signed(update) /\ StillHeld(update)'
  <2>1. Signed(update) /\ StillHeld(update)
    BY <1>2 DEF Named
  <2>2. ASSUME update.by \in Clients
        PROVE  /\ role'[update.by] = "editor" /\ update \in replica'[update.by]
               /\ ReplicaOf(update.id) = replicaId'[update.by]
    BY <2>1, <2>2 DEF StillHeld, Passes
  <2>3. QED
    BY <2>1, <2>2 DEF StillHeld
<1>3. Named'
  BY <1>1, <1>2 DEF Named, Signed
<1>4. ASSUME NEW client \in Clients
      PROVE  Traced(client)'
  <2>1. Passes(client, new) /\ Traced(client)
    BY <1>4
  <2>2. \A update \in UpdatesIn(toClient[client])' : update.id \in WasInRoom'
    BY <2>1 DEF Passes, Traced, WasInRoom, IdsOf
  <2>3. \A update \in room : update.id \in WasInRoom
    BY DEF WasInRoom, IdsOf
  <2>4. \A update \in Theirs(client)' : update.by = client \/ update.id \in WasInRoom'
    BY <2>1, <2>3 DEF Passes, Traced, Source
  <2>5. ToldToDrop(client)' => role'[client] # "editor"
    BY <2>1 DEF Passes, Traced
  <2>6. QED
    BY <2>2, <2>4, <2>5 DEF Traced
<1>5. QED
  BY <1>3, <1>4

\* A page that made nothing in the step has made what it had.
LEMMA ChainsKept ==
  ASSUME Named, NEW new, NEW client \in Clients, Passes(client, new), Chained(client), ApprovesShown(client),
         \A update \in new : update.by # client
  PROVE  Chained(client)' /\ ApprovesShown(client)'
<1>1. MadeBy(client)' \subseteq MadeBy(client)
  <2>1. SUFFICES ASSUME NEW update \in replica'[client], update.by = client
                PROVE  update \in replica[client]
    BY DEF MadeBy
  <2>2. update \in Source(client, new)
    BY <2>1 DEF Passes, Theirs
  <2>3. update \in Existing
    BY <2>1, <2>2 DEF Source, Existing
  <2>4. QED
    BY <2>1, <2>3 DEF Named, StillHeld
<1>2. MadeBy(client) # {} => replica[client] \subseteq replica'[client]
  <2>1. SUFFICES ASSUME NEW update \in MadeBy(client)
                PROVE  replica[client] \subseteq replica'[client]
    OBVIOUS
  <2>2. update \in Existing /\ update.by = client
    BY <2>1 DEF MadeBy, Existing, Theirs
  <2>3. role[client] = "editor"
    BY <2>2 DEF Named, StillHeld
  <2>4. QED
    BY <2>3 DEF Passes
<1>3. Chained(client)'
  <2>1. \A update, other \in MadeBy(client)' :
          /\ update = other \/ update.id \in other.needs \/ other.id \in update.needs
          /\ other.id \in update.needs => Precedes(other.approval, update.approval)
    BY <1>1 DEF Chained
  <2>2. ASSUME NEW update \in MadeBy(client)'
        PROVE  update.needs \subseteq IdsOf(replica'[client])
    <3>1. update.needs \subseteq IdsOf(replica[client]) /\ replica[client] \subseteq replica'[client]
      BY <2>2, <1>1, <1>2 DEF Chained
    <3>2. QED
      BY <3>1 DEF IdsOf
  <2>3. QED
    BY <2>1, <2>2 DEF Chained, IdsOf
<1>4. ApprovesShown(client)'
  <2>1. SUFFICES ASSUME NEW update \in MadeBy(client)', update.value # Unapproved
                PROVE  \E text \in replica'[client] :
                         /\ text.id = update.value.text /\ text.text # <<>> /\ ~ Precedes(text.text, FirstUpdate.text)
                         /\ text.by = client => text.id \in update.needs \cup {update.id}
                         /\ \A other \in MadeBy(client)' :
                              other.id \in update.needs \cup {update.id} => ~ Precedes(text.text, other.text)
    BY DEF ApprovesShown
  <2>2. update \in MadeBy(client) /\ replica[client] \subseteq replica'[client]
    BY <2>1, <1>1, <1>2
  <2>3. PICK text \in replica[client] :
          /\ text.id = update.value.text /\ text.text # <<>> /\ ~ Precedes(text.text, FirstUpdate.text)
          /\ text.by = client => text.id \in update.needs \cup {update.id}
          /\ \A other \in MadeBy(client) :
               other.id \in update.needs \cup {update.id} => ~ Precedes(text.text, other.text)
    BY <2>1, <2>2 DEF ApprovesShown
  <2>4. QED
    BY <2>2, <2>3, <1>1
<1>5. QED
  BY <1>3, <1>4

-----------------------------------------------------------------------------
\* The steps that leave the room's document alone.

LEMMA OnePasses ==
  ASSUME NEW client \in Clients, NEW new, Passes(client, new), \A other \in Clients \ {client} : SamePage(other)
  PROVE  \A page \in Clients : Passes(page, new)
<1>1. ASSUME NEW other \in Clients \ {client}
      PROVE  Passes(other, new)
  BY PassesUntouched DEF SamePage
<1>2. QED
  BY <1>1

LEMMA SendPasses ==
  ASSUME NEW all, NEW more, all \subseteq more, Typed(all), NEW client \in Clients,
         NEW frame \in RoomFrame(more), Send(client, frame)
  PROVE  /\ \A s \in Slots : UpdatesIn(toRoom'[client][s]) \subseteq UpdatesIn(toRoom[client][s]) \cup Carried(frame)
         /\ \A other \in Clients \ {client} : toRoom'[other] = toRoom[other]
<1>1. slot[client] \in Slots
  BY DEF Typed
<1>2. /\ \A other \in Clients \ {client} : toRoom'[other] = toRoom[other]
      /\ \A s \in Slots : s # slot[client] => toRoom'[client][s] = toRoom[client][s]
      /\ Held(client) # "open" => toRoom'[client][slot[client]] = toRoom[client][slot[client]]
      /\ Held(client) = "open" =>
           Appended(toRoom[client][slot[client]], toRoom'[client][slot[client]], frame)
  BY Sent
<1>3. UpdatesIn(toRoom'[client][slot[client]]) \subseteq UpdatesIn(toRoom[client][slot[client]]) \cup Carried(frame)
  BY <1>2 DEF Appended
<1>4. QED
  BY <1>2, <1>3

\* A page reads a frame, and may answer with what it has.
LEMMA ReadPasses ==
  ASSUME NEW all, Typed(all), NEW client \in Clients, toClient[client] # <<>>, Read(client),
         \A other \in Clients \ {client} :
           /\ phase'[other] = phase[other] /\ composed'[other] = composed[other] /\ known'[other] = known[other]
           /\ replica'[other] = replica[other],
         slot' = slot, role' = role, held' = held, carried' = carried, replicaId' = replicaId,
         replica'[client] \in {replica[client], replica[client] \cup Carried(Frame(client))},
         \/ toRoom' = toRoom
         \/ \E frame \in RoomFrame(all) : Send(client, frame) /\ Carried(frame) \subseteq replica[client]
  PROVE  \A page \in Clients : Passes(page, {})
<1>1. /\ \A other \in Clients \ {client} : toClient'[other] = toClient[other]
      /\ TakenOff(toClient[client], toClient'[client], Frame(client))
  BY FrameRead
<1>2. /\ \A s \in Slots : UpdatesIn(toRoom'[client][s]) \subseteq UpdatesIn(toRoom[client][s]) \cup replica[client]
      /\ \A other \in Clients \ {client} : toRoom'[other] = toRoom[other]
  <2>1. CASE toRoom' = toRoom
    BY <2>1
  <2>2. ASSUME NEW frame \in RoomFrame(all), Send(client, frame), Carried(frame) \subseteq replica[client]
        PROVE  <1>2!1 /\ <1>2!2
    BY <2>2, SendPasses
  <2>3. QED
    BY <2>1, <2>2
<1>3. Passes(client, {})
  <2>1. replica'[client] \subseteq Source(client, {})
    BY <1>1, SourceHas DEF TakenOff
  <2>2. \A s \in Slots : UpdatesIn(toRoom'[client][s]) \subseteq Source(client, {})
                         /\ carried'[client][s] \subseteq Source(client, {})
    BY <1>2, SourceHas
  <2>3. Theirs(client)' \subseteq Source(client, {})
    BY <2>1, <2>2, SourceOfParts
  <2>4. ToldToDrop(client)' => ToldToDrop(client)
    BY <1>1 DEF TakenOff, ToldToDrop
  <2>5. UpdatesIn(toClient'[client]) \subseteq UpdatesIn(toClient[client])
    BY <1>1 DEF TakenOff
  <2>6. QED
    BY <2>3, <2>4, <2>5 DEF Passes
<1>4. QED
  BY <1>1, <1>2, <1>3, OnePasses DEF SamePage

LEMMA PagesPass ==
  ASSUME NEW all, SyncInv(all), Everywhere, NEW client \in Clients, Pages(client)
  PROVE  \A page \in Clients : Passes(page, {})
<1>1. Typed(all) /\ Consistent(all)
  BY DEF SyncInv
<1>2. /\ phase \in [Clients -> {"offline", "joining", "synchronising", "online"}]
      /\ composed \in [Clients -> BOOLEAN] /\ known \in [Clients -> Roles]
      /\ replica \in [Clients -> SUBSET all] /\ replicaId \in [Clients -> Nat \X Nat]
      /\ toClient \in [Clients -> Seq(PageFrame(all))]
  BY <1>1 DEF Typed
<1>3. CASE WelcomeArrives(client)
  <2>1. toClient[client] # <<>> /\ Read(client) /\ Send(client, StepOne(IdsOf(Shown(client))))
    BY <1>3 DEF WelcomeArrives, Reads
  <2>2. IdsOf(Shown(client)) \in SUBSET Id
    <3>1. \A doc \in SUBSET all : IdsOf(View(doc)) \in SUBSET Id
      BY <1>1, ShownHoldsFirst, IdsAreTyped
    <3>2. QED
      BY <1>2, <3>1 DEF Shown
  <2>3. StepOne(IdsOf(Shown(client))) \in RoomFrame(all) /\ Carried(StepOne(IdsOf(Shown(client)))) = {}
    <3>1. \A ids \in SUBSET Id : StepOne(ids) \in RoomFrame(all) /\ Carried(StepOne(ids)) = {}
      BY MadeFrames DEF Carried, CarriesUpdates, StepOne
    <3>2. QED
      BY <2>2, <3>1
  <2>4. QED
    BY <1>1, <1>2, <1>3, <2>1, <2>3, ReadPasses DEF WelcomeArrives, serverVars
<1>4. CASE StepOneArrives(client)
  <2>1. toClient[client] # <<>> /\ Read(client) /\ Send(client, StepTwo(Missing(replica[client], Frame(client).has)))
    BY <1>4 DEF StepOneArrives, Reads
  <2>2. Missing(replica[client], Frame(client).has) \subseteq replica[client]
    BY DEF Missing
  <2>3. Missing(replica[client], Frame(client).has) \in SUBSET all
    BY <1>2, <2>2
  <2>4. \A updates \in SUBSET all : StepTwo(updates) \in RoomFrame(all) /\ Carried(StepTwo(updates)) = updates
    BY MadeFrames DEF Carried, CarriesUpdates, StepTwo
  <2>5. QED
    BY <1>1, <1>2, <1>4, <2>1, <2>2, <2>3, <2>4, ReadPasses DEF StepOneArrives, serverVars
<1>5. CASE StepTwoArrives(client)
  <2>1. toClient[client] # <<>> /\ Read(client) /\ Carried(Frame(client)) = Frame(client).updates
    BY <1>5 DEF StepTwoArrives, Reads, Frame, Carried, CarriesUpdates
  <2>2. QED
    BY <1>1, <1>2, <1>5, <2>1, ReadPasses DEF StepTwoArrives, serverVars
<1>6. CASE UpdateArrives(client)
  <2>1. toClient[client] # <<>> /\ Read(client) /\ Carried(Frame(client)) = Frame(client).updates
    BY <1>6 DEF UpdateArrives, Reads, Frame, Carried, CarriesUpdates
  <2>2. QED
    BY <1>1, <1>2, <1>6, <2>1, ReadPasses DEF UpdateArrives, serverVars
<1>7. CASE RoleArrives(client)
  <2>1. toClient[client] # <<>> /\ Read(client)
    BY <1>7 DEF RoleArrives, Reads
  <2>2. QED
    BY <1>1, <1>2, <1>7, <2>1, ReadPasses DEF RoleArrives, serverVars
<1>8. CASE ResynchroniseArrives(client)
  <2>1. role[client] # "editor"
    <3>1. Head(toClient[client]).kind = "resynchroniseRequired" /\ toClient[client] # <<>>
      BY <1>8 DEF ResynchroniseArrives, Reads
    <3>2. toClient[client] \in Seq(PageFrame(all))
      BY <1>2
    <3>3. Head(toClient[client]) \in PageFrame(all) /\ Head(toClient[client]) \in Range(toClient[client])
      <4> DEFINE frames == toClient[client]
      <4> HIDE DEF frames
      <4>1. frames \in Seq(PageFrame(all)) /\ frames # <<>>
        BY <3>1, <3>2 DEF frames
      <4>2. Head(frames) \in PageFrame(all) /\ Head(frames) \in Range(frames)
        BY <4>1, UpdatesRead
      <4>3. QED
        BY <4>2 DEF frames
    <3>4. ToldToDrop(client)
      BY <3>1, <3>3, PageFrames DEF ToldToDrop
    <3>5. QED
      BY <3>4 DEF Everywhere, Traced
  <2>2. /\ role' = role /\ toRoom' = toRoom /\ carried' = carried /\ slot' = slot /\ held' = held /\ known' = known
        /\ replica'[client] = {} /\ toClient'[client] = <<>>
        /\ \A other \in Clients \ {client} :
             /\ replica'[other] = replica[other] /\ replicaId'[other] = replicaId[other]
             /\ toClient'[other] = toClient[other] /\ phase'[other] = phase[other]
             /\ composed'[other] = composed[other]
    BY <1>2, <1>8 DEF ResynchroniseArrives, LeaveSocket, serverVars
  <2>3. Theirs(client)' \subseteq Source(client, {})
    BY <2>2, SourceHas, SourceOfParts
  <2>4. UpdatesIn(toClient'[client]) = {} /\ ~ ToldToDrop(client)'
    BY <2>2, NoUpdates DEF ToldToDrop
  <2>5. Passes(client, {})
    BY <2>1, <2>2, <2>3, <2>4 DEF Passes
  <2>6. QED
    BY <2>2, <2>5, OnePasses DEF SamePage
<1>9. QED
  BY <1>3, <1>4, <1>5, <1>6, <1>7, <1>8 DEF Pages

\* A frame appended to what a page is sent.
LEMMA AnswerPasses ==
  ASSUME NEW all, Typed(all), NEW client \in Clients, NEW s, NEW frame \in PageFrame(all), Answer(client, s, frame),
         Carried(frame) \subseteq room', frame = Resynchronise => role[client] # "editor",
         phase' = phase, slot' = slot, composed' = composed, known' = known, role' = role,
         replica' = replica, replicaId' = replicaId, held' = held, carried' = carried,
         \A other \in Clients \ {client} : toRoom'[other] = toRoom[other],
         \A t \in Slots : UpdatesIn(toRoom'[client][t]) \subseteq UpdatesIn(toRoom[client][t])
  PROVE  \A page \in Clients : Passes(page, {})
<1>1. /\ \A other \in Clients \ {client} : toClient'[other] = toClient[other]
      /\ toClient'[client] = toClient[client] \/ Appended(toClient[client], toClient'[client], frame)
  BY AnswerSent
<1>2. Theirs(client)' \subseteq Source(client, {})
  BY SourceHas, SourceOfParts
<1>3. /\ UpdatesIn(toClient'[client]) \subseteq UpdatesIn(toClient[client]) \cup room'
      /\ ToldToDrop(client)' => ToldToDrop(client) \/ role[client] # "editor"
  BY <1>1 DEF Appended, ToldToDrop
<1>4. Passes(client, {})
  BY <1>2, <1>3 DEF Passes
<1>5. QED
  BY <1>1, <1>4, OnePasses DEF SamePage

LEMMA RoomsPass ==
  ASSUME NEW all, SyncInv(all), NEW client \in Clients, NEW s \in Slots,
         AnswerStepOne(client, s) \/ RefuseUpdate(client, s)
  PROVE  \A page \in Clients : Passes(page, {})
<1>1. Typed(all) /\ Stored(all)
  BY DEF SyncInv
<1>2. /\ room' = room /\ phase' = phase /\ slot' = slot /\ composed' = composed /\ known' = known /\ role' = role
      /\ replica' = replica /\ replicaId' = replicaId /\ held' = held /\ carried' = carried
      /\ toRoom[client][s] # <<>> /\ Take(client, s)
  BY DEF AnswerStepOne, RefuseUpdate, Receives, serverVars, pageVars
<1>3. /\ \A other \in Clients \ {client} : toRoom'[other] = toRoom[other]
      /\ \A t \in Slots : t # s => toRoom'[client][t] = toRoom[client][t]
      /\ TakenOff(toRoom[client][s], toRoom'[client][s], Received(client, s))
  BY <1>1, <1>2, FrameTaken
<1>4. \A t \in Slots : UpdatesIn(toRoom'[client][t]) \subseteq UpdatesIn(toRoom[client][t])
  BY <1>3 DEF TakenOff
<1>5. CASE AnswerStepOne(client, s)
  <2>1. PICK lacked : lacked = Missing(room, Received(client, s).has)
    OBVIOUS
  <2>2. lacked \subseteq room /\ lacked \in SUBSET all /\ Answer(client, s, StepTwo(lacked))
    BY <1>1, <1>5, <2>1 DEF Missing, Stored, AnswerStepOne
  <2>3. /\ StepTwo(lacked) \in PageFrame(all) /\ Carried(StepTwo(lacked)) = lacked /\ StepTwo(lacked) # Resynchronise
    BY <2>2, MadeFrames DEF Carried, CarriesUpdates, StepTwo, Resynchronise
  <2>4. Carried(StepTwo(lacked)) \subseteq room'
    BY <1>2, <2>2, <2>3
  <2>5. QED
    BY <1>1, <1>2, <1>3, <1>4, <2>2, <2>3, <2>4, AnswerPasses
<1>6. CASE RefuseUpdate(client, s)
  <2>1. role[client] # "editor" /\ (toClient' = toClient \/ Answer(client, s, Resynchronise))
    BY <1>6 DEF RefuseUpdate, MayEdit
  <2>2. Resynchronise \in PageFrame(all) /\ Carried(Resynchronise) = {}
    BY MadeFrames DEF Carried, CarriesUpdates, Resynchronise
  <2>3. CASE Answer(client, s, Resynchronise)
    BY <1>1, <1>2, <1>3, <1>4, <2>1, <2>2, <2>3, AnswerPasses
  <2>4. CASE toClient' = toClient
    <3>1. Theirs(client)' \subseteq Source(client, {})
      BY <1>2, <1>4, SourceHas, SourceOfParts
    <3>2. Passes(client, {})
      BY <1>2, <2>4, <3>1 DEF Passes, ToldToDrop
    <3>3. QED
      BY <1>2, <1>3, <2>4, <3>2, OnePasses DEF SamePage
  <2>5. QED
    BY <2>1, <2>3, <2>4
<1>7. QED
  BY <1>5, <1>6

LEMMA SocketsPass ==
  ASSUME NEW all, SyncInv(all), NEW client \in Clients,
         \/ Open(client) \/ Lose(client) \/ Connect(client)
         \/ \E s \in Slots : Forget(client, s)
  PROVE  \A page \in Clients : Passes(page, {})
<1>1. Typed(all)
  BY DEF SyncInv
<1>2. /\ phase \in [Clients -> {"offline", "joining", "synchronising", "online"}]
      /\ toRoom \in [Clients -> [Slots -> Seq(RoomFrame(all))]] /\ toClient \in [Clients -> Seq(PageFrame(all))]
      /\ held \in [Clients -> [Slots -> {"none", "open", "gone"}]] /\ slot \in [Clients -> Slots]
      /\ carried \in [Clients -> [Slots -> SUBSET all]]
  BY <1>1 DEF Typed
<1>3. /\ role' = role /\ replica' = replica /\ replicaId' = replicaId
  BY DEF Open, Lose, Connect, Forget, serverVars, pageVars
<1>4. /\ toRoom' = toRoom \/ \E s \in Slots : toRoom' = [toRoom EXCEPT ![client][s] = <<>>]
      /\ carried' = carried \/ \E s \in Slots : carried' = [carried EXCEPT ![client][s] = {}]
      /\ \/ toClient' = toClient \/ toClient' = [toClient EXCEPT ![client] = <<>>]
         \/ toClient' = [toClient EXCEPT ![client] = <<Welcome(role[client]), StepOne(IdsOf(room))>>]
  BY DEF Open, Lose, Connect, Forget, LeaveSocket, serverVars, pageVars, networkVars
<1>5. ASSUME NEW page \in Clients
      PROVE  Passes(page, {})
  <2>1. \A s \in Slots : /\ toRoom'[page][s] \in {toRoom[page][s], <<>>}
                         /\ carried'[page][s] \in {carried[page][s], {}}
    <3>1. ASSUME NEW t \in Slots, toRoom' = [toRoom EXCEPT ![client][t] = <<>>]
          PROVE  \A s \in Slots : toRoom'[page][s] \in {toRoom[page][s], <<>>}
      BY <1>2, <3>1
    <3>2. ASSUME NEW t \in Slots, carried' = [carried EXCEPT ![client][t] = {}]
          PROVE  \A s \in Slots : carried'[page][s] \in {carried[page][s], {}}
      BY <1>2, <3>2
    <3>3. QED
      BY <1>4, <3>1, <3>2
  <2>2. \A s \in Slots : UpdatesIn(toRoom'[page][s]) \subseteq UpdatesIn(toRoom[page][s])
                         /\ carried'[page][s] \subseteq carried[page][s]
    BY <2>1, NoUpdates
  <2>3. Theirs(page)' \subseteq Source(page, {})
    BY <1>3, <2>2, SourceHas, SourceOfParts
  <2>4. toClient'[page] \in {toClient[page], <<>>, <<Welcome(role[client]), StepOne(IdsOf(room))>>}
    BY <1>2, <1>4
  <2>5. /\ Range(<<Welcome(role[client]), StepOne(IdsOf(room))>>) = {Welcome(role[client]), StepOne(IdsOf(room))}
        /\ UpdatesIn(<<Welcome(role[client]), StepOne(IdsOf(room))>>) = {}
    <3>1. \A one, other : /\ Range(<<one, other>>) = {one, other}
                          /\ UpdatesIn(<<one, other>>) = Carried(one) \cup Carried(other)
      <4>1. SUFFICES ASSUME NEW one, NEW other
                    PROVE  /\ Range(<<one, other>>) = {one, other}
                           /\ UpdatesIn(<<one, other>>) = Carried(one) \cup Carried(other)
        OBVIOUS
      <4>2. one \in {one, other} /\ other \in {one, other}
        OBVIOUS
      <4>3. QED
        BY <4>2, TwoFrames
    <3>2. Carried(Welcome(role[client])) = {} /\ Carried(StepOne(IdsOf(room))) = {}
      BY DEF Carried, CarriesUpdates, Welcome, StepOne
    <3>3. QED
      BY <3>1, <3>2
  <2>6. UpdatesIn(toClient'[page]) \subseteq UpdatesIn(toClient[page]) /\ (ToldToDrop(page)' => ToldToDrop(page))
    <3>1. Resynchronise \notin {Welcome(role[client]), StepOne(IdsOf(room))}
      BY DEF Resynchronise, Welcome, StepOne
    <3>2. QED
      BY <2>4, <2>5, <3>1, NoUpdates DEF ToldToDrop
  <2>7. QED
    BY <1>3, <2>3, <2>6 DEF Passes
<1>6. QED
  BY <1>5

\* What follows for a step that leaves the room and its files alone, and makes nothing.
LEMMA SoleUntouched ==
  ASSUME Named, Everywhere, Revoked, \A page \in Clients : Passes(page, {}),
         room' = room, durable' = durable, lost' = lost
  PROVE  Named' /\ Everywhere' /\ Revoked'
<1>1. room' \subseteq Existing \cup {} /\ WasInRoom \subseteq WasInRoom'
  BY DEF Existing, WasInRoom
<1>2. Named' /\ \A client \in Clients : Traced(client)'
  BY <1>1, NamedKept DEF Everywhere
<1>3. \A client \in Clients : Chained(client)' /\ ApprovesShown(client)'
  BY ChainsKept DEF Everywhere
<1>4. QED
  BY <1>2, <1>3 DEF Everywhere, Revoked, RevokedByLoss

-----------------------------------------------------------------------------
\* A person edits.

LEMMA NothingBeforeEmpty ==
  ASSUME NEW p \in Seq(Id)
  PROVE  ~ Precedes(p, <<>>)
<1>1. <<>> \in Seq(Id) /\ Len(<<>>) = 0 /\ Len(p) \in Nat
  OBVIOUS
<1>2. \A i \in Nat : ~ Part(p, <<>>, i)
  BY <1>1 DEF Part
<1>3. QED
  BY <1>1, <1>2, PrecedesIs

\* A write comes after everything its replica showed.
LEMMA WrittenAfter ==
  ASSUME NEW all, Consistent(all), NEW doc \in SUBSET all, FirstUpdate \in doc, NEW id \in Id
  PROVE  /\ LET path == Append(LastApproval(doc).approval, id)
            IN  /\ path \in Seq(Id) /\ EndsIn(path, id)
                /\ \A u \in doc : Precedes(u.approval, path) /\ ~ Precedes(path, u.approval)
         /\ LET path == Append(LastText(doc).text, id)
            IN  /\ path \in Seq(Id) /\ EndsIn(path, id) /\ ~ Precedes(path, path)
                /\ \A u \in doc : ~ Precedes(path, u.text)
<1>1. /\ LastText(doc) \in doc /\ \A u \in doc : ~ Precedes(LastText(doc).text, u.text)
      /\ LastApproval(doc) \in doc /\ \A u \in doc : ~ Precedes(LastApproval(doc).approval, u.approval)
  BY LastWrites
<1>2. \A u \in doc : u.text \in Seq(Id) /\ u.approval \in Seq(Id)
  BY DEF Consistent, Proper
<1>3. ASSUME NEW last \in Seq(Id)
      PROVE  /\ Append(last, id) \in Seq(Id) /\ EndsIn(Append(last, id), id) /\ ~ Precedes(Append(last, id), Append(last, id))
             /\ \A p \in Seq(Id) : ~ Precedes(last, p) =>
                  Precedes(p, Append(last, id)) /\ ~ Precedes(Append(last, id), p)
  <2> DEFINE path == Append(last, id)
  <2>1. path \in Seq(Id) /\ Precedes(last, path)
    BY AppendIsAfter
  <2>2. EndsIn(path, id)
    <3>1. Len(path) = Len(last) + 1 /\ path[Len(last) + 1] = id /\ Len(last) \in Nat
      OBVIOUS
    <3>2. path # <<>>
      BY <3>1
    <3>3. QED
      BY <3>1, <3>2 DEF EndsIn
  <2> HIDE DEF path
  <2>3. ASSUME NEW p \in Seq(Id), ~ Precedes(last, p)
        PROVE  Precedes(p, path) /\ ~ Precedes(path, p)
    <3>1. p = last \/ Precedes(p, last)
      BY <2>3, PathsInOrder
    <3>2. Precedes(p, path)
      BY <3>1, <2>1, PathsInOrder
    <3>3. ~ Precedes(path, p)
      <4>1. Precedes(path, p) => Precedes(p, p)
        BY <3>2, <2>1, PathsInOrder
      <4>2. ~ Precedes(p, p)
        BY PathsInOrder
      <4>3. QED
        BY <4>1, <4>2
    <3>4. QED
      BY <3>2, <3>3
  <2>4. ~ Precedes(path, path)
    BY <2>1, PathsInOrder
  <2>5. QED
    BY <2>1, <2>2, <2>3, <2>4 DEF path
<1>4. QED
  BY <1>1, <1>2, <1>3

\* What the commands of an editor make.
LEMMA EditIs ==
  ASSUME NEW all, Consistent(all), NEW doc \in SUBSET all, FirstUpdate \in doc, View(doc) = doc,
         NEW replicaOf \in Nat \X Nat, NEW person, NEW w \in Edits(doc, replicaOf, person)
  PROVE  /\ w.by = person /\ w.id \in Id /\ ReplicaOf(w.id) = replicaOf
         /\ w.approval = Append(LastApproval(doc).approval, w.id)
         /\ w.needs \subseteq IdsOf(doc) /\ \A u \in Own(doc, replicaOf) : u.id \in w.needs
         /\ \/ w.text = Append(LastText(doc).text, w.id) /\ w.value \in {Unapproved, ApprovedBy(person, w.id)}
            \/ w.text = <<>> /\ w.value = ApprovedBy(person, TextOf(doc))
<1> DEFINE id == IdOf(replicaOf, Cardinality(Own(doc, replicaOf)) + 1)
<1>1. PICK parents : /\ parents \in {{LastText(doc), LastApproval(doc)}, {LastApproval(doc)}}
                     /\ w.needs = Needed(doc, parents, replicaOf)
                     /\ w.id = id /\ w.by = person
                     /\ w.approval = Append(LastApproval(doc).approval, id)
                     /\ \/ w.text = Append(LastText(doc).text, id) /\ w.value \in {Unapproved, ApprovedBy(person, id)}
                        \/ w.text = <<>> /\ w.value = ApprovedBy(person, TextOf(doc))
  BY DEF Edits, Save, SaveApproved, Approve, SetApproval, Made
<1>2. parents \in SUBSET doc
  BY <1>1, LastWrites
<1>3. id \in Id /\ ReplicaOf(id) = replicaOf
  <2>1. Cardinality(Own(doc, replicaOf)) \in Nat /\ replicaOf[1] \in Nat /\ replicaOf[2] \in Nat
        /\ replicaOf = <<replicaOf[1], replicaOf[2]>>
    BY OwnGrows
  <2>2. QED
    BY <2>1 DEF IdOf, Id, ReplicaOf
<1>4. Needed(doc, parents, replicaOf) \subseteq IdsOf(doc)
  BY <1>2, NeededIsKnown
<1>5. \A u \in Own(doc, replicaOf) : u.id \in Needed(doc, parents, replicaOf)
  BY DEF Needed
<1> HIDE DEF id
<1>6. QED
  BY <1>1, <1>3, <1>4, <1>5

\* An editor's own update comes after all that it made, and what it approves is shown.
LEMMA EditKeepsSole ==
  ASSUME NEW all, SyncInv(all), roleChanges = 0, Named, Everywhere, Revoked, NEW client \in Clients, Edit(client)
  PROVE  Named' /\ Everywhere' /\ Revoked'
<1>1. Consistent(all) /\ Typed(all) /\ PageInv(all, client) /\ Stored(all)
  BY DEF SyncInv
<1>2. PICK doc, own : doc = Shown(client) /\ own = replicaId[client]
  OBVIOUS
<1>3. PICK w \in Edits(doc, own, client) :
        /\ replica' = [replica EXCEPT ![client] = @ \cup {w}]
        /\ IF Welcomed(client) THEN Send(client, UpdateFrame({w})) ELSE UNCHANGED toRoom
  BY <1>2 DEF Edit
<1>4. /\ composed[client] /\ known[client] = "editor"
      /\ room' = room /\ durable' = durable /\ role' = role /\ held' = held /\ carried' = carried
      /\ phase' = phase /\ slot' = slot /\ composed' = composed /\ known' = known /\ replicaId' = replicaId
      /\ toClient' = toClient /\ lost' = lost
  BY DEF Edit, serverVars
<1>5. /\ replica[client] \in SUBSET all /\ own \in Nat \X Nat /\ own[2] # 0
      /\ doc \in SUBSET all /\ FirstUpdate \in doc /\ View(doc) = doc /\ doc \subseteq replica[client]
      /\ Below(all, own, Cardinality(Own(doc, own)))
  <2>1. /\ replica[client] \in SUBSET all /\ own \in Nat \X Nat /\ own[2] = PageNumber[client] /\ own[2] # 0
        /\ Below(all, own, Cardinality(Own(doc, own))) /\ FirstUpdate \in replica[client]
    BY <1>1, <1>2, <1>4, SyncAssumption DEF Typed, PageInv, Composes
  <2>2. doc \in SUBSET all /\ FirstUpdate \in doc /\ View(doc) = doc /\ doc \subseteq replica[client]
    BY <1>1, <1>2, <2>1, ShownHoldsFirst, ViewIsClosed, ViewGrows DEF Shown
  <2>3. QED
    BY <2>1, <2>2
<1>6. w.id \notin IdsOf(all)
  BY <1>1, <1>3, <1>5, EditIsNew DEF NewUpdate
<1>7. /\ w.by = client /\ w.id \in Id /\ ReplicaOf(w.id) = own
      /\ w.approval = Append(LastApproval(doc).approval, w.id)
      /\ w.needs \subseteq IdsOf(doc) /\ \A u \in Own(doc, own) : u.id \in w.needs
      /\ \/ w.text = Append(LastText(doc).text, w.id) /\ w.value \in {Unapproved, ApprovedBy(client, w.id)}
         \/ w.text = <<>> /\ w.value = ApprovedBy(client, TextOf(doc))
  BY <1>1, <1>3, <1>5, EditIs
<1>8. role[client] = "editor"
  BY <1>1, <1>4 DEF PageInv, Owns
<1>9. replica'[client] = replica[client] \cup {w} /\ \A other \in Clients \ {client} : replica'[other] = replica[other]
  BY <1>1, <1>3 DEF Typed
<1>10. /\ \A s \in Slots : UpdatesIn(toRoom'[client][s]) \subseteq UpdatesIn(toRoom[client][s]) \cup {w}
       /\ \A other \in Clients \ {client} : toRoom'[other] = toRoom[other]
  <2>1. CASE Welcomed(client)
    <3>1. UpdateFrame({w}) \in RoomFrame(all \cup {w}) /\ all \subseteq all \cup {w}
      BY MadeFrames
    <3>2. Carried(UpdateFrame({w})) = {w}
      BY DEF Carried, CarriesUpdates, UpdateFrame
    <3>3. Send(client, UpdateFrame({w}))
      BY <2>1, <1>3
    <3>4. QED
      BY <3>1, <3>2, <3>3, <1>1, SendPasses
  <2>2. CASE ~ Welcomed(client)
    BY <2>2, <1>3
  <2>3. QED
    BY <2>1, <2>2
<1>11. \A page \in Clients : Passes(page, {w})
  <2>1. w \in Source(client, {w})
    BY <1>7 DEF Source
  <2>2. Theirs(client)' \subseteq Source(client, {w})
    BY <2>1, <1>4, <1>9, <1>10, SourceHas, SourceOfParts
  <2>3. Passes(client, {w})
    BY <2>2, <1>4, <1>9 DEF Passes, ToldToDrop
  <2>4. QED
    BY <2>3, <1>4, <1>9, <1>10, OnePasses DEF SamePage
<1>12. /\ EndsIn(w.approval, w.id) /\ \A u \in doc : Precedes(u.approval, w.approval)
       /\ w.text # <<>> => /\ EndsIn(w.text, w.id) /\ ~ Precedes(w.text, w.text)
                           /\ \A u \in doc : ~ Precedes(w.text, u.text)
  BY <1>1, <1>5, <1>7, WrittenAfter
<1>13. Signed(w) /\ StillHeld(w)'
  <2>1. client \in People /\ client \notin {"nobody", "earlier", "room", "agent"}
    BY SyncAssumption, PeopleAssumption
  <2>2. w.value = Unapproved \/ w.value.by = client
    BY <1>7 DEF ApprovedBy
  <2>3. Signed(w)
    BY <2>1, <2>2, <1>7, <1>12 DEF Signed
  <2>4. StillHeld(w)'
    BY <1>2, <1>4, <1>7, <1>8, <1>9 DEF StillHeld
  <2>5. QED
    BY <2>3, <2>4
<1>14. Named' /\ \A page \in Clients : Traced(page)'
  <2>1. room' \subseteq Existing \cup {w} /\ WasInRoom \subseteq WasInRoom'
    BY <1>4 DEF Existing, WasInRoom
  <2>2. QED
    BY <2>1, <1>11, <1>13, NamedKept DEF Everywhere
<1>15. \A other \in Clients \ {client} : Chained(other)' /\ ApprovesShown(other)'
  BY <1>7, <1>11, ChainsKept DEF Everywhere
<1>16. /\ \A u \in MadeBy(client)' : u \in MadeBy(client) \/ u = w
       /\ Chained(client) /\ ApprovesShown(client)
  BY <1>9 DEF MadeBy, Everywhere
<1>17. ASSUME NEW u \in MadeBy(client)
       PROVE  /\ u \in doc /\ u.id \in w.needs /\ w.id \notin u.needs /\ u.id # w.id
              /\ Precedes(u.approval, w.approval)
  <2>1. u \in replica[client] /\ u.by = client /\ u.needs \subseteq IdsOf(replica[client])
    BY <1>16 DEF MadeBy, Chained
  <2>2. u \in doc
    BY <2>1, <1>2 DEF Shown, View
  <2>3. StillHeld(u)
    BY <2>1 DEF Named, Existing, Theirs
  <2>4. ReplicaOf(u.id) = own
    BY <2>1, <2>3, <1>2 DEF StillHeld
  <2>5. u.id \in w.needs
    BY <2>2, <2>4, <1>7 DEF Own
  <2>6. w.id \notin u.needs /\ u.id # w.id
    BY <2>1, <1>5, <1>6 DEF IdsOf
  <2>7. QED
    BY <2>2, <2>5, <2>6, <1>12
<1>18. w.needs \subseteq IdsOf(replica'[client]) /\ w.id \notin w.needs
  BY <1>5, <1>6, <1>7, <1>9 DEF IdsOf
<1>19. Chained(client)'
  <2>1. \A u, v \in MadeBy(client)' :
          /\ u = v \/ u.id \in v.needs \/ v.id \in u.needs
          /\ v.id \in u.needs => Precedes(v.approval, u.approval)
    BY <1>16, <1>17, <1>18 DEF Chained
  <2>2. \A u \in MadeBy(client)' : u.needs \subseteq IdsOf(replica'[client])
    BY <1>9, <1>16, <1>18 DEF Chained, IdsOf
  <2>3. QED
    BY <2>1, <2>2 DEF Chained, IdsOf
<1>20. ApprovesShown(client)'
  <2>1. SUFFICES ASSUME NEW u \in MadeBy(client)', u.value # Unapproved
                PROVE  \E text \in replica'[client] :
                         /\ text.id = u.value.text /\ text.text # <<>> /\ ~ Precedes(text.text, FirstUpdate.text)
                         /\ text.by = client => text.id \in u.needs \cup {u.id}
                         /\ \A other \in MadeBy(client)' :
                              other.id \in u.needs \cup {u.id} => ~ Precedes(text.text, other.text)
    BY DEF ApprovesShown
  <2>2. CASE u \in MadeBy(client)
    <3>1. PICK text \in replica[client] :
            /\ text.id = u.value.text /\ text.text # <<>> /\ ~ Precedes(text.text, FirstUpdate.text)
            /\ text.by = client => text.id \in u.needs \cup {u.id}
            /\ \A other \in MadeBy(client) :
                 other.id \in u.needs \cup {u.id} => ~ Precedes(text.text, other.text)
      BY <2>1, <2>2, <1>16 DEF ApprovesShown
    <3>2. w.id \notin u.needs \cup {u.id}
      BY <2>2, <1>17
    <3>3. QED
      BY <3>1, <3>2, <1>9, <1>16
  <2>3. CASE u = w /\ w.text # <<>>
    <3>1. w.value.text = w.id
      BY <2>1, <2>3, <1>7 DEF ApprovedBy
    <3>2. \A other \in MadeBy(client)' : ~ Precedes(w.text, other.text)
      BY <2>3, <1>12, <1>16, <1>17
    <3>3. QED
      BY <3>1, <3>2, <2>3, <1>5, <1>9, <1>12
  <2>4. CASE u = w /\ w.text = <<>>
    <3>1. PICK text : text = LastText(doc)
      OBVIOUS
    <3>2. text \in doc /\ text.text # <<>> /\ \A other \in doc : ~ Precedes(text.text, other.text)
      BY <3>1, <1>1, <1>5, LastWrites
    <3>3. w.value.text = text.id
      <4>1. \A path \in Seq(Id) : Append(path, w.id) # <<>>
        BY <1>7, AppendIsAfter, NothingBeforeEmpty
      <4>2. LastText(doc).text \in Seq(Id)
        BY <3>1, <3>2, <1>1, <1>5 DEF Consistent, Proper
      <4>3. QED
        BY <4>1, <4>2, <3>1, <2>4, <1>7 DEF TextOf, ApprovedBy
    <3>4. text.by = client => text.id \in w.needs
      BY <3>2, <1>5, <1>17 DEF MadeBy
    <3>5. \A other \in MadeBy(client)' : ~ Precedes(text.text, other.text)
      <4>1. text.text \in Seq(Id)
        BY <3>2, <1>1, <1>5 DEF Consistent, Proper
      <4>2. ~ Precedes(text.text, w.text)
        BY <4>1, <2>4, NothingBeforeEmpty
      <4>3. QED
        BY <4>2, <3>2, <1>16, <1>17
    <3>6. QED
      BY <3>2, <3>3, <3>4, <3>5, <2>4, <1>5, <1>9
  <2>5. QED
    BY <2>1, <2>2, <2>3, <2>4, <1>16
<1>21. Revoked'
  BY <1>4 DEF Revoked, RevokedByLoss
<1>22. QED
  BY <1>14, <1>15, <1>19, <1>20, <1>21 DEF Everywhere

-----------------------------------------------------------------------------
\* The room's document grows.

\* Nobody but the last write of a field has nothing after it.
LEMMA LastIs ==
  ASSUME NEW all, Consistent(all), NEW doc \in SUBSET all, FirstUpdate \in doc, \A u \in doc : Signed(u), NEW u \in doc
  PROVE  /\ u.text # <<>> /\ (\A v \in doc : ~ Precedes(u.text, v.text)) => LastText(doc) = u
         /\ (\A v \in doc : ~ Precedes(u.approval, v.approval)) => LastApproval(doc) = u
<1>1. PICK text, approval : text = LastText(doc) /\ approval = LastApproval(doc)
  OBVIOUS
<1>2. /\ text \in doc /\ text.text # <<>> /\ \A v \in doc : ~ Precedes(text.text, v.text)
      /\ approval \in doc /\ \A v \in doc : ~ Precedes(approval.approval, v.approval)
  BY <1>1, LastWrites
<1>3. \A v \in doc : v.text \in Seq(Id) /\ v.approval \in Seq(Id)
  BY DEF Consistent, Proper
<1>4. ASSUME u.text # <<>>, \A v \in doc : ~ Precedes(u.text, v.text)
      PROVE  text = u
  <2>1. text.text = u.text
    BY <1>2, <1>3, <1>4, PathsInOrder
  <2>2. EndsIn(text.text, text.id) /\ EndsIn(u.text, u.id)
    BY <1>2, <1>4 DEF Signed
  <2>3. text.id = u.id
    BY <2>1, <2>2 DEF EndsIn
  <2>4. QED
    BY <2>3, <1>2 DEF Consistent
<1>5. ASSUME \A v \in doc : ~ Precedes(u.approval, v.approval)
      PROVE  approval = u
  <2>1. approval.approval = u.approval
    BY <1>2, <1>3, <1>5, PathsInOrder
  <2>2. EndsIn(approval.approval, approval.id) /\ EndsIn(u.approval, u.id)
    BY <1>2 DEF Signed
  <2>3. approval.id = u.id
    BY <2>1, <2>2 DEF EndsIn
  <2>4. QED
    BY <2>3, <1>2 DEF Consistent
<1>6. QED
  BY <1>1, <1>4, <1>5

\* When nothing of a crash is behind it, the guard spares the approval of a document that is one
\* person's: what that person approved is the text shown, whoever sends the last of it.
LEMMA GuardSparesSole ==
  ASSUME NEW all, SyncInv(all), Named, Everywhere,
         NEW sender \in Clients, NEW incoming \in SUBSET Theirs(sender), incoming \subseteq all,
         NEW after, after = View(room \cup incoming),
         NEW client \in Clients, {update.by : update \in after} \subseteq {"earlier", "room", client},
         Revokes(room, after, sender, TRUE)
  PROVE  {LastApproval(after).id, LastApproval(after).value.text} \cap lost # {}
<1>1. Consistent(all) /\ Stored(all) /\ Typed(all)
  BY DEF SyncInv
<1>2. /\ room \in SUBSET all /\ View(room) = room /\ FirstUpdate \in room
      /\ after \in SUBSET all /\ View(after) = after /\ room \subseteq after /\ after \subseteq room \cup incoming
  <2>1. room \in SUBSET all /\ View(room) = room /\ FirstUpdate \in room
    BY <1>1 DEF Stored
  <2>2. View(room) \subseteq View(room \cup incoming) /\ View(room \cup incoming) \subseteq room \cup incoming
    BY ViewGrows
  <2>3. View(View(room \cup incoming)) = View(room \cup incoming)
    BY <2>1, <1>1, ViewIsClosed
  <2>4. QED
    BY <2>1, <2>2, <2>3
<1>3. FirstUpdate \in after
  BY <1>2
<1>4. \A u \in after : Signed(u) /\ StillHeld(u) /\ u.by \in {"earlier", "room", client}
  <2>1. after \subseteq Existing
    <3>1. Theirs(sender) \subseteq Existing /\ room \subseteq Existing
      BY DEF Existing
    <3>2. QED
      BY <3>1, <1>2
  <2>2. \A u \in after : Signed(u) /\ StillHeld(u)
    BY <2>1 DEF Named
  <2>3. \A u \in after : u.by \in {update.by : update \in after}
    OBVIOUS
  <2>4. QED
    BY <2>2, <2>3
<1>5. client \notin {"nobody", "earlier", "room", "agent"} /\ sender \notin {"nobody", "earlier", "room", "agent"}
  BY SyncAssumption, PeopleAssumption
<1>6. PICK last : last = LastApproval(after)
  OBVIOUS
<1>7. /\ last \in after /\ (\A u \in after : ~ Precedes(last.approval, u.approval))
      /\ last.value # Unapproved /\ ApprovalOf(after) = last.value
  BY <1>1, <1>2, <1>3, <1>6, LastWrites DEF Revokes, ApprovalOf
<1>8. last.by = client /\ last.value.by = client /\ last \in MadeBy(client)
  <2>1. last.by # "room" /\ last.by # "earlier"
    <3>1. Signed(last) /\ last.value # Unapproved
      BY <1>4, <1>7
    <3>2. FirstUpdate.value = Unapproved
      BY DEF FirstUpdate
    <3>3. QED
      BY <3>1, <3>2 DEF Signed
  <2>2. QED
    BY <2>1, <1>4, <1>7 DEF Signed, StillHeld, MadeBy
<1>9. PICK text \in replica[client] :
        /\ text.id = last.value.text /\ text.text # <<>> /\ ~ Precedes(text.text, FirstUpdate.text)
        /\ text.by = client => text.id \in last.needs \cup {last.id}
        /\ \A other \in MadeBy(client) :
             other.id \in last.needs \cup {last.id} => ~ Precedes(text.text, other.text)
  BY <1>7, <1>8 DEF Everywhere, ApprovesShown
<1>10. SUFFICES ASSUME last.id \notin lost, last.value.text \notin lost
                PROVE  FALSE
  BY <1>6
<1>11. text \in all /\ Traced(client) /\ Chained(client) /\ Traced(sender)
  BY <1>1 DEF Typed, Everywhere
<1>12. ASSUME NEW doc \in {room, after}, last \in doc
       PROVE  text \in doc
  <2>1. doc \in SUBSET all /\ View(doc) = doc /\ room \subseteq doc
    BY <1>2
  <2>2. CASE text.by = client
    <3>1. text.id \in IdsOf(doc)
      BY <1>9, <1>12, <2>1, <2>2 DEF View, IdsOf
    <3>2. QED
      BY <3>1, <2>1, <1>1, <1>11, IdsAreTyped
  <2>3. CASE text.by # client
    <3>1. text.id \in IdsOf(room)
      BY <2>3, <1>9, <1>10, <1>11 DEF Traced, Theirs, WasInRoom
    <3>2. QED
      BY <3>1, <2>1, <1>1, <1>2, <1>11, IdsAreTyped
  <2>4. QED
    BY <2>2, <2>3
<1>13. \A u \in after : ~ Precedes(text.text, u.text)
  <2>1. SUFFICES ASSUME NEW u \in after
                PROVE  ~ Precedes(text.text, u.text)
    OBVIOUS
  <2>2. CASE u.by = "earlier"
    BY <2>1, <2>2, <1>4, <1>9 DEF Signed
  <2>3. CASE u.by = "room"
    <3>1. u.text = <<>> /\ text.text \in Seq(Id)
      BY <2>1, <2>3, <1>1, <1>4, <1>11 DEF Signed, Consistent, Proper
    <3>2. QED
      BY <3>1, NothingBeforeEmpty
  <2>4. CASE u.by = client
    <3>1. u \in MadeBy(client)
      BY <2>1, <2>4, <1>4 DEF StillHeld, MadeBy
    <3>2. last.id \notin u.needs
      BY <2>1, <3>1, <1>7, <1>8, <1>11 DEF Chained
    <3>3. u.id \in last.needs \cup {last.id}
      BY <3>1, <3>2, <1>8, <1>11 DEF Chained
    <3>4. QED
      BY <3>1, <3>3, <1>9
  <2>5. QED
    BY <2>1, <2>2, <2>3, <2>4, <1>4
<1>14. text \in after /\ LastText(after) = text
  <2>1. text \in after
    BY <1>7, <1>12
  <2>2. QED
    BY <2>1, <1>1, <1>2, <1>3, <1>4, <1>9, <1>13, LastIs
<1>15. sender # client /\ ~ (TextOf(room) = TextOf(after) /\ ApprovalOf(room) = ApprovalOf(after))
  BY <1>7, <1>8, <1>9, <1>14 DEF Revokes, TextOf
<1>16. last \in room
  <2>1. last.id \in IdsOf(room) \/ last \in room
    BY <1>2, <1>7, <1>8, <1>10, <1>11, <1>15 DEF Traced, WasInRoom
  <2>2. QED
    BY <2>1, <1>1, <1>2, <1>7, IdsAreTyped
<1>17. LastApproval(room) = last
  BY <1>1, <1>2, <1>4, <1>7, <1>16, LastIs
<1>18. LastText(room) = text
  <2>1. text \in room
    BY <1>12, <1>16
  <2>2. QED
    BY <2>1, <1>1, <1>2, <1>4, <1>9, <1>13, LastIs
<1>19. QED
  BY <1>6, <1>14, <1>15, <1>17, <1>18 DEF TextOf, ApprovalOf

\* What the room makes for agents or to correct is nobody's here.
LEMMA BroadcastPasses ==
  ASSUME NEW all, Typed(all), NEW more, all \subseteq more, NEW updates \in [Clients -> SUBSET more],
         toClient' = Broadcast(updates), \A client \in Clients : updates[client] \subseteq room' /\ Passed(client),
         role' = role, replica' = replica, replicaId' = replicaId, NEW new
  PROVE  \A page \in Clients : Passes(page, new)
<1>1. SUFFICES ASSUME NEW page \in Clients
               PROVE  Passes(page, new)
  OBVIOUS
<1>2. Typed(more)
  BY TypedOfMore
<1>3. toClient'[page] = toClient[page] \/ Appended(toClient[page], toClient'[page], UpdateFrame(updates[page]))
  BY <1>2, BroadcastSent
<1>4. Carried(UpdateFrame(updates[page])) = updates[page] /\ UpdateFrame(updates[page]) # Resynchronise
  BY DEF Carried, CarriesUpdates, UpdateFrame, Resynchronise
<1>5. /\ UpdatesIn(toClient'[page]) \subseteq UpdatesIn(toClient[page]) \cup room'
      /\ ToldToDrop(page)' => ToldToDrop(page)
  BY <1>3, <1>4 DEF Appended, ToldToDrop
<1>6. \A s \in Slots : /\ UpdatesIn(toRoom'[page][s]) \subseteq Source(page, new)
                       /\ carried'[page][s] \subseteq Source(page, new)
  BY SourceHas DEF Passed
<1>7. Theirs(page)' \subseteq Source(page, new)
  BY <1>6, SourceHas, SourceOfParts
<1>8. QED
  BY <1>5, <1>7 DEF Passes

LEMMA GrownKeepsPages ==
  ASSUME Named, Everywhere, NEW new, \A client \in Clients : Passes(client, new), lost' = lost,
         room \subseteq room', room' \subseteq Existing \cup new,
         \A update \in new : Signed(update) /\ update.by \notin Clients
  PROVE  Named' /\ Everywhere'
<1>1. WasInRoom \subseteq WasInRoom'
  BY DEF WasInRoom, IdsOf
<1>2. \A update \in new : Signed(update) /\ StillHeld(update)'
  BY DEF StillHeld
<1>3. Named' /\ \A client \in Clients : Traced(client)'
  BY <1>1, <1>2, NamedKept DEF Everywhere
<1>4. \A client \in Clients : Chained(client)' /\ ApprovesShown(client)'
  <2>1. \A client \in Clients : \A update \in new : update.by # client
    OBVIOUS
  <2>2. QED
    BY <2>1, ChainsKept DEF Everywhere
<1>5. QED
  BY <1>3, <1>4 DEF Everywhere

\* A path's last id, and the one before it.
LEMMA BeforeTheLast ==
  ASSUME NEW path \in Seq(Id), NEW id \in Id, NEW added \in Id, EndsIn(path, id)
  PROVE  EndsIn(Append(path, added), added) /\ Last(Front(Append(path, added))) = id
<1>1. PICK longer : longer = Append(path, added)
  OBVIOUS
<1>2. longer \in Seq(Id) /\ Len(longer) = Len(path) + 1 /\ longer[Len(longer)] = added /\ Len(path) \in Nat
  BY <1>1
<1>3. path # <<>> /\ Len(path) >= 1 /\ path[Len(path)] = id
  BY DEF EndsIn
<1>4. Front(longer) = path
  <2>1. Front(longer) = SubSeq(longer, 1, Len(path))
    BY <1>2 DEF Front
  <2>2. SubSeq(longer, 1, Len(path)) \in Seq(Id) /\ Len(SubSeq(longer, 1, Len(path))) = Len(path)
    BY <1>2
  <2>3. \A i \in 1 .. Len(path) : SubSeq(longer, 1, Len(path))[i] = path[i]
    BY <1>1, <1>2
  <2>4. QED
    BY <2>1, <2>2, <2>3, SameSequence
<1>5. longer # <<>>
  BY <1>2
<1>6. QED
  BY <1>1, <1>2, <1>3, <1>4, <1>5 DEF EndsIn, Last

\* An agent's update leaves the room more than one person's.
LEMMA AgentKeepsSole ==
  ASSUME NEW all, SyncInv(all), Named, Everywhere, Revoked, AgentEdit
  PROVE  Named' /\ Everywhere' /\ Revoked'
<1>1. /\ Consistent(all) /\ Typed(all) /\ Stored(all)
  BY DEF SyncInv
<1>2. PICK w : w = Save(room, roomId, "agent", Unapproved)
  OBVIOUS
<1>3. PICK updates : updates = [page \in Clients |-> {w}]
  OBVIOUS
<1>4. /\ room' = room \cup {w} /\ toClient' = Broadcast(updates) /\ durable' = durable /\ lost' = lost
      /\ role' = role /\ replica' = replica /\ replicaId' = replicaId /\ toRoom' = toRoom /\ carried' = carried
  BY <1>2, <1>3 DEF AgentEdit, pageVars
<1>5. /\ room \in SUBSET all /\ FirstUpdate \in room
      /\ roomId \in Nat \X Nat /\ roomId[2] # 0 /\ Below(all, roomId, Cardinality(Own(room, roomId)))
  BY <1>1, SyncAssumption DEF Stored
<1>6. w.id \in Id
  BY <1>1, <1>2, <1>5, SaveIsNew DEF NewUpdate
<1>7. /\ w.by = "agent" /\ w.value = Unapproved /\ w.text = Append(LastText(room).text, w.id)
      /\ w.approval = Append(LastApproval(room).approval, w.id)
  BY <1>2 DEF Save, Made
<1>8. EndsIn(w.text, w.id) /\ EndsIn(w.approval, w.id)
  BY <1>1, <1>5, <1>6, <1>7, WrittenAfter
<1>9. Signed(w) /\ "agent" \notin Clients
  BY <1>7, <1>8, SyncAssumption, PeopleAssumption DEF Signed
<1>10. \A client \in Clients : Passes(client, {w})
  <2>1. all \subseteq all \cup {w} /\ updates \in [Clients -> SUBSET (all \cup {w})]
    BY <1>3
  <2>2. \A client \in Clients : updates[client] \subseteq room' /\ Passed(client)
    BY <1>1, <1>3, <1>4 DEF Passed, Typed
  <2>3. QED
    BY <2>1, <2>2, <1>1, <1>4, BroadcastPasses
<1>11. Named' /\ Everywhere'
  <2>1. room \subseteq room' /\ room' \subseteq Existing \cup {w}
    BY <1>4 DEF Existing
  <2>2. \A update \in {w} : Signed(update) /\ update.by \notin Clients
    BY <1>7, <1>9
  <2>3. QED
    BY <2>1, <2>2, <1>4, <1>10, GrownKeepsPages
<1>12. RevokedByLoss(room)'
  <2>1. \A client \in Clients : ~ ({update.by : update \in room'} \subseteq {"earlier", "room", client})
    <3>1. "agent" \in {update.by : update \in room'}
      BY <1>4, <1>7
    <3>2. QED
      BY <3>1, <1>9
  <2>2. QED
    BY <2>1 DEF RevokedByLoss
<1>13. RevokedByLoss(durable)'
  BY <1>4 DEF Revoked, RevokedByLoss
<1>14. QED
  BY <1>11, <1>12, <1>13 DEF Revoked

\* A document that grew by what was sent and its correction.
LEMMA GrownKeepsSole ==
  ASSUME NEW all, SyncInv(all), Named, Everywhere, RevokedByLoss(room),
         NEW sender \in Clients, NEW incoming \in SUBSET Theirs(sender), incoming \subseteq all,
         NEW after, after = View(room \cup incoming),
         NEW corrections, corrections = Corrections(room, after, sender, TRUE, roomId),
         \A w \in corrections : Last(Front(w.approval)) = LastApproval(after).id,
         room' = after \cup corrections, lost' = lost
  PROVE  RevokedByLoss(room)'
<1>1. Consistent(all) /\ Stored(all)
  BY DEF SyncInv
<1>2. /\ room \in SUBSET all /\ FirstUpdate \in room /\ room \subseteq after /\ after \subseteq room \cup incoming
      /\ after \in SUBSET all /\ View(after) = after
  <2>1. room \in SUBSET all /\ View(room) = room /\ FirstUpdate \in room
    BY <1>1 DEF Stored
  <2>2. View(room) \subseteq View(room \cup incoming) /\ View(room \cup incoming) \subseteq room \cup incoming
    BY ViewGrows
  <2>3. View(View(room \cup incoming)) = View(room \cup incoming)
    BY <2>1, <1>1, ViewIsClosed
  <2>4. QED
    BY <2>1, <2>2, <2>3
<1>3. SUFFICES ASSUME NEW client \in Clients, {update.by : update \in room'} \subseteq {"earlier", "room", client},
                      NEW correction \in room', correction.by = "room"
               PROVE  \E revoked \in room' :
                        /\ revoked.id = Last(Front(correction.approval))
                        /\ {correction.id, revoked.id, revoked.value.text} \cap lost' # {}
  BY DEF RevokedByLoss
<1>4. /\ {update.by : update \in room} \subseteq {"earlier", "room", client}
      /\ {update.by : update \in after} \subseteq {"earlier", "room", client}
  BY <1>2, <1>3
<1>5. CASE correction \in room
  <2>1. PICK revoked \in room :
          /\ revoked.id = Last(Front(correction.approval))
          /\ {correction.id, revoked.id, revoked.value.text} \cap lost # {}
    BY <1>3, <1>4, <1>5 DEF RevokedByLoss
  <2>2. QED
    BY <2>1, <1>2
<1>6. CASE correction \in after \ room
  <2>1. correction \in Theirs(sender) /\ sender # "room"
    BY <1>2, <1>6, SyncAssumption, PeopleAssumption
  <2>2. correction.id \in lost
    <3>1. correction.id \notin IdsOf(room)
      BY <1>1, <1>2, <1>6, IdsAreTyped
    <3>2. correction.by = sender \/ correction.id \in WasInRoom
      BY <2>1 DEF Everywhere, Traced
    <3>3. QED
      BY <3>1, <3>2, <2>1, <1>3 DEF WasInRoom
  <2>3. Last(Front(correction.approval)) \in correction.needs
    <3>1. Theirs(sender) \subseteq Existing
      BY DEF Existing
    <3>2. Signed(correction)
      BY <3>1, <2>1 DEF Named
    <3>3. QED
      BY <3>2, <1>3 DEF Signed
  <2>4. correction.needs \subseteq IdsOf(after)
    BY <1>2, <1>6 DEF View
  <2>5. PICK revoked \in after : revoked.id = Last(Front(correction.approval))
    BY <2>3, <2>4 DEF IdsOf
  <2>6. QED
    BY <2>2, <2>5, <1>3
<1>7. CASE correction \in corrections
  <2>1. Revokes(room, after, sender, TRUE)
    BY <1>7 DEF Corrections
  <2>2. {LastApproval(after).id, LastApproval(after).value.text} \cap lost # {}
    BY <2>1, <1>4, GuardSparesSole
  <2>3. LastApproval(after) \in after
    BY <1>1, <1>2, LastWrites
  <2>4. LastApproval(after).id = Last(Front(correction.approval))
    BY <1>7
  <2>5. QED
    BY <2>2, <2>3, <2>4, <1>3
<1>8. QED
  BY <1>3, <1>5, <1>6, <1>7

\* An editor's update goes in, and the guard's correction with it.
LEMMA GuardedKeepsSole ==
  ASSUME NEW all, SyncInv(all), Named, Everywhere, Revoked, NEW client \in Clients, NEW s \in Slots,
         ApplyGuarded(client, s)
  PROVE  Named' /\ Everywhere' /\ Revoked'
<1>1. Consistent(all) /\ Typed(all) /\ Stored(all)
  BY DEF SyncInv
<1>2. PICK incoming, after : incoming = Incoming(client, s) /\ after = Integrated(incoming)
  OBVIOUS
<1>3. PICK corrections : corrections = Corrections(room, after, client, MayEdit(client), roomId)
  OBVIOUS
<1>4. PICK added : added = (after \ room) \cup corrections
  OBVIOUS
<1>5. PICK updates : updates = [page \in Clients |-> Relayed(client, s, added, incoming, page)]
  OBVIOUS
<1>6. /\ toRoom[client][s] # <<>> /\ CarriesUpdates(Received(client, s)) /\ Take(client, s)
      /\ MayEdit(client) /\ room' = room \cup added /\ durable' = durable /\ lost' = lost
      /\ carried' = [carried EXCEPT ![client][s] = (room \cup incoming) \ after]
      /\ toClient' = Broadcast(updates)
      /\ role' = role /\ replica' = replica /\ replicaId' = replicaId
  <2>1. Added(client, incoming) = added
    BY <1>2, <1>3, <1>4 DEF Added
  <2>2. QED
    BY <2>1, <1>2, <1>5 DEF ApplyGuarded, Receives, pageVars, boundVars
<1>7. /\ TakenOff(toRoom[client][s], toRoom'[client][s], Received(client, s))
      /\ \A other \in Clients \ {client} : toRoom'[other] = toRoom[other]
      /\ Carried(Received(client, s)) = Received(client, s).updates /\ Received(client, s) \in RoomFrame(all)
  BY <1>1, <1>6, FrameTaken DEF Carried
<1>8. /\ incoming \subseteq carried[client][s] \cup UpdatesIn(toRoom[client][s])
      /\ incoming \in SUBSET all /\ incoming \in SUBSET Theirs(client)
  <2>1. Received(client, s).updates \in SUBSET all
    BY <1>6, <1>7, RoomFrames
  <2>2. incoming \subseteq carried[client][s] \cup UpdatesIn(toRoom[client][s]) /\ incoming \in SUBSET all
    BY <2>1, <1>1, <1>2, <1>7 DEF Incoming, Typed, TakenOff
  <2>3. carried[client][s] \cup UpdatesIn(toRoom[client][s]) \subseteq Theirs(client)
    BY DEF Theirs
  <2>4. QED
    BY <2>2, <2>3
<1>9. /\ room \in SUBSET all /\ FirstUpdate \in room /\ View(room) = room
      /\ roomId \in Nat \X Nat /\ roomId[2] # 0 /\ Below(all, roomId, Cardinality(Own(room, roomId)))
      /\ after = View(room \cup incoming)
  BY <1>1, <1>2, SyncAssumption DEF Stored, Integrated
<1>10. room \subseteq after /\ after \subseteq room \cup incoming /\ after \in SUBSET all /\ FirstUpdate \in after
  <2>1. View(room) \subseteq View(room \cup incoming) /\ View(room \cup incoming) \subseteq room \cup incoming
    BY ViewGrows
  <2>2. QED
    BY <2>1, <1>8, <1>9
<1>11. room' = after \cup corrections
  BY <1>4, <1>6, <1>10
<1>12. ASSUME NEW w \in corrections
       PROVE  Signed(w) /\ w.by \notin Clients /\ Last(Front(w.approval)) = LastApproval(after).id
  <2>1. PICK last : last = LastApproval(after)
    OBVIOUS
  <2>2. w = SetApproval(after, roomId, "room", Unapproved)
    BY <1>3, <1>12 DEF Corrections
  <2>3. Below(all, roomId, Cardinality(Own(after, roomId)))
    <3>1. /\ Cardinality(Own(room, roomId)) \in Nat /\ Cardinality(Own(after, roomId)) \in Nat
          /\ Cardinality(Own(room, roomId)) <= Cardinality(Own(after, roomId))
      BY <1>1, <1>10, OwnGrows
    <3>2. QED
      BY <3>1, <1>1, <1>9, BelowGrows
  <2>4. w.id \in Id
    BY <2>2, <2>3, <1>1, <1>9, <1>10, ApprovalIsNew DEF NewUpdate
  <2>5. /\ w.by = "room" /\ w.text = <<>> /\ w.value = Unapproved
        /\ w.approval = Append(last.approval, w.id) /\ last.id \in w.needs
    BY <2>1, <2>2 DEF SetApproval, Made, Needed
  <2>6. last \in after
    BY <2>1, <1>1, <1>10, LastWrites
  <2>7. EndsIn(last.approval, last.id) /\ last.approval \in Seq(Id) /\ last.id \in Id
    <3>1. Theirs(client) \subseteq Existing /\ room \subseteq Existing
      BY DEF Existing
    <3>2. Signed(last)
      BY <3>1, <2>6, <1>8, <1>10 DEF Named
    <3>3. Proper(last)
      BY <2>6, <1>1, <1>10 DEF Consistent
    <3>4. QED
      BY <3>2, <3>3 DEF Signed, Proper
  <2>8. EndsIn(w.approval, w.id) /\ Last(Front(w.approval)) = last.id
    BY <2>4, <2>5, <2>7, BeforeTheLast
  <2>9. "room" \notin Clients
    BY SyncAssumption, PeopleAssumption
  <2>10. QED
    BY <2>1, <2>5, <2>8, <2>9 DEF Signed
<1>13. \A page \in Clients : Passes(page, corrections)
  <2>1. ASSUME NEW page \in Clients
        PROVE  Passed(page)
    <3>1. CASE page # client
      BY <3>1, <1>1, <1>6, <1>7 DEF Passed, Typed
    <3>2. CASE page = client
      <4>1. SUFFICES ASSUME NEW t \in Slots
                    PROVE  /\ toRoom[client][t] = <<>> => toRoom'[client][t] = <<>> /\ carried'[client][t] = carried[client][t]
                           /\ Range(toRoom'[client][t]) \subseteq Range(toRoom[client][t])
                           /\ UpdatesIn(toRoom'[client][t]) \subseteq UpdatesIn(toRoom[client][t])
                           /\ carried'[client][t] \subseteq carried[client][t] \cup UpdatesIn(toRoom[client][t])
                           /\ carried[client][t] \cup UpdatesIn(toRoom[client][t])
                                \subseteq room' \cup carried'[client][t] \cup UpdatesIn(toRoom'[client][t])
        BY <3>2 DEF Passed
      <4>2. /\ toRoom[client][t] = <<>> => toRoom'[client][t] = <<>>
            /\ Range(toRoom'[client][t]) \subseteq Range(toRoom[client][t])
            /\ UpdatesIn(toRoom'[client][t]) \subseteq UpdatesIn(toRoom[client][t])
            /\ UpdatesIn(toRoom[client][t]) \subseteq UpdatesIn(toRoom'[client][t]) \cup Carried(Received(client, s))
            /\ t # s => toRoom'[client][t] = toRoom[client][t]
        BY <1>1, <1>6, TakingKeeps
      <4>3. CASE t # s
        <5>1. carried'[client][t] = carried[client][t]
          BY <4>3, <1>1, <1>6 DEF Typed
        <5>2. QED
          BY <5>1, <4>2, <4>3
      <4>4. CASE t = s
        <5>1. carried'[client][s] = (room \cup incoming) \ after
          BY <1>1, <1>6 DEF Typed
        <5>2. carried'[client][s] \subseteq incoming /\ incoming \subseteq room' \cup carried'[client][s]
          BY <5>1, <1>10, <1>11
        <5>3. incoming = carried[client][s] \cup Carried(Received(client, s))
          BY <1>2, <1>7 DEF Incoming
        <5>4. QED
          BY <5>2, <5>3, <4>2, <4>4, <1>6, <1>8
      <4>5. QED
        BY <4>3, <4>4
    <3>3. QED
      BY <3>1, <3>2
  <2>2. \A page \in Clients : updates[page] = IF page = client /\ s = slot[client] THEN added \ incoming ELSE added
    BY <1>5 DEF Relayed
  <2>3. added \subseteq all \cup corrections
    BY <1>4, <1>10
  <2>4. updates \in [Clients -> SUBSET (all \cup corrections)]
    <3>1. \A page \in Clients : updates[page] \in SUBSET (all \cup corrections)
      BY <2>2, <2>3
    <3>2. QED
      BY <3>1, <1>5
  <2>5. \A page \in Clients : updates[page] \subseteq room' /\ Passed(page)
    BY <2>1, <2>2, <1>6
  <2>6. all \subseteq all \cup corrections
    OBVIOUS
  <2>7. QED
    BY <2>4, <2>5, <2>6, <1>1, <1>6, BroadcastPasses
<1>14. Named' /\ Everywhere'
  <2>1. room \cup incoming \subseteq Existing
    <3>1. Theirs(client) \subseteq Existing /\ room \subseteq Existing
      BY DEF Existing
    <3>2. QED
      BY <3>1, <1>8
  <2>2. room \subseteq room' /\ room' \subseteq Existing \cup corrections
    BY <2>1, <1>10, <1>11
  <2>3. QED
    BY <2>2, <1>6, <1>12, <1>13, GrownKeepsPages
<1>15. RevokedByLoss(room)'
  <2>1. corrections = Corrections(room, after, client, TRUE, roomId)
    BY <1>3, <1>6 DEF MayEdit
  <2>2. QED
    BY <2>1, <1>6, <1>8, <1>9, <1>11, <1>12, GrownKeepsSole DEF Revoked
<1>16. RevokedByLoss(durable)'
  BY <1>6 DEF Revoked, RevokedByLoss
<1>17. QED
  BY <1>14, <1>15, <1>16 DEF Revoked

\* The files hold what the room does.
LEMMA FlushKeepsSole ==
  ASSUME NEW all, SyncInv(all), Named, Everywhere, Revoked, Flush
  PROVE  Named' /\ Everywhere' /\ Revoked'
<1>1. Stored(all)
  BY DEF SyncInv
<1>2. /\ durable' = room /\ room' = room /\ lost' = lost /\ role' = role /\ replica' = replica /\ replicaId' = replicaId
      /\ carried' = carried /\ toRoom' = toRoom /\ toClient' = toClient
  BY <1>1 DEF Flush, Stored, pageVars, networkVars, boundVars
<1>3. \A page \in Clients : Passes(page, {})
  BY <1>2, PassesUntouched
<1>4. room \subseteq room' /\ room' \subseteq Existing \cup {}
  BY <1>2 DEF Existing
<1>5. Named' /\ Everywhere'
  BY <1>2, <1>3, <1>4, GrownKeepsPages
<1>6. Revoked'
  BY <1>2 DEF Revoked, RevokedByLoss
<1>7. QED
  BY <1>5, <1>6

\* The room comes back with less; a page has what it had.
LEMMA CrashKeepsSole ==
  ASSUME NEW all, SyncInv(all), Named, Everywhere, Revoked, Crash
  PROVE  Named' /\ Everywhere' /\ Revoked'
<1>1. Stored(all)
  BY DEF SyncInv
<1>2. /\ room' = durable /\ durable' = durable /\ lost' = lost \cup IdsOf(room \ durable)
      /\ role' = role /\ replica' = replica /\ replicaId' = replicaId /\ toClient' = toClient
      /\ \A page \in Clients : \A s \in Slots : carried'[page][s] = {} /\ toRoom'[page][s] = <<>>
  BY DEF Crash, pageVars
<1>3. \A page \in Clients : Passes(page, {})
  <2>1. ASSUME NEW page \in Clients
        PROVE  Theirs(page)' \subseteq Source(page, {})
    <3>1. \A s \in Slots : UpdatesIn(toRoom'[page][s]) \subseteq Source(page, {})
                           /\ carried'[page][s] \subseteq Source(page, {})
      BY <1>2, NoUpdates
    <3>2. QED
      BY <3>1, <1>2, SourceHas, SourceOfParts
  <2>2. QED
    BY <2>1, <1>2 DEF Passes, ToldToDrop
<1>4. room' \subseteq Existing \cup {} /\ WasInRoom \subseteq WasInRoom'
  <2>1. durable \subseteq room
    BY <1>1 DEF Stored
  <2>2. IdsOf(room) \subseteq IdsOf(durable) \cup IdsOf(room \ durable)
    BY DEF IdsOf
  <2>3. WasInRoom' = IdsOf(room') \cup lost'
    BY DEF WasInRoom, IdsOf
  <2>4. QED
    BY <2>1, <2>2, <2>3, <1>2 DEF Existing, WasInRoom
<1>5. Named' /\ \A page \in Clients : Traced(page)'
  BY <1>3, <1>4, NamedKept DEF Everywhere
<1>6. \A page \in Clients : Chained(page)' /\ ApprovesShown(page)'
  BY <1>3, ChainsKept DEF Everywhere
<1>7. Revoked'
  <2>1. SUFFICES ASSUME NEW client \in Clients, {update.by : update \in durable} \subseteq {"earlier", "room", client},
                        NEW correction \in durable, correction.by = "room"
                 PROVE  \E revoked \in durable :
                          /\ revoked.id = Last(Front(correction.approval))
                          /\ {correction.id, revoked.id, revoked.value.text} \cap lost' # {}
    BY <1>2 DEF Revoked, RevokedByLoss
  <2>2. PICK revoked \in durable :
          /\ revoked.id = Last(Front(correction.approval))
          /\ {correction.id, revoked.id, revoked.value.text} \cap lost # {}
    BY <2>1 DEF Revoked, RevokedByLoss
  <2>3. QED
    BY <2>2, <1>2
<1>8. QED
  BY <1>5, <1>6, <1>7 DEF Everywhere

LEMMA SoleStarts ==
  ASSUME Init
  PROVE  SoleInv
<1>1. /\ room = {FirstUpdate} /\ durable = {FirstUpdate} /\ FirstUpdate.by = "earlier"
      /\ \A client \in Clients : replica[client] = {FirstUpdate} /\ toClient[client] = <<>>
      /\ \A client \in Clients : \A s \in Slots : carried[client][s] = {} /\ toRoom[client][s] = <<>>
  BY DEF Init, FirstUpdate
<1>2. Clients \cap {"earlier", "room"} = {}
  BY SyncAssumption, PeopleAssumption
<1>3. Signed(FirstUpdate) /\ StillHeld(FirstUpdate)
  <2>1. EndsIn(<<FirstId>>, FirstId)
    BY DEF EndsIn
  <2>2. QED
    BY <2>1, <1>2 DEF Signed, StillHeld, FirstUpdate
<1>4. ASSUME NEW client \in Clients
      PROVE  /\ Theirs(client) = {FirstUpdate} /\ UpdatesIn(toClient[client]) = {}
             /\ MadeBy(client) = {} /\ ~ ToldToDrop(client)
  <2>1. /\ UpdatesIn(toClient[client]) = {} /\ ~ ToldToDrop(client)
        /\ \A s \in Slots : UpdatesIn(toRoom[client][s]) \cup carried[client][s] = {}
    BY <1>1, NoUpdates DEF ToldToDrop
  <2>2. Theirs(client) = {FirstUpdate}
    BY <2>1, <1>1 DEF Theirs
  <2>3. MadeBy(client) = {}
    BY <1>1, <1>2 DEF MadeBy
  <2>4. QED
    BY <2>1, <2>2, <2>3
<1>5. \A update \in Existing : Signed(update) /\ StillHeld(update)
  BY <1>1, <1>3, <1>4 DEF Existing
<1>6. \A client \in Clients : Traced(client)
  BY <1>1, <1>4 DEF Traced, WasInRoom, IdsOf
<1>7. \A client \in Clients : Chained(client) /\ ApprovesShown(client)
  BY <1>4 DEF Chained, ApprovesShown
<1>8. RevokedByLoss(room) /\ RevokedByLoss(durable)
  BY <1>1 DEF RevokedByLoss
<1>9. QED
  BY <1>5, <1>6, <1>7, <1>8 DEF SoleInv, Named, Everywhere, Revoked

LEMMA SoleIsKept ==
  ASSUME NEW all, SyncInv(all), SoleInv, [Next]_vars
  PROVE  SoleInv'
<1>1. CASE \E client \in Clients : SetRole(client)
  <2>1. roleChanges \in Nat /\ roleChanges' = roleChanges + 1
    BY <1>1 DEF SyncInv, Typed, SetRole
  <2>2. QED
    BY <2>1 DEF SoleInv
<1>2. ASSUME roleChanges' = roleChanges, roleChanges = 0 => Named' /\ Everywhere' /\ Revoked'
      PROVE  SoleInv'
  BY <1>2 DEF SoleInv
<1>3. roleChanges = 0 => Named /\ Everywhere /\ Revoked
  BY DEF SoleInv
<1>4. ASSUME roleChanges' = roleChanges, room' = room, durable' = durable, lost' = lost,
             roleChanges = 0 => \A page \in Clients : Passes(page, {})
      PROVE  SoleInv'
  BY <1>2, <1>3, <1>4, SoleUntouched
<1>5. CASE UNCHANGED vars
  <2>1. /\ role' = role /\ replica' = replica /\ replicaId' = replicaId /\ carried' = carried
        /\ toRoom' = toRoom /\ toClient' = toClient
        /\ roleChanges' = roleChanges /\ room' = room /\ durable' = durable /\ lost' = lost
    BY <1>5 DEF vars, serverVars, pageVars, networkVars, boundVars
  <2>2. QED
    BY <2>1, <1>4, PassesUntouched
<1>6. ASSUME NEW client \in Clients, Edit(client)
      PROVE  SoleInv'
  BY <1>2, <1>3, <1>6, EditKeepsSole DEF Edit
<1>7. ASSUME NEW client \in Clients, Open(client) \/ Lose(client) \/ Connect(client) \/ \E s \in Slots : Forget(client, s)
      PROVE  SoleInv'
  <2>1. roleChanges' = roleChanges /\ room' = room /\ durable' = durable /\ lost' = lost
    BY <1>7 DEF Open, Lose, Connect, Forget, serverVars, boundVars
  <2>2. QED
    BY <2>1, <1>4, <1>7, SocketsPass
<1>8. ASSUME NEW client \in Clients, Pages(client)
      PROVE  SoleInv'
  <2>1. roleChanges' = roleChanges /\ room' = room /\ durable' = durable /\ lost' = lost
    BY <1>8 DEF Pages, WelcomeArrives, StepOneArrives, StepTwoArrives, UpdateArrives, RoleArrives,
                ResynchroniseArrives, serverVars, boundVars
  <2>2. QED
    BY <2>1, <1>3, <1>4, <1>8, PagesPass
<1>9. ASSUME NEW client \in Clients, NEW s \in Slots, Rooms(client, s)
      PROVE  SoleInv'
  <2>1. CASE AnswerStepOne(client, s) \/ RefuseUpdate(client, s)
    <3>1. roleChanges' = roleChanges /\ room' = room /\ durable' = durable /\ lost' = lost
      BY <2>1 DEF AnswerStepOne, RefuseUpdate, serverVars, boundVars
    <3>2. QED
      BY <3>1, <2>1, <1>4, RoomsPass
  <2>2. CASE ApplyGuarded(client, s)
    <3>1. roleChanges' = roleChanges
      BY <2>2 DEF ApplyGuarded, boundVars
    <3>2. QED
      BY <3>1, <2>2, <1>2, <1>3, GuardedKeepsSole
  <2>3. QED
    BY <2>1, <2>2, <1>9 DEF Rooms
<1>10. ASSUME AgentEdit \/ Flush \/ Crash
       PROVE  SoleInv'
  <2>1. roleChanges' = roleChanges
    BY <1>10 DEF AgentEdit, Flush, Crash, boundVars
  <2>2. QED
    BY <2>1, <1>2, <1>3, <1>10, AgentKeepsSole, FlushKeepsSole, CrashKeepsSole
<1>11. QED
  BY <1>1, <1>5, <1>6, <1>7, <1>8, <1>9, <1>10 DEF Next

\* The guard revokes no approval of a document that is one person's, while that person's role
\* stays, but over what a crash took.
THEOREM SoleEditorKeepsApproval == Spec => []SoleEditorIsApproved
<1>1. Init => SoleInv
  BY SoleStarts
<1>2. Sound /\ SoleInv /\ [Next]_vars => SoleInv'
  BY SoleIsKept DEF Sound
<1>3. SoleInv => SoleEditorIsApproved
  BY DEF SoleInv, Revoked, RevokedByLoss, SoleEditorIsApproved
<1>4. QED
  BY <1>1, <1>2, <1>3, SyncIsSound, PTL DEF Spec

-----------------------------------------------------------------------------
\* Where a page's updates come from, whatever roles change and whenever the room dies.

\* What a page is sent was in the room, and so was what it has but for what the replica made,
\* while its person edited.
Origin(client) ==
  /\ IdsOf(UpdatesIn(toClient[client])) \subseteq WasInRoom
  /\ \A update \in replica[client] :
       \/ update.id \in WasInRoom
       \/ /\ ReplicaOf(update.id) = replicaId[client]
          /\ roleChanges = 0 => role[client] = "editor"

\* A reader's page that has what the room lacks.
Astray(client) == ~ MayEdit(client) /\ ~ (replica[client] \subseteq room)

\* What a step may bring a page: what it was sent, what the room holds, what it makes itself.
Brought(client) ==
  /\ UpdatesIn(toClient'[client]) \subseteq UpdatesIn(toClient[client]) \cup room'
  /\ \A update \in replica'[client] :
       \/ update \in replica[client] /\ replicaId'[client] = replicaId[client]
       \/ update \in UpdatesIn(toClient[client])
       \/ ReplicaOf(update.id) = replicaId'[client] /\ known[client] = "editor"
  /\ role'[client] = role[client] \/ roleChanges' # 0
  /\ ToldToDrop(client)' => ToldToDrop(client) \/ Astray(client)

LEMMA BroughtAsIs ==
  ASSUME NEW client, replica'[client] = replica[client], replicaId'[client] = replicaId[client],
         role'[client] = role[client] \/ roleChanges' # 0,
         \/ toClient'[client] = toClient[client]
         \/ UpdatesIn(toClient'[client]) = {} /\ ~ ToldToDrop(client)'
         \/ \E frame : /\ Appended(toClient[client], toClient'[client], frame)
                       /\ Carried(frame) \subseteq room'
                       /\ frame = Resynchronise => Astray(client)
  PROVE  Brought(client)
<1>1. /\ UpdatesIn(toClient'[client]) \subseteq UpdatesIn(toClient[client]) \cup room'
      /\ ToldToDrop(client)' => ToldToDrop(client) \/ Astray(client)
  BY DEF Appended, ToldToDrop
<1>2. QED
  BY <1>1 DEF Brought

\* An answer of the room to one page.
LEMMA AnswerBrings ==
  ASSUME NEW all, Typed(all), NEW to \in Clients, NEW s, NEW frame \in PageFrame(all), Answer(to, s, frame),
         Carried(frame) \subseteq room', frame = Resynchronise /\ Hears(to, s) => Astray(to),
         replica' = replica, replicaId' = replicaId, role' = role \/ roleChanges' # 0, NEW client \in Clients
  PROVE  Brought(client)
<1>1. /\ \A other \in Clients \ {to} : toClient'[other] = toClient[other]
      /\ ~ Hears(to, s) => toClient'[to] = toClient[to]
      /\ Hears(to, s) => Appended(toClient[to], toClient'[to], frame)
  BY AnswerSent
<1>2. CASE client = to /\ Hears(to, s)
  BY <1>1, <1>2, BroughtAsIs
<1>3. CASE ~ (client = to /\ Hears(to, s))
  BY <1>1, <1>3, BroughtAsIs
<1>4. QED
  BY <1>2, <1>3

\* What the room sends to everyone.
LEMMA BroadcastBrings ==
  ASSUME NEW all, Typed(all), NEW updates, toClient' = Broadcast(updates),
         \A client \in Clients : updates[client] \subseteq room',
         replica' = replica, replicaId' = replicaId, role' = role, NEW client \in Clients
  PROVE  Brought(client)
<1> DEFINE frame == UpdateFrame(updates[client])
           before == toClient[client]
           E == PageFrame(all) \cup {frame}
<1>1. Carried(frame) = updates[client] /\ frame # Resynchronise
  BY DEF Carried, CarriesUpdates, UpdateFrame, Resynchronise
<1>2. before \in Seq(PageFrame(all))
  BY DEF Typed
<1>3. toClient'[client] \in {before, Append(before, frame)}
  BY DEF Broadcast
<1> HIDE DEF frame, before
<1>4. before \in Seq(E) /\ frame \in E
  BY <1>2
<1> HIDE DEF E
<1>5. Appended(before, Append(before, frame), frame)
  BY <1>4, UpdatesSent DEF Appended
<1>6. CASE toClient'[client] = before
  BY <1>6, BroughtAsIs DEF before
<1>7. CASE toClient'[client] = Append(before, frame)
  <2>1. Appended(toClient[client], toClient'[client], frame) /\ Carried(frame) \subseteq room'
    BY <1>1, <1>5, <1>7 DEF before
  <2>2. QED
    BY <2>1, <1>1, BroughtAsIs
<1>8. QED
  BY <1>3, <1>6, <1>7

\* A page reads a frame.
LEMMA ReadBrings ==
  ASSUME NEW all, Typed(all), NEW actor \in Clients, toClient[actor] # <<>>, Read(actor),
         \A other \in Clients \ {actor} : replica'[other] = replica[other],
         replica'[actor] \in {replica[actor], replica[actor] \cup Carried(Frame(actor))},
         replicaId' = replicaId, role' = role, NEW client \in Clients
  PROVE  Brought(client)
<1>1. /\ \A other \in Clients \ {actor} : toClient'[other] = toClient[other]
      /\ TakenOff(toClient[actor], toClient'[actor], Frame(actor))
  BY FrameRead
<1>2. CASE client # actor
  BY <1>1, <1>2, BroughtAsIs
<1>3. CASE client = actor
  <2>1. /\ UpdatesIn(toClient'[client]) \subseteq UpdatesIn(toClient[client])
        /\ Carried(Frame(client)) \subseteq UpdatesIn(toClient[client])
        /\ ToldToDrop(client)' => ToldToDrop(client)
    BY <1>1, <1>3 DEF TakenOff, ToldToDrop
  <2>2. QED
    BY <2>1, <1>3 DEF Brought
<1>4. QED
  BY <1>2, <1>3

LEMMA PagesBring ==
  ASSUME NEW all, Typed(all), NEW actor \in Clients, Pages(actor), NEW client \in Clients
  PROVE  Brought(client)
<1>1. replica \in [Clients -> SUBSET all] /\ DOMAIN toClient = Clients /\ DOMAIN replicaId = Clients
  BY DEF Typed
<1>2. CASE WelcomeArrives(actor) \/ StepOneArrives(actor) \/ RoleArrives(actor)
  <2>1. /\ toClient[actor] # <<>> /\ Read(actor)
        /\ replica' = replica /\ replicaId' = replicaId /\ role' = role
    BY <1>2 DEF WelcomeArrives, StepOneArrives, RoleArrives, Reads, serverVars
  <2>2. QED
    BY <2>1, ReadBrings
<1>3. CASE StepTwoArrives(actor) \/ UpdateArrives(actor)
  <2>1. /\ toClient[actor] # <<>> /\ Read(actor) /\ Carried(Frame(actor)) = Frame(actor).updates
        /\ replica' = [replica EXCEPT ![actor] = @ \cup Frame(actor).updates]
        /\ replicaId' = replicaId /\ role' = role
    BY <1>3 DEF StepTwoArrives, UpdateArrives, Reads, Frame, Carried, CarriesUpdates, serverVars
  <2>2. /\ \A other \in Clients \ {actor} : replica'[other] = replica[other]
        /\ replica'[actor] = replica[actor] \cup Carried(Frame(actor))
    BY <2>1, <1>1
  <2>3. QED
    BY <2>1, <2>2, ReadBrings
<1>4. CASE ResynchroniseArrives(actor)
  <2>1. /\ replica' = [replica EXCEPT ![actor] = {}] /\ role' = role
        /\ replicaId' = [replicaId EXCEPT ![actor] = Renewed(@)]
        /\ toClient' = [toClient EXCEPT ![actor] = <<>>]
    BY <1>4 DEF ResynchroniseArrives, LeaveSocket, serverVars
  <2>2. CASE client # actor
    BY <2>1, <2>2, <1>1, BroughtAsIs
  <2>3. CASE client = actor
    <3>1. replica'[client] = {} /\ toClient'[client] = <<>>
      BY <2>1, <2>3, <1>1
    <3>2. UpdatesIn(toClient'[client]) = {} /\ ~ ToldToDrop(client)'
      BY <3>1, NoUpdates DEF ToldToDrop
    <3>3. QED
      BY <3>1, <3>2, <2>1 DEF Brought
  <2>4. QED
    BY <2>2, <2>3
<1>5. QED
  BY <1>2, <1>3, <1>4 DEF Pages

\* The room answers, refuses or takes in what a connection sent.
LEMMA RoomsBring ==
  ASSUME NEW all, SyncInv(all), NEW actor \in Clients, NEW s \in Slots, Rooms(actor, s), NEW client \in Clients
  PROVE  Brought(client)
<1>1. Typed(all) /\ Stored(all) /\ PageInv(all, actor)
  BY DEF SyncInv
<1>2. CASE AnswerStepOne(actor, s)
  <2>1. PICK lacked : lacked = Missing(room, Received(actor, s).has)
    OBVIOUS
  <2>2. /\ lacked \subseteq room /\ lacked \in SUBSET all /\ Answer(actor, s, StepTwo(lacked))
        /\ room' = room /\ replica' = replica /\ replicaId' = replicaId /\ role' = role
    BY <1>1, <1>2, <2>1 DEF Missing, Stored, AnswerStepOne, serverVars, pageVars
  <2>3. /\ StepTwo(lacked) \in PageFrame(all) /\ Carried(StepTwo(lacked)) = lacked /\ StepTwo(lacked) # Resynchronise
    BY <2>2, MadeFrames DEF Carried, CarriesUpdates, StepTwo, Resynchronise
  <2>4. Carried(StepTwo(lacked)) \subseteq room'
    BY <2>2, <2>3
  <2>5. QED
    BY <1>1, <2>2, <2>3, <2>4, AnswerBrings
<1>3. CASE RefuseUpdate(actor, s)
  <2>1. /\ held[actor][s] = "open" /\ toRoom[actor][s] # <<>> /\ CarriesUpdates(Received(actor, s))
        /\ ~ MayEdit(actor) /\ Take(actor, s)
        /\ \/ toClient' = toClient
           \/ ~ (Received(actor, s).updates \subseteq room) /\ Answer(actor, s, Resynchronise)
        /\ room' = room /\ replica' = replica /\ replicaId' = replicaId /\ role' = role
    BY <1>3 DEF RefuseUpdate, Receives, AddsNothing, serverVars, pageVars
  <2>2. Resynchronise \in PageFrame(all) /\ Carried(Resynchronise) = {}
    BY MadeFrames DEF Carried, CarriesUpdates, Resynchronise
  <2>3. CASE toClient' = toClient
    BY <2>1, <2>3, BroughtAsIs
  <2>4. CASE ~ (Received(actor, s).updates \subseteq room) /\ Answer(actor, s, Resynchronise)
    <3>1. Carried(Received(actor, s)) \subseteq UpdatesIn(toRoom[actor][s])
      BY <1>1, <2>1, FrameTaken DEF TakenOff
    <3>2. Carried(Received(actor, s)) = Received(actor, s).updates
      BY <2>1 DEF Carried
    <3>3. Hears(actor, s) => UpdatesIn(toRoom[actor][s]) \subseteq replica[actor]
      BY <1>1 DEF PageInv, Honest, Hears
    <3>4. Hears(actor, s) => Astray(actor)
      BY <3>1, <3>2, <3>3, <2>1, <2>4 DEF Astray
    <3>5. QED
      BY <1>1, <2>1, <2>2, <2>4, <3>4, AnswerBrings
  <2>5. QED
    BY <2>1, <2>3, <2>4
<1>4. CASE ApplyGuarded(actor, s)
  <2>1. PICK incoming, added : incoming = Incoming(actor, s) /\ added = Added(actor, incoming)
    OBVIOUS
  <2>2. PICK updates : updates = [page \in Clients |-> Relayed(actor, s, added, incoming, page)]
    OBVIOUS
  <2>3. /\ room' = room \cup added /\ toClient' = Broadcast(updates)
        /\ replica' = replica /\ replicaId' = replicaId /\ role' = role
    BY <1>4, <2>1, <2>2 DEF ApplyGuarded, pageVars
  <2>4. \A page \in Clients : updates[page] \subseteq room'
    BY <2>2, <2>3 DEF Relayed
  <2>5. QED
    BY <1>1, <2>3, <2>4, BroadcastBrings
<1>5. QED
  BY <1>2, <1>3, <1>4 DEF Rooms

LEMMA EveryoneIsBrought ==
  ASSUME NEW all, SyncInv(all), [Next]_vars, NEW client \in Clients
  PROVE  Brought(client)
<1>1. Typed(all) /\ Stored(all)
  BY DEF SyncInv
<1>2. /\ replica \in [Clients -> SUBSET all] /\ replicaId \in [Clients -> Nat \X Nat]
      /\ DOMAIN toClient = Clients /\ roleChanges \in Nat
  BY <1>1 DEF Typed
<1>3. ASSUME NEW actor \in Clients, Edit(actor)
      PROVE  Brought(client)
  <2>1. PICK update \in Edits(Shown(actor), replicaId[actor], actor) :
          replica' = [replica EXCEPT ![actor] = @ \cup {update}]
    BY <1>3 DEF Edit
  <2>2. /\ known[actor] = "editor"
        /\ replicaId' = replicaId /\ toClient' = toClient /\ role' = role
    BY <1>3 DEF Edit, serverVars
  <2>3. ReplicaOf(update.id) = replicaId[actor]
    <3>1. PICK doc, replicaOf : doc = Shown(actor) /\ replicaOf = replicaId[actor]
      OBVIOUS
    <3>2. update \in Edits(doc, replicaOf, actor) /\ replicaOf \in Nat \X Nat
      BY <3>1, <1>2
    <3>3. QED
      BY <3>1, <3>2, OwnEdit
  <2>4. CASE client # actor
    <3>1. replica'[client] = replica[client]
      BY <2>1, <2>4, <1>2
    <3>2. QED
      BY <3>1, <2>2, BroughtAsIs
  <2>5. CASE client = actor
    <3>1. replica'[client] = replica[client] \cup {update}
      BY <2>1, <2>5, <1>2
    <3>2. ToldToDrop(client)' => ToldToDrop(client)
      BY <2>2 DEF ToldToDrop
    <3>3. QED
      BY <3>1, <3>2, <2>2, <2>3, <2>5 DEF Brought
  <2>6. QED
    BY <2>4, <2>5
<1>4. ASSUME NEW actor \in Clients,
             \/ Open(actor) \/ Lose(actor) \/ Connect(actor)
             \/ \E s \in Slots : Forget(actor, s)
      PROVE  Brought(client)
  <2>1. role' = role /\ replica' = replica /\ replicaId' = replicaId
    BY <1>4 DEF Open, Lose, Connect, Forget, serverVars, pageVars
  <2>2. \/ toClient' = toClient \/ toClient' = [toClient EXCEPT ![actor] = <<>>]
        \/ toClient' = [toClient EXCEPT ![actor] = <<Welcome(role[actor]), StepOne(IdsOf(room))>>]
    BY <1>4 DEF Open, Lose, Connect, Forget, LeaveSocket, networkVars
  <2>3. toClient'[client] \in {toClient[client], <<>>, <<Welcome(role[actor]), StepOne(IdsOf(room))>>}
    BY <2>2, <1>2
  <2>4. /\ Carried(Welcome(role[actor])) = {} /\ Carried(StepOne(IdsOf(room))) = {}
        /\ Resynchronise \notin {Welcome(role[actor]), StepOne(IdsOf(room))}
    BY DEF Carried, CarriesUpdates, Welcome, StepOne, Resynchronise
  <2>5. /\ UpdatesIn(<<Welcome(role[actor]), StepOne(IdsOf(room))>>) = {}
        /\ Resynchronise \notin Range(<<Welcome(role[actor]), StepOne(IdsOf(room))>>)
    <3>1. PICK first, second : first = Welcome(role[actor]) /\ second = StepOne(IdsOf(room))
      OBVIOUS
    <3>2. first \in {first, second} /\ second \in {first, second}
      OBVIOUS
    <3>3. UpdatesIn(<<first, second>>) = Carried(first) \cup Carried(second) /\ Range(<<first, second>>) = {first, second}
      BY <3>2, TwoFrames
    <3>4. QED
      BY <3>1, <3>3, <2>4
  <2>6. toClient'[client] = toClient[client] \/ (UpdatesIn(toClient'[client]) = {} /\ ~ ToldToDrop(client)')
    BY <2>3, <2>5, NoUpdates DEF ToldToDrop
  <2>7. QED
    BY <2>1, <2>6, BroughtAsIs
<1>5. ASSUME NEW actor \in Clients, SetRole(actor)
      PROVE  Brought(client)
  <2>1. PICK other \in Roles : Answer(actor, slot[actor], AccessChanged(other))
    BY <1>5 DEF SetRole
  <2>2. roleChanges' = roleChanges + 1 /\ replica' = replica /\ replicaId' = replicaId
    BY <1>5 DEF SetRole, pageVars
  <2>3. /\ AccessChanged(other) \in PageFrame(all) /\ AccessChanged(other) # Resynchronise
        /\ Carried(AccessChanged(other)) = {}
    BY MadeFrames DEF AccessChanged, Resynchronise, Carried, CarriesUpdates
  <2>4. roleChanges' # 0
    BY <2>2, <1>2
  <2>5. QED
    BY <1>1, <2>1, <2>2, <2>3, <2>4, AnswerBrings
<1>6. CASE AgentEdit
  <2>1. PICK update : /\ room' = room \cup {update}
                      /\ toClient' = Broadcast([page \in Clients |-> {update}])
    BY <1>6 DEF AgentEdit
  <2>2. PICK updates : updates = [page \in Clients |-> {update}]
    OBVIOUS
  <2>3. replica' = replica /\ replicaId' = replicaId /\ role' = role
    BY <1>6 DEF AgentEdit, pageVars
  <2>4. toClient' = Broadcast(updates) /\ \A page \in Clients : updates[page] \subseteq room'
    BY <2>1, <2>2
  <2>5. QED
    BY <1>1, <2>3, <2>4, BroadcastBrings
<1>7. CASE UNCHANGED vars \/ Flush \/ Crash
  <2>1. replica' = replica /\ replicaId' = replicaId /\ role' = role /\ toClient' = toClient
    BY <1>7 DEF vars, Flush, Crash, serverVars, pageVars, networkVars
  <2>2. QED
    BY <2>1, BroughtAsIs
<1>8. QED
  BY <1>1, <1>3, <1>4, <1>5, <1>6, <1>7, PagesBring, RoomsBring DEF Next

\* The room loses nothing but to a crash.
LEMMA RoomIsRemembered ==
  ASSUME NEW all, SyncInv(all), [Next]_vars
  PROVE  /\ WasInRoom \subseteq WasInRoom'
         /\ roleChanges' = 0 => roleChanges = 0
<1>1. Stored(all) /\ roleChanges \in Nat
  BY DEF SyncInv, Typed
<1>2. CASE Crash
  <2>1. room' = durable /\ lost' = lost \cup IdsOf(room \ durable) /\ roleChanges' = roleChanges
    BY <1>2 DEF Crash
  <2>2. IdsOf(room) \subseteq IdsOf(durable) \cup IdsOf(room \ durable)
    BY DEF IdsOf
  <2>3. WasInRoom' = IdsOf(durable) \cup lost \cup IdsOf(room \ durable)
    BY <2>1 DEF WasInRoom, IdsOf
  <2>4. QED
    BY <2>1, <2>2, <2>3 DEF WasInRoom
<1>3. CASE ~ Crash
  <2>1. lost' = lost /\ room \subseteq room' /\ roleChanges' \in {roleChanges, roleChanges + 1}
    <3>1. CASE UNCHANGED vars \/ AgentEdit \/ Flush
      BY <3>1 DEF vars, AgentEdit, Flush, serverVars, boundVars
    <3>2. ASSUME NEW client \in Clients, Edit(client) \/ Open(client) \/ Lose(client) \/ Connect(client) \/ SetRole(client)
          PROVE  <2>1
      BY <3>2 DEF Edit, Open, Lose, Connect, SetRole, serverVars, boundVars
    <3>3. ASSUME NEW client \in Clients, Pages(client)
          PROVE  <2>1
      BY <3>3 DEF Pages, WelcomeArrives, StepOneArrives, StepTwoArrives, UpdateArrives, RoleArrives,
                  ResynchroniseArrives, serverVars, boundVars
    <3>4. ASSUME NEW client \in Clients, NEW s \in Slots, Rooms(client, s) \/ Forget(client, s)
          PROVE  <2>1
      BY <3>4 DEF Rooms, AnswerStepOne, RefuseUpdate, ApplyGuarded, Forget, serverVars, boundVars
    <3>5. QED
      BY <1>3, <3>1, <3>2, <3>3, <3>4 DEF Next
  <2>2. IdsOf(room) \subseteq IdsOf(room')
    BY <2>1 DEF IdsOf
  <2>3. WasInRoom' = IdsOf(room') \cup lost'
    BY DEF WasInRoom, IdsOf
  <2>4. QED
    BY <2>1, <2>2, <2>3, <1>1 DEF WasInRoom
<1>4. QED
  BY <1>2, <1>3

LEMMA OriginIsKept ==
  ASSUME NEW all, SyncInv(all), [Next]_vars, NEW client \in Clients, Origin(client)
  PROVE  Origin(client)'
<1>1. Brought(client) /\ WasInRoom \subseteq WasInRoom' /\ (roleChanges' = 0 => roleChanges = 0)
  BY EveryoneIsBrought, RoomIsRemembered
<1>2. roleChanges = 0 => known[client] = role[client]
  BY DEF SyncInv, PageInv, Owns
<1>3. \A update \in room' : update.id \in WasInRoom'
  BY DEF WasInRoom, IdsOf
<1>4. \A update \in UpdatesIn(toClient[client]) : update.id \in WasInRoom
  BY DEF Origin, IdsOf
<1>5. \A update \in UpdatesIn(toClient'[client]) : update.id \in WasInRoom'
  BY <1>1, <1>3, <1>4 DEF Brought
<1>6. ASSUME NEW update \in replica'[client]
      PROVE  \/ update.id \in WasInRoom'
             \/ /\ ReplicaOf(update.id) = replicaId'[client]
                /\ roleChanges' = 0 => role'[client] = "editor"
  <2>1. CASE update \in replica[client] /\ replicaId'[client] = replicaId[client]
    BY <2>1, <1>1 DEF Origin, Brought
  <2>2. CASE update \in UpdatesIn(toClient[client])
    BY <2>2, <1>1, <1>4
  <2>3. CASE ReplicaOf(update.id) = replicaId'[client] /\ known[client] = "editor"
    BY <2>3, <1>1, <1>2 DEF Brought
  <2>4. QED
    BY <1>1, <1>6, <2>1, <2>2, <2>3 DEF Brought
<1>7. IdsOf(UpdatesIn(toClient'[client])) \subseteq WasInRoom'
  BY <1>5 DEF IdsOf
<1>8. UpdatesIn(toClient'[client]) = UpdatesIn(toClient[client])'
  BY DEF UpdatesIn, CarriesUpdates
<1>9. QED
  BY <1>6, <1>7, <1>8 DEF Origin, IdsOf

\* A page is told to drop its replica only while its person reads, over an update of its own
\* that the room lacks, from before a change of role, or over one that a crash took.
THEOREM DropsFollowAChange == Spec => DropsAreDue
<1> DEFINE Origins == \A client \in Clients : Origin(client)
<1>1. Init => Origins
  <2>1. SUFFICES ASSUME Init, NEW client \in Clients
                PROVE  Origin(client)
    OBVIOUS
  <2>2. room = {FirstUpdate} /\ replica[client] = {FirstUpdate} /\ toClient[client] = <<>>
    BY <2>1 DEF Init
  <2>3. UpdatesIn(toClient[client]) = {}
    BY <2>2, NoUpdates
  <2>4. QED
    BY <2>2, <2>3 DEF Origin, WasInRoom, IdsOf
<1>2. Sound /\ Origins /\ [Next]_vars => Origins'
  BY OriginIsKept DEF Sound
<1>3. Sound /\ Origins /\ [Next]_vars =>
        [\A client \in Clients :
           ToldToDrop(client)' /\ ~ ToldToDrop(client) =>
             /\ ~ MayEdit(client)
             /\ \E update \in replica[client] \ room :
                  \/ update.id \in lost
                  \/ roleChanges > 0 /\ update \in Own(replica[client], replicaId[client])]_vars
  <2>1. SUFFICES ASSUME Sound, Origins, [Next]_vars, NEW client \in Clients,
                        ToldToDrop(client)', ~ ToldToDrop(client)
                 PROVE  /\ ~ MayEdit(client)
                        /\ \E update \in replica[client] \ room :
                             \/ update.id \in lost
                             \/ roleChanges > 0 /\ update \in Own(replica[client], replicaId[client])
    OBVIOUS
  <2>2. PICK all : SyncInv(all)
    BY <2>1 DEF Sound
  <2>3. Astray(client)
    BY <2>1, <2>2, EveryoneIsBrought DEF Brought
  <2>4. PICK update \in replica[client] : update \notin room
    BY <2>3 DEF Astray
  <2>5. update.id \notin IdsOf(room)
    <3>1. Consistent(all) /\ room \in SUBSET all /\ update \in all
      BY <2>2, <2>4 DEF SyncInv, Stored, Typed
    <3>2. QED
      BY <3>1, <2>4, IdsAreTyped
  <2>6. CASE update.id \in lost
    BY <2>3, <2>4, <2>6 DEF Astray
  <2>7. CASE update.id \notin lost
    <3>1. update.id \notin WasInRoom
      BY <2>5, <2>7 DEF WasInRoom
    <3>2. ReplicaOf(update.id) = replicaId[client] /\ (roleChanges = 0 => role[client] = "editor")
      BY <3>1, <2>1, <2>4 DEF Origin
    <3>3. roleChanges \in Nat /\ roleChanges # 0
      BY <3>2, <2>2, <2>3 DEF SyncInv, Typed, Astray, MayEdit
    <3>4. update \in Own(replica[client], replicaId[client])
      BY <3>2, <2>4 DEF Own
    <3>5. QED
      BY <3>3, <3>4, <2>3, <2>4 DEF Astray
  <2>8. QED
    BY <2>6, <2>7
<1>4. QED
  BY <1>1, <1>2, <1>3, SyncIsSound, PTL DEF Spec, DropsAreDue

=============================================================================
